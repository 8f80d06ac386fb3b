---------------------------- MODULE AccessProofs ----------------------------
(***************************************************************************)
(* Proofs about unaligned access to block devices and partitions, for      *)
(* every block size, alignment, size of the device, offset, length and     *)
(* address of the buffer, and whichever call of the device fails.          *)
(***************************************************************************)
EXTENDS Algorithms, SequenceTheorems, FiniteSetTheorems, TLAPS

Results == {"ok", "BlockIoError", "BadIndex", "BufferTooSmall", "OutOfRange", "NotFound", "NotUnique", "panic"}

(* An access to a device whose bytes are values of V.                       *)
Accesses(V) ==
    [bs : Nat \ {0}, nb : Nat, al : Nat \ {0}, st : Seq(V), at : Nat, buf : Seq(V),
     left : Nat, calls : [read : Nat, write : Nat], res : Results]

(* A device holds whole blocks.                                             *)
Device(m) == Len(m.st) = m.bs * m.nb

Same(x, m) == x.bs = m.bs /\ x.nb = m.nb /\ x.al = m.al /\ x.at = m.at

(* The only way an access inside the device may end early.                  *)
EndedWell(x) == Ok(x) \/ (x.res = "BlockIoError" /\ x.left = 0)

(* x is what m becomes when n bytes from off on are read into the buffer    *)
(* from lo on, in at most k calls; of the rest of the buffer only the flen  *)
(* bytes from flo on may change.                                            *)
Reads(V, x, m, off, lo, n, flo, flen, k) ==
    /\ x \in Accesses(V) /\ Same(x, m) /\ x.st = m.st /\ Len(x.buf) = Len(m.buf) /\ EndedWell(x)
    /\ x.calls.read =< m.calls.read + k /\ x.calls.write = m.calls.write
    /\ \A i \in 1..Len(m.buf) : i =< flo \/ i > flo + flen => x.buf[i] = m.buf[i]
    /\ Ok(x) => \A i \in 1..n : x.buf[lo + i] = m.st[off + i]

(* x is what m becomes when n bytes of the buffer from lo on are written    *)
(* from off on, in at most k reads and k writes.                            *)
Writes(V, x, m, off, lo, n, k) ==
    /\ x \in Accesses(V) /\ Same(x, m) /\ x.buf = m.buf /\ Len(x.st) = Len(m.st) /\ EndedWell(x)
    /\ x.calls.read =< m.calls.read + k /\ x.calls.write =< m.calls.write + k
    /\ \A i \in 1..Len(m.st) : i =< off \/ i > off + n => x.st[i] = m.st[i]
    /\ \A i \in 1..n : \/ x.st[off + i] = m.buf[lo + i]
                       \/ ~Ok(x) /\ x.st[off + i] = m.st[off + i]

-----------------------------------------------------------------------------
(* Rounding.                                                                *)
LEMMA Division ==
    ASSUME NEW v \in Nat, NEW k \in Nat \ {0}
    PROVE  /\ v % k \in Nat /\ v % k < k /\ v \div k \in Nat
           /\ v = k * (v \div k) + (v % k)
<1>1. v % k \in Nat /\ v % k < k
  OBVIOUS
<1>2. v \div k \in Nat
  OBVIOUS
<1>3. v = k * (v \div k) + (v % k)
  OBVIOUS
<1> QED BY <1>1, <1>2, <1>3

LEMMA Quotient ==
    ASSUME NEW k \in Nat \ {0}, NEW q \in Nat, NEW r \in Nat, r < k
    PROVE  (k * q + r) % k = r /\ (k * q + r) \div k = q
  OBVIOUS

LEMMA Multiple ==
    ASSUME NEW v \in Nat, NEW k \in Nat \ {0}
    PROVE  is_aligned(v, k) <=> \E q \in Nat : v = k * q
<1>1. ASSUME is_aligned(v, k) PROVE v = k * (v \div k) /\ v \div k \in Nat
  BY <1>1, Division DEF is_aligned
<1>2. ASSUME NEW q \in Nat, v = k * q PROVE is_aligned(v, k)
  <2>1. (k * q + 0) % k = 0
    BY Quotient
  <2>2. k * q + 0 = v
    BY <1>2
  <2> QED BY <2>1, <2>2 DEF is_aligned
<1> QED BY <1>1, <1>2

LEMMA AlignedSum ==
    ASSUME NEW a \in Nat, NEW b \in Nat, NEW k \in Nat \ {0}, is_aligned(a, k)
    PROVE  is_aligned(a + b, k) <=> is_aligned(b, k)
<1>1. PICK p \in Nat : a = k * p
  BY Multiple
<1>2. ASSUME NEW q \in Nat, b = k * q PROVE a + b = k * (p + q) /\ p + q \in Nat
  BY <1>1, <1>2
<1>3. ASSUME NEW q \in Nat, a + b = k * q PROVE b = k * (q - p) /\ q - p \in Nat
  <2>1. k * q = k * p + b
    BY <1>1, <1>3
  <2>2. q >= p
    <3> SUFFICES ASSUME q < p PROVE FALSE
      OBVIOUS
    <3>1. PICK d \in Nat \ {0} : p = q + d
      <4> WITNESS p - q \in Nat \ {0}
      <4> QED OBVIOUS
    <3>2. k * p = k * q + k * d /\ k * d > 0
      BY <3>1
    <3> QED BY <2>1, <3>2
  <2>3. k * (q - p) = k * q - k * p
    OBVIOUS
  <2> QED BY <2>1, <2>2, <2>3
<1>4. (\E q \in Nat : b = k * q) <=> (\E q \in Nat : a + b = k * q)
  BY <1>2, <1>3
<1>5. is_aligned(b, k) <=> \E q \in Nat : b = k * q
  BY Multiple
<1>6. a + b \in Nat
  OBVIOUS
<1>7. is_aligned(a + b, k) <=> \E q \in Nat : a + b = k * q
  BY <1>6, Multiple
<1> QED BY <1>4, <1>5, <1>7

LEMMA Down ==
    ASSUME NEW v \in Nat, NEW k \in Nat \ {0}
    PROVE  /\ RoundDown(v, k) \in Nat /\ RoundDown(v, k) =< v /\ v < RoundDown(v, k) + k
           /\ is_aligned(RoundDown(v, k), k) /\ v - RoundDown(v, k) = v % k
           /\ is_aligned(v, k) => RoundDown(v, k) = v
           /\ ~is_aligned(v, k) => RoundDown(v, k) < v
<1>1. v % k \in Nat /\ v % k < k /\ v \div k \in Nat /\ v = k * (v \div k) + (v % k)
  BY Division
<1>2. k * (v \div k) \in Nat
  BY <1>1
<1>3. RoundDown(v, k) = k * (v \div k)
  BY <1>1, <1>2 DEF RoundDown
<1>4. is_aligned(RoundDown(v, k), k)
  BY <1>1, <1>2, <1>3, Multiple
<1> QED BY <1>1, <1>2, <1>3, <1>4 DEF is_aligned

LEMMA Up ==
    ASSUME NEW v \in Nat, NEW k \in Nat \ {0}
    PROVE  /\ RoundUp(v, k) \in Nat /\ v =< RoundUp(v, k) /\ RoundUp(v, k) < v + k
           /\ is_aligned(RoundUp(v, k), k)
           /\ is_aligned(v, k) => RoundUp(v, k) = v
           /\ ~is_aligned(v, k) => RoundUp(v, k) = RoundDown(v, k) + k
<1> DEFINE u == RoundDown(v + k - 1, k)
           d == RoundDown(v, k)
<1>1. RoundUp(v, k) = u
  BY DEF RoundUp
<1>2. v + k - 1 \in Nat
  OBVIOUS
<1>3. u \in Nat /\ u =< v + k - 1 /\ v + k - 1 < u + k /\ is_aligned(u, k)
  BY <1>2, Down
<1>4. d \in Nat /\ d =< v /\ v < d + k /\ is_aligned(d, k) /\ (is_aligned(v, k) => d = v) /\ (~is_aligned(v, k) => d < v)
  BY Down
<1> HIDE DEF u, d
<1>5. \A a, b \in Nat : is_aligned(a, k) /\ is_aligned(b, k) /\ a < b => a + k =< b
  <2> SUFFICES ASSUME NEW a \in Nat, NEW b \in Nat, is_aligned(a, k), is_aligned(b, k), a < b PROVE a + k =< b
    OBVIOUS
  <2>1. PICK c \in Nat \ {0} : b = a + c
    <3> WITNESS b - a \in Nat \ {0}
    <3> QED OBVIOUS
  <2>2. is_aligned(c, k)
    BY <2>1, AlignedSum
  <2>3. PICK q \in Nat : c = k * q
    BY <2>2, Multiple
  <2>4. q >= 1
    BY <2>3
  <2>5. k * q >= k
    BY <2>4
  <2> QED BY <2>1, <2>3, <2>5
<1>6. is_aligned(v, k) => u = v
  BY <1>3, <1>5
<1>7. ASSUME ~is_aligned(v, k) PROVE u = d + k
  <2>1. d < u
    BY <1>3, <1>4, <1>7
  <2>2. d + k =< u
    BY <2>1, <1>3, <1>4, <1>5
  <2>3. is_aligned(k, k)
    BY Multiple
  <2>4. is_aligned(d + k, k)
    BY <1>4, <2>3, AlignedSum
  <2>5. ~(d + k < u)
    BY <2>4, <1>3, <1>4, <1>5, <1>7
  <2> QED BY <2>2, <2>5, <1>3, <1>4
<1> QED BY <1>1, <1>3, <1>6, <1>7 DEF d

LEMMA Zero ==
    ASSUME NEW k \in Nat \ {0}
    PROVE  is_aligned(0, k) /\ is_aligned(k, k)
  BY Multiple

(* Whole blocks inside a device of nb blocks.                               *)
LEMMA BlocksFit ==
    ASSUME NEW bs \in Nat \ {0}, NEW nb \in Nat, NEW off \in Nat, NEW n \in Nat,
           is_aligned(off, bs), is_aligned(n, bs), off + n =< bs * nb
    PROVE  off \div bs + n \div bs =< nb
<1>1. PICK p \in Nat : off = bs * p
  BY Multiple
<1>2. PICK q \in Nat : n = bs * q
  BY Multiple
<1>3. off \div bs = p
  <2>1. (bs * p + 0) \div bs = p
    BY Quotient
  <2> QED BY <2>1, <1>1
<1>4. n \div bs = q
  <2>1. (bs * q + 0) \div bs = q
    BY Quotient
  <2> QED BY <2>1, <1>2
<1>5. bs * (p + q) =< bs * nb
  BY <1>1, <1>2
<1>6. p + q =< nb
  <2> SUFFICES ASSUME p + q > nb PROVE FALSE
    OBVIOUS
  <2>1. PICK d \in Nat \ {0} : p + q = nb + d
    <3> WITNESS (p + q) - nb \in Nat \ {0}
    <3> QED OBVIOUS
  <2>2. bs * (p + q) = bs * nb + bs * d /\ bs * d > 0
    BY <2>1
  <2> QED BY <1>5, <2>2
<1> QED BY <1>3, <1>4, <1>6

(* The block around an offset that is inside the device.                    *)
LEMMA BlockFits ==
    ASSUME NEW bs \in Nat \ {0}, NEW nb \in Nat, NEW off \in Nat,
           is_aligned(off, bs), off < bs * nb
    PROVE  off + bs =< bs * nb
<1>1. PICK p \in Nat : off = bs * p
  BY Multiple
<1>2. p < nb
  <2> SUFFICES ASSUME p >= nb PROVE FALSE
    OBVIOUS
  <2>1. PICK d \in Nat : p = nb + d
    <3> WITNESS p - nb \in Nat
    <3> QED OBVIOUS
  <2>2. bs * p = bs * nb + bs * d /\ bs * d >= 0
    BY <2>1
  <2> QED BY <1>1, <2>2
<1>3. PICK e \in Nat : nb = p + 1 + e
  <2>1. nb - (p + 1) \in Nat /\ nb = p + 1 + (nb - (p + 1))
    BY <1>2
  <2> QED BY <2>1
<1>4. bs * nb = bs * p + bs + bs * e /\ bs * e >= 0
  BY <1>3
<1> QED BY <1>1, <1>4

LEMMA Smaller ==
    ASSUME NEW a \in Nat, NEW b \in Nat
    PROVE  Min({a, b}) = IF a =< b THEN a ELSE b
<1>1. \E x \in {a, b} : \A y \in {a, b} : x =< y
  OBVIOUS
<1> QED BY <1>1 DEF Min

-----------------------------------------------------------------------------
(* Bytes and records.                                                       *)
LEMMA BytesOf ==
    ASSUME NEW V, NEW s \in Seq(V), NEW off \in Nat, NEW n \in Nat, off + n =< Len(s)
    PROVE  /\ Bytes(s, off, n) \in Seq(V) /\ Len(Bytes(s, off, n)) = n
           /\ \A i \in 1..n : Bytes(s, off, n)[i] = s[off + i]
<1>1. \A i \in (off + 1)..(off + n) : s[i] \in V
  BY ElementOfSeq
<1> QED BY <1>1 DEF Bytes

Copies(V, b, s, off, n) == b \in Seq(V) /\ Len(b) = n /\ \A i \in 1..n : b[i] = s[off + i]

LEMMA BytesCopied ==
    ASSUME NEW V, NEW s \in Seq(V), NEW off \in Nat, NEW n \in Nat, off + n =< Len(s)
    PROVE  Copies(V, Bytes(s, off, n), s, off, n)
  BY BytesOf, Zenon DEF Copies

LEMMA Spliced ==
    ASSUME NEW V, NEW s \in Seq(V), NEW t \in Seq(V), NEW off \in Nat, off + Len(t) =< Len(s)
    PROVE  /\ Splice(s, off, t) \in Seq(V) /\ Len(Splice(s, off, t)) = Len(s)
           /\ \A i \in 1..Len(t) : Splice(s, off, t)[off + i] = t[i]
           /\ \A i \in 1..Len(s) : i =< off \/ i > off + Len(t) => Splice(s, off, t)[i] = s[i]
<1> DEFINE r == Splice(s, off, t)
<1>0. Len(s) \in Nat /\ Len(t) \in Nat
  OBVIOUS
<1>1. r = [i \in 1..Len(s) |-> IF off < i /\ i =< off + Len(t) THEN t[i - off] ELSE s[i]]
  BY DEF Splice
<1>2. \A i \in 1..Len(s) : r[i] \in V
  <2> SUFFICES ASSUME NEW i \in 1..Len(s) PROVE r[i] \in V
    OBVIOUS
  <2>1. CASE off < i /\ i =< off + Len(t)
    <3>1. i - off \in 1..Len(t)
      BY <2>1, <1>0
    <3> QED BY <1>1, <2>1, <3>1, ElementOfSeq
  <2>2. CASE ~(off < i /\ i =< off + Len(t))
    BY <1>1, <2>2, ElementOfSeq
  <2> QED BY <2>1, <2>2
<1>3. r \in [1..Len(s) -> V]
  BY <1>1, <1>2
<1>4. r \in Seq(V) /\ Len(r) = Len(s)
  BY <1>0, <1>3
<1>5. ASSUME NEW i \in 1..Len(t) PROVE r[off + i] = t[i]
  <2>1. off + i \in 1..Len(s) /\ off < off + i /\ off + i =< off + Len(t) /\ (off + i) - off = i
    BY <1>0
  <2> QED BY <1>1, <2>1
<1>6. ASSUME NEW i \in 1..Len(s), i =< off \/ i > off + Len(t) PROVE r[i] = s[i]
  BY <1>0, <1>1, <1>6
<1> QED BY <1>4, <1>5, <1>6

LEMMA Fields ==
    ASSUME NEW V, NEW m \in Accesses(V)
    PROVE  /\ m.bs \in Nat \ {0} /\ m.nb \in Nat /\ m.al \in Nat \ {0} /\ m.at \in Nat
           /\ m.st \in Seq(V) /\ m.buf \in Seq(V) /\ Len(m.st) \in Nat /\ Len(m.buf) \in Nat
           /\ m.left \in Nat /\ m.calls.read \in Nat /\ m.calls.write \in Nat /\ m.res \in Results
  BY DEF Accesses

(* The updates an access makes.                                             *)
LEMMA SetBuf ==
    ASSUME NEW V, NEW m \in Accesses(V), NEW s \in Seq(V)
    PROVE  LET x == [m EXCEPT !.buf = s]
           IN  /\ x \in Accesses(V) /\ Same(x, m) /\ x.st = m.st /\ x.buf = s /\ x.left = m.left
               /\ x.calls = m.calls /\ x.res = m.res
  BY DEF Accesses, Same

LEMMA SetSt ==
    ASSUME NEW V, NEW m \in Accesses(V), NEW s \in Seq(V)
    PROVE  LET x == [m EXCEPT !.st = s]
           IN  /\ x \in Accesses(V) /\ Same(x, m) /\ x.buf = m.buf /\ x.st = s /\ x.left = m.left
               /\ x.calls = m.calls /\ x.res = m.res
  BY DEF Accesses, Same

LEMMA Failed ==
    ASSUME NEW V, NEW m \in Accesses(V), NEW e \in Results, Ok(m)
    PROVE  /\ Fail(m, e) \in Accesses(V) /\ Fail(m, e).res = e /\ Fail(m, e).left = m.left
           /\ Same(Fail(m, e), m) /\ Fail(m, e).st = m.st /\ Fail(m, e).buf = m.buf /\ Fail(m, e).calls = m.calls
  BY DEF Accesses, Same, Fail, Ok

-----------------------------------------------------------------------------
(* The device.                                                              *)
LEMMA InRange ==
    ASSUME NEW V, NEW m \in Accesses(V), Ok(m), NEW off \in Nat, NEW addr \in Nat, NEW n \in Nat,
           is_aligned(off, m.bs), is_aligned(n, m.bs), is_aligned(addr, m.al), off + n =< m.bs * m.nb
    PROVE  check_range(m, off, addr, n) = m
<1>1. m.bs \in Nat \ {0} /\ m.nb \in Nat
  BY Fields
<1>2. off \div m.bs + n \div m.bs =< m.nb
  BY <1>1, BlocksFit
<1> QED BY <1>2 DEF check_range, debug_assert, Then, Ok

(* A call of the device changes nothing but the count of its calls, or ends *)
(* the access.                                                              *)
Called(V, x, m, kind) ==
    /\ x \in Accesses(V) /\ Same(x, m) /\ x.st = m.st /\ x.buf = m.buf /\ EndedWell(x)
    /\ \A c \in {"read", "write"} : x.calls[c] =< m.calls[c] + (IF c = kind THEN 1 ELSE 0)
    /\ \A c \in {"read", "write"} : c # kind => x.calls[c] = m.calls[c]

LEMMA DeviceCall ==
    ASSUME NEW V, NEW m \in Accesses(V), Ok(m), NEW kind \in {"read", "write"}
    PROVE  Called(V, device_call(m, kind), m, kind)
<1> DEFINE x == device_call(m, kind)
<1>1. m.left \in Nat /\ m.calls \in [read : Nat, write : Nat] /\ m.calls.read \in Nat /\ m.calls.write \in Nat
  BY DEF Accesses
<1>2. CASE m.left = 0
  <2>1. x = Fail(m, "BlockIoError")
    BY <1>2 DEF device_call, Then
  <2>2. /\ x \in Accesses(V) /\ x.res = "BlockIoError" /\ x.left = m.left
        /\ Same(x, m) /\ x.st = m.st /\ x.buf = m.buf /\ x.calls = m.calls
    <3>1. "BlockIoError" \in Results
      BY DEF Results
    <3> HIDE DEF x
    <3> QED BY <2>1, <3>1, Failed
  <2> QED BY <1>1, <1>2, <2>2 DEF Called, EndedWell
<1>3. CASE m.left # 0
  <2>1. x = [m EXCEPT !.left = @ - 1, !.calls[kind] = @ + 1]
    BY <1>3 DEF device_call, Then
  <2>2. x.left = m.left - 1 /\ x.calls = [m.calls EXCEPT ![kind] = @ + 1]
    BY <2>1 DEF Accesses
  <2>3. x.calls \in [read : Nat, write : Nat]
    BY <1>1, <2>2
  <2>4. x \in Accesses(V) /\ Same(x, m) /\ x.st = m.st /\ x.buf = m.buf /\ x.res = m.res
    <3> DEFINE c == [m.calls EXCEPT ![kind] = @ + 1]
    <3>1. x = [m EXCEPT !.left = m.left - 1, !.calls = c]
      BY <2>1 DEF Accesses
    <3>2. c \in [read : Nat, write : Nat] /\ m.left - 1 \in Nat
      BY <1>1, <1>3, <2>2, <2>3
    <3> HIDE DEF x, c
    <3> QED BY <3>1, <3>2 DEF Accesses, Same
  <2>5. \A c \in {"read", "write"} : x.calls[c] = m.calls[c] + (IF c = kind THEN 1 ELSE 0)
    BY <1>1, <2>2
  <2> QED BY <1>1, <2>4, <2>5 DEF Called, EndedWell, Ok
<1> QED BY <1>2, <1>3

-----------------------------------------------------------------------------
(* Reads put together from parts.                                           *)
LEMMA ReadsTypes ==
    ASSUME NEW V, NEW m \in Accesses(V), NEW x, NEW off, NEW lo, NEW n, NEW flo, NEW flen, NEW k,
           Reads(V, x, m, off, lo, n, flo, flen, k), Device(m)
    PROVE  /\ x \in Accesses(V) /\ Same(x, m) /\ x.st = m.st /\ Len(x.buf) = Len(m.buf) /\ Device(x)
           /\ EndedWell(x)
  BY DEF Reads, Same, Device

LEMMA ReadNone ==
    ASSUME NEW V, NEW m \in Accesses(V), NEW off \in Nat, NEW lo \in Nat, NEW k \in Nat, Ok(m)
    PROVE  Reads(V, m, m, off, lo, 0, lo, 0, k)
<1>1. m.calls.read \in Nat /\ m.calls.write \in Nat /\ Len(m.buf) \in Nat
  BY Fields
<1>2. m.calls.read =< m.calls.read + k
  BY <1>1
<1>3. \A i \in 1..0 : m.buf[lo + i] = m.st[off + i]
  OBVIOUS
<1> QED BY <1>1, <1>2, <1>3 DEF Reads, Same, EndedWell

(* An access that ended early is an attempt of any larger one.              *)
LEMMA ReadCut ==
    ASSUME NEW V, NEW m \in Accesses(V), NEW x, NEW off, NEW lo, NEW n, NEW flo \in Nat, NEW flen \in Nat,
           NEW k \in Nat, Reads(V, x, m, off, lo, n, flo, flen, k), ~Ok(x),
           NEW off2, NEW lo2, NEW n2, NEW flo2 \in Nat, NEW flen2 \in Nat, NEW k2 \in Nat,
           flo2 =< flo, flo + flen =< flo2 + flen2, k =< k2
    PROVE  Reads(V, x, m, off2, lo2, n2, flo2, flen2, k2)
<1>1. m.calls.read \in Nat /\ x.calls.read \in Nat /\ Len(m.buf) \in Nat
  BY Fields DEF Reads
<1>2. x.calls.read =< m.calls.read + k2
  BY <1>1 DEF Reads
<1>3. \A i \in 1..Len(m.buf) : i =< flo2 \/ i > flo2 + flen2 => i =< flo \/ i > flo + flen
  BY <1>1
<1> QED BY <1>2, <1>3 DEF Reads

LEMMA ReadGrow ==
    ASSUME NEW V, NEW m \in Accesses(V), NEW x, NEW off, NEW lo, NEW n, NEW flo \in Nat, NEW flen \in Nat,
           NEW k \in Nat, Reads(V, x, m, off, lo, n, flo, flen, k),
           NEW flo2 \in Nat, NEW flen2 \in Nat, NEW k2 \in Nat,
           flo2 =< flo, flo + flen =< flo2 + flen2, k =< k2
    PROVE  Reads(V, x, m, off, lo, n, flo2, flen2, k2)
<1>1. m.calls.read \in Nat /\ x.calls.read \in Nat /\ Len(m.buf) \in Nat
  BY Fields DEF Reads
<1>2. x.calls.read =< m.calls.read + k2
  BY <1>1 DEF Reads
<1>3. \A i \in 1..Len(m.buf) : i =< flo2 \/ i > flo2 + flen2 => i =< flo \/ i > flo + flen
  BY <1>1
<1> QED BY <1>2, <1>3 DEF Reads

LEMMA CallsAdded ==
    ASSUME NEW a \in Nat, NEW b \in Nat, NEW c \in Nat, NEW k1 \in Nat, NEW k2 \in Nat,
           \/ c =< b + k2 /\ b =< a + k1
           \/ c =< b + k1 /\ b =< a + k2
    PROVE  c =< a + (k1 + k2)
  OBVIOUS

(* First the front, then the rest.                                          *)
LEMMA ReadForward ==
    ASSUME NEW V, NEW m \in Accesses(V), NEW x, NEW y, NEW off \in Nat, NEW lo \in Nat,
           NEW n1 \in Nat, NEW n2 \in Nat, NEW k1 \in Nat, NEW k2 \in Nat, lo + n1 + n2 =< Len(m.buf),
           Reads(V, x, m, off, lo, n1, lo, n1, k1), Ok(x),
           Reads(V, y, x, off + n1, lo + n1, n2, lo + n1, n2, k2)
    PROVE  Reads(V, y, m, off, lo, n1 + n2, lo, n1 + n2, k1 + k2)
<1>1. /\ m.calls.read \in Nat /\ x.calls.read \in Nat /\ y.calls.read \in Nat /\ Len(m.buf) \in Nat
      /\ Len(x.buf) = Len(m.buf) /\ x.st = m.st
  BY Fields DEF Reads
<1>2. y \in Accesses(V) /\ Same(y, m) /\ y.st = m.st /\ Len(y.buf) = Len(m.buf) /\ EndedWell(y)
  BY DEF Reads, Same
<1>3. y.calls.read =< m.calls.read + (k1 + k2) /\ y.calls.write = m.calls.write
  <2>1. y.calls.read =< x.calls.read + k2 /\ x.calls.read =< m.calls.read + k1
    BY DEF Reads
  <2>2. y.calls.read =< m.calls.read + (k1 + k2)
    BY <1>1, <2>1, CallsAdded
  <2> QED BY <2>2 DEF Reads
<1>4. ASSUME NEW i \in 1..Len(m.buf), i =< lo \/ i > lo + (n1 + n2) PROVE y.buf[i] = m.buf[i]
  <2>1. (i =< lo \/ i > lo + n1) /\ (i =< lo + n1 \/ i > lo + n1 + n2)
    BY <1>1, <1>4
  <2>2. x.buf[i] = m.buf[i]
    BY <2>1 DEF Reads
  <2>3. y.buf[i] = x.buf[i]
    BY <1>1, <2>1 DEF Reads
  <2> QED BY <2>2, <2>3
<1>5. ASSUME Ok(y), NEW i \in 1..(n1 + n2) PROVE y.buf[lo + i] = m.st[off + i]
  <2>1. CASE i =< n1
    <3>1. lo + i \in 1..Len(x.buf) /\ lo + i =< lo + n1 /\ i \in 1..n1
      BY <1>1, <2>1
    <3>2. y.buf[lo + i] = x.buf[lo + i]
      BY <3>1 DEF Reads
    <3>3. x.buf[lo + i] = m.st[off + i]
      BY <3>1 DEF Reads
    <3> QED BY <3>2, <3>3
  <2>2. CASE i > n1
    <3>1. i - n1 \in 1..n2 /\ (lo + n1) + (i - n1) = lo + i /\ (off + n1) + (i - n1) = off + i
      BY <2>2
    <3>2. y.buf[(lo + n1) + (i - n1)] = x.st[(off + n1) + (i - n1)]
      BY <1>5, <3>1 DEF Reads
    <3> QED BY <1>1, <3>1, <3>2
  <2> QED BY <2>1, <2>2
<1> QED BY <1>2, <1>3, <1>4, <1>5 DEF Reads

(* First the rest, which may use the place of the front, then the front.    *)
LEMMA ReadBackward ==
    ASSUME NEW V, NEW m \in Accesses(V), NEW x, NEW y, NEW off \in Nat, NEW lo \in Nat,
           NEW n1 \in Nat, NEW n2 \in Nat, NEW k1 \in Nat, NEW k2 \in Nat, lo + n1 + n2 =< Len(m.buf),
           Reads(V, x, m, off + n1, lo + n1, n2, lo, n1 + n2, k2), Ok(x),
           Reads(V, y, x, off, lo, n1, lo, n1, k1)
    PROVE  Reads(V, y, m, off, lo, n1 + n2, lo, n1 + n2, k1 + k2)
<1>1. /\ m.calls.read \in Nat /\ x.calls.read \in Nat /\ y.calls.read \in Nat /\ Len(m.buf) \in Nat
      /\ Len(x.buf) = Len(m.buf) /\ x.st = m.st
  BY Fields DEF Reads
<1>2. y \in Accesses(V) /\ Same(y, m) /\ y.st = m.st /\ Len(y.buf) = Len(m.buf) /\ EndedWell(y)
  BY DEF Reads, Same
<1>3. y.calls.read =< m.calls.read + (k1 + k2) /\ y.calls.write = m.calls.write
  <2>1. y.calls.read =< x.calls.read + k1 /\ x.calls.read =< m.calls.read + k2
    BY DEF Reads
  <2>2. y.calls.read =< m.calls.read + (k1 + k2)
    BY <1>1, <2>1, CallsAdded
  <2> QED BY <2>2 DEF Reads
<1>4. ASSUME NEW i \in 1..Len(m.buf), i =< lo \/ i > lo + (n1 + n2) PROVE y.buf[i] = m.buf[i]
  <2>1. i =< lo \/ i > lo + n1
    BY <1>1, <1>4
  <2>2. x.buf[i] = m.buf[i]
    BY <1>4 DEF Reads
  <2>3. y.buf[i] = x.buf[i]
    BY <1>1, <2>1 DEF Reads
  <2> QED BY <2>2, <2>3
<1>5. ASSUME Ok(y), NEW i \in 1..(n1 + n2) PROVE y.buf[lo + i] = m.st[off + i]
  <2>1. CASE i > n1
    <3>0. i - n1 \in 1..n2 /\ (lo + n1) + (i - n1) = lo + i /\ (off + n1) + (i - n1) = off + i
      BY <2>1
    <3>1. lo + i \in 1..Len(x.buf) /\ lo + i > lo + n1
      BY <1>1, <2>1
    <3>2. y.buf[lo + i] = x.buf[lo + i]
      BY <3>1 DEF Reads
    <3>3. x.buf[(lo + n1) + (i - n1)] = m.st[(off + n1) + (i - n1)]
      BY <3>0 DEF Reads
    <3> QED BY <3>0, <3>2, <3>3
  <2>2. CASE i =< n1
    <3>1. i \in 1..n1
      BY <2>2
    <3> QED BY <1>1, <1>5, <3>1 DEF Reads
  <2> QED BY <2>1, <2>2
<1> QED BY <1>2, <1>3, <1>4, <1>5 DEF Reads

(* What is left of a range behind its first rel bytes.                      *)
Remains(off, lo, n, rel, ls, lb) ==
    /\ off + rel \in Nat /\ lo + rel \in Nat /\ n - rel \in Nat /\ rel + (n - rel) = n
    /\ (off + rel) + (n - rel) =< ls /\ (lo + rel) + (n - rel) =< lb
    /\ lo + (n - rel) =< lb /\ lo + rel =< lb /\ off =< ls

LEMMA Rest ==
    ASSUME NEW off \in Nat, NEW lo \in Nat, NEW n \in Nat, NEW rel \in Nat, NEW ls \in Nat, NEW lb \in Nat,
           rel =< n, off + n =< ls, lo + n =< lb
    PROVE  Remains(off, lo, n, rel, ls, lb)
  BY DEF Remains

-----------------------------------------------------------------------------
(* One call of the device that fills part of the buffer.                    *)
LEMMA ReadCall ==
    ASSUME NEW V, NEW m \in Accesses(V), Ok(m), NEW off \in Nat, NEW lo \in Nat, NEW n \in Nat,
           lo + n =< Len(m.buf), off + n =< Len(m.st)
    PROVE  LET d == device_call(m, "read")
           IN  Reads(V, IF Ok(d) THEN [d EXCEPT !.buf = Splice(d.buf, lo, Bytes(d.st, off, n))] ELSE d,
                     m, off, lo, n, lo, n, 1)
<1> DEFINE d == device_call(m, "read")
           b == Bytes(d.st, off, n)
           s == Splice(d.buf, lo, b)
           x == IF Ok(d) THEN [d EXCEPT !.buf = s] ELSE d
<1>1. Called(V, d, m, "read")
  BY DeviceCall
<1> HIDE DEF d
<1>2. /\ d \in Accesses(V) /\ Same(d, m) /\ d.st = m.st /\ d.buf = m.buf /\ EndedWell(d)
      /\ d.calls["read"] =< m.calls["read"] + 1 /\ d.calls["write"] = m.calls["write"]
  BY <1>1 DEF Called
<1>3. Len(m.buf) \in Nat /\ m.buf \in Seq(V) /\ m.st \in Seq(V)
  BY Fields
<1>4. b \in Seq(V) /\ Len(b) = n /\ \A i \in 1..n : b[i] = m.st[off + i]
  <2>1. b = Bytes(m.st, off, n)
    BY <1>2
  <2> HIDE DEF b
  <2>2. Copies(V, Bytes(m.st, off, n), m.st, off, n)
    BY <1>3, BytesCopied
  <2> QED BY <2>1, <2>2, Zenon DEF Copies
<1> HIDE DEF b
<1>5. /\ s \in Seq(V) /\ Len(s) = Len(m.buf) /\ \A i \in 1..n : s[lo + i] = b[i]
      /\ \A i \in 1..Len(m.buf) : i =< lo \/ i > lo + n => s[i] = m.buf[i]
  <2>1. s = Splice(m.buf, lo, b)
    BY <1>2
  <2> HIDE DEF s
  <2>2. lo + Len(b) =< Len(m.buf) /\ m.buf \in Seq(V) /\ b \in Seq(V)
    BY <1>3, <1>4
  <2>3. /\ s \in Seq(V) /\ Len(s) = Len(m.buf) /\ \A i \in 1..Len(b) : s[lo + i] = b[i]
        /\ \A i \in 1..Len(m.buf) : i =< lo \/ i > lo + Len(b) => s[i] = m.buf[i]
    BY <2>1, <2>2, Spliced
  <2> QED BY <1>4, <2>3
<1> HIDE DEF s
<1>6. CASE Ok(d)
  <2>1. /\ x \in Accesses(V) /\ Same(x, d) /\ x.st = d.st /\ x.buf = s /\ x.left = d.left
        /\ x.calls = d.calls /\ x.res = d.res
    BY <1>2, <1>5, <1>6, SetBuf
  <2> HIDE DEF x
  <2>2. Same(x, m) /\ EndedWell(x)
    BY <1>2, <1>6, <2>1 DEF Same, EndedWell, Ok
  <2>3. \A i \in 1..n : x.buf[lo + i] = m.st[off + i]
    BY <1>4, <1>5, <2>1
  <2>4. Reads(V, x, m, off, lo, n, lo, n, 1)
    BY <1>2, <1>5, <2>1, <2>2, <2>3 DEF Reads
  <2> QED BY <2>4 DEF x, s, b, d
<1>7. CASE ~Ok(d)
  <2>1. x = d
    BY <1>7
  <2>2. Reads(V, d, m, off, lo, n, lo, n, 1)
    BY <1>2, <1>7 DEF Reads
  <2>3. Reads(V, x, m, off, lo, n, lo, n, 1)
    BY <2>1, <2>2
  <2> QED BY <2>3 DEF x, s, b, d
<1> QED BY <1>6, <1>7

LEMMA ReadAll ==
    ASSUME NEW V, NEW m \in Accesses(V), Ok(m), Device(m), NEW off \in Nat, NEW lo \in Nat, NEW n \in Nat,
           is_aligned(off, m.bs), is_aligned(n, m.bs), is_aligned(m.at + lo, m.al),
           lo + n =< Len(m.buf), off + n =< Len(m.st)
    PROVE  Reads(V, read_aligned_all(m, off, lo, n), m, off, lo, n, lo, n, 1)
<1>1. m.at + lo \in Nat
  BY Fields
<1>2. check_range(m, off, m.at + lo, n) = m
  BY <1>1, InRange DEF Device
<1>3. read_aligned_all(m, off, lo, n)
      = LET d == device_call(m, "read")
        IN  IF Ok(d) THEN [d EXCEPT !.buf = Splice(d.buf, lo, Bytes(d.st, off, n))] ELSE d
  BY <1>2, Zenon DEF read_aligned_all, Then
<1> QED BY <1>3, ReadCall

LEMMA ReadPartial ==
    ASSUME NEW V, NEW m \in Accesses(V), Ok(m), Device(m), NEW off \in Nat, NEW skip \in Nat,
           NEW lo \in Nat, NEW n \in Nat, is_aligned(off, m.bs), skip + n =< m.bs,
           off < Len(m.st), lo + n =< Len(m.buf)
    PROVE  Reads(V, read_partial(m, off, skip, lo, n), m, off + skip, lo, n, lo, n, 1)
<1>1. m.bs \in Nat \ {0} /\ m.nb \in Nat /\ m.al \in Nat \ {0}
  BY Fields
<1>2. off + m.bs =< m.bs * m.nb
  BY <1>1, BlockFits DEF Device
<1>3. is_aligned(m.bs, m.bs) /\ is_aligned(0, m.al)
  BY <1>1, Zero
<1>4. check_range(m, off, 0, m.bs) = m
  BY <1>1, <1>2, <1>3, InRange
<1>5. off + skip \in Nat /\ (off + skip) + n =< Len(m.st)
  <2>1. m.bs * m.nb \in Nat
    BY <1>1
  <2> QED BY <1>1, <1>2, <2>1 DEF Device
<1>6. read_partial(m, off, skip, lo, n)
      = LET d == device_call(m, "read")
        IN  IF Ok(d) THEN [d EXCEPT !.buf = Splice(d.buf, lo, Bytes(d.st, off + skip, n))] ELSE d
  BY <1>4, Zenon DEF read_partial, Then
<1> QED BY <1>5, <1>6, ReadCall

LEMMA ReadAligned ==
    ASSUME NEW V, NEW m \in Accesses(V), Ok(m), Device(m), NEW off \in Nat, NEW lo \in Nat, NEW n \in Nat,
           is_aligned(off, m.bs), is_aligned(m.at + lo, m.al), lo + n =< Len(m.buf), off + n =< Len(m.st)
    PROVE  Reads(V, read_aligned_offset_and_buffer(m, off, lo, n), m, off, lo, n, lo, n, 2)
<1> DEFINE w == RoundDown(n, m.bs)
           f == IF w > 0 THEN read_aligned_all(m, off, lo, w) ELSE m
           r == read_aligned_offset_and_buffer(m, off, lo, n)
<1>1. m.bs \in Nat \ {0} /\ Len(m.st) \in Nat /\ Len(m.buf) \in Nat
  BY Fields
<1>2. w \in Nat /\ w =< n /\ n < w + m.bs /\ is_aligned(w, m.bs)
  BY <1>1, Down
<1>3. r = IF ~Ok(f) \/ w = n THEN f ELSE read_partial(f, off + w, 0, lo + w, n - w)
  BY Zenon DEF read_aligned_offset_and_buffer, debug_assert, Then
<1> HIDE DEF w, r
<1>4. Reads(V, f, m, off, lo, w, lo, w, 1)
  <2>1. CASE w > 0
    <3>1. lo + w =< Len(m.buf) /\ off + w =< Len(m.st)
      BY <1>1, <1>2
    <3>2. Reads(V, read_aligned_all(m, off, lo, w), m, off, lo, w, lo, w, 1)
      BY <1>2, <3>1, ReadAll
    <3> QED BY <2>1, <3>2
  <2>2. CASE ~(w > 0)
    <3>1. w = 0 /\ f = m
      BY <1>2, <2>2
    <3>2. Reads(V, m, m, off, lo, 0, lo, 0, 1)
      BY ReadNone
    <3> QED BY <3>1, <3>2
  <2> QED BY <2>1, <2>2
<1> HIDE DEF f
<1>5. CASE ~Ok(f)
  <2>1. Reads(V, f, m, off, lo, n, lo, n, 2)
    <3>1. lo =< lo /\ lo + w =< lo + n /\ 1 =< 2
      BY <1>2
    <3> QED BY <1>2, <1>4, <1>5, <3>1, ReadCut
  <2> QED BY <1>3, <1>5, <2>1 DEF r
<1>6. CASE Ok(f) /\ w = n
  <2>1. Reads(V, f, m, off, lo, n, lo, n, 1)
    BY <1>4, <1>6
  <2>2. Reads(V, f, m, off, lo, n, lo, n, 2)
    <3>1. lo =< lo /\ lo + n =< lo + n /\ 1 =< 2
      OBVIOUS
    <3> QED BY <2>1, <3>1, ReadGrow
  <2> QED BY <1>3, <1>6, <2>2 DEF r
<1>7. CASE Ok(f) /\ w # n
  <2> DEFINE y == read_partial(f, off + w, 0, lo + w, n - w)
  <2>1. f \in Accesses(V) /\ f.bs = m.bs /\ Len(f.buf) = Len(m.buf) /\ f.st = m.st /\ Device(f)
    BY <1>4, ReadsTypes DEF Same
  <2>2. /\ off + w \in Nat /\ lo + w \in Nat /\ n - w \in Nat /\ 0 + (n - w) =< f.bs
        /\ off + w < Len(f.st) /\ (lo + w) + (n - w) =< Len(f.buf)
    <3>1. off + w \in Nat /\ lo + w \in Nat /\ n - w \in Nat /\ 0 + (n - w) =< m.bs
      BY <1>1, <1>2
    <3>2. off + w < Len(m.st) /\ (lo + w) + (n - w) =< Len(m.buf)
      BY <1>1, <1>2, <1>7
    <3> QED BY <2>1, <3>1, <3>2
  <2>3. is_aligned(off + w, f.bs)
    BY <1>1, <1>2, <2>1, AlignedSum
  <2>4. Reads(V, y, f, (off + w) + 0, lo + w, n - w, lo + w, n - w, 1)
    BY <1>7, <2>1, <2>2, <2>3, ReadPartial
  <2> HIDE DEF y
  <2>5. Reads(V, y, f, off + w, lo + w, n - w, lo + w, n - w, 1)
    <3>1. (off + w) + 0 = off + w
      BY <2>2
    <3> QED BY <2>4, <3>1
  <2>6. lo + w + (n - w) =< Len(m.buf) /\ w + (n - w) = n /\ 1 + 1 = 2
    BY <1>1, <1>2
  <2>7. Reads(V, y, m, off, lo, w + (n - w), lo, w + (n - w), 1 + 1)
    BY <1>2, <1>4, <1>7, <2>2, <2>5, <2>6, ReadForward
  <2>8. Reads(V, y, m, off, lo, n, lo, n, 2)
    BY <2>6, <2>7
  <2> QED BY <1>3, <1>7, <2>8 DEF y, r
<1> QED BY <1>5, <1>6, <1>7

(* The part behind a misaligned front is read to the front and moved.       *)
LEMMA ReadMoved ==
    ASSUME NEW V, NEW m \in Accesses(V), NEW x, NEW off \in Nat, NEW lo \in Nat, NEW rel \in Nat,
           NEW n \in Nat, NEW k \in Nat, lo + rel + n =< Len(m.buf), Device(m),
           Reads(V, x, m, off, lo, n, lo, n, k), Ok(x)
    PROVE  Reads(V, [x EXCEPT !.buf = Splice(x.buf, lo + rel, Bytes(x.buf, lo, n))],
                 m, off, lo + rel, n, lo, rel + n, k)
<1> DEFINE b == Bytes(x.buf, lo, n)
           s == Splice(x.buf, lo + rel, b)
           y == [x EXCEPT !.buf = s]
<1>1. /\ x \in Accesses(V) /\ Same(x, m) /\ x.st = m.st /\ Len(x.buf) = Len(m.buf)
      /\ x.calls.read =< m.calls.read + k /\ x.calls.write = m.calls.write
      /\ \A i \in 1..Len(m.buf) : i =< lo \/ i > lo + n => x.buf[i] = m.buf[i]
      /\ \A i \in 1..n : x.buf[lo + i] = m.st[off + i]
  BY DEF Reads
<1>2. Len(m.buf) \in Nat /\ x.buf \in Seq(V)
  BY <1>1, Fields
<1>3. b \in Seq(V) /\ Len(b) = n /\ \A i \in 1..n : b[i] = m.st[off + i]
  <2>1. lo + n =< Len(x.buf)
    BY <1>1, <1>2
  <2>2. Copies(V, b, x.buf, lo, n)
    BY <1>2, <2>1, BytesCopied
  <2> HIDE DEF b
  <2>3. b \in Seq(V) /\ Len(b) = n /\ \A i \in 1..n : b[i] = x.buf[lo + i]
    BY <2>2, Zenon DEF Copies
  <2> QED BY <1>1, <2>3
<1> HIDE DEF b
<1>4. /\ s \in Seq(V) /\ Len(s) = Len(m.buf)
      /\ \A i \in 1..n : s[(lo + rel) + i] = b[i]
      /\ \A i \in 1..Len(m.buf) : i =< lo + rel \/ i > (lo + rel) + n => s[i] = x.buf[i]
  <2> DEFINE p == lo + rel
  <2>1. p \in Nat /\ p + Len(b) =< Len(x.buf) /\ s = Splice(x.buf, p, b)
    BY <1>1, <1>2, <1>3
  <2> HIDE DEF p, s
  <2>2. /\ s \in Seq(V) /\ Len(s) = Len(x.buf)
        /\ \A i \in 1..Len(b) : s[p + i] = b[i]
        /\ \A i \in 1..Len(x.buf) : i =< p \/ i > p + Len(b) => s[i] = x.buf[i]
    <3>1. x.buf \in Seq(V) /\ b \in Seq(V)
      BY <1>2, <1>3
    <3> QED BY SMTT(30), <2>1, <3>1, Spliced
  <2> QED BY <1>1, <1>3, <2>2 DEF p
<1> HIDE DEF s
<1>5. /\ y \in Accesses(V) /\ Same(y, x) /\ y.st = x.st /\ y.buf = s /\ y.left = x.left
      /\ y.calls = x.calls /\ y.res = x.res
  BY <1>1, <1>4, SetBuf
<1> HIDE DEF y
<1>6. Same(y, m) /\ EndedWell(y) /\ Ok(y)
  BY <1>1, <1>5 DEF Same, EndedWell, Ok
<1>7. ASSUME NEW i \in 1..Len(m.buf), i =< lo \/ i > lo + (rel + n) PROVE y.buf[i] = m.buf[i]
  <2>1. (i =< lo \/ i > lo + n) /\ (i =< lo + rel \/ i > (lo + rel) + n)
    BY <1>2, <1>7
  <2> QED BY <1>1, <1>4, <1>5, <2>1
<1>8. \A i \in 1..n : y.buf[(lo + rel) + i] = m.st[off + i]
  BY <1>3, <1>4, <1>5
<1>9. Reads(V, y, m, off, lo + rel, n, lo, rel + n, k)
  BY <1>1, <1>4, <1>5, <1>6, <1>7, <1>8 DEF Reads
<1> QED BY <1>9 DEF y, s, b

(* The block boundary that splits an access.                                *)
LEMMA Boundary ==
    ASSUME NEW bs \in Nat \ {0}, NEW off \in Nat, NEW n \in Nat, ~is_aligned(off, bs)
    PROVE  LET rel == Min({RoundUp(off, bs), off + n}) - off
               d == RoundDown(off, bs)
           IN  /\ rel \in Nat /\ rel =< n /\ (rel < n => is_aligned(off + rel, bs))
               /\ d \in Nat /\ is_aligned(d, bs) /\ d < off /\ off % bs \in Nat
               /\ d + (off % bs) = off /\ (off % bs) + rel =< bs
<1> DEFINE u == RoundUp(off, bs)
           d == RoundDown(off, bs)
           rel == Min({u, off + n}) - off
<1>1. u \in Nat /\ off =< u /\ is_aligned(u, bs) /\ u = d + bs
  BY Up
<1>2. d \in Nat /\ d =< off /\ is_aligned(d, bs) /\ off - d = off % bs /\ d < off
  BY Down
<1>3. off % bs \in Nat
  BY Division
<1> HIDE DEF u, d
<1>4. off + n \in Nat
  OBVIOUS
<1>5. Min({u, off + n}) = IF u =< off + n THEN u ELSE off + n
  BY <1>1, <1>4, Smaller
<1>6. rel = (IF u =< off + n THEN u ELSE off + n) - off
  BY <1>5
<1> HIDE DEF rel
<1>7. rel \in Nat /\ rel =< n /\ (rel < n => off + rel = u) /\ off + rel =< u
  BY <1>1, <1>6
<1>8. rel < n => is_aligned(off + rel, bs)
  BY <1>1, <1>7
<1>9. d + (off % bs) = off /\ (off % bs) + rel =< bs
  <2> DEFINE q == off % bs
  <2>1. q \in Nat /\ off - d = q
    BY <1>2, <1>3
  <2> HIDE DEF q
  <2>2. d + q = off /\ q + rel =< bs
    BY <1>1, <1>2, <1>7, <2>1
  <2> QED BY <2>2 DEF q
<1> QED BY <1>2, <1>3, <1>7, <1>8, <1>9 DEF rel, u, d

LEMMA ReadBuffer ==
    ASSUME NEW V, NEW m \in Accesses(V), Ok(m), Device(m), NEW off \in Nat, NEW lo \in Nat, NEW n \in Nat,
           is_aligned(m.at + lo, m.al), lo + n =< Len(m.buf), off + n =< Len(m.st)
    PROVE  Reads(V, read_aligned_buffer(m, off, lo, n), m, off, lo, n, lo, n, 3)
<1>0. m.bs \in Nat \ {0} /\ Len(m.st) \in Nat /\ Len(m.buf) \in Nat /\ m.at \in Nat /\ m.al \in Nat \ {0}
  BY Fields
<1>1. CASE is_aligned(off, m.bs)
  <2>1. read_aligned_buffer(m, off, lo, n) = read_aligned_offset_and_buffer(m, off, lo, n)
    BY <1>1, Zenon DEF read_aligned_buffer, debug_assert
  <2>2. Reads(V, read_aligned_offset_and_buffer(m, off, lo, n), m, off, lo, n, lo, n, 2)
    BY <1>1, ReadAligned
  <2>3. lo =< lo /\ lo + n =< lo + n /\ 2 =< 3
    OBVIOUS
  <2>4. Reads(V, read_aligned_offset_and_buffer(m, off, lo, n), m, off, lo, n, lo, n, 3)
    BY <2>2, <2>3, ReadGrow
  <2> QED BY <2>1, <2>4
<1>2. CASE ~is_aligned(off, m.bs)
  <2> DEFINE rel == Min({RoundUp(off, m.bs), off + n}) - off
             d == RoundDown(off, m.bs)
             q == off % m.bs
             direct == read_aligned_offset_and_buffer(m, off + rel, lo + rel, n - rel)
             front == read_aligned_offset_and_buffer(m, off + rel, lo, n - rel)
             t == read_tail(m, off, lo, n, rel)
             r == read_aligned_buffer(m, off, lo, n)
  <2>1. /\ rel \in Nat /\ rel =< n /\ (rel < n => is_aligned(off + rel, m.bs))
        /\ d \in Nat /\ is_aligned(d, m.bs) /\ d < off /\ q \in Nat /\ d + q = off /\ q + rel =< m.bs
    BY <1>0, <1>2, Boundary
  <2>2. r = IF Ok(t) THEN read_partial(t, d, q, lo, rel) ELSE t
    BY <1>2, Zenon DEF read_aligned_buffer, debug_assert, Then
  <2> HIDE DEF rel, d, q, r
  <2>3. off + rel \in Nat /\ lo + rel \in Nat /\ n - rel \in Nat /\ rel + (n - rel) = n
        /\ (off + rel) + (n - rel) =< Len(m.st) /\ (lo + rel) + (n - rel) =< Len(m.buf)
        /\ lo + (n - rel) =< Len(m.buf) /\ lo + rel =< Len(m.buf) /\ off =< Len(m.st)
    <3>1. rel \in Nat /\ rel =< n
      BY <2>1
    <3>2. Remains(off, lo, n, rel, Len(m.st), Len(m.buf))
      BY <1>0, <3>1, Rest
    <3> QED BY <3>2, Zenon DEF Remains
  <2>4. Reads(V, t, m, off + rel, lo + rel, n - rel, lo, n, 2)
    <3>1. CASE rel >= n
      <4>1. t = m /\ n - rel = 0 /\ rel = n
        BY <2>1, <3>1 DEF read_tail
      <4>2. Reads(V, m, m, off + rel, lo + rel, 0, lo + rel, 0, 2)
        BY <2>3, ReadNone
      <4>3. lo =< lo + rel /\ (lo + rel) + 0 =< lo + n /\ 2 =< 2
        BY <2>1
      <4>4. Reads(V, m, m, off + rel, lo + rel, 0, lo, n, 2)
        BY <2>3, <4>2, <4>3, ReadGrow
      <4> QED BY <4>1, <4>4
    <3>2. CASE ~(rel >= n) /\ is_aligned(m.at + lo + rel, m.al)
      <4>1. is_aligned(off + rel, m.bs)
        BY <2>1, <3>2
      <4>2. is_aligned(m.at + (lo + rel), m.al)
        <5>1. m.at + (lo + rel) = m.at + lo + rel
          BY <1>0, <2>1
        <5> QED BY <3>2, <5>1
      <4>3. Reads(V, direct, m, off + rel, lo + rel, n - rel, lo + rel, n - rel, 2)
        BY <2>3, <4>1, <4>2, ReadAligned
      <4>4. lo =< lo + rel /\ (lo + rel) + (n - rel) =< lo + n /\ 2 =< 2
        BY <2>1
      <4> HIDE DEF direct
      <4>5. Reads(V, direct, m, off + rel, lo + rel, n - rel, lo, n, 2)
        BY <2>3, <4>3, <4>4, ReadGrow
      <4>6. t = direct
        BY <3>2 DEF read_tail, direct
      <4> HIDE DEF t
      <4> QED BY <4>5, <4>6
    <3>3. CASE ~(rel >= n) /\ ~is_aligned(m.at + lo + rel, m.al)
      <4>1. is_aligned(off + rel, m.bs)
        BY <2>1, <3>3
      <4>2. Reads(V, front, m, off + rel, lo, n - rel, lo, n - rel, 2)
        BY <2>3, <4>1, ReadAligned
      <4> HIDE DEF front
      <4>3. CASE Ok(front)
        <5>1. t = [front EXCEPT !.buf = Splice(front.buf, lo + rel, Bytes(front.buf, lo, n - rel))]
          BY <3>3, <4>3, Zenon DEF read_tail, Then, front
        <5> HIDE DEF t
        <5>2. Reads(V, t, m, off + rel, lo + rel, n - rel, lo, rel + (n - rel), 2)
          BY <2>1, <2>3, <4>2, <4>3, <5>1, ReadMoved
        <5> QED BY <2>3, <5>2
      <4>4. CASE ~Ok(front)
        <5>1. t = front
          BY <3>3, <4>4 DEF read_tail, Then, front
        <5>2. lo =< lo /\ lo + (n - rel) =< lo + n /\ 2 =< 2
          BY <2>1
        <5>3. Reads(V, front, m, off + rel, lo + rel, n - rel, lo, n, 2)
          BY <2>3, <4>2, <4>4, <5>2, ReadCut
        <5> HIDE DEF t
        <5> QED BY <5>1, <5>3
      <4> QED BY <4>3, <4>4
    <3> QED BY <3>1, <3>2, <3>3
  <2> HIDE DEF t
  <2>5. CASE ~Ok(t)
    <3>1. lo =< lo /\ lo + n =< lo + n /\ 2 =< 3
      OBVIOUS
    <3>2. Reads(V, t, m, off, lo, n, lo, n, 3)
      BY <2>4, <2>5, <3>1, ReadCut
    <3>3. r = t
      BY <2>2, <2>5
    <3> QED BY <3>2, <3>3 DEF r
  <2>6. CASE Ok(t)
    <3>1. t \in Accesses(V) /\ t.bs = m.bs /\ Len(t.buf) = Len(m.buf) /\ t.st = m.st /\ Device(t)
      BY <2>4, ReadsTypes DEF Same
    <3>2. d < Len(t.st) /\ lo + rel =< Len(t.buf) /\ is_aligned(d, t.bs) /\ q + rel =< t.bs
      <4>1. d \in Nat /\ d < off /\ off =< Len(m.st)
        BY <2>1, <2>3
      <4>2. d < Len(m.st) /\ lo + rel =< Len(m.buf)
        BY <1>0, <2>3, <4>1
      <4> QED BY <2>1, <3>1, <4>2
    <3> DEFINE y == read_partial(t, d, q, lo, rel)
    <3>3. Reads(V, y, t, d + q, lo, rel, lo, rel, 1)
      BY <2>1, <2>6, <3>1, <3>2, ReadPartial
    <3> HIDE DEF y
    <3>4. Reads(V, y, t, off, lo, rel, lo, rel, 1)
      BY <2>1, <3>3
    <3>5. Reads(V, t, m, off + rel, lo + rel, n - rel, lo, rel + (n - rel), 2)
      BY <2>3, <2>4
    <3>6. Reads(V, y, m, off, lo, rel + (n - rel), lo, rel + (n - rel), 1 + 2)
      BY <2>1, <2>3, <2>6, <3>4, <3>5, ReadBackward
    <3>7. Reads(V, y, m, off, lo, n, lo, n, 3)
      BY <2>3, <3>6
    <3>8. r = y
      BY <2>2, <2>6 DEF y
    <3> QED BY <3>7, <3>8 DEF r
  <2> QED BY <2>5, <2>6
<1> QED BY <1>1, <1>2

-----------------------------------------------------------------------------
(* Addresses one past a multiple of the alignment.                          *)
ScratchShort(m, addr) == m.al > 1 /\ addr % m.al = 1

(* Disk::scratch_size() asks for enough memory for split_scratch() to split *)
(* exactly when the memory does not start at such an address; at those it   *)
(* is one byte short, and the access ends in an error or a panic.           *)
THEOREM ScratchSplit ==
    ASSUME NEW V, NEW m \in Accesses(V), Ok(m), NEW addr \in Nat
    PROVE  split_scratch(m, addr, scratch_size(m))
           = IF ScratchShort(m, addr) THEN Fail(m, IF m.bs = 1 THEN "BufferTooSmall" ELSE "panic") ELSE m
<1> DEFINE al == m.al
           need == IF m.bs = 1 THEN 0 ELSE m.bs
           len == (al - 1) * 2 + need
           one == RoundUp(addr, al) - addr
           two == RoundUp(addr + one + al - 1, al) - addr
           r == split_scratch(m, addr, scratch_size(m))
<1>1. al \in Nat \ {0} /\ m.bs \in Nat \ {0}
  BY Fields
<1>2. need \in Nat /\ (m.bs = 1 => need = 0) /\ (m.bs # 1 => need >= 2)
  BY <1>1
<1>3. r = CASE one > len -> Fail(m, "BufferTooSmall")
            [] one =< len /\ one + al - 1 > len -> Fail(m, "panic")
            [] one + al - 1 =< len /\ two > len -> Fail(m, "BufferTooSmall")
            [] two =< len /\ two + need > len -> Fail(m, "panic")
            [] OTHER -> m
  BY DEF split_scratch, scratch_size
<1>4. one \in Nat /\ one < al /\ is_aligned(addr + one, al)
  <2> DEFINE u == RoundUp(addr, al)
  <2>1. u \in Nat /\ addr =< u /\ u < addr + al /\ is_aligned(u, al)
    BY <1>1, Up
  <2>2. one = u - addr
    OBVIOUS
  <2> HIDE DEF u, one
  <2>3. one \in Nat /\ one < al /\ addr + one = u
    BY <1>1, <2>1, <2>2
  <2> QED BY <2>1, <2>3
<1>5. al > 1 => (one = al - 1 <=> addr % al = 1)
  <2> SUFFICES ASSUME al > 1 PROVE one = al - 1 <=> addr % al = 1
    OBVIOUS
  <2> DEFINE u == RoundUp(addr, al)
             d == RoundDown(addr, al)
             q == addr % al
  <2>1. u \in Nat /\ (is_aligned(addr, al) => u = addr) /\ (~is_aligned(addr, al) => u = d + al)
    BY <1>1, Up
  <2>2. d \in Nat /\ addr - d = q /\ q \in Nat
    BY <1>1, Down, Division
  <2>3. is_aligned(addr, al) <=> q = 0
    BY DEF is_aligned
  <2>4. one = u - addr
    OBVIOUS
  <2> HIDE DEF u, d, q, one
  <2>5. one = al - 1 <=> q = 1
    BY <1>1, <2>1, <2>2, <2>3, <2>4
  <2> QED BY <2>5 DEF q
<1>6. IF al = 1 THEN two = one ELSE two = one + al
  <2> DEFINE a == addr + one
             v == addr + one + al - 1
             u == RoundUp(v, al)
  <2> HIDE DEF one
  <2>0. a \in Nat /\ v \in Nat /\ v = a + (al - 1)
    BY <1>1, <1>4
  <2>1. u \in Nat /\ v =< u /\ u < v + al /\ is_aligned(u, al)
    BY <1>1, <2>0, Up
  <2>2. two = u - addr
    OBVIOUS
  <2> HIDE DEF u, v, two
  <2>3. PICK c \in Nat : u = a + c /\ c >= al - 1 /\ c < al + al - 1
    <3>1. u - a \in Nat /\ u = a + (u - a) /\ u - a >= al - 1 /\ u - a < al + al - 1
      BY <1>1, <2>0, <2>1
    <3> QED BY <3>1
  <2>4. is_aligned(c, al)
    <3>1. is_aligned(a + c, al) /\ is_aligned(a, al)
      BY <1>4, <2>1, <2>3
    <3> QED BY <1>1, <2>0, <3>1, AlignedSum
  <2>5. PICK q \in Nat : c = al * q
    BY <1>1, <2>4, Multiple
  <2> HIDE DEF a
  <2>6. c = IF al = 1 THEN 0 ELSE al
    <3>1. CASE al = 1
      BY <2>3, <3>1
    <3>2. CASE al # 1
      <4>1. q # 0
        BY <1>1, <2>3, <2>5, <3>2
      <4>2. q < 2
        <5> SUFFICES ASSUME q >= 2 PROVE FALSE
          OBVIOUS
        <5>1. al * q >= al * 2
          BY <1>1
        <5> QED BY <1>1, <2>3, <2>5, <5>1
      <4>3. q = 1
        BY <4>1, <4>2
      <4> QED BY <1>1, <2>5, <3>2, <4>3
    <3> QED BY <3>1, <3>2
  <2>7. two = (addr + one + c) - addr
    BY <2>2, <2>3 DEF a
  <2>8. two = one + c
    BY <1>4, <2>7
  <2> QED BY <1>1, <1>4, <2>6, <2>8
<1>7. len = (al - 1) * 2 + need /\ al * 1 = al
  BY <1>1
<1>8. ScratchShort(m, addr) <=> al > 1 /\ addr % al = 1
  BY DEF ScratchShort
<1> HIDE DEF al, need, len, one, two, r
<1>9. one =< len /\ one + al - 1 =< len
  BY <1>1, <1>2, <1>4, <1>7
<1>10. CASE ScratchShort(m, addr)
  <2>1. one = al - 1 /\ two = one + al /\ al > 1
    BY <1>5, <1>6, <1>8, <1>10
  <2>2. CASE m.bs = 1
    <3>1. two > len
      BY <1>1, <1>2, <1>7, <2>1, <2>2
    <3>2. two \in Int /\ one \in Int /\ len \in Int /\ need = 0
      BY <1>1, <1>2, <1>4, <1>7, <2>1, <2>2
    <3>3. r = Fail(m, "BufferTooSmall")
      BY <1>1, <1>3, <1>9, <3>1, <3>2
    <3> QED BY <1>10, <2>2, <3>3 DEF r
  <2>3. CASE m.bs # 1
    <3>1. two =< len /\ two + need > len
      BY <1>1, <1>2, <1>7, <2>1, <2>3
    <3>2. two \in Int /\ one \in Int /\ len \in Int
      BY <1>1, <1>2, <1>4, <1>7, <2>1
    <3>3. r = Fail(m, "panic")
      BY <1>1, <1>3, <1>9, <3>1, <3>2
    <3> QED BY <1>10, <2>3, <3>3 DEF r
  <2> QED BY <2>2, <2>3
<1>11. CASE ~ScratchShort(m, addr)
  <2>1. two =< len /\ two + need =< len
    BY <1>1, <1>2, <1>4, <1>5, <1>6, <1>7, <1>8, <1>11
  <2>2. two \in Int /\ one \in Int /\ len \in Int
    BY <1>1, <1>2, <1>4, <1>6, <1>7
  <2>3. r = m
    BY <1>1, <1>2, <1>3, <1>9, <2>1, <2>2
  <2> QED BY <1>11, <2>3 DEF r
<1> QED BY <1>10, <1>11

(* The bytes before the first aligned address, through scratch memory.      *)
LEMMA ReadHead ==
    ASSUME NEW V, NEW m \in Accesses(V), Ok(m), Device(m), NEW off \in Nat, NEW h \in Nat,
           h =< Len(m.buf), off + h =< Len(m.st)
    PROVE  LET y == read_aligned_buffer([m EXCEPT !.at = 0, !.buf = Bytes(m.buf, 0, h)], off, 0, h)
           IN  Reads(V, [y EXCEPT !.at = m.at, !.buf = IF Ok(y) THEN Splice(m.buf, 0, y.buf) ELSE m.buf],
                     m, off, 0, h, 0, h, 3)
<1> DEFINE b == Bytes(m.buf, 0, h)
           i == [m EXCEPT !.at = 0, !.buf = b]
           y == read_aligned_buffer(i, off, 0, h)
           s == IF Ok(y) THEN Splice(m.buf, 0, y.buf) ELSE m.buf
           z == [y EXCEPT !.at = m.at, !.buf = s]
<1>0. m.buf \in Seq(V) /\ Len(m.buf) \in Nat /\ m.at \in Nat /\ m.al \in Nat \ {0}
  BY Fields
<1>1. b \in Seq(V) /\ Len(b) = h
  <2>1. 0 + h =< Len(m.buf)
    BY <1>0
  <2> QED BY <1>0, <2>1, BytesOf
<1> HIDE DEF b
<1>2. /\ i \in Accesses(V) /\ i.bs = m.bs /\ i.nb = m.nb /\ i.al = m.al /\ i.at = 0
      /\ i.st = m.st /\ i.buf = b /\ i.left = m.left /\ i.calls = m.calls /\ i.res = m.res
  BY <1>1 DEF Accesses
<1> HIDE DEF i
<1>3. Reads(V, y, i, off, 0, h, 0, h, 3)
  <2>1. Ok(i) /\ Device(i) /\ 0 + h =< Len(i.buf) /\ off + h =< Len(i.st)
    BY <1>1, <1>2 DEF Ok, Device
  <2>2. is_aligned(i.at + 0, i.al)
    <3>1. is_aligned(0, m.al) /\ i.at + 0 = 0
      BY <1>0, <1>2, Zero
    <3> QED BY <1>2, <3>1
  <2> QED BY <1>2, <2>1, <2>2, ReadBuffer
<1> HIDE DEF y
<1>4. /\ y \in Accesses(V) /\ y.bs = m.bs /\ y.nb = m.nb /\ y.al = m.al /\ y.st = m.st /\ Len(y.buf) = h
      /\ EndedWell(y) /\ y.calls.read =< m.calls.read + 3 /\ y.calls.write = m.calls.write
  BY <1>1, <1>2, <1>3 DEF Reads, Same
<1>5. Ok(y) => \A j \in 1..h : y.buf[j] = m.st[off + j]
  <2> SUFFICES ASSUME Ok(y), NEW j \in 1..h PROVE y.buf[j] = m.st[off + j]
    OBVIOUS
  <2>1. y.buf[0 + j] = i.st[off + j]
    BY <1>3 DEF Reads
  <2> QED BY <1>2, <2>1
<1>6. /\ s \in Seq(V) /\ Len(s) = Len(m.buf)
      /\ \A j \in 1..Len(m.buf) : j > h => s[j] = m.buf[j]
      /\ Ok(y) => \A j \in 1..h : s[j] = m.st[off + j]
  <2>1. CASE Ok(y)
    <3>1. s = Splice(m.buf, 0, y.buf)
      BY <2>1
    <3>2. y.buf \in Seq(V) /\ 0 + Len(y.buf) =< Len(m.buf)
      BY <1>0, <1>4, Fields
    <3> HIDE DEF s
    <3>3. /\ s \in Seq(V) /\ Len(s) = Len(m.buf) /\ \A j \in 1..Len(y.buf) : s[0 + j] = y.buf[j]
          /\ \A j \in 1..Len(m.buf) : j =< 0 \/ j > 0 + Len(y.buf) => s[j] = m.buf[j]
      BY <1>0, <3>1, <3>2, Spliced
    <3>4. \A j \in 1..h : s[j] = y.buf[j]
      BY <1>4, <3>3
    <3>5. \A j \in 1..Len(m.buf) : j > h => s[j] = m.buf[j]
      BY <1>4, <3>3
    <3> QED BY <1>5, <3>3, <3>4, <3>5
  <2>2. CASE ~Ok(y)
    <3>1. s = m.buf
      BY <2>2
    <3> HIDE DEF s
    <3> QED BY <1>0, <2>2, <3>1
  <2> QED BY <2>1, <2>2
<1> HIDE DEF s
<1>7. /\ z \in Accesses(V) /\ z.bs = y.bs /\ z.nb = y.nb /\ z.al = y.al /\ z.at = m.at
      /\ z.st = y.st /\ z.buf = s /\ z.left = y.left /\ z.calls = y.calls /\ z.res = y.res
  <2>1. y \in Accesses(V) /\ s \in Seq(V) /\ m.at \in Nat
    BY <1>0, <1>4, <1>6
  <2> QED BY <2>1 DEF Accesses
<1> HIDE DEF z
<1>8. Same(z, m) /\ EndedWell(z) /\ (Ok(z) <=> Ok(y))
  BY <1>4, <1>7 DEF Same, EndedWell, Ok
<1>9. \A j \in 1..Len(m.buf) : j =< 0 \/ j > 0 + h => z.buf[j] = m.buf[j]
  BY <1>0, <1>6, <1>7
<1>10. Ok(z) => \A j \in 1..h : z.buf[0 + j] = m.st[off + j]
  BY <1>6, <1>7, <1>8
<1>11. Reads(V, z, m, off, 0, h, 0, h, 3)
  BY <1>4, <1>6, <1>7, <1>8, <1>9, <1>10 DEF Reads
<1> QED BY <1>11 DEF z, s, y, i, b

(* The head of a buffer, up to the first aligned address.                   *)
LEMMA AlignedHead ==
    ASSUME NEW al \in Nat \ {0}, NEW at \in Nat, NEW n \in Nat
    PROVE  LET h == Min({RoundUp(at, al) - at, n})
           IN  h \in Nat /\ h =< n /\ (h # n => is_aligned(at + h, al))
<1> DEFINE u == RoundUp(at, al)
           h == Min({u - at, n})
<1>1. u \in Nat /\ at =< u /\ is_aligned(u, al)
  BY Up
<1> HIDE DEF u
<1>2. u - at \in Nat
  BY <1>1
<1>3. h = IF u - at =< n THEN u - at ELSE n
  BY <1>2, Smaller
<1> HIDE DEF h
<1>4. h \in Nat /\ h =< n /\ (h # n => at + h = u)
  BY <1>1, <1>3
<1> QED BY <1>1, <1>4 DEF h, u

LEMMA ReadAsync ==
    ASSUME NEW V, NEW m \in Accesses(V), Ok(m), Device(m), NEW off \in Nat, NEW scratch \in Nat,
           ~ScratchShort(m, scratch), off + Len(m.buf) =< Len(m.st)
    PROVE  Reads(V, read_async(m, off, scratch), m, off, 0, Len(m.buf), 0, Len(m.buf), 6)
<1> DEFINE n == Len(m.buf)
           h == Min({RoundUp(m.at, m.al) - m.at, n})
           i == read_aligned_buffer([m EXCEPT !.at = 0, !.buf = Bytes(m.buf, 0, h)], off, 0, h)
           y == [i EXCEPT !.at = m.at, !.buf = IF Ok(i) THEN Splice(m.buf, 0, i.buf) ELSE m.buf]
           r == read_async(m, off, scratch)
<1>0. n \in Nat /\ m.at \in Nat /\ m.al \in Nat \ {0} /\ Len(m.st) \in Nat
  BY Fields
<1>1. split_scratch(m, scratch, scratch_size(m)) = m
  BY ScratchSplit
<1>2. CASE is_aligned(m.at, m.al)
  <2> DEFINE x == read_aligned_buffer(m, off, 0, n)
  <2>1. r = x
    BY <1>1, <1>2, Zenon DEF read_async, Then
  <2>2. is_aligned(m.at + 0, m.al) /\ 0 + n =< Len(m.buf)
    BY <1>0, <1>2
  <2> HIDE DEF n
  <2>3. Reads(V, x, m, off, 0, n, 0, n, 3)
    BY <1>0, <2>2, ReadBuffer DEF n
  <2> HIDE DEF x
  <2>4. Reads(V, x, m, off, 0, n, 0, n, 6)
    <3>1. 0 =< 0 /\ 0 + n =< 0 + n /\ 3 =< 6
      BY <1>0
    <3> QED BY <1>0, <2>3, <3>1, ReadGrow
  <2> QED BY <2>1, <2>4 DEF n
<1>3. CASE ~is_aligned(m.at, m.al)
  <2> DEFINE x == read_aligned_buffer(y, off + h, h, n - h)
  <2>1. r = IF ~Ok(y) \/ h = n THEN y ELSE x
    BY <1>1, <1>3, Zenon DEF read_async, Then
  <2>2. h \in Nat /\ h =< n /\ (h # n => is_aligned(m.at + h, m.al))
    BY <1>0, AlignedHead
  <2>3. h =< Len(m.buf) /\ off + h =< Len(m.st)
    <3> HIDE DEF h
    <3> QED BY <1>0, <2>2
  <2> HIDE DEF h
  <2>4. Reads(V, y, m, off, 0, h, 0, h, 3)
    BY <2>2, <2>3, ReadHead
  <2> HIDE DEF y, n
  <2>5. CASE ~Ok(y)
    <3>1. Reads(V, y, m, off, 0, n, 0, n, 6)
      <4>1. 0 =< 0 /\ 0 + h =< 0 + n /\ 3 =< 6
        BY <1>0, <2>2
      <4> QED BY <1>0, <2>2, <2>4, <2>5, <4>1, ReadCut
    <3> QED BY <2>1, <2>5, <3>1 DEF n
  <2>6. CASE Ok(y) /\ h = n
    <3>1. Reads(V, y, m, off, 0, n, 0, n, 3)
      BY <2>4, <2>6
    <3>2. Reads(V, y, m, off, 0, n, 0, n, 6)
      <4>1. 0 =< 0 /\ 0 + n =< 0 + n /\ 3 =< 6
        BY <1>0
      <4> QED BY <1>0, <3>1, <4>1, ReadGrow
    <3> QED BY <2>1, <2>6, <3>2 DEF n
  <2>7. CASE Ok(y) /\ h # n
    <3>1. y \in Accesses(V) /\ Same(y, m) /\ Len(y.buf) = n /\ y.st = m.st /\ Device(y)
      BY <2>4, ReadsTypes DEF n
    <3>2. /\ off + h \in Nat /\ n - h \in Nat /\ h + (n - h) =< Len(y.buf) /\ (off + h) + (n - h) =< Len(y.st)
          /\ 0 + h = h /\ h + (n - h) = n /\ 0 + h + (n - h) =< n
      <4>1. off + h \in Nat /\ n - h \in Nat /\ h + (n - h) = n /\ 0 + h = h /\ 0 + h + (n - h) =< n
        BY <1>0, <2>2
      <4>2. (off + h) + (n - h) =< Len(m.st)
        <5>1. off + n =< Len(m.st)
          BY DEF n
        <5> QED BY <1>0, <2>2, <5>1
      <4>3. n =< n
        BY <1>0
      <4> QED BY <3>1, <4>1, <4>2, <4>3
    <3>3. is_aligned(y.at + h, y.al)
      BY <2>2, <2>7, <3>1 DEF Same
    <3>4. Reads(V, x, y, off + h, h, n - h, h, n - h, 3)
      BY <2>2, <2>7, <3>1, <3>2, <3>3, ReadBuffer
    <3> HIDE DEF x
    <3>5. Reads(V, x, y, off + h, 0 + h, n - h, 0 + h, n - h, 3)
      BY <3>2, <3>4
    <3>6. Reads(V, x, m, off, 0, h + (n - h), 0, h + (n - h), 3 + 3)
      BY <2>2, <2>4, <2>7, <3>2, <3>5, ReadForward DEF n
    <3>7. Reads(V, x, m, off, 0, n, 0, n, 6)
      BY <3>2, <3>6
    <3> QED BY <2>1, <2>7, <3>7 DEF n
  <2> QED BY <2>5, <2>6, <2>7
<1> QED BY <1>2, <1>3

-----------------------------------------------------------------------------
(* Writes put together from parts.                                          *)
LEMMA WritesTypes ==
    ASSUME NEW V, NEW m \in Accesses(V), NEW x, NEW off, NEW lo, NEW n, NEW k,
           Writes(V, x, m, off, lo, n, k), Device(m)
    PROVE  /\ x \in Accesses(V) /\ Same(x, m) /\ x.buf = m.buf /\ Len(x.st) = Len(m.st) /\ Device(x)
           /\ EndedWell(x)
  BY DEF Writes, Same, Device

LEMMA WriteNone ==
    ASSUME NEW V, NEW m \in Accesses(V), NEW off \in Nat, NEW lo \in Nat, NEW k \in Nat, Ok(m)
    PROVE  Writes(V, m, m, off, lo, 0, k)
<1>1. m.calls.read \in Nat /\ m.calls.write \in Nat
  BY Fields
<1>2. m.calls.read =< m.calls.read + k /\ m.calls.write =< m.calls.write + k
  BY <1>1
<1>3. \A i \in 1..0 : m.st[off + i] = m.buf[lo + i]
  OBVIOUS
<1> QED BY <1>2, <1>3 DEF Writes, Same, EndedWell

LEMMA WriteGrow ==
    ASSUME NEW V, NEW m \in Accesses(V), NEW x, NEW off, NEW lo, NEW n, NEW k \in Nat, NEW k2 \in Nat,
           Writes(V, x, m, off, lo, n, k), k =< k2
    PROVE  Writes(V, x, m, off, lo, n, k2)
<1>1. /\ m.calls.read \in Nat /\ m.calls.write \in Nat /\ x.calls.read \in Nat /\ x.calls.write \in Nat
      /\ x.calls.read =< m.calls.read + k /\ x.calls.write =< m.calls.write + k
  BY Fields DEF Writes
<1>2. x.calls.read =< m.calls.read + k2 /\ x.calls.write =< m.calls.write + k2
  BY <1>1
<1> QED BY <1>2 DEF Writes

(* A write that ended early is an attempt of any write it is part of.       *)
LEMMA WriteCut ==
    ASSUME NEW V, NEW m \in Accesses(V), NEW x, NEW off \in Nat, NEW lo \in Nat, NEW a \in Nat, NEW n \in Nat,
           NEW k \in Nat, Writes(V, x, m, off + a, lo + a, n, k), ~Ok(x),
           NEW n2 \in Nat, a + n =< n2, NEW k2 \in Nat, k =< k2, off + n2 =< Len(m.st)
    PROVE  Writes(V, x, m, off, lo, n2, k2)
<1>0. Len(m.st) \in Nat
  BY Fields
<1>1. Writes(V, x, m, off + a, lo + a, n, k2)
  <2>1. off + a \in Nat /\ lo + a \in Nat
    OBVIOUS
  <2> QED BY <2>1, WriteGrow
<1>2. ASSUME NEW i \in 1..Len(m.st), i =< off \/ i > off + n2 PROVE x.st[i] = m.st[i]
  <2>1. i =< off + a \/ i > (off + a) + n
    BY <1>0, <1>2
  <2> QED BY <1>1, <2>1 DEF Writes
<1>3. ASSUME NEW i \in 1..n2 PROVE x.st[off + i] = m.buf[lo + i] \/ x.st[off + i] = m.st[off + i]
  <2>1. CASE i > a /\ i =< a + n
    <3>1. i - a \in 1..n /\ (off + a) + (i - a) = off + i /\ (lo + a) + (i - a) = lo + i
      BY <2>1
    <3>2. \/ x.st[(off + a) + (i - a)] = m.buf[(lo + a) + (i - a)]
          \/ x.st[(off + a) + (i - a)] = m.st[(off + a) + (i - a)]
      BY <1>1, <3>1 DEF Writes
    <3> QED BY <3>1, <3>2
  <2>2. CASE ~(i > a /\ i =< a + n)
    <3>1. off + i \in 1..Len(m.st) /\ (off + i =< off + a \/ off + i > (off + a) + n)
      BY <1>0, <2>2
    <3> QED BY <1>1, <3>1 DEF Writes
  <2> QED BY <2>1, <2>2
<1> QED BY <1>1, <1>2, <1>3 DEF Writes

(* A place in the first or in the second of two neighbouring parts.         *)
LEMMA InParts ==
    ASSUME NEW off \in Nat, NEW lo \in Nat, NEW n1 \in Nat, NEW n2 \in Nat, NEW len \in Nat,
           off + n1 + n2 =< len, NEW i \in 1..(n1 + n2)
    PROVE  /\ off + i \in 1..len
           /\ i =< n1 => off + i =< off + n1 /\ i \in 1..n1
           /\ i > n1 => /\ i - n1 \in 1..n2 /\ off + i > off + n1
                        /\ (lo + n1) + (i - n1) = lo + i /\ (off + n1) + (i - n1) = off + i
<1>1. i \in Nat /\ i >= 1 /\ i =< n1 + n2
  OBVIOUS
<1>2. off + i >= 1 /\ off + i =< len
  BY <1>1
<1>3. i > n1 => i - n1 >= 1 /\ i - n1 =< n2 /\ i - n1 \in Nat
  BY <1>1
<1> QED BY <1>1, <1>2, <1>3

LEMMA OutOfParts ==
    ASSUME NEW off \in Nat, NEW n1 \in Nat, NEW n2 \in Nat, NEW i \in Nat, i =< off \/ i > off + (n1 + n2)
    PROVE  (i =< off \/ i > off + n1) /\ (i =< off + n1 \/ i > off + n1 + n2)
  OBVIOUS

(* Two writes next to each other, in either order.                          *)
LEMMA WriteJoin ==
    ASSUME NEW V, NEW m \in Accesses(V), NEW x, NEW y, NEW off \in Nat, NEW lo \in Nat,
           NEW n1 \in Nat, NEW n2 \in Nat, NEW k1 \in Nat, NEW k2 \in Nat, off + n1 + n2 =< Len(m.st), Ok(x),
           \/ Writes(V, x, m, off, lo, n1, k1) /\ Writes(V, y, x, off + n1, lo + n1, n2, k2)
           \/ Writes(V, x, m, off + n1, lo + n1, n2, k2) /\ Writes(V, y, x, off, lo, n1, k1)
    PROVE  Writes(V, y, m, off, lo, n1 + n2, k1 + k2)
<1>1. /\ m.calls.read \in Nat /\ x.calls.read \in Nat /\ y.calls.read \in Nat
      /\ m.calls.write \in Nat /\ x.calls.write \in Nat /\ y.calls.write \in Nat
      /\ Len(m.st) \in Nat /\ Len(x.st) = Len(m.st) /\ x.buf = m.buf
  <2>1. x \in Accesses(V) /\ y \in Accesses(V) /\ Len(x.st) = Len(m.st) /\ x.buf = m.buf
    BY DEF Writes
  <2> QED BY <2>1, Fields
<1>2. y \in Accesses(V) /\ Same(y, m) /\ y.buf = m.buf /\ Len(y.st) = Len(m.st) /\ EndedWell(y)
  BY DEF Writes, Same
<1>3. y.calls.read =< m.calls.read + (k1 + k2) /\ y.calls.write =< m.calls.write + (k1 + k2)
  <2>1. \/ y.calls.read =< x.calls.read + k2 /\ x.calls.read =< m.calls.read + k1
        \/ y.calls.read =< x.calls.read + k1 /\ x.calls.read =< m.calls.read + k2
    BY DEF Writes
  <2>2. \/ y.calls.write =< x.calls.write + k2 /\ x.calls.write =< m.calls.write + k1
        \/ y.calls.write =< x.calls.write + k1 /\ x.calls.write =< m.calls.write + k2
    BY DEF Writes
  <2>3. y.calls.read =< m.calls.read + (k1 + k2)
    BY <1>1, <2>1, CallsAdded
  <2>4. y.calls.write =< m.calls.write + (k1 + k2)
    BY <1>1, <2>2, CallsAdded
  <2> QED BY <2>3, <2>4
<1>4. ASSUME NEW i \in 1..Len(m.st), i =< off \/ i > off + (n1 + n2) PROVE y.st[i] = m.st[i]
  <2>1. (i =< off \/ i > off + n1) /\ (i =< off + n1 \/ i > off + n1 + n2)
    <3>1. i \in Nat
      BY <1>1
    <3> QED BY <1>4, <3>1, OutOfParts
  <2>2. x.st[i] = m.st[i]
    BY <2>1 DEF Writes
  <2>3. y.st[i] = x.st[i]
    BY <1>1, <2>1 DEF Writes
  <2> QED BY <2>2, <2>3
<1> DEFINE Done(i) == \/ y.st[off + i] = m.buf[lo + i]
                      \/ ~Ok(y) /\ y.st[off + i] = m.st[off + i]
<1>5. ASSUME Writes(V, x, m, off, lo, n1, k1), Writes(V, y, x, off + n1, lo + n1, n2, k2), NEW i \in 1..(n1 + n2)
      PROVE  Done(i)
  <2>1. CASE i =< n1
    <3>1. off + i \in 1..Len(x.st) /\ off + i =< off + n1 /\ i \in 1..n1
      BY <1>1, <2>1, InParts
    <3>2. x.st[off + i] = m.buf[lo + i]
      BY <1>5, <3>1 DEF Writes
    <3>3. y.st[off + i] = x.st[off + i]
      BY <1>5, <3>1 DEF Writes
    <3> QED BY <3>2, <3>3
  <2>2. CASE i > n1
    <3>1. i - n1 \in 1..n2 /\ (lo + n1) + (i - n1) = lo + i /\ (off + n1) + (i - n1) = off + i
      BY <1>1, <2>2, InParts
    <3>2. off + i \in 1..Len(m.st) /\ off + i > off + n1
      BY <1>1, <2>2, InParts
    <3>3. x.st[off + i] = m.st[off + i]
      BY <1>5, <3>2 DEF Writes
    <3>4. \/ y.st[(off + n1) + (i - n1)] = x.buf[(lo + n1) + (i - n1)]
          \/ ~Ok(y) /\ y.st[(off + n1) + (i - n1)] = x.st[(off + n1) + (i - n1)]
      BY <1>5, <3>1 DEF Writes
    <3> QED BY <1>1, <3>1, <3>3, <3>4
  <2> QED BY <2>1, <2>2
<1>6. ASSUME Writes(V, x, m, off + n1, lo + n1, n2, k2), Writes(V, y, x, off, lo, n1, k1), NEW i \in 1..(n1 + n2)
      PROVE  Done(i)
  <2>1. CASE i =< n1
    <3>1. off + i \in 1..Len(m.st) /\ off + i =< off + n1 /\ i \in 1..n1
      BY <1>1, <2>1, InParts
    <3>2. x.st[off + i] = m.st[off + i]
      BY <1>6, <3>1 DEF Writes
    <3>3. y.st[off + i] = x.buf[lo + i] \/ (~Ok(y) /\ y.st[off + i] = x.st[off + i])
      BY <1>6, <3>1 DEF Writes
    <3> QED BY <1>1, <3>2, <3>3
  <2>2. CASE i > n1
    <3>1. i - n1 \in 1..n2 /\ (lo + n1) + (i - n1) = lo + i /\ (off + n1) + (i - n1) = off + i
      BY <1>1, <2>2, InParts
    <3>2. off + i \in 1..Len(x.st) /\ off + i > off + n1
      BY <1>1, <2>2, InParts
    <3>3. x.st[(off + n1) + (i - n1)] = m.buf[(lo + n1) + (i - n1)]
      BY <1>6, <3>1 DEF Writes
    <3>4. y.st[off + i] = x.st[off + i]
      BY <1>6, <3>2 DEF Writes
    <3> QED BY <3>1, <3>3, <3>4
  <2> QED BY <2>1, <2>2
<1>7. \A i \in 1..(n1 + n2) : Done(i)
  BY <1>5, <1>6
<1> QED BY <1>2, <1>3, <1>4, <1>7 DEF Writes

-----------------------------------------------------------------------------
(* What calls of the device do that write part of the buffer at the end.    *)
LEMMA WriteCall ==
    ASSUME NEW V, NEW m \in Accesses(V), NEW d \in Accesses(V), Same(d, m), d.st = m.st, d.buf = m.buf, EndedWell(d),
           d.calls.read =< m.calls.read + 1, d.calls.write =< m.calls.write + 1,
           NEW off \in Nat, NEW lo \in Nat, NEW n \in Nat, lo + n =< Len(m.buf), off + n =< Len(m.st)
    PROVE  Writes(V, IF Ok(d) THEN [d EXCEPT !.st = Splice(d.st, off, Bytes(d.buf, lo, n))] ELSE d,
                  m, off, lo, n, 1)
<1> DEFINE b == Bytes(d.buf, lo, n)
           s == Splice(d.st, off, b)
           x == IF Ok(d) THEN [d EXCEPT !.st = s] ELSE d
<1>1. Len(m.st) \in Nat /\ m.buf \in Seq(V) /\ m.st \in Seq(V)
  BY Fields
<1>2. b \in Seq(V) /\ Len(b) = n /\ \A i \in 1..n : b[i] = m.buf[lo + i]
  <2>1. b = Bytes(m.buf, lo, n)
    OBVIOUS
  <2> HIDE DEF b
  <2>2. Copies(V, Bytes(m.buf, lo, n), m.buf, lo, n)
    BY <1>1, BytesCopied
  <2> QED BY <2>1, <2>2, Zenon DEF Copies
<1> HIDE DEF b
<1>3. /\ s \in Seq(V) /\ Len(s) = Len(m.st) /\ \A i \in 1..n : s[off + i] = b[i]
      /\ \A i \in 1..Len(m.st) : i =< off \/ i > off + n => s[i] = m.st[i]
  <2>1. s = Splice(m.st, off, b)
    OBVIOUS
  <2> HIDE DEF s
  <2>2. off + Len(b) =< Len(m.st) /\ m.st \in Seq(V) /\ b \in Seq(V)
    BY <1>1, <1>2
  <2>3. /\ s \in Seq(V) /\ Len(s) = Len(m.st) /\ \A i \in 1..Len(b) : s[off + i] = b[i]
        /\ \A i \in 1..Len(m.st) : i =< off \/ i > off + Len(b) => s[i] = m.st[i]
    BY <2>1, <2>2, Spliced
  <2> QED BY <1>2, <2>3
<1> HIDE DEF s
<1>4. CASE Ok(d)
  <2>1. /\ x \in Accesses(V) /\ Same(x, d) /\ x.buf = d.buf /\ x.st = s /\ x.left = d.left
        /\ x.calls = d.calls /\ x.res = d.res
    BY <1>3, <1>4, SetSt
  <2> HIDE DEF x
  <2>2. Same(x, m) /\ EndedWell(x)
    BY <1>4, <2>1 DEF Same, EndedWell, Ok
  <2>3. \A i \in 1..n : x.st[off + i] = m.buf[lo + i]
    BY <1>2, <1>3, <2>1
  <2>4. Writes(V, x, m, off, lo, n, 1)
    BY <1>3, <2>1, <2>2, <2>3 DEF Writes
  <2> QED BY <2>4 DEF x, s, b
<1>5. CASE ~Ok(d)
  <2>1. x = d
    BY <1>5
  <2>2. Writes(V, d, m, off, lo, n, 1)
    BY <1>5 DEF Writes
  <2>3. Writes(V, x, m, off, lo, n, 1)
    BY <2>1, <2>2
  <2> QED BY <2>3 DEF x, s, b
<1> QED BY <1>4, <1>5

LEMMA WriteAll ==
    ASSUME NEW V, NEW m \in Accesses(V), Ok(m), Device(m), NEW off \in Nat, NEW lo \in Nat, NEW n \in Nat,
           is_aligned(off, m.bs), is_aligned(n, m.bs), is_aligned(m.at + lo, m.al),
           lo + n =< Len(m.buf), off + n =< Len(m.st)
    PROVE  Writes(V, write_aligned_all(m, off, lo, n), m, off, lo, n, 1)
<1> DEFINE d == device_call(m, "write")
<1>1. m.at + lo \in Nat /\ m.calls.read \in Nat /\ m.calls.write \in Nat
  BY Fields
<1>2. check_range(m, off, m.at + lo, n) = m
  BY <1>1, InRange DEF Device
<1>3. write_aligned_all(m, off, lo, n)
      = IF Ok(d) THEN [d EXCEPT !.st = Splice(d.st, off, Bytes(d.buf, lo, n))] ELSE d
  BY <1>2, Zenon DEF write_aligned_all, Then
<1>4. Called(V, d, m, "write")
  BY DeviceCall
<1> HIDE DEF d
<1>5. /\ d \in Accesses(V) /\ Same(d, m) /\ d.st = m.st /\ d.buf = m.buf /\ EndedWell(d)
      /\ d.calls["read"] = m.calls["read"] /\ d.calls["write"] =< m.calls["write"] + 1
  BY <1>4 DEF Called
<1>6. d.calls.read =< m.calls.read + 1
  BY <1>1, <1>5
<1>7. Writes(V, IF Ok(d) THEN [d EXCEPT !.st = Splice(d.st, off, Bytes(d.buf, lo, n))] ELSE d,
             m, off, lo, n, 1)
  BY <1>5, <1>6, WriteCall
<1> QED BY <1>3, <1>7

LEMMA ReadModifyWrite ==
    ASSUME NEW V, NEW m \in Accesses(V), Ok(m), Device(m), NEW off \in Nat, NEW skip \in Nat,
           NEW lo \in Nat, NEW n \in Nat, is_aligned(off, m.bs), skip + n =< m.bs,
           off < Len(m.st), lo + n =< Len(m.buf)
    PROVE  Writes(V, read_modify_write(m, off, skip, lo, n), m, off + skip, lo, n, 1)
<1> DEFINE e == device_call(m, "read")
           d == device_call(e, "write")
<1>1. /\ m.bs \in Nat \ {0} /\ m.nb \in Nat /\ m.al \in Nat \ {0}
      /\ m.calls.read \in Nat /\ m.calls.write \in Nat
  BY Fields
<1>2. off + m.bs =< m.bs * m.nb
  BY <1>1, BlockFits DEF Device
<1>3. is_aligned(m.bs, m.bs) /\ is_aligned(0, m.al)
  BY <1>1, Zero
<1>4. check_range(m, off, 0, m.bs) = m
  BY <1>1, <1>2, <1>3, InRange
<1>5. off + skip \in Nat /\ (off + skip) + n =< Len(m.st)
  <2>1. m.bs * m.nb \in Nat
    BY <1>1
  <2> QED BY <1>1, <1>2, <2>1 DEF Device
<1>6. read_modify_write(m, off, skip, lo, n)
      = IF Ok(d) THEN [d EXCEPT !.st = Splice(d.st, off + skip, Bytes(d.buf, lo, n))] ELSE d
  BY <1>4, Zenon DEF read_modify_write, Then
<1>7. Called(V, e, m, "read")
  BY DeviceCall
<1> HIDE DEF e
<1>8. /\ e \in Accesses(V) /\ Same(e, m) /\ e.st = m.st /\ e.buf = m.buf /\ EndedWell(e)
      /\ e.calls["read"] =< m.calls["read"] + 1 /\ e.calls["write"] = m.calls["write"]
  BY <1>7 DEF Called
<1>9. /\ d \in Accesses(V) /\ Same(d, m) /\ d.st = m.st /\ d.buf = m.buf /\ EndedWell(d)
      /\ d.calls["read"] =< m.calls["read"] + 1 /\ d.calls["write"] =< m.calls["write"] + 1
  <2>1. CASE Ok(e)
    <3>1. Called(V, d, e, "write")
      BY <1>8, <2>1, DeviceCall
    <3> HIDE DEF d
    <3>2. /\ d \in Accesses(V) /\ Same(d, e) /\ d.st = e.st /\ d.buf = e.buf /\ EndedWell(d)
          /\ d.calls["read"] = e.calls["read"] /\ d.calls["write"] =< e.calls["write"] + 1
      BY <3>1 DEF Called
    <3> QED BY <1>8, <3>2 DEF Same
  <2>2. CASE ~Ok(e)
    <3>1. d = e
      BY <2>2 DEF device_call, Then
    <3> HIDE DEF d
    <3>2. e.calls["write"] =< m.calls["write"] + 1
      BY <1>1, <1>8
    <3> QED BY <1>8, <3>1, <3>2
  <2> QED BY <2>1, <2>2
<1> HIDE DEF d
<1>10. Writes(V, IF Ok(d) THEN [d EXCEPT !.st = Splice(d.st, off + skip, Bytes(d.buf, lo, n))] ELSE d,
              m, off + skip, lo, n, 1)
  BY <1>5, <1>9, WriteCall
<1> QED BY <1>6, <1>10

LEMMA WriteAligned ==
    ASSUME NEW V, NEW m \in Accesses(V), Ok(m), Device(m), NEW off \in Nat, NEW lo \in Nat, NEW n \in Nat,
           is_aligned(off, m.bs), is_aligned(m.at + lo, m.al), lo + n =< Len(m.buf), off + n =< Len(m.st)
    PROVE  Writes(V, write_aligned_offset_and_buffer(m, off, lo, n), m, off, lo, n, 2)
<1> DEFINE w == RoundDown(n, m.bs)
           f == IF w > 0 THEN write_aligned_all(m, off, lo, w) ELSE m
           r == write_aligned_offset_and_buffer(m, off, lo, n)
<1>1. m.bs \in Nat \ {0} /\ Len(m.st) \in Nat /\ Len(m.buf) \in Nat
  BY Fields
<1>2. w \in Nat /\ w =< n /\ n < w + m.bs /\ is_aligned(w, m.bs)
  BY <1>1, Down
<1>3. r = IF ~Ok(f) \/ w = n THEN f ELSE read_modify_write(f, off + w, 0, lo + w, n - w)
  BY Zenon DEF write_aligned_offset_and_buffer, debug_assert, Then
<1> HIDE DEF w, r
<1>4. Writes(V, f, m, off, lo, w, 1)
  <2>1. CASE w > 0
    <3>1. lo + w =< Len(m.buf) /\ off + w =< Len(m.st)
      BY <1>1, <1>2
    <3>2. Writes(V, write_aligned_all(m, off, lo, w), m, off, lo, w, 1)
      BY <1>2, <3>1, WriteAll
    <3> QED BY <2>1, <3>2
  <2>2. CASE ~(w > 0)
    <3>1. w = 0 /\ f = m
      BY <1>2, <2>2
    <3>2. Writes(V, m, m, off, lo, 0, 1)
      BY WriteNone
    <3> QED BY <3>1, <3>2
  <2> QED BY <2>1, <2>2
<1> HIDE DEF f
<1>5. CASE ~Ok(f)
  <2>1. Writes(V, f, m, off, lo, n, 2)
    <3>1. off + 0 = off /\ lo + 0 = lo /\ 0 + w =< n /\ 1 =< 2
      BY <1>2
    <3>2. Writes(V, f, m, off + 0, lo + 0, w, 1)
      BY <1>4, <3>1
    <3> QED BY <1>2, <1>5, <3>1, <3>2, WriteCut
  <2> QED BY <1>3, <1>5, <2>1 DEF r
<1>6. CASE Ok(f) /\ w = n
  <2>1. Writes(V, f, m, off, lo, n, 1) /\ 1 =< 2
    BY <1>4, <1>6
  <2>2. Writes(V, f, m, off, lo, n, 2)
    BY <2>1, WriteGrow
  <2> QED BY <1>3, <1>6, <2>2 DEF r
<1>7. CASE Ok(f) /\ w # n
  <2> DEFINE y == read_modify_write(f, off + w, 0, lo + w, n - w)
  <2>1. f \in Accesses(V) /\ f.bs = m.bs /\ Len(f.st) = Len(m.st) /\ f.buf = m.buf /\ Device(f)
    BY <1>4, WritesTypes DEF Same
  <2>2. /\ off + w \in Nat /\ lo + w \in Nat /\ n - w \in Nat /\ 0 + (n - w) =< f.bs
        /\ off + w < Len(f.st) /\ (lo + w) + (n - w) =< Len(f.buf)
    <3>1. off + w \in Nat /\ lo + w \in Nat /\ n - w \in Nat /\ 0 + (n - w) =< m.bs
      BY <1>1, <1>2
    <3>2. off + w < Len(m.st) /\ (lo + w) + (n - w) =< Len(m.buf)
      BY <1>1, <1>2, <1>7
    <3> QED BY <2>1, <3>1, <3>2
  <2>3. is_aligned(off + w, f.bs)
    BY <1>1, <1>2, <2>1, AlignedSum
  <2>4. Writes(V, y, f, (off + w) + 0, lo + w, n - w, 1)
    BY <1>7, <2>1, <2>2, <2>3, ReadModifyWrite
  <2> HIDE DEF y
  <2>5. Writes(V, y, f, off + w, lo + w, n - w, 1)
    <3>1. (off + w) + 0 = off + w
      BY <2>2
    <3> QED BY <2>4, <3>1
  <2>6. off + w + (n - w) =< Len(m.st) /\ w + (n - w) = n /\ 1 + 1 = 2
    BY <1>1, <1>2
  <2>7. Writes(V, y, m, off, lo, w + (n - w), 1 + 1)
    BY <1>2, <1>4, <1>7, <2>2, <2>5, <2>6, WriteJoin
  <2>8. Writes(V, y, m, off, lo, n, 2)
    BY <2>6, <2>7
  <2> QED BY <1>3, <1>7, <2>8 DEF y, r
<1> QED BY <1>5, <1>6, <1>7

-----------------------------------------------------------------------------
(* Rotations of the caller's buffer.                                        *)
Turned(s, lo, a, p, b, q) == Splice(s, lo, Bytes(s, a, p) \o Bytes(s, b, q))

(* t is s with the p bytes from a on and the q bytes from b on put at lo.   *)
Glues(V, t, s, lo, a, p, b, q) ==
    /\ t \in Seq(V) /\ Len(t) = Len(s)
    /\ \A k, j \in 1..Len(s) : lo < k /\ k =< lo + p /\ j + lo = k + a => t[k] = s[j]
    /\ \A k, j \in 1..Len(s) : lo + p < k /\ k =< lo + p + q /\ j + lo + p = k + b => t[k] = s[j]
    /\ \A k \in 1..Len(s) : k =< lo \/ k > lo + p + q => t[k] = s[k]

LEMMA Glued ==
    ASSUME NEW V, NEW s \in Seq(V), NEW a \in Nat, NEW p \in Nat, NEW b \in Nat, NEW q \in Nat, NEW lo \in Nat,
           a + p =< Len(s), b + q =< Len(s), lo + p + q =< Len(s),
           NEW t, t = Turned(s, lo, a, p, b, q)
    PROVE  Glues(V, t, s, lo, a, p, b, q)
<1> DEFINE x == Bytes(s, a, p)
           y == Bytes(s, b, q)
           g == x \o y
<1>0. Len(s) \in Nat
  OBVIOUS
<1>1. x \in Seq(V) /\ Len(x) = p /\ \A i \in 1..p : x[i] = s[a + i]
  <2>1. Copies(V, x, s, a, p)
    BY BytesCopied
  <2> QED BY <2>1, Zenon DEF Copies
<1>2. y \in Seq(V) /\ Len(y) = q /\ \A i \in 1..q : y[i] = s[b + i]
  <2>1. Copies(V, y, s, b, q)
    BY BytesCopied
  <2> QED BY <2>1, Zenon DEF Copies
<1> HIDE DEF x, y
<1>3. /\ g \in Seq(V) /\ Len(g) = p + q
      /\ \A i \in 1..(p + q) : g[i] = IF i =< p THEN x[i] ELSE y[i - p]
  <2>1. x \in Seq(V) /\ y \in Seq(V) /\ Len(x) = p /\ Len(y) = q
    BY <1>1, <1>2
  <2> QED BY <2>1, ConcatProperties, ZenonT(40)
<1> HIDE DEF g
<1>4. ASSUME NEW i \in 1..p PROVE g[i] = x[i]
  <2>1. i \in 1..(p + q) /\ i =< p
    OBVIOUS
  <2> QED BY <1>3, <2>1
<1>5. ASSUME NEW i \in 1..q PROVE g[p + i] = y[i]
  <2>1. p + i \in 1..(p + q) /\ ~(p + i =< p) /\ (p + i) - p = i
    OBVIOUS
  <2> QED BY <1>3, <2>1
<1>6. lo + Len(g) =< Len(s)
  BY <1>0, <1>3
<1>7. /\ t \in Seq(V) /\ Len(t) = Len(s) /\ \A i \in 1..Len(g) : t[lo + i] = g[i]
      /\ \A i \in 1..Len(s) : i =< lo \/ i > lo + Len(g) => t[i] = s[i]
  <2>1. t = Splice(s, lo, g)
    BY DEF Turned, g, x, y
  <2>2. g \in Seq(V)
    BY <1>3
  <2> QED BY <1>6, <2>1, <2>2, Spliced
<1>8. ASSUME NEW k \in 1..Len(s), NEW j \in 1..Len(s), lo < k, k =< lo + p, j + lo = k + a PROVE t[k] = s[j]
  <2>1. k - lo \in 1..p /\ k - lo \in 1..Len(g) /\ lo + (k - lo) = k
    BY <1>0, <1>3, <1>8
  <2>2. t[lo + (k - lo)] = g[k - lo]
    BY <1>7, <2>1
  <2>3. g[k - lo] = s[a + (k - lo)]
    BY <1>1, <1>4, <2>1
  <2>4. a + (k - lo) = j
    BY <1>8
  <2> QED BY <2>1, <2>2, <2>3, <2>4
<1>9. ASSUME NEW k \in 1..Len(s), NEW j \in 1..Len(s), lo + p < k, k =< lo + p + q, j + lo + p = k + b
      PROVE  t[k] = s[j]
  <2>1. k - (lo + p) \in 1..q /\ p + (k - (lo + p)) \in 1..Len(g) /\ lo + (p + (k - (lo + p))) = k
    BY <1>0, <1>3, <1>9
  <2>2. t[lo + (p + (k - (lo + p)))] = g[p + (k - (lo + p))]
    BY <1>7, <2>1
  <2>3. g[p + (k - (lo + p))] = s[b + (k - (lo + p))]
    BY <1>2, <1>5, <2>1
  <2>4. b + (k - (lo + p)) = j
    BY <1>9
  <2> QED BY <2>1, <2>2, <2>3, <2>4
<1>10. ASSUME NEW k \in 1..Len(s), k =< lo \/ k > lo + p + q PROVE t[k] = s[k]
  <2>1. k =< lo \/ k > lo + Len(g)
    BY <1>3, <1>10
  <2> QED BY <1>7, <2>1
<1> QED BY <1>7, <1>8, <1>9, <1>10 DEF Glues

LEMMA RotatedBack ==
    ASSUME NEW V, NEW s \in Seq(V), NEW lo \in Nat, NEW p \in Nat, NEW q \in Nat, lo + p + q =< Len(s),
           NEW t, t = Turned(s, lo, lo + q, p, lo, q), NEW u, u = Turned(t, lo, lo + p, q, lo, p)
    PROVE  Glues(V, t, s, lo, lo + q, p, lo, q) /\ u = s
<1>0. Len(s) \in Nat
  OBVIOUS
<1>1. (lo + q) + p =< Len(s) /\ lo + q =< Len(s) /\ lo + q \in Nat
  BY <1>0
<1>2. Glues(V, t, s, lo, lo + q, p, lo, q)
  BY <1>1, Glued
<1>3. /\ t \in Seq(V) /\ Len(t) = Len(s)
      /\ \A k, j \in 1..Len(s) : lo < k /\ k =< lo + p /\ j + lo = k + (lo + q) => t[k] = s[j]
  BY <1>2 DEF Glues
<1>4. \A k, j \in 1..Len(s) : lo + p < k /\ k =< lo + p + q /\ j + lo + p = k + lo => t[k] = s[j]
  BY <1>2 DEF Glues
<1>5. \A k \in 1..Len(s) : k =< lo \/ k > lo + p + q => t[k] = s[k]
  BY <1>2 DEF Glues
<1>6. (lo + p) + q =< Len(t) /\ lo + p =< Len(t) /\ lo + q + p =< Len(t) /\ lo + p \in Nat
  BY <1>0, <1>3
<1>7. Glues(V, u, t, lo, lo + p, q, lo, p)
  BY <1>3, <1>6, Glued
<1>8. /\ u \in Seq(V) /\ Len(u) = Len(t)
      /\ \A k, j \in 1..Len(t) : lo < k /\ k =< lo + q /\ j + lo = k + (lo + p) => u[k] = t[j]
  BY <1>7 DEF Glues
<1>9. \A k, j \in 1..Len(t) : lo + q < k /\ k =< lo + q + p /\ j + lo + q = k + lo => u[k] = t[j]
  BY <1>7 DEF Glues
<1>10. \A k \in 1..Len(t) : k =< lo \/ k > lo + q + p => u[k] = t[k]
  BY <1>7 DEF Glues
<1>11. ASSUME NEW k \in 1..Len(s) PROVE u[k] = s[k]
  <2>1. CASE k =< lo \/ k > lo + p + q
    BY <1>3, <1>5, <1>10, <2>1
  <2>2. CASE k > lo /\ k =< lo + q
    <3>1. k + p \in 1..Len(s) /\ (k + p) + lo = k + (lo + p) /\ lo + p < k + p /\ k + p =< lo + p + q
      BY <1>0, <2>2
    <3>2. u[k] = t[k + p]
      BY <1>3, <1>8, <2>2, <3>1
    <3>3. t[k + p] = s[k]
      <4>1. k + lo + p = (k + p) + lo
        OBVIOUS
      <4> QED BY <1>4, <3>1, <4>1
    <3> QED BY <3>2, <3>3
  <2>3. CASE k > lo + q /\ k =< lo + p + q
    <3>1. k - q \in 1..Len(s) /\ (k - q) + lo + q = k + lo /\ lo < k - q /\ k - q =< lo + p
      BY <1>0, <2>3
    <3>2. u[k] = t[k - q]
      BY <1>3, <1>9, <2>3, <3>1
    <3>3. t[k - q] = s[k]
      <4>1. k + lo = (k - q) + (lo + q)
        OBVIOUS
      <4> QED BY <1>3, <3>1, <4>1
    <3> QED BY <3>2, <3>3
  <2>4. (k =< lo \/ k > lo + p + q) \/ (k > lo /\ k =< lo + q) \/ (k > lo + q /\ k =< lo + p + q)
    BY <1>0
  <2> QED BY <2>1, <2>2, <2>3, <2>4
<1>12. u = s
  BY <1>3, <1>8, <1>11, SeqEqual
<1> QED BY <1>2, <1>12

(* A misaligned tail, written from the front of the buffer.                 *)
LEMMA WriteTurned ==
    ASSUME NEW V, NEW m \in Accesses(V), Ok(m), Device(m), NEW off \in Nat, NEW lo \in Nat, NEW n \in Nat,
           NEW rel \in Nat, rel =< n, is_aligned(off + rel, m.bs), is_aligned(m.at + lo, m.al),
           lo + n =< Len(m.buf), off + n =< Len(m.st)
    PROVE  Writes(V, rotate_right(write_aligned_offset_and_buffer(rotate_left(m, lo, n, rel),
                                      off + rel, lo, n - rel), lo, n, rel),
                  m, off + rel, lo + rel, n - rel, 2)
<1> DEFINE s == Turned(m.buf, lo, lo + rel, n - rel, lo, rel)
           x == rotate_left(m, lo, n, rel)
           y == write_aligned_offset_and_buffer(x, off + rel, lo, n - rel)
           z == rotate_right(y, lo, n, rel)
           o == off + rel
           p == n - rel
<1>0. /\ m.buf \in Seq(V) /\ Len(m.buf) \in Nat /\ Len(m.st) \in Nat /\ o \in Nat /\ p \in Nat
      /\ lo + p =< Len(m.buf) /\ o + p =< Len(m.st) /\ lo + rel \in Nat
  <2>1. m.buf \in Seq(V) /\ Len(m.buf) \in Nat /\ Len(m.st) \in Nat
    BY Fields
  <2>2. o \in Nat /\ p \in Nat /\ lo + rel \in Nat
    OBVIOUS
  <2>3. lo + p =< Len(m.buf)
    BY <2>1
  <2>4. o + p =< Len(m.st)
    BY <2>1
  <2> QED BY <2>1, <2>2, <2>3, <2>4
<1>1. /\ s \in Seq(V) /\ Len(s) = Len(m.buf)
      /\ \A k, j \in 1..Len(m.buf) : lo < k /\ k =< lo + (n - rel) /\ j + lo = k + (lo + rel) => s[k] = m.buf[j]
      /\ Turned(s, lo, lo + (n - rel), rel, lo, n - rel) = m.buf
  <2>1. m.buf \in Seq(V) /\ s = Turned(m.buf, lo, lo + rel, n - rel, lo, rel)
    BY <1>0
  <2>2. n - rel \in Nat /\ lo + (n - rel) + rel =< Len(m.buf)
    BY <1>0
  <2> DEFINE u == Turned(s, lo, lo + (n - rel), rel, lo, n - rel)
  <2>3. u = Turned(s, lo, lo + (n - rel), rel, lo, n - rel)
    OBVIOUS
  <2> HIDE DEF s, x, y, z, o, p, u
  <2>4. Glues(V, s, m.buf, lo, lo + rel, n - rel, lo, rel) /\ u = m.buf
    BY <2>1, <2>2, <2>3, RotatedBack
  <2> QED BY <2>3, <2>4 DEF Glues
<1>2. x = [m EXCEPT !.buf = s]
  BY DEF rotate_left, Turned
<1>3. z = [y EXCEPT !.buf = Turned(y.buf, lo, lo + (n - rel), rel, lo, n - rel)]
  <2>1. lo + n - rel = lo + (n - rel)
    OBVIOUS
  <2> QED BY <2>1 DEF rotate_right, Turned
<1> HIDE DEF s, x
<1>4. /\ x \in Accesses(V) /\ Same(x, m) /\ x.st = m.st /\ x.buf = s /\ x.left = m.left
      /\ x.calls = m.calls /\ x.res = m.res
  BY <1>1, <1>2, SetBuf
<1>5. Writes(V, y, x, o, lo, p, 2)
  <2>1. Ok(x) /\ Device(x)
    BY <1>4 DEF Ok, Device, Same
  <2>2. /\ is_aligned(o, x.bs) /\ is_aligned(x.at + lo, x.al)
        /\ lo + p =< Len(x.buf) /\ o + p =< Len(x.st)
    BY <1>0, <1>1, <1>4 DEF Same
  <2>3. y = write_aligned_offset_and_buffer(x, o, lo, p)
    OBVIOUS
  <2> HIDE DEF y, o, p
  <2> QED BY <1>0, <1>4, <2>1, <2>2, <2>3, WriteAligned
<1> HIDE DEF y, z
<1>6. y \in Accesses(V) /\ Same(y, x) /\ y.buf = s /\ Len(y.st) = Len(m.st) /\ EndedWell(y)
  BY <1>4, <1>5 DEF Writes
<1>7. z = [y EXCEPT !.buf = m.buf]
  BY <1>1, <1>3, <1>6
<1>8. /\ z \in Accesses(V) /\ Same(z, y) /\ z.st = y.st /\ z.buf = m.buf /\ z.left = y.left
      /\ z.calls = y.calls /\ z.res = y.res
  <2>1. y \in Accesses(V) /\ m.buf \in Seq(V)
    BY <1>0, <1>6
  <2> QED BY <1>7, <2>1, SetBuf
<1>9. Same(z, m) /\ EndedWell(z) /\ (Ok(z) <=> Ok(y))
  BY <1>4, <1>6, <1>8 DEF Same, EndedWell, Ok
<1>10. z.calls.read =< m.calls.read + 2 /\ z.calls.write =< m.calls.write + 2
  BY <1>4, <1>5, <1>8 DEF Writes
<1> HIDE DEF o
<1>11. \A i \in 1..Len(m.st) : i =< o \/ i > o + p => z.st[i] = m.st[i]
  BY <1>4, <1>5, <1>8 DEF Writes
<1>12. ASSUME NEW i \in 1..p
       PROVE  z.st[o + i] = m.buf[(lo + rel) + i] \/ (~Ok(z) /\ z.st[o + i] = m.st[o + i])
  <2>1. y.st[o + i] = x.buf[lo + i] \/ (~Ok(y) /\ y.st[o + i] = x.st[o + i])
    BY <1>5 DEF Writes
  <2>2. x.buf[lo + i] = m.buf[(lo + rel) + i]
    <3>1. lo + i \in 1..Len(m.buf) /\ lo < lo + i /\ lo + i =< lo + (n - rel) /\ ((lo + rel) + i) + lo = (lo + i) + (lo + rel)
          /\ (lo + rel) + i \in 1..Len(m.buf)
      BY <1>0
    <3>2. s[lo + i] = m.buf[(lo + rel) + i]
      BY <1>1, <3>1
    <3> QED BY <1>4, <3>2
  <2> QED BY <1>4, <1>8, <1>9, <2>1, <2>2
<1> HIDE DEF p
<1>13. Writes(V, z, m, o, lo + rel, p, 2)
  BY <1>6, <1>8, <1>9, <1>10, <1>11, <1>12 DEF Writes
<1> QED BY <1>13 DEF z, y, x, o, p

LEMMA WriteBuffer ==
    ASSUME NEW V, NEW m \in Accesses(V), Ok(m), Device(m), NEW off \in Nat, NEW lo \in Nat, NEW n \in Nat,
           is_aligned(m.at + lo, m.al), lo + n =< Len(m.buf), off + n =< Len(m.st)
    PROVE  Writes(V, write_aligned_buffer(m, off, lo, n), m, off, lo, n, 3)
<1>0. m.bs \in Nat \ {0} /\ Len(m.st) \in Nat /\ Len(m.buf) \in Nat /\ m.at \in Nat /\ m.al \in Nat \ {0}
  BY Fields
<1>1. CASE is_aligned(off, m.bs)
  <2>1. write_aligned_buffer(m, off, lo, n) = write_aligned_offset_and_buffer(m, off, lo, n)
    BY <1>1, Zenon DEF write_aligned_buffer, debug_assert
  <2>2. Writes(V, write_aligned_offset_and_buffer(m, off, lo, n), m, off, lo, n, 2) /\ 2 =< 3
    BY <1>1, WriteAligned
  <2>3. Writes(V, write_aligned_offset_and_buffer(m, off, lo, n), m, off, lo, n, 3)
    BY <2>2, WriteGrow
  <2> QED BY <2>1, <2>3
<1>2. CASE ~is_aligned(off, m.bs)
  <2> DEFINE rel == Min({RoundUp(off, m.bs), off + n}) - off
             d == RoundDown(off, m.bs)
             q == off % m.bs
             direct == write_aligned_offset_and_buffer(m, off + rel, lo + rel, n - rel)
             turned == rotate_right(write_aligned_offset_and_buffer(rotate_left(m, lo, n, rel),
                                        off + rel, lo, n - rel), lo, n, rel)
             t == write_tail(m, off, lo, n, rel)
             r == write_aligned_buffer(m, off, lo, n)
  <2>1. /\ rel \in Nat /\ rel =< n /\ (rel < n => is_aligned(off + rel, m.bs))
        /\ d \in Nat /\ is_aligned(d, m.bs) /\ d < off /\ q \in Nat /\ d + q = off /\ q + rel =< m.bs
    BY <1>0, <1>2, Boundary
  <2>2. r = IF Ok(t) THEN read_modify_write(t, d, q, lo, rel) ELSE t
    BY <1>2, Zenon DEF write_aligned_buffer, debug_assert, Then
  <2> HIDE DEF rel, d, q, r
  <2>3. off + rel \in Nat /\ lo + rel \in Nat /\ n - rel \in Nat /\ rel + (n - rel) = n
        /\ (off + rel) + (n - rel) =< Len(m.st) /\ (lo + rel) + (n - rel) =< Len(m.buf)
        /\ lo + (n - rel) =< Len(m.buf) /\ lo + rel =< Len(m.buf) /\ off =< Len(m.st)
    <3>1. rel \in Nat /\ rel =< n
      BY <2>1
    <3>2. Remains(off, lo, n, rel, Len(m.st), Len(m.buf))
      BY <1>0, <3>1, Rest
    <3> QED BY <3>2, Zenon DEF Remains
  <2>4. Writes(V, t, m, off + rel, lo + rel, n - rel, 2)
    <3>1. CASE rel >= n
      <4>1. t = m /\ n - rel = 0
        BY <2>1, <3>1 DEF write_tail
      <4>2. Writes(V, m, m, off + rel, lo + rel, 0, 2)
        BY <2>3, WriteNone
      <4> QED BY <4>1, <4>2
    <3>2. CASE ~(rel >= n) /\ is_aligned(m.at + lo + rel, m.al)
      <4>1. is_aligned(off + rel, m.bs)
        BY <2>1, <3>2
      <4>2. is_aligned(m.at + (lo + rel), m.al)
        <5>1. m.at + (lo + rel) = m.at + lo + rel
          BY <1>0, <2>1
        <5> QED BY <3>2, <5>1
      <4>3. Writes(V, direct, m, off + rel, lo + rel, n - rel, 2)
        BY <2>3, <4>1, <4>2, WriteAligned
      <4>4. t = direct
        BY <3>2 DEF write_tail, direct
      <4> HIDE DEF t, direct
      <4> QED BY <4>3, <4>4
    <3>3. CASE ~(rel >= n) /\ ~is_aligned(m.at + lo + rel, m.al)
      <4>1. is_aligned(off + rel, m.bs)
        BY <2>1, <3>3
      <4>2. Writes(V, turned, m, off + rel, lo + rel, n - rel, 2)
        BY <2>1, <4>1, WriteTurned
      <4>3. t = turned
        BY <3>3 DEF write_tail, turned
      <4> HIDE DEF t, turned
      <4> QED BY <4>2, <4>3
    <3> QED BY <3>1, <3>2, <3>3
  <2> HIDE DEF t
  <2>5. CASE ~Ok(t)
    <3>1. rel + (n - rel) =< n /\ 2 =< 3
      BY <2>1
    <3>2. Writes(V, t, m, off, lo, n, 3)
      BY <2>1, <2>3, <2>4, <2>5, <3>1, WriteCut
    <3>3. r = t
      BY <2>2, <2>5
    <3> QED BY <3>2, <3>3 DEF r
  <2>6. CASE Ok(t)
    <3>1. t \in Accesses(V) /\ t.bs = m.bs /\ t.buf = m.buf /\ Len(t.st) = Len(m.st) /\ Device(t)
      BY <2>4, WritesTypes DEF Same
    <3>2. d < Len(t.st) /\ lo + rel =< Len(t.buf) /\ is_aligned(d, t.bs) /\ q + rel =< t.bs
      <4>1. d < Len(m.st)
        <5>1. d \in Nat /\ d < off /\ Len(m.st) \in Nat
          BY <1>0, <2>1
        <5> QED BY <5>1
      <4>2. lo + rel =< Len(m.buf)
        <5>1. rel \in Nat /\ rel =< n /\ Len(m.buf) \in Nat
          BY <1>0, <2>1
        <5> QED BY <5>1
      <4> QED BY <2>1, <3>1, <4>1, <4>2
    <3> DEFINE y == read_modify_write(t, d, q, lo, rel)
    <3>3. Writes(V, y, t, d + q, lo, rel, 1)
      BY <2>1, <2>6, <3>1, <3>2, ReadModifyWrite
    <3> HIDE DEF y
    <3>4. Writes(V, y, t, off, lo, rel, 1)
      BY <2>1, <3>3
    <3>5. Writes(V, y, m, off, lo, rel + (n - rel), 1 + 2)
      BY <2>1, <2>3, <2>4, <2>6, <3>4, WriteJoin
    <3>6. Writes(V, y, m, off, lo, n, 3)
      BY <2>3, <3>5
    <3>7. r = y
      BY <2>2, <2>6 DEF y
    <3> QED BY <3>6, <3>7 DEF r
  <2> QED BY <2>5, <2>6
<1> QED BY <1>1, <1>2

LEMMA WriteHead ==
    ASSUME NEW V, NEW m \in Accesses(V), Ok(m), Device(m), NEW off \in Nat, NEW h \in Nat,
           h =< Len(m.buf), off + h =< Len(m.st)
    PROVE  LET y == write_aligned_buffer([m EXCEPT !.at = 0, !.buf = Bytes(m.buf, 0, h)], off, 0, h)
           IN  Writes(V, [y EXCEPT !.at = m.at, !.buf = m.buf], m, off, 0, h, 3)
<1> DEFINE b == Bytes(m.buf, 0, h)
           i == [m EXCEPT !.at = 0, !.buf = b]
           y == write_aligned_buffer(i, off, 0, h)
           z == [y EXCEPT !.at = m.at, !.buf = m.buf]
<1>0. m.buf \in Seq(V) /\ Len(m.buf) \in Nat /\ m.at \in Nat /\ m.al \in Nat \ {0}
  BY Fields
<1>1. b \in Seq(V) /\ Len(b) = h /\ \A j \in 1..h : b[j] = m.buf[0 + j]
  <2>1. 0 + h =< Len(m.buf)
    BY <1>0
  <2>2. Copies(V, Bytes(m.buf, 0, h), m.buf, 0, h)
    <3> HIDE DEF b, i, y, z
    <3> QED BY <1>0, <2>1, BytesCopied
  <2> QED BY <2>2, Zenon DEF Copies
<1> HIDE DEF b
<1>2. /\ i \in Accesses(V) /\ i.bs = m.bs /\ i.nb = m.nb /\ i.al = m.al /\ i.at = 0
      /\ i.st = m.st /\ i.buf = b /\ i.left = m.left /\ i.calls = m.calls /\ i.res = m.res
  BY <1>1 DEF Accesses
<1> HIDE DEF i
<1>3. Writes(V, y, i, off, 0, h, 3)
  <2>1. Ok(i) /\ Device(i) /\ 0 + h =< Len(i.buf) /\ off + h =< Len(i.st)
    BY <1>1, <1>2 DEF Ok, Device
  <2>2. is_aligned(i.at + 0, i.al)
    <3>1. is_aligned(0, m.al) /\ i.at + 0 = 0
      BY <1>0, <1>2, Zero
    <3> QED BY <1>2, <3>1
  <2> QED BY <1>2, <2>1, <2>2, WriteBuffer
<1> HIDE DEF y
<1>4. /\ y \in Accesses(V) /\ y.bs = m.bs /\ y.nb = m.nb /\ y.al = m.al /\ Len(y.st) = Len(m.st)
      /\ EndedWell(y) /\ y.calls.read =< m.calls.read + 3 /\ y.calls.write =< m.calls.write + 3
      /\ \A j \in 1..Len(m.st) : j =< off \/ j > off + h => y.st[j] = m.st[j]
  BY <1>1, <1>2, <1>3 DEF Writes, Same
<1>5. /\ z \in Accesses(V) /\ z.bs = y.bs /\ z.nb = y.nb /\ z.al = y.al /\ z.at = m.at
      /\ z.st = y.st /\ z.buf = m.buf /\ z.left = y.left /\ z.calls = y.calls /\ z.res = y.res
  <2>1. y \in Accesses(V) /\ m.buf \in Seq(V) /\ m.at \in Nat
    BY <1>0, <1>4
  <2> QED BY <2>1 DEF Accesses
<1> HIDE DEF z
<1>6. Same(z, m) /\ EndedWell(z) /\ (Ok(z) <=> Ok(y))
  BY <1>4, <1>5 DEF Same, EndedWell, Ok
<1>7. ASSUME NEW j \in 1..h
      PROVE  z.st[off + j] = m.buf[0 + j] \/ (~Ok(z) /\ z.st[off + j] = m.st[off + j])
  <2>1. y.st[off + j] = i.buf[0 + j] \/ (~Ok(y) /\ y.st[off + j] = i.st[off + j])
    BY <1>3 DEF Writes
  <2>2. i.buf[0 + j] = m.buf[0 + j]
    BY <1>1, <1>2
  <2> QED BY <1>2, <1>5, <1>6, <2>1, <2>2
<1>8. Writes(V, z, m, off, 0, h, 3)
  BY <1>4, <1>5, <1>6, <1>7 DEF Writes
<1> QED BY <1>8 DEF z, y, i, b

LEMMA WriteAsync ==
    ASSUME NEW V, NEW m \in Accesses(V), Ok(m), Device(m), NEW off \in Nat, NEW scratch \in Nat,
           ~ScratchShort(m, scratch), off + Len(m.buf) =< Len(m.st)
    PROVE  Writes(V, write_async(m, off, scratch), m, off, 0, Len(m.buf), 6)
<1> DEFINE n == Len(m.buf)
           h == Min({RoundUp(m.at, m.al) - m.at, n})
           i == write_aligned_buffer([m EXCEPT !.at = 0, !.buf = Bytes(m.buf, 0, h)], off, 0, h)
           y == [i EXCEPT !.at = m.at, !.buf = m.buf]
           r == write_async(m, off, scratch)
<1>0. n \in Nat /\ m.at \in Nat /\ m.al \in Nat \ {0} /\ Len(m.st) \in Nat
  BY Fields
<1>1. split_scratch(m, scratch, scratch_size(m)) = m
  BY ScratchSplit
<1>2. CASE is_aligned(m.at, m.al)
  <2> DEFINE x == write_aligned_buffer(m, off, 0, n)
  <2>1. r = x
    BY <1>1, <1>2, Zenon DEF write_async, Then
  <2>2. is_aligned(m.at + 0, m.al) /\ 0 + n =< Len(m.buf)
    BY <1>0, <1>2
  <2> HIDE DEF n
  <2>3. Writes(V, x, m, off, 0, n, 3) /\ 3 =< 6
    BY <1>0, <2>2, WriteBuffer DEF n
  <2> HIDE DEF x
  <2>4. Writes(V, x, m, off, 0, n, 6)
    BY <1>0, <2>3, WriteGrow
  <2> QED BY <2>1, <2>4 DEF n
<1>3. CASE ~is_aligned(m.at, m.al)
  <2> DEFINE x == write_aligned_buffer(y, off + h, h, n - h)
  <2>1. r = IF ~Ok(y) \/ h = n THEN y ELSE x
    BY <1>1, <1>3, Zenon DEF write_async, Then
  <2>2. h \in Nat /\ h =< n /\ (h # n => is_aligned(m.at + h, m.al))
    BY <1>0, AlignedHead
  <2>3. h =< Len(m.buf) /\ off + h =< Len(m.st)
    <3> HIDE DEF h
    <3> QED BY <1>0, <2>2
  <2> HIDE DEF h
  <2>4. Writes(V, y, m, off, 0, h, 3)
    BY <2>2, <2>3, WriteHead
  <2> HIDE DEF y, n
  <2>0. off + n =< Len(m.st)
    BY DEF n
  <2>5. CASE ~Ok(y)
    <3>1. Writes(V, y, m, off + 0, 0 + 0, h, 3)
      <4>1. off + 0 = off /\ 0 + 0 = 0
        OBVIOUS
      <4> QED BY <2>4, <4>1
    <3>2. 0 + h =< n /\ 3 =< 6
      BY <1>0, <2>2
    <3>3. Writes(V, y, m, off, 0, n, 6)
      BY <1>0, <2>0, <2>2, <2>5, <3>1, <3>2, WriteCut
    <3> QED BY <2>1, <2>5, <3>3 DEF n
  <2>6. CASE Ok(y) /\ h = n
    <3>1. Writes(V, y, m, off, 0, n, 3) /\ 3 =< 6
      BY <2>4, <2>6
    <3>2. Writes(V, y, m, off, 0, n, 6)
      BY <1>0, <3>1, WriteGrow
    <3> QED BY <2>1, <2>6, <3>2 DEF n
  <2>7. CASE Ok(y) /\ h # n
    <3>1. y \in Accesses(V) /\ Same(y, m) /\ Len(y.st) = Len(m.st) /\ Len(y.buf) = n /\ Device(y)
      BY <2>4, WritesTypes DEF n
    <3>2. /\ off + h \in Nat /\ n - h \in Nat /\ h + (n - h) =< Len(y.buf) /\ (off + h) + (n - h) =< Len(y.st)
          /\ 0 + h = h /\ h + (n - h) = n /\ off + h + (n - h) =< Len(m.st)
      <4>1. off + h \in Nat /\ n - h \in Nat /\ h + (n - h) = n /\ 0 + h = h
        BY <1>0, <2>2
      <4>2. (off + h) + (n - h) =< Len(m.st)
        BY <1>0, <2>0, <2>2
      <4>3. n =< n
        BY <1>0
      <4> QED BY <3>1, <4>1, <4>2, <4>3
    <3>3. is_aligned(y.at + h, y.al)
      BY <2>2, <2>7, <3>1 DEF Same
    <3>4. Writes(V, x, y, off + h, h, n - h, 3)
      BY <2>2, <2>7, <3>1, <3>2, <3>3, WriteBuffer
    <3> HIDE DEF x
    <3>5. Writes(V, x, y, off + h, 0 + h, n - h, 3)
      BY <3>2, <3>4
    <3>6. Writes(V, x, m, off, 0, h + (n - h), 3 + 3)
      BY <2>2, <2>4, <2>7, <3>2, <3>5, WriteJoin
    <3>7. Writes(V, x, m, off, 0, n, 6)
      BY <3>2, <3>6
    <3> QED BY <2>1, <2>7, <3>7 DEF n
  <2> QED BY <2>5, <2>6, <2>7
<1> QED BY <1>2, <1>3


-----------------------------------------------------------------------------
(* Partitions: a range of the device, and a window of it.                   *)
Extents == [start : Nat, end : Nat]

LEMMA PartRead ==
    ASSUME NEW V, NEW m \in Accesses(V), Ok(m), Device(m), NEW io \in Extents, NEW off \in Nat, NEW scratch \in Nat,
           ~ScratchShort(m, scratch), io.end =< Len(m.st)
    PROVE  IF io.start + off + Len(m.buf) =< io.end
           THEN Reads(V, part_read(m, io, off, scratch), m, io.start + off, 0, Len(m.buf), 0, Len(m.buf), 6)
           ELSE part_read(m, io, off, scratch) = Fail(m, "OutOfRange")
<1> DEFINE at == check_rw_range(io, off, Len(m.buf))
<1>0. io.start \in Nat /\ io.end \in Nat /\ Len(m.buf) \in Nat /\ Len(m.st) \in Nat
  BY Fields DEF Extents
<1>1. part_read(m, io, off, scratch) = IF at = None THEN Fail(m, "OutOfRange") ELSE read_async(m, at, scratch)
  BY Zenon DEF part_read, OrOutOfRange
<1>2. CASE io.start + off + Len(m.buf) =< io.end
  <2>1. ~(io.start + off + Len(m.buf) > io.end) /\ io.start + off \in Nat
    BY <1>0, <1>2
  <2>2. at = io.start + off /\ at # None
    BY <2>1, NoneAssumption DEF check_rw_range
  <2>3. part_read(m, io, off, scratch) = read_async(m, io.start + off, scratch)
    BY <1>1, <2>2
  <2>4. (io.start + off) + Len(m.buf) =< Len(m.st)
    BY <1>0, <1>2, SMTT(20)
  <2>5. Reads(V, read_async(m, io.start + off, scratch), m, io.start + off, 0, Len(m.buf), 0, Len(m.buf), 6)
    BY <2>1, <2>4, ReadAsync
  <2> QED BY <1>2, <2>3, <2>5
<1>3. CASE ~(io.start + off + Len(m.buf) =< io.end)
  <2>1. io.start + off + Len(m.buf) > io.end
    BY <1>0, <1>3
  <2>2. at = None
    BY <2>1 DEF check_rw_range
  <2> QED BY <1>1, <1>3, <2>2
<1> QED BY <1>2, <1>3

LEMMA PartWrite ==
    ASSUME NEW V, NEW m \in Accesses(V), Ok(m), Device(m), NEW io \in Extents, NEW off \in Nat, NEW scratch \in Nat,
           ~ScratchShort(m, scratch), io.end =< Len(m.st)
    PROVE  IF io.start + off + Len(m.buf) =< io.end
           THEN Writes(V, part_write(m, io, off, scratch), m, io.start + off, 0, Len(m.buf), 6)
           ELSE part_write(m, io, off, scratch) = Fail(m, "OutOfRange")
<1> DEFINE at == check_rw_range(io, off, Len(m.buf))
<1>0. io.start \in Nat /\ io.end \in Nat /\ Len(m.buf) \in Nat /\ Len(m.st) \in Nat
  BY Fields DEF Extents
<1>1. part_write(m, io, off, scratch) = IF at = None THEN Fail(m, "OutOfRange") ELSE write_async(m, at, scratch)
  BY Zenon DEF part_write, OrOutOfRange
<1>2. CASE io.start + off + Len(m.buf) =< io.end
  <2>1. ~(io.start + off + Len(m.buf) > io.end) /\ io.start + off \in Nat
    BY <1>0, <1>2
  <2>2. at = io.start + off /\ at # None
    BY <2>1, NoneAssumption DEF check_rw_range
  <2>3. part_write(m, io, off, scratch) = write_async(m, io.start + off, scratch)
    BY <1>1, <2>2
  <2>4. (io.start + off) + Len(m.buf) =< Len(m.st)
    BY <1>0, <1>2, SMTT(20)
  <2>5. Writes(V, write_async(m, io.start + off, scratch), m, io.start + off, 0, Len(m.buf), 6)
    BY <2>1, <2>4, WriteAsync
  <2> QED BY <1>2, <2>3, <2>5
<1>3. CASE ~(io.start + off + Len(m.buf) =< io.end)
  <2>1. io.start + off + Len(m.buf) > io.end
    BY <1>0, <1>3
  <2>2. at = None
    BY <2>1 DEF check_rw_range
  <2> QED BY <1>1, <1>3, <2>2
<1> QED BY <1>2, <1>3

(* What a window of a partition stands for.                                 *)
WindowOf(io, win) ==
    IF win = None THEN io ELSE [start |-> io.start + win[1], end |-> io.start + win[1] + win[2]]

LEMMA SubWindow ==
    ASSUME NEW io \in Extents, NEW a \in Nat, NEW z \in Nat
    PROVE  /\ io.start + a + z =< io.end => /\ sub(io, a, z) = [start |-> io.start + a, end |-> io.start + a + z]
                                            /\ sub(io, a, z) \in Extents /\ sub(io, a, z) # None
           /\ ~(io.start + a + z =< io.end) => sub(io, a, z) = None
<1>0. io.start \in Nat /\ io.end \in Nat
  BY DEF Extents
<1>1. CASE io.start + a + z =< io.end
  <2>1. ~(io.start + a + z > io.end) /\ io.start + a \in Nat /\ io.start + a + z \in Nat
    BY <1>0, <1>1
  <2>2. check_rw_range(io, a, z) # None
    BY <2>1, NoneAssumption DEF check_rw_range
  <2>3. sub(io, a, z) = [start |-> io.start + a, end |-> io.start + a + z]
    BY <2>2 DEF sub
  <2>4. [start |-> io.start + a, end |-> io.start + a + z] \in Extents
    BY <2>1 DEF Extents
  <2>5. sub(io, a, z) \in Extents
    BY <2>3, <2>4
  <2>6. sub(io, a, z) # None
    BY <2>5, NoneAssumption DEF Extents
  <2> QED BY <1>1, <2>3, <2>5, <2>6
<1>2. CASE ~(io.start + a + z =< io.end)
  <2>1. io.start + a + z > io.end
    BY <1>0, <1>2
  <2>2. check_rw_range(io, a, z) = None
    BY <2>1 DEF check_rw_range
  <2>3. sub(io, a, z) = None
    BY <2>2 DEF sub
  <2> QED BY <1>2, <2>3
<1> QED BY <1>1, <1>2

(* Where a name is found.                                                   *)
Holders(disks, part) == {i \in DOMAIN disks : part \in DOMAIN disks[i].parts}

ExtentOf(disk, part) == IF disk.table = "gpt" THEN disk.parts[part] ELSE [start |-> 0, end |-> disk.total]

Located(disks, part) ==
    \A i \in DOMAIN disks : part \in DOMAIN disks[i].parts => ExtentOf(disks[i], part) \in Extents

LEMMA Lookup ==
    ASSUME NEW disks, NEW part, part # None, Located(disks, part), NEW i \in DOMAIN disks
    PROVE  /\ find_partition(disks[i], part) # None <=> part \in DOMAIN disks[i].parts
           /\ part \in DOMAIN disks[i].parts => find_partition(disks[i], part) = ExtentOf(disks[i], part)
<1>1. CASE part \in DOMAIN disks[i].parts
  <2>1. find_partition(disks[i], part) = ExtentOf(disks[i], part)
    BY <1>1 DEF find_partition, absolute_range, ExtentOf
  <2>2. ExtentOf(disks[i], part) \in Extents
    BY <1>1 DEF Located
  <2>3. find_partition(disks[i], part) # None
    BY <2>1, <2>2, NoneAssumption DEF Extents
  <2> QED BY <1>1, <2>1, <2>3
<1>2. CASE part \notin DOMAIN disks[i].parts
  <2>1. find_partition(disks[i], part) = None
    BY <1>2 DEF find_partition
  <2> QED BY <1>2, <2>1
<1> QED BY <1>1, <1>2

LEMMA FoundSet ==
    ASSUME NEW disks, NEW part, part # None, Located(disks, part)
    PROVE  {i \in DOMAIN disks : find_partition(disks[i], part) # None} = Holders(disks, part)
  BY Lookup DEF Holders

LEMMA OneHolder ==
    ASSUME NEW disks, NEW part, part # None, Located(disks, part), NEW d, Holders(disks, part) = {d}
    PROVE  check_part_unique(disks, part) = "ok" /\ partition_io(disks, part) = ExtentOf(disks[d], part)
<1>1. {i \in DOMAIN disks : find_partition(disks[i], part) # None} = {d}
  BY FoundSet
<1>2. Cardinality({d}) = 1 /\ {d} # {}
  BY FS_Singleton
<1>3. ~(1 > 1)
  OBVIOUS
<1>4. check_part_unique(disks, part) = "ok"
  BY <1>1, <1>2, <1>3 DEF check_part_unique
<1>5. d \in DOMAIN disks /\ find_partition(disks[d], part) # None /\ part \in DOMAIN disks[d].parts
  BY <1>1 DEF Holders
<1>6. (CHOOSE i \in DOMAIN disks : find_partition(disks[i], part) # None) = d
  BY <1>1, <1>5
<1>7. partition_io(disks, part) = find_partition(disks[d], part)
  BY <1>6 DEF partition_io
<1>8. find_partition(disks[d], part) = ExtentOf(disks[d], part)
  BY <1>5, Lookup
<1> QED BY <1>4, <1>7, <1>8

LEMMA NoHolder ==
    ASSUME NEW disks, NEW part, part # None, Located(disks, part), Holders(disks, part) = {}
    PROVE  check_part_unique(disks, part) = "NotFound"
<1>1. {i \in DOMAIN disks : find_partition(disks[i], part) # None} = {}
  BY FoundSet
<1>2. ~(Cardinality({}) > 1)
  BY FS_EmptySet
<1> QED BY <1>1, <1>2, Zenon DEF check_part_unique

LEMMA ManyHolders ==
    ASSUME NEW disks, NEW part, part # None, Located(disks, part), Cardinality(Holders(disks, part)) > 1,
           Holders(disks, part) # {}
    PROVE  check_part_unique(disks, part) = "NotUnique"
<1>1. {i \in DOMAIN disks : find_partition(disks[i], part) # None} = Holders(disks, part)
  BY FoundSet
<1> QED BY <1>1, Zenon DEF check_part_unique

LEMMA ReadUnfolded ==
    ASSUME NEW m, NEW disks, NEW part, NEW win, NEW off, NEW scratch
    PROVE  read_unique_partition(m, disks, part, win, off, scratch) =
             IF check_part_unique(disks, part) # "ok" THEN Fail(m, check_part_unique(disks, part))
             ELSE IF win = None THEN part_read(m, partition_io(disks, part), off, scratch)
             ELSE IF sub(partition_io(disks, part), win[1], win[2]) = None THEN Fail(m, "OutOfRange")
             ELSE part_read(m, sub(partition_io(disks, part), win[1], win[2]), off, scratch)
  BY Zenon DEF read_unique_partition, Unique, Windowed

LEMMA WriteUnfolded ==
    ASSUME NEW m, NEW disks, NEW part, NEW win, NEW off, NEW scratch
    PROVE  write_unique_partition(m, disks, part, win, off, scratch) =
             IF check_part_unique(disks, part) # "ok" THEN Fail(m, check_part_unique(disks, part))
             ELSE IF win = None THEN part_write(m, partition_io(disks, part), off, scratch)
             ELSE IF sub(partition_io(disks, part), win[1], win[2]) = None THEN Fail(m, "OutOfRange")
             ELSE part_write(m, sub(partition_io(disks, part), win[1], win[2]), off, scratch)
  BY Zenon DEF write_unique_partition, Unique, Windowed

(* An access of n bytes at off stays in the window w of the partition io.   *)
Enclosed(io, w, off, n) == w.end =< io.end /\ w.start + off + n =< w.end

LEMMA WindowFits ==
    ASSUME NEW io \in Extents, NEW win, win = None \/ (win[1] \in Nat /\ win[2] \in Nat), NEW w, w = WindowOf(io, win)
    PROVE  /\ w \in Extents
           /\ win # None /\ w.end =< io.end => sub(io, win[1], win[2]) = w /\ w # None
           /\ win # None /\ ~(w.end =< io.end) => sub(io, win[1], win[2]) = None
           /\ win = None => w = io
<1>1. CASE win = None
  BY <1>1 DEF WindowOf
<1>2. CASE win # None
  <2>1. w = [start |-> io.start + win[1], end |-> io.start + win[1] + win[2]]
    BY <1>2 DEF WindowOf
  <2>2. win[1] \in Nat /\ win[2] \in Nat /\ io.start \in Nat
    BY <1>2 DEF Extents
  <2>3. w.end = io.start + win[1] + win[2]
    BY <2>1
  <2>4. w \in Extents
    <3>1. io.start + win[1] \in Nat /\ io.start + win[1] + win[2] \in Nat
      BY <2>2
    <3> QED BY <2>1, <3>1 DEF Extents
  <2>5. io.start + win[1] + win[2] =< io.end => sub(io, win[1], win[2]) = w /\ w # None
    <3>1. io.start + win[1] + win[2] =< io.end =>
            /\ sub(io, win[1], win[2]) = [start |-> io.start + win[1], end |-> io.start + win[1] + win[2]]
            /\ sub(io, win[1], win[2]) # None
      BY <2>2, SubWindow, Zenon
    <3> QED BY <2>1, <3>1
  <2>6. ~(io.start + win[1] + win[2] =< io.end) => sub(io, win[1], win[2]) = None
    BY <2>2, SubWindow
  <2> QED BY <1>2, <2>3, <2>4, <2>5, <2>6
<1> QED BY <1>1, <1>2

(* read_unique_partition(), for every device, buffer and window: a range    *)
(* that stays inside is read exactly, in at most six calls of the device    *)
(* and none that writes, or the device failed; any other is refused before  *)
(* the device is touched.                                                   *)
THEOREM ReadExact ==
    ASSUME NEW V, NEW m \in Accesses(V), Ok(m), Device(m), NEW disks, NEW part, part # None, Located(disks, part),
           NEW d, Holders(disks, part) = {d}, NEW io, io = ExtentOf(disks[d], part), io.end =< Len(m.st),
           NEW win, win = None \/ (win[1] \in Nat /\ win[2] \in Nat), NEW w, w = WindowOf(io, win),
           NEW off \in Nat, NEW scratch \in Nat, ~ScratchShort(m, scratch),
           NEW r, r = read_unique_partition(m, disks, part, win, off, scratch)
    PROVE  IF Enclosed(io, w, off, Len(m.buf))
           THEN Reads(V, r, m, w.start + off, 0, Len(m.buf), 0, Len(m.buf), 6)
           ELSE r = Fail(m, "OutOfRange")
<1>1. check_part_unique(disks, part) = "ok" /\ partition_io(disks, part) = io
  BY OneHolder
<1>2. io \in Extents
  <2>1. d \in DOMAIN disks /\ part \in DOMAIN disks[d].parts
    BY DEF Holders
  <2> QED BY <2>1 DEF Located
<1>3. r = IF win = None THEN part_read(m, io, off, scratch)
          ELSE IF sub(io, win[1], win[2]) = None THEN Fail(m, "OutOfRange")
          ELSE part_read(m, sub(io, win[1], win[2]), off, scratch)
  BY <1>1, ReadUnfolded
<1>4. /\ w \in Extents
      /\ win # None /\ w.end =< io.end => sub(io, win[1], win[2]) = w /\ w # None
      /\ win # None /\ ~(w.end =< io.end) => sub(io, win[1], win[2]) = None
      /\ win = None => w = io
  BY <1>2, WindowFits
<1>5. io.end \in Nat /\ w.end \in Nat /\ Len(m.st) \in Nat
  BY <1>2, <1>4, Fields DEF Extents
<1>6. CASE w.end =< io.end
  <2>1. r = part_read(m, w, off, scratch)
    BY <1>3, <1>4, <1>6
  <2>2. w.end =< Len(m.st)
    BY <1>5, <1>6
  <2>3. IF w.start + off + Len(m.buf) =< w.end
        THEN Reads(V, part_read(m, w, off, scratch), m, w.start + off, 0, Len(m.buf), 0, Len(m.buf), 6)
        ELSE part_read(m, w, off, scratch) = Fail(m, "OutOfRange")
    BY <1>4, <2>2, PartRead
  <2> QED BY <1>6, <2>1, <2>3 DEF Enclosed
<1>7. CASE ~(w.end =< io.end)
  <2>1. win # None
    BY <1>4, <1>5, <1>7
  <2> QED BY <1>3, <1>4, <1>7, <2>1 DEF Enclosed
<1> QED BY <1>6, <1>7

(* write_unique_partition() likewise: on success exactly the range holds    *)
(* the buffer, after a failure of the device each byte of it is the old or  *)
(* the new one; no other byte changes, and the caller's buffer is as it was.*)
THEOREM WriteExact ==
    ASSUME NEW V, NEW m \in Accesses(V), Ok(m), Device(m), NEW disks, NEW part, part # None, Located(disks, part),
           NEW d, Holders(disks, part) = {d}, NEW io, io = ExtentOf(disks[d], part), io.end =< Len(m.st),
           NEW win, win = None \/ (win[1] \in Nat /\ win[2] \in Nat), NEW w, w = WindowOf(io, win),
           NEW off \in Nat, NEW scratch \in Nat, ~ScratchShort(m, scratch),
           NEW r, r = write_unique_partition(m, disks, part, win, off, scratch)
    PROVE  IF Enclosed(io, w, off, Len(m.buf))
           THEN Writes(V, r, m, w.start + off, 0, Len(m.buf), 6)
           ELSE r = Fail(m, "OutOfRange")
<1>1. check_part_unique(disks, part) = "ok" /\ partition_io(disks, part) = io
  BY OneHolder
<1>2. io \in Extents
  <2>1. d \in DOMAIN disks /\ part \in DOMAIN disks[d].parts
    BY DEF Holders
  <2> QED BY <2>1 DEF Located
<1>3. r = IF win = None THEN part_write(m, io, off, scratch)
          ELSE IF sub(io, win[1], win[2]) = None THEN Fail(m, "OutOfRange")
          ELSE part_write(m, sub(io, win[1], win[2]), off, scratch)
  BY <1>1, WriteUnfolded
<1>4. /\ w \in Extents
      /\ win # None /\ w.end =< io.end => sub(io, win[1], win[2]) = w /\ w # None
      /\ win # None /\ ~(w.end =< io.end) => sub(io, win[1], win[2]) = None
      /\ win = None => w = io
  BY <1>2, WindowFits
<1>5. io.end \in Nat /\ w.end \in Nat /\ Len(m.st) \in Nat
  BY <1>2, <1>4, Fields DEF Extents
<1>6. CASE w.end =< io.end
  <2>1. r = part_write(m, w, off, scratch)
    BY <1>3, <1>4, <1>6
  <2>2. w.end =< Len(m.st)
    BY <1>5, <1>6
  <2>3. IF w.start + off + Len(m.buf) =< w.end
        THEN Writes(V, part_write(m, w, off, scratch), m, w.start + off, 0, Len(m.buf), 6)
        ELSE part_write(m, w, off, scratch) = Fail(m, "OutOfRange")
    BY <1>4, <2>2, PartWrite
  <2> QED BY <1>6, <2>1, <2>3 DEF Enclosed
<1>7. CASE ~(w.end =< io.end)
  <2>1. win # None
    BY <1>4, <1>5, <1>7
  <2> QED BY <1>3, <1>4, <1>7, <2>1 DEF Enclosed
<1> QED BY <1>6, <1>7

(* A partition no disk has, or more than one.                               *)
THEOREM NotOnOneDisk ==
    ASSUME NEW m, NEW disks, NEW part, part # None, Located(disks, part), IsFiniteSet(Holders(disks, part)),
           Cardinality(Holders(disks, part)) # 1, NEW win, NEW off, NEW scratch,
           NEW e, e = IF Holders(disks, part) = {} THEN "NotFound" ELSE "NotUnique"
    PROVE  /\ read_unique_partition(m, disks, part, win, off, scratch) = Fail(m, e)
           /\ write_unique_partition(m, disks, part, win, off, scratch) = Fail(m, e)
<1>1. check_part_unique(disks, part) = e
  <2>1. CASE Holders(disks, part) = {}
    BY <2>1, NoHolder
  <2>2. CASE Holders(disks, part) # {}
    <3>1. Cardinality(Holders(disks, part)) \in Nat /\ Cardinality(Holders(disks, part)) # 0
      BY <2>2, FS_CardinalityType, FS_EmptySet
    <3>2. Cardinality(Holders(disks, part)) > 1
      BY <3>1
    <3> QED BY <2>2, <3>2, ManyHolders
  <2> QED BY <2>1, <2>2
<1>2. e # "ok"
  OBVIOUS
<1> QED BY <1>1, <1>2, ReadUnfolded, WriteUnfolded

-----------------------------------------------------------------------------
(* The jobs of Algorithms.                                                  *)
LEMMA ReadBack ==
    ASSUME NEW V, NEW m \in Accesses(V), NEW x, NEW at \in Nat, at + Len(m.buf) =< Len(m.st), Ok(x),
           Reads(V, x, m, at, 0, Len(m.buf), 0, Len(m.buf), 6)
    PROVE  x.buf = Bytes(m.st, at, Len(x.buf))
<1> DEFINE b == Bytes(m.st, at, Len(m.buf))
<1>1. m.st \in Seq(V) /\ Len(m.buf) \in Nat
  BY Fields
<1>2. /\ x.buf \in Seq(V) /\ Len(x.buf) = Len(m.buf)
      /\ \A i \in 1..Len(m.buf) : x.buf[0 + i] = m.st[at + i]
  <2>1. x \in Accesses(V)
    BY DEF Reads
  <2> QED BY <2>1, Fields DEF Reads
<1>3. b \in Seq(V) /\ Len(b) = Len(m.buf) /\ \A i \in 1..Len(m.buf) : b[i] = m.st[at + i]
  BY <1>1, BytesOf
<1> HIDE DEF b
<1>4. ASSUME NEW i \in 1..Len(m.buf) PROVE x.buf[i] = b[i]
  <2>1. 0 + i = i
    OBVIOUS
  <2> QED BY <1>2, <1>3, <2>1
<1>5. x.buf = b
  BY <1>2, <1>3, <1>4, SeqEqual
<1> QED BY <1>2, <1>5 DEF b

(* What WrittenExactly says of an access x.                                 *)
WrittenOver(x, m, at) ==
    /\ Ok(x) => x.st = Splice(m.st, at, m.buf)
    /\ ~Ok(x) => \A i \in DOMAIN m.st :
                    \/ x.st[i] = m.st[i]
                    \/ i \in (at + 1)..(at + Len(m.buf)) /\ x.st[i] = m.buf[i - at]

LEMMA WrittenBack ==
    ASSUME NEW V, NEW m \in Accesses(V), NEW x, NEW at \in Nat, at + Len(m.buf) =< Len(m.st),
           Writes(V, x, m, at, 0, Len(m.buf), 6)
    PROVE  WrittenOver(x, m, at)
<1> DEFINE s == Splice(m.st, at, m.buf)
<1>1. m.st \in Seq(V) /\ m.buf \in Seq(V) /\ Len(m.buf) \in Nat /\ Len(m.st) \in Nat /\ DOMAIN m.st = 1..Len(m.st)
  BY Fields
<1>2. /\ x.st \in Seq(V) /\ Len(x.st) = Len(m.st)
      /\ \A i \in 1..Len(m.st) : i =< at \/ i > at + Len(m.buf) => x.st[i] = m.st[i]
      /\ \A i \in 1..Len(m.buf) : x.st[at + i] = m.buf[0 + i] \/ (~Ok(x) /\ x.st[at + i] = m.st[at + i])
  <2>1. x \in Accesses(V)
    BY DEF Writes
  <2> QED BY <2>1, Fields DEF Writes
<1>3. /\ s \in Seq(V) /\ Len(s) = Len(m.st) /\ \A i \in 1..Len(m.buf) : s[at + i] = m.buf[i]
      /\ \A i \in 1..Len(m.st) : i =< at \/ i > at + Len(m.buf) => s[i] = m.st[i]
  <2>1. s = Splice(m.st, at, m.buf)
    OBVIOUS
  <2> HIDE DEF s
  <2> QED BY <1>1, <2>1, Spliced
<1> HIDE DEF s
<1>4. ASSUME NEW i \in 1..Len(m.st), i > at, i =< at + Len(m.buf)
      PROVE  /\ x.st[i] = m.buf[i - at] \/ (~Ok(x) /\ x.st[i] = m.st[i])
             /\ s[i] = m.buf[i - at]
  <2>1. i - at \in 1..Len(m.buf) /\ at + (i - at) = i /\ 0 + (i - at) = i - at
    BY <1>1, <1>4
  <2>2. \/ x.st[at + (i - at)] = m.buf[0 + (i - at)]
        \/ (~Ok(x) /\ x.st[at + (i - at)] = m.st[at + (i - at)])
    BY <1>2, <2>1
  <2>3. s[at + (i - at)] = m.buf[i - at]
    BY <1>3, <2>1
  <2> QED BY <2>1, <2>2, <2>3
<1>5. ASSUME Ok(x) PROVE x.st = s
  <2>1. ASSUME NEW i \in 1..Len(m.st) PROVE x.st[i] = s[i]
    <3>1. CASE i =< at \/ i > at + Len(m.buf)
      BY <1>2, <1>3, <3>1
    <3>2. CASE ~(i =< at \/ i > at + Len(m.buf))
      <4>1. i > at /\ i =< at + Len(m.buf)
        BY <1>1, <3>2
      <4> QED BY <1>4, <1>5, <4>1
    <3> QED BY <3>1, <3>2
  <2> QED BY <1>2, <1>3, <2>1, SeqEqual
<1>6. ASSUME ~Ok(x), NEW i \in 1..Len(m.st)
      PROVE  \/ x.st[i] = m.st[i]
             \/ i \in (at + 1)..(at + Len(m.buf)) /\ x.st[i] = m.buf[i - at]
  <2>1. CASE i =< at \/ i > at + Len(m.buf)
    BY <1>2, <2>1
  <2>2. CASE ~(i =< at \/ i > at + Len(m.buf))
    <3>1. i > at /\ i =< at + Len(m.buf)
      BY <1>1, <2>2
    <3>2. i \in (at + 1)..(at + Len(m.buf))
      BY <1>1, <3>1
    <3> QED BY <1>4, <3>1, <3>2
  <2> QED BY <2>1, <2>2
<1> QED BY <1>1, <1>5, <1>6 DEF s, WrittenOver

LEMMA OtherOps ==
    /\ \A j \in ItemJobs : j.op = "items"
    /\ \A j \in LinuxJobs : j.op = "linux"
    /\ \A j \in JumpJobs : j.op \in {"arm_linux", "arm_zircon", "x86_zircon", "riscv"}
    /\ \A j \in RelocationJobs : j.op = "relocate"
    /\ \A j \in FuchsiaJobs : j.op = "fuchsia"
    /\ \A j \in ChainJobs : j.op = "chain"
    /\ \A j \in MallocJobs : j.op = "malloc"
    /\ \A j \in StringJobs : j.op = "string"
    /\ \A j \in NumberJobs : j.op = "number"
    /\ \A j \in FormatJobs : j.op = "format"
    /\ \A j \in UsedJobs : j.op = "used"
    /\ \A j \in RelocateJobs : j.op = "to_tail"
    /\ \A j \in AvbJobs : j.op \in {"avb", "avb_size", "versions"}
    /\ \A j \in ArgJobs : j.op = "partition"
    /\ \A j \in VarJobs : j.op \in {"getvar_all", "block_device"}
    /\ \A j \in StagedJobs : j.op = "staged"
    /\ \A j \in SplitJobs : j.op = "split"
<1>1. \A j \in ItemJobs : j.op = "items"
  BY DEF ItemJobs
<1>2. \A j \in LinuxJobs : j.op = "linux"
  BY DEF LinuxJobs
<1>3. \A j \in JumpJobs : j.op \in {"arm_linux", "arm_zircon", "x86_zircon", "riscv"}
  BY DEF JumpJobs
<1>4. \A j \in RelocationJobs : j.op = "relocate"
  BY DEF RelocationJobs
<1>5. \A j \in FuchsiaJobs : j.op = "fuchsia"
  BY DEF FuchsiaJobs
<1>6. \A j \in ChainJobs : j.op = "chain"
  BY DEF ChainJobs
<1>7. \A j \in MallocJobs : j.op = "malloc"
  BY DEF MallocJobs
<1>8. \A j \in StringJobs : j.op = "string"
  BY DEF StringJobs
<1>9. \A j \in NumberJobs : j.op = "number"
  BY DEF NumberJobs
<1>10. \A j \in FormatJobs : j.op = "format"
  BY DEF FormatJobs
<1>11. \A j \in UsedJobs : j.op = "used"
  BY DEF UsedJobs
<1>12. \A j \in RelocateJobs : j.op = "to_tail"
  BY DEF RelocateJobs
<1>13. \A j \in AvbJobs : j.op \in {"avb", "avb_size", "versions"}
  BY DEF AvbJobs
<1>14. \A j \in ArgJobs : j.op = "partition"
  BY DEF ArgJobs
<1>15. \A j \in VarJobs : j.op \in {"getvar_all", "block_device"}
  BY DEF VarJobs
<1>16. \A j \in StagedJobs : j.op = "staged"
  BY DEF StagedJobs
<1>17. \A j \in SplitJobs : j.op = "split"
  BY DEF SplitJobs
<1> QED BY <1>1, <1>2, <1>3, <1>4, <1>5, <1>6, <1>7, <1>8, <1>9, <1>10, <1>11, <1>12, <1>13, <1>14, <1>15, <1>16, <1>17

LEMMA FlashCall ==
    ASSUME NEW cs, NEW total, NEW bsz, NEW part, NEW off, NEW addr, NEW m
    PROVE  job = Flash(cs, total, bsz, part, off, addr, m) => job.op = "sparse"
BY DEF Flash

LEMMA OtherCalls ==
    /\ FillJob => job.op = "zeroize"
    /\ SparseJob \/ MisstatedJob \/ LongFillJob => job.op = "sparse"
    /\ BuilderJob => job.op \in {"cmdline", "bootconfig"}
    /\ ParseJob => job.op = "parse"
    /\ XbcJob => job.op = "xbc"
    /\ LoadJob \/ OddLoadJob => job.op = "load"
<1>1. FillJob => job.op = "zeroize"
  BY DEF FillJob
<1>2. SparseJob => job.op = "sparse"
  <2> SUFFICES ASSUME SparseJob PROVE job.op = "sparse"
    OBVIOUS
  <2>1. PICK n \in 0..3 : \E cs \in [1..n -> Chunks], bsz \in 1..2, off \in {0, 1}, addr \in {0, 1},
             info \in {<<1, 1>>, <<2, 4>>}, left \in {2, 99} :
               job = Flash(cs, Blocks(cs), bsz, Part, off, addr, Access(info, 0, <<>>, left))
    BY Zenon DEF SparseJob
  <2>2. PICK cs \in [1..n -> Chunks], bsz \in 1..2, off \in {0, 1}, addr \in {0, 1},
             info \in {<<1, 1>>, <<2, 4>>}, left \in {2, 99} :
               job = Flash(cs, Blocks(cs), bsz, Part, off, addr, Access(info, 0, <<>>, left))
    BY <2>1, Zenon
  <2> QED BY <2>2, FlashCall
<1>3. BuilderJob => job.op \in {"cmdline", "bootconfig"}
  BY DEF BuilderJob
<1>4. ParseJob => job.op = "parse"
  BY DEF ParseJob
<1>5. XbcJob => job.op = "xbc"
  BY DEF XbcJob
<1>6. LoadJob => job.op = "load"
  BY DEF LoadJob
<1>7. MisstatedJob => job.op = "sparse"
  <2> SUFFICES ASSUME MisstatedJob PROVE job.op = "sparse"
    OBVIOUS
  <2>1. PICK n \in 0..2 : \E cs \in [1..n -> Chunks], total \in 0..5, off \in {0, 2},
             info \in {<<1, 1>>, <<2, 4>>}, left \in {2, 99} :
               job = Flash(cs, total, 2, [start |-> 2, end |-> 8], off, 0, Access(info, 0, <<>>, left))
    BY Zenon DEF MisstatedJob
  <2>2. PICK cs \in [1..n -> Chunks], total \in 0..5, off \in {0, 2},
             info \in {<<1, 1>>, <<2, 4>>}, left \in {2, 99} :
               job = Flash(cs, total, 2, [start |-> 2, end |-> 8], off, 0, Access(info, 0, <<>>, left))
    BY <2>1, Zenon
  <2> QED BY <2>2, FlashCall
<1>8. LongFillJob => job.op = "sparse"
  <2> SUFFICES ASSUME LongFillJob PROVE job.op = "sparse"
    OBVIOUS
  <2>1. PICK n \in 1..2 : \E blks \in [1..n -> {10, 14}], vals \in [1..n -> {8, 9}], addr \in {0, 1},
             info \in {<<1, 1>>, <<2, 4>>}, left \in {3, 99} :
               LET cs == [i \in 1..n |-> [type |-> "FILL", blks |-> blks[i], val |-> vals[i]]]
                   m == [Access(info, 0, <<>>, left) EXCEPT !.nb = 32 \div info[1],
                                                            !.st = [i \in 1..32 |-> 100 + i]]
               IN  job = Flash(cs, Blocks(cs), 1, [start |-> 3, end |-> 32], 0, addr, m)
    BY Zenon DEF LongFillJob
  <2> DEFINE runs(b, v) == [i \in 1..n |-> [type |-> "FILL", blks |-> b[i], val |-> v[i]]]
             large(info, left) == [Access(info, 0, <<>>, left) EXCEPT !.nb = 32 \div info[1],
                                                                      !.st = [i \in 1..32 |-> 100 + i]]
  <2>2. PICK blks \in [1..n -> {10, 14}], vals \in [1..n -> {8, 9}], addr \in {0, 1},
             info \in {<<1, 1>>, <<2, 4>>}, left \in {3, 99} :
               job = Flash(runs(blks, vals), Blocks(runs(blks, vals)), 1, [start |-> 3, end |-> 32], 0, addr, large(info, left))
    BY <2>1, Zenon
  <2> HIDE DEF runs, large
  <2> QED BY <2>2, FlashCall
<1>9. OddLoadJob => job.op = "load"
  BY DEF OddLoadJob
<1> QED BY <1>1, <1>2, <1>3, <1>4, <1>5, <1>6, <1>7, <1>8, <1>9

LEMMA DataCalls ==
    ASSUME Init, job.op \in {"read", "write"}
    PROVE  DataJob \/ WindowJob
  BY OtherOps, OtherCalls DEF Init

LEMMA JobAccess ==
    ASSUME NEW info \in Infos, NEW at \in Nat, NEW n \in Nat, NEW left \in Nat,
           NEW m, m = Access(info, at, [i \in 1..n |-> i], left)
    PROVE  /\ m \in Accesses(Nat) /\ Ok(m) /\ Device(m) /\ Len(m.st) = Total /\ m.al = info[2]
           /\ m.calls.read = 0 /\ m.calls.write = 0
<1> DEFINE st == [i \in 1..Total |-> 100 + i]
           buf == [i \in 1..n |-> i]
<1>1. /\ info[1] \in Nat \ {0} /\ info[2] \in Nat \ {0} /\ Total \div info[1] \in Nat
      /\ info[1] * (Total \div info[1]) = Total
  <2>1. info[1] \in {1, 2, 4} /\ info[2] \in {1, 2, 4}
    BY DEF Infos
  <2>2. Total = 12
    BY DEF Total
  <2> QED BY <2>1, <2>2
<1>2. st \in Seq(Nat) /\ Len(st) = Total
  <2>1. Total \in Nat
    BY DEF Total
  <2> QED BY <2>1
<1>3. buf \in Seq(Nat)
  OBVIOUS
<1>4. m = [bs |-> info[1], nb |-> Total \div info[1], al |-> info[2], st |-> st, at |-> at, buf |-> buf,
           left |-> left, calls |-> [read |-> 0, write |-> 0], res |-> "ok"]
  BY DEF Access
<1> HIDE DEF st, buf
<1>5. m \in Accesses(Nat)
  BY <1>1, <1>2, <1>3, <1>4 DEF Accesses, Results
<1>6. Ok(m) /\ Len(m.st) = Total /\ m.al = info[2] /\ m.calls.read = 0 /\ m.calls.write = 0
  BY <1>2, <1>4 DEF Ok
<1>7. Device(m)
  BY <1>1, <1>2, <1>4 DEF Device
<1> QED BY <1>5, <1>6, <1>7

(* Where the jobs' disks have the partition.                                *)
PartOf(disk) == IF disk.table = "gpt" THEN Part ELSE [start |-> 0, end |-> Total]

Settled(disks) ==
    /\ Located(disks, "p") /\ IsFiniteSet(Holders(disks, "p"))
    /\ Cardinality(Holders(disks, "p")) # 1 \/ (Holders(disks, "p") = {1} /\ ExtentOf(disks[1], "p") = PartOf(disks[1]))

LEMMA Extent ==
    Part \in Extents /\ [start |-> 0, end |-> Total] \in Extents /\ Part.end = Total
  BY DEF Part, Total, Extents

LEMMA JobDisks ==
    ASSUME NEW disks \in {OneDisk, OneDisk \o <<Raw("p")>>, <<Raw("p")>>, <<Raw("q")>>}
    PROVE  Settled(disks)
<1> DEFINE g == Gpt([x \in {"p"} |-> Part])
           o == Raw("other")
           w == Raw("p")
           q == Raw("q")
<1>1. "p" \in DOMAIN g.parts /\ g.table = "gpt" /\ g.parts["p"] = Part
  BY DEF Gpt
<1>2. "p" \notin DOMAIN o.parts /\ "p" \notin DOMAIN q.parts
  BY DEF Raw
<1>3. "p" \in DOMAIN w.parts /\ w.table = "raw" /\ w.total = Total
  BY DEF Raw
<1> HIDE DEF g, o, w, q
<1>4. ExtentOf(g, "p") = Part /\ PartOf(g) = Part
  BY <1>1 DEF ExtentOf, PartOf
<1>5. ExtentOf(w, "p") = [start |-> 0, end |-> Total] /\ PartOf(w) = [start |-> 0, end |-> Total]
  BY <1>3 DEF ExtentOf, PartOf
<1>6. CASE disks = <<g, o>>
  <2>1. DOMAIN disks = {1, 2} /\ disks[1] = g /\ disks[2] = o
    BY <1>6
  <2>2. Holders(disks, "p") = {1}
    BY <1>1, <1>2, <2>1 DEF Holders
  <2>3. Located(disks, "p")
    BY <1>2, <1>4, <2>1, Extent DEF Located
  <2> QED BY <1>4, <2>1, <2>2, <2>3, FS_Singleton DEF Settled
<1>7. CASE disks = <<g, o>> \o <<w>>
  <2>1. DOMAIN disks = {1, 2, 3} /\ disks[1] = g /\ disks[2] = o /\ disks[3] = w
    <3> DEFINE V == {g, o, w}
               a == <<g, o>>
               b == <<w>>
    <3>1. a \in Seq(V) /\ b \in Seq(V) /\ Len(a) = 2 /\ Len(b) = 1 /\ a[1] = g /\ a[2] = o /\ b[1] = w
      OBVIOUS
    <3>2. disks = a \o b
      BY <1>7
    <3> HIDE DEF V, a, b
    <3>3. /\ a \o b \in Seq(V) /\ Len(a \o b) = Len(a) + Len(b)
          /\ \A i \in 1..Len(a) + Len(b) : (a \o b)[i] = IF i =< Len(a) THEN a[i] ELSE b[i - Len(a)]
      BY <3>1, ConcatProperties
    <3>4. Len(disks) = 3 /\ disks \in Seq(V)
      BY <3>1, <3>2, <3>3
    <3>5. DOMAIN disks = 1..3
      BY <3>4
    <3>6. \A i \in 1..3 : disks[i] = IF i =< 2 THEN a[i] ELSE b[i - 2]
      BY <3>1, <3>2, <3>3
    <3> QED BY <3>1, <3>5, <3>6
  <2>2. Holders(disks, "p") = {1, 3}
    BY <1>1, <1>2, <1>3, <2>1 DEF Holders
  <2>3. Located(disks, "p")
    BY <1>2, <1>4, <1>5, <2>1, Extent DEF Located
  <2>4. IsFiniteSet({1, 3}) /\ Cardinality({1, 3}) # 1
    <3>1. IsFiniteSet({1}) /\ Cardinality({1}) = 1
      BY FS_Singleton
    <3>2. {1} \cup {3} = {1, 3} /\ 3 \notin {1} /\ 1 + 1 # 1
      OBVIOUS
    <3>3. IsFiniteSet({1} \cup {3}) /\ Cardinality({1} \cup {3}) = Cardinality({1}) + 1
      BY <3>1, <3>2, FS_AddElement
    <3> QED BY <3>1, <3>2, <3>3
  <2> QED BY <2>2, <2>3, <2>4 DEF Settled
<1>8. CASE disks = <<w>>
  <2>1. DOMAIN disks = {1} /\ disks[1] = w
    BY <1>8
  <2>2. Holders(disks, "p") = {1}
    BY <1>3, <2>1 DEF Holders
  <2>3. Located(disks, "p")
    BY <1>5, <2>1, Extent DEF Located
  <2> QED BY <1>5, <2>1, <2>2, <2>3, FS_Singleton DEF Settled
<1>9. CASE disks = <<q>>
  <2>1. DOMAIN disks = {1} /\ disks[1] = q
    BY <1>9
  <2>2. Holders(disks, "p") = {}
    BY <1>2, <2>1 DEF Holders
  <2>3. Located(disks, "p")
    BY <1>2, <2>1 DEF Located
  <2>4. IsFiniteSet({}) /\ Cardinality({}) = 0 /\ 0 # 1
    BY FS_EmptySet
  <2> QED BY <2>2, <2>3, <2>4 DEF Settled
<1>10. OneDisk = <<g, o>>
  BY DEF OneDisk, g, o
<1> QED BY <1>6, <1>7, <1>8, <1>9, <1>10 DEF w, q

(* Scratch memory that starts where Disk::scratch_size() is enough.         *)
RoomyScratch ==
    \A sa \in ScratchAddrs : sa \in Nat /\ \A info \in Infos : ~(info[2] > 1 /\ sa % info[2] = 1)

(* A read or write is of a whole device with nothing done yet.              *)
JobInv ==
    job.op \in {"read", "write"} =>
      /\ job.m \in Accesses(Nat) /\ Ok(job.m) /\ Device(job.m) /\ Len(job.m.st) = Total
      /\ job.m.calls.read = 0 /\ job.m.calls.write = 0
      /\ job.off \in Nat /\ job.sa \in Nat /\ ~ScratchShort(job.m, job.sa)
      /\ job.win = None \/ (job.win[1] \in Nat /\ job.win[2] \in Nat)
      /\ Settled(job.disks)

LEMMA JobInit ==
    ASSUME RoomyScratch, Init
    PROVE  JobInv
<1> SUFFICES ASSUME job.op \in {"read", "write"}
             PROVE  /\ job.m \in Accesses(Nat) /\ Ok(job.m) /\ Device(job.m) /\ Len(job.m.st) = Total
                    /\ job.m.calls.read = 0 /\ job.m.calls.write = 0
                    /\ job.off \in Nat /\ job.sa \in Nat /\ ~ScratchShort(job.m, job.sa)
                    /\ job.win = None \/ (job.win[1] \in Nat /\ job.win[2] \in Nat)
                    /\ Settled(job.disks)
  BY DEF JobInv
<1>1. CASE DataJob
  <2>1. PICK op \in {"read", "write"}, info \in Infos, sa \in ScratchAddrs, at \in 0..3,
             off \in 0..9, n \in 0..9, left \in {0, 1, 2, 3, 99} :
               job = [op |-> op, disks |-> OneDisk, win |-> None, off |-> off, sa |-> sa,
                      m |-> Access(info, at, [i \in 1..n |-> i], left)]
    BY <1>1, Zenon DEF DataJob
  <2> DEFINE x == Access(info, at, [i \in 1..n |-> i], left)
  <2>2. at \in Nat /\ n \in Nat /\ left \in Nat /\ off \in Nat
    OBVIOUS
  <2>3. /\ x \in Accesses(Nat) /\ Ok(x) /\ Device(x) /\ Len(x.st) = Total /\ x.al = info[2]
        /\ x.calls.read = 0 /\ x.calls.write = 0
    BY <2>2, JobAccess
  <2>4. job.m = x /\ job.off = off /\ job.sa = sa /\ job.win = None /\ job.disks = OneDisk
    BY <2>1
  <2> HIDE DEF x
  <2>5. sa \in Nat /\ ~ScratchShort(x, sa)
    BY <2>3 DEF RoomyScratch, ScratchShort
  <2>6. Settled(OneDisk)
    BY JobDisks
  <2> QED BY <2>2, <2>3, <2>4, <2>5, <2>6
<1>2. CASE WindowJob
  <2>1. PICK op \in {"read", "write"}, disks \in {OneDisk, OneDisk \o <<Raw("p")>>, <<Raw("p")>>, <<Raw("q")>>},
             win \in {None, <<0, 8>>, <<3, 4>>, <<3, 6>>}, off \in 0..4, n \in 0..5 :
               job = [op |-> op, disks |-> disks, win |-> win, off |-> off, sa |-> 0,
                      m |-> Access(<<4, 2>>, 1, [i \in 1..n |-> i], 99)]
    BY <1>2, Zenon DEF WindowJob
  <2> DEFINE x == Access(<<4, 2>>, 1, [i \in 1..n |-> i], 99)
  <2>2. n \in Nat /\ off \in Nat /\ 1 \in Nat /\ 99 \in Nat /\ <<4, 2>> \in Infos
    BY DEF Infos
  <2>3. /\ x \in Accesses(Nat) /\ Ok(x) /\ Device(x) /\ Len(x.st) = Total /\ x.al = <<4, 2>>[2]
        /\ x.calls.read = 0 /\ x.calls.write = 0
    BY <2>2, JobAccess
  <2>4. job.m = x /\ job.off = off /\ job.sa = 0 /\ job.win = win /\ job.disks = disks
    BY <2>1
  <2> HIDE DEF x
  <2>5. ~ScratchShort(x, 0)
    BY <2>3 DEF ScratchShort
  <2>6. Settled(disks)
    BY JobDisks
  <2>7. win = None \/ (win[1] \in Nat /\ win[2] \in Nat)
    OBVIOUS
  <2> QED BY <2>2, <2>3, <2>4, <2>5, <2>6, <2>7
<1> QED BY <1>1, <1>2, DataCalls

LEMMA Least ==
    Min({1}) = 1
<1>1. Min({1, 1}) = IF 1 =< 1 THEN 1 ELSE 1
  BY Smaller
<1>2. {1, 1} = {1}
  OBVIOUS
<1> QED BY <1>1, <1>2

TurnedAway(x, m) == ~Ok(x) /\ x = Fail(m, x.res) /\ x.st = m.st /\ x.buf = m.buf /\ x.calls = m.calls

LEMMA FailedJob ==
    ASSUME NEW m \in Accesses(Nat), Ok(m), NEW e \in {"NotFound", "NotUnique", "OutOfRange"}, NEW x, x = Fail(m, e)
    PROVE  TurnedAway(x, m)
<1>1. e \in Results /\ e # "ok"
  BY DEF Results
<1>2. x.res = e /\ x.st = m.st /\ x.buf = m.buf /\ x.calls = m.calls
  BY <1>1, Failed
<1> QED BY <1>1, <1>2 DEF Ok, TurnedAway

(* The same as a fact about one access.                                     *)
ReadRight(V, r, m, io, w, off) ==
    IF Enclosed(io, w, off, Len(m.buf))
    THEN Reads(V, r, m, w.start + off, 0, Len(m.buf), 0, Len(m.buf), 6)
    ELSE r = Fail(m, "OutOfRange")

LEMMA ReadOnce ==
    ASSUME NEW V, NEW m \in Accesses(V), Ok(m), Device(m), NEW disks, NEW part, part # None, Located(disks, part),
           NEW d, Holders(disks, part) = {d}, NEW io, io = ExtentOf(disks[d], part), io.end =< Len(m.st),
           NEW win, win = None \/ (win[1] \in Nat /\ win[2] \in Nat), NEW w, w = WindowOf(io, win),
           NEW off, off \in Nat, NEW scratch, scratch \in Nat, ~ScratchShort(m, scratch),
           NEW r, r = read_unique_partition(m, disks, part, win, off, scratch)
    PROVE  ReadRight(V, r, m, io, w, off)
  BY ReadExact DEF ReadRight

WriteRight(V, r, m, io, w, off) ==
    IF Enclosed(io, w, off, Len(m.buf))
    THEN Writes(V, r, m, w.start + off, 0, Len(m.buf), 6)
    ELSE r = Fail(m, "OutOfRange")

LEMMA WriteOnce ==
    ASSUME NEW V, NEW m \in Accesses(V), Ok(m), Device(m), NEW disks, NEW part, part # None, Located(disks, part),
           NEW d, Holders(disks, part) = {d}, NEW io, io = ExtentOf(disks[d], part), io.end =< Len(m.st),
           NEW win, win = None \/ (win[1] \in Nat /\ win[2] \in Nat), NEW w, w = WindowOf(io, win),
           NEW off, off \in Nat, NEW scratch, scratch \in Nat, ~ScratchShort(m, scratch),
           NEW r, r = write_unique_partition(m, disks, part, win, off, scratch)
    PROVE  WriteRight(V, r, m, io, w, off)
  BY WriteExact DEF WriteRight

LEMMA AccessDone ==
    ASSUME JobInv, job.op \in {"read", "write"}, out = Perform(job)
    PROVE  AccessExact
<1> DEFINE holders == {i \in DOMAIN job.disks : "p" \in DOMAIN job.disks[i].parts}
           whole == IF job.disks[Min(holders)].table = "gpt" THEN Part ELSE [start |-> 0, end |-> Total]
           start == IF job.win = None THEN whole.start ELSE whole.start + job.win[1]
           end == IF job.win = None THEN whole.end ELSE start + job.win[2]
           fits == Cardinality(holders) = 1 /\ end =< whole.end /\ start + job.off + Len(job.m.buf) =< end
           m == job.m
           Goal == /\ IF fits THEN Ok(out) \/ (out.res = "BlockIoError" /\ out.left = 0)
                      ELSE ~Ok(out) /\ out = Fail(m, out.res)
                   /\ out.calls.read =< 6 /\ out.calls.write =< 6
                   /\ job.op = "read" =>
                         out.st = m.st /\ (Ok(out) => out.buf = Bytes(m.st, start + job.off, Len(out.buf)))
                   /\ job.op = "write" =>
                         out.buf = m.buf /\ (fits => WrittenExactly(m.st, start + job.off, m.buf))
<1>0. Goal => AccessExact
  BY Zenon DEF AccessExact
<1>1. /\ m \in Accesses(Nat) /\ Ok(m) /\ Device(m) /\ Len(m.st) = Total
      /\ m.calls.read = 0 /\ m.calls.write = 0
      /\ job.off \in Nat /\ job.sa \in Nat /\ ~ScratchShort(m, job.sa)
      /\ job.win = None \/ (job.win[1] \in Nat /\ job.win[2] \in Nat)
      /\ Settled(job.disks)
  BY DEF JobInv
<1>2. holders = Holders(job.disks, "p")
  BY DEF Holders
<1>3. /\ job.op = "read" => out = read_unique_partition(m, job.disks, "p", job.win, job.off, job.sa)
      /\ job.op = "write" => out = write_unique_partition(m, job.disks, "p", job.win, job.off, job.sa)
  <2>1. job.op \notin HelperOps /\ job.op \notin HandOffOps /\ job.op \notin ArgOps
    BY DEF HelperOps, HandOffOps, ArgOps
  <2>2. /\ job.op # "zeroize" /\ job.op # "sparse" /\ job.op # "parse" /\ job.op # "xbc" /\ job.op # "load"
        /\ job.op \notin {"cmdline", "bootconfig"} /\ (job.op = "read" => job.op # "write")
    OBVIOUS
  <2> QED BY <2>1, <2>2, Zenon DEF Perform
<1>4. Len(m.buf) \in Nat
  BY <1>1, Fields
<1>5. ASSUME ~fits, NEW e \in {"NotFound", "NotUnique", "OutOfRange"}, out = Fail(m, e)
      PROVE  Goal
  <2>1. ~Ok(out) /\ out = Fail(m, out.res) /\ out.st = m.st /\ out.buf = m.buf /\ out.calls = m.calls
    <3>1. TurnedAway(out, m)
      <4> HIDE DEF Goal, fits
      <4> QED BY <1>1, <1>5, FailedJob
    <3> QED BY <3>1, Zenon DEF TurnedAway
  <2>2. out.calls.read =< 6 /\ out.calls.write =< 6
    BY <1>1, <2>1
  <2> HIDE DEF fits, start, m
  <2> QED BY <1>5, <2>1, <2>2
<1>6. CASE Cardinality(holders) # 1
  <2> DEFINE e == IF holders = {} THEN "NotFound" ELSE "NotUnique"
  <2>1. Located(job.disks, "p") /\ IsFiniteSet(holders)
    BY <1>1, <1>2 DEF Settled
  <2>2. e \in {"NotFound", "NotUnique", "OutOfRange"}
    OBVIOUS
  <2>3. /\ read_unique_partition(m, job.disks, "p", job.win, job.off, job.sa) = Fail(m, e)
        /\ write_unique_partition(m, job.disks, "p", job.win, job.off, job.sa) = Fail(m, e)
    <3> HIDE DEF holders
    <3> QED BY <1>2, <1>6, <2>1, JobAssumption, NotOnOneDisk
  <2>4. out = Fail(m, e) /\ ~fits
    BY <1>3, <1>6, <2>3
  <2> HIDE DEF e, fits
  <2>5. Goal
    BY <1>5, <2>2, <2>4
  <2> QED BY <1>0, <2>5
<1>7. CASE Cardinality(holders) = 1
  <2> DEFINE w == WindowOf(whole, job.win)
  <2>1. /\ Located(job.disks, "p") /\ holders = {1} /\ ExtentOf(job.disks[1], "p") = PartOf(job.disks[1])
    BY <1>1, <1>2, <1>7 DEF Settled
  <2>2. whole = ExtentOf(job.disks[1], "p")
    BY <2>1, Least DEF PartOf
  <2>3. whole \in Extents /\ whole.start \in Nat /\ whole.end \in Nat /\ whole.end =< Len(m.st)
    <3>1. whole = Part \/ whole = [start |-> 0, end |-> Total]
      OBVIOUS
    <3>2. whole \in Extents /\ whole.end = Total /\ Total \in Nat
      BY <3>1, Extent DEF Total
    <3> HIDE DEF whole
    <3> QED BY <1>1, <3>2 DEF Extents
  <2> HIDE DEF whole
  <2>4. w = WindowOf(whole, job.win)
    OBVIOUS
  <2>5. w.start = start /\ w.end = end
    BY DEF WindowOf
  <2>6. start \in Nat /\ end \in Nat
    BY <1>1, <2>3
  <2> HIDE DEF w, start, end, holders
  <2>7. fits <=> Enclosed(whole, w, job.off, Len(m.buf))
    BY <1>7, <2>5 DEF Enclosed
  <2>8. start + job.off \in Nat
    BY <1>1, <2>6
  <2>9. fits => (start + job.off) + Len(m.buf) =< Len(m.st)
    <3>1. Len(m.st) \in Nat
      BY <1>1, Fields
    <3>2. fits => end =< whole.end /\ start + job.off + Len(m.buf) =< end
      OBVIOUS
    <3>3. job.off \in Nat /\ whole.end =< Len(m.st) /\ whole.end \in Nat
      BY <1>1, <2>3
    <3> DEFINE last == start + job.off + Len(m.buf)
    <3>4. last \in Nat /\ (fits => last =< end /\ end =< whole.end)
      BY <1>4, <2>6, <3>2, <3>3
    <3> HIDE DEF fits, last
    <3>5. fits => last =< Len(m.st)
      BY <2>6, <3>1, <3>3, <3>4
    <3> QED BY <3>5 DEF last
  <2>10. CASE ~fits
    <3>1. out = Fail(m, "OutOfRange")
      <4> HIDE DEF fits, m
      <4>1. CASE job.op = "read"
        <5>1. ReadRight(Nat, out, m, whole, w, job.off)
          BY <1>1, <1>2, <1>3, <2>1, <2>2, <2>4, <2>3, <4>1, JobAssumption, ReadOnce
        <5> QED BY <2>5, <2>7, <2>10, <5>1 DEF ReadRight, WriteRight
      <4>2. CASE job.op = "write"
        <5>1. WriteRight(Nat, out, m, whole, w, job.off)
          BY <1>1, <1>2, <1>3, <2>1, <2>2, <2>4, <2>3, <4>2, JobAssumption, WriteOnce
        <5> QED BY <2>5, <2>7, <2>10, <5>1 DEF ReadRight, WriteRight
      <4> QED BY <4>1, <4>2
    <3> HIDE DEF fits
    <3>2. Goal
      BY <1>5, <2>10, <3>1
    <3> QED BY <1>0, <3>2
  <2>11. CASE fits /\ job.op = "read"
    <3>1. Reads(Nat, out, m, start + job.off, 0, Len(m.buf), 0, Len(m.buf), 6)
      <4> HIDE DEF fits, m
      <4>1. ReadRight(Nat, out, m, whole, w, job.off)
        BY <1>1, <1>2, <1>3, <2>1, <2>2, <2>4, <2>3, <2>11, JobAssumption, ReadOnce
      <4> QED BY <2>5, <2>7, <2>11, <4>1 DEF ReadRight
    <3>2. /\ EndedWell(out) /\ out.st = m.st /\ out.calls.read =< m.calls.read + 6 /\ out.calls.write = m.calls.write
      BY <3>1 DEF Reads
    <3>3. Ok(out) => out.buf = Bytes(m.st, start + job.off, Len(out.buf))
      <4> HIDE DEF fits, m
      <4> QED BY <1>1, <2>8, <2>9, <2>11, <3>1, ReadBack
    <3>4. out.calls.read =< 6 /\ out.calls.write =< 6
      BY <1>1, <3>2
    <3>5. Ok(out) \/ (out.res = "BlockIoError" /\ out.left = 0)
      BY <3>2 DEF EndedWell
    <3> HIDE DEF fits, m
    <3>6. Goal
      BY <2>11, <3>2, <3>3, <3>4, <3>5
    <3> QED BY <1>0, <3>6
  <2>12. CASE fits /\ job.op = "write"
    <3>1. Writes(Nat, out, m, start + job.off, 0, Len(m.buf), 6)
      <4> HIDE DEF fits, m
      <4>1. WriteRight(Nat, out, m, whole, w, job.off)
        BY <1>1, <1>2, <1>3, <2>1, <2>2, <2>4, <2>3, <2>12, JobAssumption, WriteOnce
      <4> QED BY <2>5, <2>7, <2>12, <4>1 DEF WriteRight
    <3>2. /\ EndedWell(out) /\ out.buf = m.buf
          /\ out.calls.read =< m.calls.read + 6 /\ out.calls.write =< m.calls.write + 6
      BY <3>1 DEF Writes
    <3>3. WrittenExactly(m.st, start + job.off, m.buf)
      <4> HIDE DEF fits, m
      <4>1. WrittenOver(out, m, start + job.off)
        BY <1>1, <2>8, <2>9, <2>12, <3>1, WrittenBack
      <4> QED BY <4>1 DEF WrittenExactly, WrittenOver
    <3>4. out.calls.read =< 6 /\ out.calls.write =< 6
      BY <1>1, <3>2
    <3>5. Ok(out) \/ (out.res = "BlockIoError" /\ out.left = 0)
      BY <3>2 DEF EndedWell
    <3> HIDE DEF fits, m
    <3>6. Goal
      BY <2>12, <3>2, <3>3, <3>4, <3>5
    <3> QED BY <1>0, <3>6
  <2> QED BY <2>10, <2>11, <2>12
<1> QED BY <1>6, <1>7

(* AccessExact holds of every read and write of the jobs, as long as the    *)
(* scratch memory starts where its size is enough: the other addresses are  *)
(* exactly those of ScratchSplit.                                           *)
THEOREM AccessSafe ==
    ASSUME RoomyScratch
    PROVE  Spec => []AccessExact
<1> DEFINE I == JobInv /\ (out = None \/ out = Perform(job))
<1>1. Init => I
  BY JobInit DEF Init
<1>2. I /\ [Next]_vars => I'
  <2> SUFFICES ASSUME I, [Next]_vars PROVE I'
    OBVIOUS
  <2>1. job' = job /\ (out' = out \/ out' = Perform(job))
    BY DEF Next, Run, vars
  <2>2. JobInv'
    BY <2>1 DEF JobInv
  <2>3. Perform(job)' = Perform(job')
    OBVIOUS
  <2>4. out' = None \/ out' = Perform(job')
    BY <2>1
  <2> QED BY <2>2, <2>3, <2>4
<1>3. I => AccessExact
  <2> SUFFICES ASSUME I, out # None, job.op \in {"read", "write"} PROVE AccessExact
    BY DEF AccessExact
  <2> QED BY AccessDone
<1> QED BY <1>1, <1>2, <1>3, PTL DEF Spec

=============================================================================
