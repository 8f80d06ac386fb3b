CONSTANTS
    Formats = {"android", "fuchsia", "efi"}
    MAX_SLOTS = 2
    DEFAULT_PRIORITY = 2
    DEFAULT_RETRIES = 2
    None = None
SPECIFICATION Spec
INVARIANTS DroppedMeansDurable ActiveHonoured
PROPERTIES GivesUp
