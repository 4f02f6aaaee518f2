\* mcuboot's BOOT_MAGIC_SZ (16) and BOOT_MAX_ALIGN (8); runall's alignments.
CONSTANTS
    MagicSz = 16
    MaxAlign = 8
    Pad = 8
    Aligns = {1, 2, 4, 8}
SPECIFICATION Spec
PROPERTY RefinesTrailerFields
\* The process stops at a panic (a repeated mark).
CHECK_DEADLOCK FALSE
