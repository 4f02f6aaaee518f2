CONSTANTS
    MagicSz = 16
    MaxAlign = 8
    \* hash-only (a SHA-256 entry) and a signed TLV of a few hundred bytes
    TlvSizes = {36, 300}
    \* the four alignments visit_u8 accepts and one it refuses
    AlignFlags = {1, 2, 3, 4, 8}
    BootTrailerSz <- MCBootTrailerSz
SPECIFICATION Spec
CHECK_DEADLOCK FALSE
\* spec.md's account of the status-fail scenarios' bad region.
INVARIANT StatusRegionInSlot1
