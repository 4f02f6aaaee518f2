CONSTANTS
    Sectors <- MCSectors
    Align = 2
    PayloadBytes = {0, 255}
    MaxWriteLen = 2
    RegionOffsets = {0}
    RegionLens = {2, 4}
    Rates = {0, 50, 100, 150}
    MaxBadRegions = 2
SPECIFICATION HSpec
INVARIANTS
    TypeOK
    WriteSafeIsErased
PROPERTIES
    EraseAcceptsExactlyWholeSectors
    ErasesWholeSectors
    ErasedBeforeProgrammed
\* A panic!() of the simulator stops the process: those states have no successor.
CHECK_DEADLOCK FALSE
