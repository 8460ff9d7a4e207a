SPECIFICATION Spec
CONSTANTS
    NRegions = 2
    Start <- MCStart
    Count <- MCCount
    Val = {0, 1}
    Zero = 0
    Crc <- MCCrc
    CrcVal <- MCCrcVal
INVARIANTS
    NothingLostBetweenSaves
PROPERTIES
    LoadIsSnapshot
    ImplementsSnapshotStore
