CONSTANTS
    NameLengths = {1, 256}
    DataTypes = {1, 2, 3, 4, 5, 6, 16, 33, 256}
    Byte = 2
    Bits = 6
SPECIFICATION WireSpec
INVARIANTS MessageExact StrayOnlyAfterNames ConversionsInvert ItoaExact
