CONSTANTS
    D = 3
    BankSize = 6
    Texts <- All
SPECIFICATION HexSpec
INVARIANTS DecodesToOriginal MapCoversImage
PROPERTY EncodedIsAccepted
CHECK_DEADLOCK FALSE
