CONSTANTS
    Formats = {"openair", "cenfis", "asa"}
    Lines <- MCLines
    MaxFiles = 2
    MaxAirspaces = 3
    MaxParts = 3
    BankSize = 112
    FileHeader = 16
    RecordHeader = 30
    FileInfo <- FileInfoText
    ConfigSize = 12
    FileMax = 224
    ByteRange = 32
    ShortRange = 65536
    UnsignedRange = 1048576
    Turn = 6
    Bearing <- MCBearing
    OnArc <- MCOnArc
SPECIFICATION Spec
INVARIANTS  BanksHold FileHoldsTogether OpenAirReadsBack
CHECK_DEADLOCK FALSE
