SPECIFICATION AllSpec
CONSTANTS
    Magic <- MCMagic
    SubIFDTag <- MCSubIFDTag
    BMagic <- MCMagic
    BSubIFDTag <- MCSubIFDTag
    Sources = {"seeker", "buffered"}
    Files <- CutFiles
    ShortCounts = {1, 3}
    IOErrors = TRUE
INVARIANTS
    ValuesFromFile
    SubIFDsKeepPlaces
    DecodeAllAccounts
PROPERTIES
    OpenReaderOpens
    OpenReaderReturns
CHECK_DEADLOCK FALSE
