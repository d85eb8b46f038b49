SPECIFICATION Spec
CONSTANTS
    Names        <- MCNames
    Values       <- MCValues
    ProgramKeys  <- MCProgramKeys
    CommandLines <- MCCommandLines
    Texts        <- MCTexts
    Disk         <- MCDisk
    Samples      <- MCSamples
    Null         = Null
INVARIANT ParsedArgumentsRemoved
