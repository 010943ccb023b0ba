SPECIFICATION RoutinesSpec
CONSTANTS
    structureSize = 2
    Cr3 <- MCCr3
    Memories <- MCMemories
    Addresses <- MCAddresses
    Entries <- MCEntries
    Junk <- MCJunk
    Bytes = 4
    ByteValues = 3
    Fills <- MCFills
    Unsigned <- MCUnsigned
    Signed <- MCSigned
    Texts <- MCTexts
INVARIANTS
    WalkFindsPage
    EmptyEntryFaults
    ParseFindsPages
    CopiesMandated
    ComparesMandated
    PrintedIsNumber
    OverrunOnlyBinary
    FinishedMeansIdentified
PROPERTIES
    EditsAreLocal
    IdentifyReturns
\* A fault or an overrun ends the kernel.
CHECK_DEADLOCK FALSE
