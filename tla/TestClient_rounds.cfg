\* A table of up to three rows, two of which fit in a response.
SPECIFICATION FairSpec
CONSTANTS
    Id = {1, 2, 3}
    Value <- Texts
    Streamed <- Quoted
    Haidian = Haidian
    Changping = Changping
    Chaoyang = Chaoyang
    NoRow = NoRow
    NoId = NoId
    NoColumns = NoColumns
    NoData = NoData
    InitialTable <- Tables
    OtherRequest <- OthersRequests
    MaxRows = 2
    MaxOthers = 1
    MaxLost = 1
INVARIANTS
    TypeOK
    AnswerFits
    WaitsInVain
    WritesInOrder
PROPERTIES
    UpdatesFirstOnly
    RoundEnds
