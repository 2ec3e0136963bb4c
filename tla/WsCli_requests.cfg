\* wscli with up to three nodes in its request and up to two rounds, over
\* connections that come and go at one address.
SPECIFICATION CliFairSpec
CONSTANTS
    cli = cli
    url1 = url1
    EmptyUrl = EmptyUrl
    Null = Null
    NoCall = NoCall
    Callback = {cli}
    Wsi = {w1}
    Url = {url1, EmptyUrl}
    GoodUrl = {url1}
    UrlOf <- OneUrl
    SyncErrorCallback = FALSE
    Sender = {cli}
    MaxFrames = 2
    Name = {"id", "object", "method", "data"}
    NoName = NoName
    MaxNodes = 3
INVARIANTS
    CliTypeOK
    CursorOnPath
    RequestIsTree
    AnswersOwnRound
    NoFrameForgotten
PROPERTIES
    LoopEnds
    FramesDrain
    LinkSpec
    ExitFromConnected
