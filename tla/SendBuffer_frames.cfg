\* Two clients, two connections, and frames of one full fragment and of a full
\* and another one.
SPECIFICATION FairSpec
CONSTANTS
    url = url
    Null = Null
    Callback = {c1, c2}
    Wsi = {w1, w2}
    Url = {url}
    GoodUrl = {}
    UrlOf <- NoRequests
    SyncErrorCallback = FALSE
    ChunkSize = 2
    Lengths = {2, 3}
    MaxFrames = 2
INVARIANTS
    TypeOK
    WholeFrames
    ReportAlive
    FrameDue
    NoRequestForgotten
PROPERTY BroadcastSpec
