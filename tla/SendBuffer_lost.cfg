\* Does every frame get sent?
SPECIFICATION FairSpec
CONSTANTS
    url = url
    Null = Null
    Callback = {c1}
    Wsi = {w1}
    Url = {url}
    GoodUrl = {}
    UrlOf <- NoRequests
    SyncErrorCallback = FALSE
    ChunkSize = 2
    Lengths = {1}
    MaxFrames = 1
PROPERTY EveryFrameSent
