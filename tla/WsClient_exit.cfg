\* Is every task that is told to stop deleted in the end?
SPECIFICATION FairSpec
CONSTANTS
    c1 = c1
    c2 = c2
    c3 = c3
    url1 = url1
    url2 = url2
    bad = bad
    EmptyUrl = EmptyUrl
    Null = Null
    NoCall = NoCall
    Callback = {c1}
    Wsi = {w1}
    Url = {url1, url2, bad, EmptyUrl}
    GoodUrl = {url1, url2}
    UrlOf <- OneUrl
    SyncErrorCallback = FALSE
    Sender = {}
    MaxFrames = 0
PROPERTIES
    ExitCompletes
