\* libwebsockets may report a failure inside the connect call and then return
\* NULL. A client with a good url beside one whose url does not parse.
SPECIFICATION FairSpec
CONSTANTS
    c1 = c1
    c2 = c2
    c3 = c3
    url1 = url1
    url2 = url2
    bad = bad
    EmptyUrl = EmptyUrl
    Null = Null
    NoCall = NoCall
    Callback = {c1, c2}
    Wsi = {w1}
    Url = {url1, url2, bad, EmptyUrl}
    GoodUrl = {url1, url2}
    UrlOf <- MixedUrls
    SyncErrorCallback = TRUE
    Sender = {}
    MaxFrames = 0
INVARIANTS
    ConnectingTried
PROPERTIES
    ConnectResolves
