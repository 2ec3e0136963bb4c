\* Two clients: whose connection does a disconnect request close?
SPECIFICATION Spec
CONSTANTS
    c1 = c1
    c2 = c2
    c3 = c3
    url1 = url1
    url2 = url2
    bad = bad
    EmptyUrl = EmptyUrl
    Null = Null
    NoCall = NoCall
    Callback = {c1, c2}
    Wsi = {w1, w2}
    Url = {url1, url2, bad, EmptyUrl}
    GoodUrl = {url1, url2}
    UrlOf <- OwnUrls
    SyncErrorCallback = FALSE
    Sender = {}
    MaxFrames = 0
PROPERTIES
    DisconnectOnOwnRequest
