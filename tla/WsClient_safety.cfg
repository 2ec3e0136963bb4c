\* Two clients with urls of their own, and one without an url that is given a frame
\* to send all the same; two connections whose addresses are reused.
SPECIFICATION Spec
CONSTANTS
    c1 = c1
    c2 = c2
    c3 = c3
    url1 = url1
    url2 = url2
    bad = bad
    EmptyUrl = EmptyUrl
    Null = Null
    NoCall = NoCall
    Callback = {c1, c2, c3}
    Wsi = {w1, w2}
    Url = {url1, url2, bad, EmptyUrl}
    GoodUrl = {url1, url2}
    UrlOf <- OwnOrNoUrl
    SyncErrorCallback = FALSE
    Sender = {c3}
    MaxFrames = 1
SYMMETRY Addresses
INVARIANTS
    TypeOK
    IInv
    SingleAttempt
    ConnectionTracksState
    NoDanglingUser
    LiveSetExact
    NoRequestForgotten
PROPERTIES
    LegalMoves
