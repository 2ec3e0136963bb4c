\* Does the server outlive a connection of a protocol that has its factory?
SPECIFICATION Spec
CONSTANTS
    url = url
    hello = hello
    unknown = unknown
    greet = greet
    check = check
    Null = Null
    Callback = {c1}
    Wsi = {w1}
    Url = {url}
    GoodUrl = {}
    UrlOf <- NoRequests
    SyncErrorCallback = FALSE
    Object = {hello, unknown}
    Handler = {greet, check}
    Sets <- Statuses
    Stops = {check}
    Handlers <- Chains
    Installs = {TRUE}
    MaxRequests = 1
INVARIANT ServerSurvives
