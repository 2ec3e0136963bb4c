\* Two clients with two requests each.
SPECIFICATION FairSpec
CONSTANTS
    url = url
    hello = hello
    unknown = unknown
    greet = greet
    check = check
    Null = Null
    Callback = {c1, c2}
    Wsi = {w1, w2}
    Url = {url}
    GoodUrl = {}
    UrlOf <- NoRequests
    SyncErrorCallback = FALSE
    Object = {hello, unknown}
    Handler = {greet, check}
    Sets <- Statuses
    Stops = {check}
    Handlers <- Chains
    Installs = {TRUE, FALSE}
    MaxRequests = 2
INVARIANTS
    TypeOK
    AnswersInOrder
    ResponseDue
PROPERTY ConversationSpec
