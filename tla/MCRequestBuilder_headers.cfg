CONSTANTS
    OtherNames = {"X"}
    ClientTexts <- MCClientTexts
    ClientHeaders <- MCClientHeaders
    RequestTexts <- MCRequestTexts
    ClientObjects <- MCClientObjects
    RequestObjects <- MCRequestObjects
    ClientCookies <- MCClientCookies
    RequestCookies <- MCRequestCookies
    CookieName <- MCCookieName
    ClientAuths <- MCClientAuths
    RequestAuths <- MCRequestAuths
    Disclosures = {FALSE}
    Fields = {}
    Bodies <- FewBodies
    Budgets = {}
    BaseURLs <- MCBaseURLs
    Templates <- MCTemplates
    Params = {"p"}
    QueryNames = {"n"}
    Tags = {TRUE, FALSE}
    MaxClientCalls = 2
    MaxCalls = 3
SPECIFICATION RequestSpec
CHECK_DEADLOCK FALSE
INVARIANTS
    OrderedInSync
    GeneratedTypeIsSole
    LaterLayerReplaces
    RequestCookiesWin
    OrderedIntentKept
    PreparedTargetIsSent
PROPERTIES
    ReplacedTypeRemoved
