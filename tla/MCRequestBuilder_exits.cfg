CONSTANTS
    OtherNames = {"X", "Proxy-Authorization"}
    ClientTexts <- FewClientTexts
    ClientHeaders <- MCClientHeaders
    RequestTexts <- FewRequestTexts
    ClientObjects <- MCClientObjects
    RequestObjects <- MCRequestObjects
    ClientCookies <- MCClientCookies
    RequestCookies <- MCRequestCookies
    CookieName <- MCCookieName
    ClientAuths <- MCClientAuths
    RequestAuths <- MCRequestAuths
    Disclosures = {TRUE, FALSE}
    Fields <- MCFields
    Bodies <- AllBodies
    Budgets <- MCBudgets
    BaseURLs = {}
    Templates = {}
    Params = {}
    QueryNames = {}
    Tags = {}
    MaxClientCalls = 1
    MaxCalls = 3
SPECIFICATION RequestSpec
CHECK_DEADLOCK FALSE
INVARIANTS
    ExitsAgree
    PreviewBodyTruthful
    PreviewHeadersSent
    PreparedValuesAreSent
    BudgetExact
