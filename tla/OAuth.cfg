SPECIFICATION AuthSpec
CONSTANTS
    c1 = c1  c2 = c2  mcp = mcp  offline = offline
    Clients = {c1, c2}
    NameOf <- SameName
    Scopes <- TwoScopes
    MaxClients = 1  KeepPending = 1
    RequestTtl = 1  CodeTtl = 1  AccessTtl = 1  RefreshTtl = 2  ClientTtl = 1
    MaxTime = 2  MaxRequests = 2  MaxCodes = 2  MaxTokens = 2
INVARIANTS OnlyLastTokenWorks ReplayEndsConnection
PROPERTIES CodeIsSingleUse
