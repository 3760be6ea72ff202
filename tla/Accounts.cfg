SPECIFICATION Spec
CONSTANTS
    Clients = {c1, c2}
    Users = {u1, u2}
    Emails = {e1, e2}
    Passwords = {p1, p2}
    AccessTTL = 1
    RefreshTTL = 1
    ResetTTL = 2
    VersionTTL = 2
    MaxTokens = 2
    MaxCalls = 4
    MaxTime = 2
    MaxFaults = 1
    None = None
INVARIANTS SpentTokensAreGone EndedSessionsAreRefused PasswordsLastUnlessOverwritten
CHECK_DEADLOCK FALSE
