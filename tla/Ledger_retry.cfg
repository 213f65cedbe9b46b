SPECIFICATION Spec
CONSTANTS
    alice = alice
    bob = bob
    a1 = a1
    a2 = a2
    a3 = a3
    k1 = k1
    k2 = k2
    Requests = {r1, r2}
    Sessions = {r1, r2}
    NoUser = NoUser
    NoKey = NoKey
    NoRequest = NoRequest
    Users <- MCUsers
    Accounts <- MCAccounts
    Keys <- MCKeys
    Amounts <- MCAmounts
    Seed <- MCSeed
    Menu <- RetryMenu
INVARIANT RetryIsAnsweredConflict
