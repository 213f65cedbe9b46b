SPECIFICATION FormSpec
CONSTANTS
    alice = alice
    bob = bob
    a1 = a1
    a2 = a2
    k1 = k1
    k2 = k2
    k3 = k3
    k4 = k4
    Requests = {r1, r2}
    Sessions = {r1, r2}
    NoUser = NoUser
    NoKey = NoKey
    NoRequest = NoRequest
    Payer = alice
    From = a1
    To = a2
    Amount = 1
    PageKeys <- MCKeys
    Users <- MCUsers
    Accounts <- MCAccounts
    Keys <- MCKeys
    Amounts <- MCAmounts
    Seed <- MCSeed
    Menu <- MCMenu
    Others <- MCOthers
INVARIANT PaidOnce
