SPECIFICATION CardSpec
CONSTANTS
    alice = alice
    bob = bob
    a1 = a1
    k1 = k1
    d1 = d1
    d2 = d2
    Requests = {r1}
    Sessions = {r1, q1, q2}
    CardRequests = {q1, q2}
    NoUser = NoUser
    NoKey = NoKey
    NoRequest = NoRequest
    NoAccount = NoAccount
    Users <- MCUsers
    Accounts <- MCAccounts
    Keys <- MCKeys
    Amounts <- MCAmounts
    Seed <- MCSeed
    Menu <- MCMenu
    CardIds <- MCCardIds
    CardSeed <- MCCardSeed
    CardMenu <- MCCardMenu
PROPERTIES
    NoCardOnClosedAccount
