SPECIFICATION Spec
CONSTANTS
    alice = alice
    bob = bob
    a1 = a1
    a2 = a2
    a3 = a3
    k1 = k1
    k2 = k2
    Requests = {r1, r2, r3}
    Sessions = {r1, r2, r3}
    NoUser = NoUser
    NoKey = NoKey
    NoRequest = NoRequest
    Users <- MCUsers
    Accounts <- MCAccounts
    Keys <- MCKeys
    Amounts <- MCAmounts
    Seed <- MCSeed
    Menu <- MixedMenu
SYMMETRY Symmetry
INVARIANTS
    TypeOK
    LedgerChain
    ClosedIsEmpty
    TransfersPaired
    OneTransferPerKey
    AuditTellsEffects
PROPERTIES
    LedgerOnlyGrows
    ClosedIsFinal
    KeepsPromise
