SPECIFICATION FairSpec
CONSTANTS
    alice = alice
    bob = bob
    s1 = s1
    s2 = s2
    Calls = {c1, c2}
    NoSession = NoSession
    Owners <- MCOwners
    Sessions <- MCSessions
    OwnerOf <- MCOwnerOf
\* A client with no call left to make rests.
CHECK_DEADLOCK FALSE
INVARIANTS
    TypeOK
    QueueIsServed
    ActsOnce
PROPERTIES
    EveryCallEnds
