--------------------------------- MODULE Bank --------------------------------
(***************************************************************************)
(* What the money routes promise to their callers, with no database, no    *)
(* concurrency and no crash: every request that is submitted is decided at *)
(* one instant, either applied in full, or refused without a trace.  It is *)
(* applied only if, at that instant, the accounts it names are open, the   *)
(* caller owns the account the money leaves (or that closes), the funds    *)
(* are there, and the idempotency key of a transfer is unused.             *)
(*                                                                         *)
(* Ledger implements this specification (property Promise of Ledger).      *)
(***************************************************************************)
EXTENDS BankCalls

VARIABLES
    holding,    \* what each account is and holds
    usedKeys,   \* idempotency keys of the transfers made
    submitted,  \* the call of each request
    outcome     \* what became of each request

bankVars == <<holding, usedKeys, submitted, outcome>>

CONSTANT NoUser

Unopened == [status |-> "absent", owner |-> NoUser, balance |-> 0]

Init ==
    /\ holding = [a \in Accounts |->
                    IF a \in DOMAIN Seed
                    THEN [status |-> "open", owner |-> Seed[a].owner,
                          balance |-> Seed[a].balance]
                    ELSE Unopened]
    /\ usedKeys = {}
    /\ submitted = [r \in Requests |-> NoCall]
    /\ outcome = [r \in Requests |-> "idle"]

Submit(r) ==
    /\ outcome[r] = "idle"
    /\ \E c \in Menu : submitted' = [submitted EXCEPT ![r] = c]
    /\ outcome' = [outcome EXCEPT ![r] = "pending"]
    /\ UNCHANGED <<holding, usedKeys>>

\* The conditions under which the call may take effect.
Allowed(c) ==
    CASE c.kind = "open"     -> holding[c.account].status = "absent"
      [] c.kind = "close"    -> /\ holding[c.account].status = "open"
                                /\ holding[c.account].owner = c.user
                                /\ holding[c.account].balance = 0
      [] c.kind = "transfer" -> /\ \A a \in Touched(c) : holding[a].status = "open"
                                /\ holding[c.account].owner = c.user
                                /\ holding[c.account].balance >= Needs(c)
                                /\ c.key \notin usedKeys
      [] OTHER               -> /\ holding[c.account].status = "open"
                                /\ holding[c.account].owner = c.user
                                /\ holding[c.account].balance >= Needs(c)

\* What account a is and holds once the call has taken effect.
Effect(c, a) ==
    CASE c.kind = "open"  -> [status |-> "open", owner |-> c.user, balance |-> 0]
      [] c.kind = "close" -> [holding[a] EXCEPT !.status = "closed"]
      [] OTHER -> [holding[a] EXCEPT
                     !.balance = BalanceAfter(c, a, holding[a].balance)]

Apply(r) ==
    LET c == submitted[r] IN
    /\ outcome[r] = "pending"
    /\ Allowed(c)
    /\ holding' = [a \in Accounts |->
                     IF a \in Touched(c) THEN Effect(c, a) ELSE holding[a]]
    /\ usedKeys' = IF c.kind = "transfer" THEN usedKeys \union {c.key}
                                          ELSE usedKeys
    /\ outcome' = [outcome EXCEPT ![r] = "applied"]
    /\ UNCHANGED submitted

\* One request is refused, or a crash abandons several.
Refuse(R) ==
    /\ \A r \in R : outcome[r] = "pending"
    /\ outcome' = [r \in Requests |-> IF r \in R THEN "refused" ELSE outcome[r]]
    /\ UNCHANGED <<holding, usedKeys, submitted>>

Next ==
    \/ \E r \in Requests : Submit(r) \/ Apply(r)
    \/ \E R \in SUBSET Requests : Refuse(R)

Spec == Init /\ [][Next]_bankVars
=============================================================================
