--------------------------------- MODULE Cards --------------------------------
(***************************************************************************)
(* The cards of accounts (app/cards) beside the money routes of Ledger:    *)
(* issuing a card, changing its status and deleting it, in the same        *)
(* database, under the same write lock, while accounts are closed.         *)
(*                                                                         *)
(* A card has no version.  A session that changes one sends an UPDATE of   *)
(* the columns whose value differs from the value it has read, and of no   *)
(* others; if none differs it sends nothing.                               *)
(*                                                                         *)
(* The status EXPIRED is left out: the request schema refuses it and no    *)
(* other code sets it, so the service's tests for it never refuse.  The    *)
(* routes that only read cards (list, get, reveal) are left out, and so    *)
(* are the number, the CVV and the expiry date.                            *)
(***************************************************************************)
EXTENDS Ledger

CONSTANTS
    CardRequests,   \* HTTP requests on the card routes, each sent once
    CardIds,        \* card identifiers, of issued and unissued cards
    CardMenu,       \* the calls that clients may send, a subset of CardCalls
    CardSeed,       \* the cards that exist at first, in the order of their issue
    NoAccount       \* the account of a card that was never issued

Statuses == {"ACTIVE", "INACTIVE", "BLOCKED"}

IssueCall == [kind : {"issue"}, user : Users, account : Accounts, card : CardIds]

StatusCall == [kind : {"status"}, user : Users, card : CardIds, status : Statuses]

DeleteCall == [kind : {"delete"}, user : Users, card : CardIds]

CardCalls == IssueCall \union StatusCall \union DeleteCall

ASSUME CardRequestsAreOthers == CardRequests \subseteq Sessions \ Requests

ASSUME CardMenuIsOfCalls == CardMenu \subseteq CardCalls

ASSUME CardSeedIsOfCards ==
    /\ CardSeed \in Seq([card : CardIds, account : DOMAIN Seed])
    /\ \A i, j \in DOMAIN CardSeed : CardSeed[i].card = CardSeed[j].card => i = j
    /\ NoAccount \notin Accounts

VARIABLES
    cdb,        \* the committed tables of cards and of their audit rows
    cdraft,     \* the same as the holder of the write lock sees them
    step,       \* the next step of each card request
    want,       \* what each card request asks for
    held,       \* the card that the session of each request has read
    told,       \* the outcome each request is answered with
    shown       \* history: the committed statuses of a request's card since it arrived

cardRequestVars == <<step, want, held, told, shown>>

cvars == <<vars, cdb, cdraft, cardRequestVars>>

-----------------------------------------------------------------------------
(* The tables.                                                             *)

CardRow == [life : {"absent", "live", "deleted"}, status : Statuses,
            account : Accounts \union {NoAccount}]

AbsentCard == [life |-> "absent", status |-> "ACTIVE", account |-> NoAccount]

NewCard(a) == [life |-> "live", status |-> "ACTIVE", account |-> a]

CardAudit == [action : {"card.created", "card.status_updated", "card.deleted"},
              user : Users, card : CardIds,
              old : Statuses \union {"none"}, new : Statuses \union {"none"}]

CardDatabase == [cards : [CardIds -> CardRow], trail : Seq(CardAudit)]

\* The audit row of the issue of a card.
Created(u, k) == [action |-> "card.created", user |-> u, card |-> k,
                  old |-> "none", new |-> "ACTIVE"]

Seeded(k) == \E i \in DOMAIN CardSeed : CardSeed[i].card = k

SeedCard(k) == CardSeed[CHOOSE i \in DOMAIN CardSeed : CardSeed[i].card = k]

SeedCards ==
    [cards |-> [k \in CardIds |-> IF Seeded(k) THEN NewCard(SeedCard(k).account)
                                               ELSE AbsentCard],
     trail |-> [i \in DOMAIN CardSeed |->
                  Created(Seed[CardSeed[i].account].owner, CardSeed[i].card)]]

\* Deviation: the UPDATE takes effect only if the row still has the status that
\* was read, and nobody looks at the number of rows it has changed.
UpdatedIfUnchanged(row, c, read) ==
    CASE c.kind = "status" -> [row EXCEPT !.status = IF row.status = read.status
                                                     THEN c.status ELSE row.status]
      [] c.kind = "delete" -> [row EXCEPT !.life = "deleted"]

\* Deviation: the UPDATE writes every column as it was read.
UpdatedInFull(row, c, read) ==
    CASE c.kind = "status" -> [read EXCEPT !.status = c.status]
      [] c.kind = "delete" -> [read EXCEPT !.life = "deleted"]

\* What the UPDATE of call c makes of a row, if the session has read "read".
Updated(row, c, read) ==
    CASE c.kind = "status" -> [row EXCEPT !.status = IF c.status = read.status
                                                     THEN row.status ELSE c.status]
      [] c.kind = "delete" -> [row EXCEPT !.life = "deleted"]

\* Deviation: the old status is taken after the card is changed.
CardAuditAfter(c, read) ==
    CASE c.kind = "issue"  -> Created(c.user, c.card)
      [] c.kind = "status" -> [action |-> "card.status_updated", user |-> c.user,
                               card |-> c.card, old |-> c.status, new |-> c.status]
      [] c.kind = "delete" -> [action |-> "card.deleted", user |-> c.user,
                               card |-> c.card, old |-> "none", new |-> "none"]

\* The audit row of call c.
CardAuditOf(c, read) ==
    CASE c.kind = "issue"  -> Created(c.user, c.card)
      [] c.kind = "status" -> [action |-> "card.status_updated", user |-> c.user,
                               card |-> c.card, old |-> read.status, new |-> c.status]
      [] c.kind = "delete" -> [action |-> "card.deleted", user |-> c.user,
                               card |-> c.card, old |-> "none", new |-> "none"]

\* The writes of call c: the card, then the audit row.
WriteCards(d, c, read) ==
    [cards |-> [d.cards EXCEPT ![c.card] = IF c.kind = "issue" THEN NewCard(c.account)
                                                               ELSE Updated(@, c, read)],
     trail |-> Append(d.trail, CardAuditOf(c, read))]

-----------------------------------------------------------------------------
(* The handlers.                                                           *)

CardInit ==
    /\ Init
    /\ cdb = SeedCards /\ cdraft = SeedCards
    /\ step = [q \in CardRequests |-> "unsent"]
    /\ want = [q \in CardRequests |-> NoCall]
    /\ held = [q \in CardRequests |-> AbsentCard]
    /\ told = [q \in CardRequests |-> "none"]
    /\ shown = [q \in CardRequests |-> {}]

\* The identifier of a new card is a fresh UUID.
FreshCard(k) ==
    /\ ~ Seeded(k)
    /\ \A q \in CardRequests : want[q].kind = "issue" => want[q].card # k

ArriveCardWith(q, c) ==
    /\ step[q] = "unsent"
    /\ c.kind = "issue" => FreshCard(c.card)
    /\ want' = [want EXCEPT ![q] = c]
    /\ step' = [step EXCEPT ![q] = IF c.kind = "issue" THEN "readAccount" ELSE "readCard"]
    /\ shown' = [shown EXCEPT ![q] = {cdb.cards[c.card].status}]
    /\ UNCHANGED <<vars, cdb, cdraft, held, told>>

ArriveCard(q) == \E c \in CardMenu : ArriveCardWith(q, c)

CardGoesOn(q, next) ==
    /\ step' = [step EXCEPT ![q] = next]
    /\ UNCHANGED <<vars, cdb, cdraft, want, told, shown>>

\* The session ends, and the answer is sent.
CardAnswer(q, code) ==
    /\ step' = [step EXCEPT ![q] = "answered"]
    /\ held' = [held EXCEPT ![q] = AbsentCard]
    /\ told' = [told EXCEPT ![q] = code]
    /\ UNCHANGED want

\* An exception before the session has written anything.
CardReject(q, code) == CardAnswer(q, code) /\ UNCHANGED <<vars, cdb, cdraft, shown>>

\* Issue: read the account with get_account.
ReadCardAccount(q) ==
    LET row == db.accounts[want[q].account] IN
    /\ step[q] = "readAccount"
    /\ \/ row.status # "open" /\ CardReject(q, "notFound")
       \/ row.status = "open" /\ row.owner # want[q].user /\ CardReject(q, "forbidden")
       \/ /\ row.status = "open" /\ row.owner = want[q].user
          /\ CardGoesOn(q, "write") /\ UNCHANGED held

\* Status and deletion: get_card reads the card, and then its account.
ReadCard(q) ==
    LET row == cdb.cards[want[q].card] IN
    /\ step[q] = "readCard"
    /\ \/ row.life # "live" /\ CardReject(q, "notFound")
       \/ /\ row.life = "live"
          /\ held' = [held EXCEPT ![q] = row]
          /\ CardGoesOn(q, "readOwner")

ReadOwner(q) ==
    LET row == db.accounts[held[q].account] IN
    /\ step[q] = "readOwner"
    /\ \/ /\ row.status # "open" \/ row.owner # want[q].user
          /\ CardReject(q, "forbidden")
       \/ /\ row.status = "open" /\ row.owner = want[q].user
          /\ CardGoesOn(q, "write") /\ UNCHANGED held

\* The first write takes the lock; the audit row follows under the lock.
WriteCard(q) ==
    /\ step[q] = "write" /\ lock = NoRequest
    /\ lock' = q
    /\ cdraft' = WriteCards(cdb, want[q], held[q])
    /\ step' = [step EXCEPT ![q] = "commit"]
    /\ UNCHANGED <<db, draft, pc, call, copy, answer, cdb, want, held, told, shown>>

CardBusyTimeout(q) ==
    step[q] = "write" /\ lock # NoRequest /\ CardReject(q, "databaseLocked")

CardInFlight(q) == step[q] \notin {"unsent", "answered", "lost"}

\* What the session has written becomes what everybody reads.
Publish(q) ==
    /\ cdb' = cdraft
    /\ CardAnswer(q, "ok")
    /\ shown' = [p \in CardRequests |->
                   IF CardInFlight(p) THEN shown[p] \union {cdraft.cards[want[p].card].status}
                                      ELSE shown[p]]

\* Deviation: the session is not closed after the commit.
CommitCardLeakingLock(q) ==
    step[q] = "commit" /\ Publish(q) /\ UNCHANGED <<vars, cdraft>>

CommitCard(q) ==
    /\ step[q] = "commit"
    /\ Publish(q)
    /\ lock' = NoRequest
    /\ UNCHANGED <<db, draft, pc, call, copy, answer, cdraft>>

HandleCard(q) ==
    \/ ReadCardAccount(q) \/ ReadCard(q) \/ ReadOwner(q)
    \/ WriteCard(q) \/ CardBusyTimeout(q) \/ CommitCard(q)

\* A step of the money routes.
LedgerStep(r) == (Arrive(r) \/ Handle(r)) /\ UNCHANGED <<cdb, cdraft, cardRequestVars>>

\* The process dies and is restarted, with every request on every route.
CardCrash ==
    /\ \/ \E r \in Requests : InFlight(r)
       \/ \E q \in CardRequests : CardInFlight(q)
    /\ Restart
    /\ cdraft' = cdb
    /\ step' = [q \in CardRequests |-> IF CardInFlight(q) THEN "lost" ELSE step[q]]
    /\ held' = [q \in CardRequests |-> AbsentCard]
    /\ UNCHANGED <<cdb, want, told, shown>>

CardRest ==
    /\ \A r \in Requests : pc[r] \in {"answered", "lost"}
    /\ \A q \in CardRequests : step[q] \in {"answered", "lost"}
    /\ UNCHANGED cvars

CardNext ==
    \/ \E q \in CardRequests : ArriveCard(q) \/ HandleCard(q)
    \/ \E r \in Requests : LedgerStep(r)
    \/ CardCrash
    \/ CardRest

CardSpec == CardInit /\ [][CardNext]_cvars

-----------------------------------------------------------------------------
(* Properties.                                                             *)

CardSteps == {"unsent", "readAccount", "readCard", "readOwner", "write", "commit",
              "answered", "lost"}

\* The type of every variable; and the lock is held by a card request exactly
\* while it has something to commit.
CardTypeOK ==
    /\ cdb \in CardDatabase
    /\ cdraft \in CardDatabase
    /\ lock \in Sessions \union {NoRequest}
    /\ step \in [CardRequests -> CardSteps]
    /\ want \in [CardRequests -> CardMenu \union {NoCall}]
    /\ held \in [CardRequests -> CardRow]
    /\ told \in [CardRequests -> Codes]
    /\ shown \in [CardRequests -> SUBSET Statuses]
    /\ \A q \in CardRequests : lock = q <=> step[q] = "commit"

\* The audit rows of card k that tell of a change: the others record a status
\* that was set to the value it was read with, or a deletion.
Changes(d, k) ==
    {i \in DOMAIN d.trail : d.trail[i].card = k /\ d.trail[i].old # d.trail[i].new}

Deletions(d, k) ==
    {i \in DOMAIN d.trail : d.trail[i].card = k /\ d.trail[i].action = "card.deleted"}

\* The first change of a card is its creation, and the last one its status.
TrailTells(d, k) ==
    LET row == d.cards[k] IN
    /\ row.life = "absent" <=> Changes(d, k) = {}
    /\ row.life # "absent" =>
          \E first, last \in Changes(d, k) :
             /\ \A i \in Changes(d, k) : first <= i /\ i <= last
             /\ d.trail[first].action = "card.created"
             /\ d.trail[last].new = row.status
    /\ row.life = "deleted" <=> Deletions(d, k) # {}

OwnerDidIt(d, accounts, i) ==
    d.trail[i].user = accounts[d.cards[d.trail[i].card].account].owner

\* The audit trail tells the state of every card: it exists if and only if its
\* creation is recorded, it is deleted if and only if a deletion is, and its
\* status is the new value of the last recorded change, although every request
\* records an old value that it read before others committed.  All of it was
\* done by the owner of the account.
AuditTellsCards ==
    /\ \A k \in CardIds : TrailTells(cdb, k)
    /\ \A i \in DOMAIN cdb.trail : OwnerDidIt(cdb, db.accounts, i)

\* A request that is told its status was set was told the truth: at some instant
\* between its arrival and its answer the card had that status, even if another
\* request changed it in between and this one then wrote nothing.
ToldStatusWasSet ==
    \A q \in CardRequests :
        told[q] = "ok" /\ want[q].kind = "status" => want[q].status \in shown[q]

\* The old status that the audit row of a change records need not be the one that
\* the change replaced; but the card had it at some instant since the request
\* arrived, whoever has changed the card in between.
OldStatusWasShown ==
    \A q \in CardRequests :
        step[q] = "commit" /\ want[q].kind = "status"
           => cdraft.trail[Len(cdraft.trail)].old \in shown[q]

CardsStay ==
    \A k \in CardIds : cdb.cards[k].life # "absent" =>
        /\ cdb.cards[k].life = "deleted" => cdb'.cards[k].life = "deleted"
        /\ cdb'.cards[k].life # "absent"
        /\ cdb'.cards[k].account = cdb.cards[k].account

\* A deleted card never comes back, though a request that read it live may still
\* write to its row.  A card never moves to another account.
DeletedStaysDeleted == [][CardsStay]_cvars

-----------------------------------------------------------------------------
(* What a test claims and the code does not do.                            *)

\* test_issue_card_on_deleted_account_rejected: no card is issued on an account
\* that is closed.
NoCardOnClosedAccount ==
    [][\A k \in CardIds :
          cdb.cards[k].life = "absent" /\ cdb'.cards[k].life # "absent"
             => db.accounts[cdb'.cards[k].account].status = "open"]_cvars
=============================================================================
