------------------------------- MODULE PageCalls -------------------------------
(***************************************************************************)
(* The calls that one page of the web client makes, from the moment its    *)
(* handler sends one to the moment its callback has run.                   *)
(*                                                                         *)
(* Calls travel on connections of their own: the server may handle them,   *)
(* and the browser deliver their answers, in any order.  A call may fail   *)
(* in the network, before the server has handled it or after; the page     *)
(* cannot tell which, and the server may still handle it later.  JavaScript*)
(* runs one callback at a time, so a handler up to its next await is one   *)
(* step, and so is the rest of it.                                         *)
(*                                                                         *)
(* The server handles a call in one step (Ledger shows that its handlers   *)
(* implement such steps), except for a call that reads twice.              *)
(***************************************************************************)
EXTENDS Naturals, FiniteSets

CONSTANT Calls      \* the numbers of the calls, in the order they are sent

ASSUME CallsAreNumbered == Calls \subseteq Nat

VARIABLES
    stage,      \* how far each call has come
    asked,      \* what each call asks for
    reply,      \* what the server has answered, or has read so far
    blind,      \* history: some call has failed in the network
    calm        \* history: see Loads

net == <<stage, asked, reply, blind, calm>>

Stages == {"unsent", "sent", "half", "served", "orphan", "over"}

Nothing == [kind |-> "nothing"]

NoReply == [code |-> "none"]

\* What the callback gets when the call has failed in the network.
Lost == [code |-> "lost"]

\* The server's answer when it refuses a call, for whatever reason the page
\* does not look at: nothing was done.
Refused == [code |-> "error"]

UnderWay == {c \in Calls : stage[c] \in {"sent", "half", "served"}}

Quiet == UnderWay = {}

\* The calls that change nothing.
Reads == {"load", "reveal", "lookup"}

\* The calls that read what the page shows.  As long as calm is true, no call
\* has failed in the network, no load was refused or has overtaken one that was
\* sent before it, and nobody but this page has changed what it shows.  Several
\* loads may be under way at once.
Loads == {c \in UnderWay : asked[c].kind = "load"}

Fresh(c) == stage[c] = "unsent" /\ \A d \in Calls : d < c => stage[d] # "unsent"

\* Bound: the user acts only while there is a call left for what she does and for
\* the load after it, and for the load after everything that is under way.
Room ==
    Cardinality({c \in Calls : stage[c] = "unsent"})
        >= 2 + Cardinality({c \in UnderWay : asked[c].kind # "load"})

\* The page is mounted, and its effect sends the call "first".  Bound: the page
\* makes the calls "mine" and no others.
Mount(first, mine) ==
    LET one(c) == c \in mine /\ \A d \in mine : c <= d IN
    /\ stage = [c \in Calls |-> IF one(c) THEN "sent" ELSE IF c \in mine THEN "unsent" ELSE "over"]
    /\ asked = [c \in Calls |-> IF one(c) THEN first ELSE Nothing]
    /\ reply = [c \in Calls |-> NoReply]
    /\ blind = FALSE /\ calm = TRUE

\* A handler sends call c, and awaits its answer.
Ask(c, what) ==
    /\ Fresh(c)
    /\ stage' = [stage EXCEPT ![c] = "sent"]
    /\ asked' = [asked EXCEPT ![c] = what]
    /\ UNCHANGED <<reply, blind, calm>>

\* The server handles call c, and answers r.
Answer(c, r) ==
    /\ \/ stage[c] \in {"sent", "half"}
          /\ stage' = [stage EXCEPT ![c] = "served"]
          /\ reply' = [reply EXCEPT ![c] = r]
          /\ UNCHANGED asked
       \/ stage[c] = "orphan"
          /\ stage' = [stage EXCEPT ![c] = "over"]
          /\ asked' = [asked EXCEPT ![c] = Nothing]
          /\ UNCHANGED reply
    /\ UNCHANGED <<blind, calm>>

\* The handler of call c has read something, and will read again.
ReadHalf(c, r) ==
    /\ stage[c] = "sent"
    /\ stage' = [stage EXCEPT ![c] = "half"]
    /\ reply' = [reply EXCEPT ![c] = r]
    /\ UNCHANGED <<asked, blind, calm>>

\* The outcome of call c that its callback gets.
Outcome(c, r) ==
    \/ stage[c] = "served" /\ r = reply[c]
    \/ c \in UnderWay /\ r = Lost

\* The callback of call c ends without another call.  A call that changes
\* something may reach the server although the page has given it up.
Finish(c, r) ==
    /\ \E s \in {"over"} \union {t \in {"orphan"} : stage[c] = "sent" /\ asked[c].kind \notin Reads} :
          /\ stage' = [stage EXCEPT ![c] = s]
          /\ asked' = [asked EXCEPT ![c] = IF s = "over" THEN Nothing ELSE @]
    /\ reply' = [reply EXCEPT ![c] = NoReply]
    /\ blind' = (blind \/ r = Lost)
    /\ calm' = /\ calm /\ r # Lost
               /\ asked[c].kind = "load" => r.code = "ok" /\ \A d \in Loads : c <= d

\* The callback of call c, which was answered, ends by sending another call.
FinishAndAsk(c, what) ==
    \E d \in Calls :
        /\ Fresh(d)
        /\ stage' = [stage EXCEPT ![c] = "over", ![d] = "sent"]
        /\ asked' = [asked EXCEPT ![c] = Nothing, ![d] = what]
        /\ reply' = [reply EXCEPT ![c] = NoReply]
        /\ UNCHANGED <<blind, calm>>

\* Somebody else changes what the page shows.
Meddled ==
    /\ calm' = FALSE
    /\ UNCHANGED <<stage, asked, reply, blind>>

\* The mutual step of a run that is over: the user stops, or no call is left.
AtRest == \A c \in Calls : stage[c] \in {"unsent", "over"}
=============================================================================
