------------------------------ MODULE PagesProofs ----------------------------
(***************************************************************************)
(* Proofs about Pages, for any number of calls, cards, dialogs, accounts   *)
(* and transactions: what holds of each screen whichever way its calls are *)
(* answered, lost and overtaken.  PagesInv has one part for each screen:   *)
(* its own invariant if it is the open one, and otherwise that it has done *)
(* nothing.                                                                *)
(***************************************************************************)
EXTENDS Pages, SequenceTheorems, FiniteSetTheorems, WellFoundedInduction, TLAPS

-----------------------------------------------------------------------------
(* What each step of PageCalls does to the calls.                          *)

NetTypeOK ==
    /\ stage \in [Calls -> Stages]
    /\ DOMAIN asked = Calls /\ DOMAIN reply = Calls
    /\ blind \in BOOLEAN /\ calm \in BOOLEAN

SentInOrder == \A c, d \in Calls : c \in UnderWay /\ stage[d] = "unsent" => c < d

\* A call that was given up is remembered, and the calls are sent in their order.
NetInv ==
    /\ NetTypeOK
    /\ calm => ~blind
    /\ ~blind => \A c \in Calls : stage[c] # "orphan"
    /\ SentInOrder

\* No load has been sent after call c.
Newest(c) == \A d \in Loads : d <= c

Same(d) == stage'[d] = stage[d] /\ asked'[d] = asked[d] /\ reply'[d] = reply[d]

OthersSame(c) == \A d \in Calls : d # c => Same(d)

\* A call that the server has not answered yet.
Unserved(c) == stage[c] \in {"sent", "half"}

LEMMA UnderWayStages ==
    ASSUME NEW c \in Calls
    PROVE  c \in UnderWay <=> stage[c] \in {"sent", "half", "served"}
BY DEF UnderWay

\* The call to be sent is the first of those that are left.
LEMMA FreshIsFirst ==
    ASSUME NEW c \in Calls, Fresh(c)
    PROVE  stage[c] = "unsent" /\ \A d \in Calls : stage[d] = "unsent" => d = c \/ c < d
BY CallsAreNumbered DEF Fresh

LEMMA AskEffect ==
    ASSUME NetTypeOK, NEW c \in Calls, NEW what, Ask(c, what)
    PROVE  /\ NetTypeOK'
           /\ stage[c] = "unsent" /\ stage'[c] = "sent" /\ asked'[c] = what
           /\ OthersSame(c)
           /\ \A d \in Calls : stage[d] = "unsent" => d = c \/ c < d
           /\ blind' = blind /\ calm' = calm
<1>1. /\ stage' = [stage EXCEPT ![c] = "sent"] /\ asked' = [asked EXCEPT ![c] = what]
      /\ UNCHANGED <<reply, blind, calm>>
      /\ stage[c] = "unsent" /\ \A d \in Calls : stage[d] = "unsent" => d = c \/ c < d
  BY FreshIsFirst DEF Ask
<1>2. NetTypeOK'
  BY <1>1 DEF NetTypeOK, Stages
<1>3. OthersSame(c)
  BY <1>1 DEF NetTypeOK, OthersSame, Same
<1> QED BY <1>1, <1>2, <1>3 DEF NetTypeOK

LEMMA AnswerEffect ==
    ASSUME NetTypeOK, NEW c \in Calls, NEW r, Answer(c, r)
    PROVE  /\ NetTypeOK'
           /\ \/ Unserved(c) /\ stage'[c] = "served" /\ reply'[c] = r /\ asked'[c] = asked[c]
              \/ stage[c] = "orphan" /\ stage'[c] = "over"
           /\ OthersSame(c)
           /\ blind' = blind /\ calm' = calm
<1>1. CASE /\ stage[c] \in {"sent", "half"}
           /\ stage' = [stage EXCEPT ![c] = "served"] /\ reply' = [reply EXCEPT ![c] = r]
           /\ UNCHANGED asked
  <2>1. NetTypeOK'
    BY <1>1 DEF NetTypeOK, Stages, Answer
  <2>2. OthersSame(c)
    BY <1>1 DEF NetTypeOK, OthersSame, Same
  <2> QED BY <1>1, <2>1, <2>2 DEF NetTypeOK, Answer, Unserved
<1>2. CASE /\ stage[c] = "orphan"
           /\ stage' = [stage EXCEPT ![c] = "over"] /\ asked' = [asked EXCEPT ![c] = Nothing]
           /\ UNCHANGED reply
  <2>1. NetTypeOK'
    BY <1>2 DEF NetTypeOK, Stages, Answer
  <2>2. OthersSame(c)
    BY <1>2 DEF NetTypeOK, OthersSame, Same
  <2> QED BY <1>2, <2>1, <2>2 DEF NetTypeOK, Answer
<1> QED BY <1>1, <1>2 DEF Answer

LEMMA ReadHalfEffect ==
    ASSUME NetTypeOK, NEW c \in Calls, NEW r, ReadHalf(c, r)
    PROVE  /\ NetTypeOK'
           /\ stage[c] = "sent" /\ stage'[c] = "half" /\ reply'[c] = r /\ asked'[c] = asked[c]
           /\ OthersSame(c)
           /\ blind' = blind /\ calm' = calm
<1>1. /\ stage' = [stage EXCEPT ![c] = "half"] /\ reply' = [reply EXCEPT ![c] = r]
      /\ UNCHANGED <<asked, blind, calm>> /\ stage[c] = "sent"
  BY DEF ReadHalf
<1>2. NetTypeOK'
  BY <1>1 DEF NetTypeOK, Stages
<1>3. OthersSame(c)
  BY <1>1 DEF NetTypeOK, OthersSame, Same
<1> QED BY <1>1, <1>2, <1>3 DEF NetTypeOK

\* A call that ends is no longer under way.  Only one that changes something may
\* still reach the server, if it is given up before it is answered.
LEMMA FinishEffect ==
    ASSUME NetTypeOK, NEW c \in Calls, NEW r, Finish(c, r)
    PROVE  /\ NetTypeOK'
           /\ stage'[c] \in {"over", "orphan"}
           /\ stage'[c] = "orphan" => stage[c] = "sent"
           /\ OthersSame(c)
           /\ blind' = (blind \/ r = Lost)
           /\ calm' => calm /\ r # Lost
           /\ calm' /\ asked[c].kind = "load" => r.code = "ok" /\ \A d \in Loads : c <= d
<1>1. PICK s \in {"over"} \union {t \in {"orphan"} : stage[c] = "sent" /\ asked[c].kind \notin Reads} :
         /\ stage' = [stage EXCEPT ![c] = s]
         /\ asked' = [asked EXCEPT ![c] = IF s = "over" THEN Nothing ELSE @]
  BY DEF Finish
<1>2. /\ reply' = [reply EXCEPT ![c] = NoReply]
      /\ blind' = (blind \/ r = Lost)
      /\ calm' = /\ calm /\ r # Lost
                 /\ asked[c].kind = "load" => r.code = "ok" /\ \A d \in Loads : c <= d
  BY DEF Finish
<1>3. NetTypeOK'
  BY <1>1, <1>2 DEF NetTypeOK, Stages
<1>4. OthersSame(c)
  BY <1>1, <1>2 DEF NetTypeOK, OthersSame, Same
<1>5. stage'[c] \in {"over", "orphan"} /\ (stage'[c] = "orphan" => stage[c] = "sent")
  BY <1>1 DEF NetTypeOK
<1> QED BY <1>2, <1>3, <1>4, <1>5

LEMMA FinishAndAskEffect ==
    ASSUME NetTypeOK, NEW c \in Calls, NEW what, FinishAndAsk(c, what), stage[c] # "unsent"
    PROVE  \E d \in Calls :
              /\ NetTypeOK'
              /\ d # c /\ stage[d] = "unsent" /\ stage'[d] = "sent" /\ asked'[d] = what
              /\ stage'[c] = "over"
              /\ \A e \in Calls : e # c /\ e # d => Same(e)
              /\ \A e \in Calls : stage[e] = "unsent" => e = d \/ d < e
              /\ blind' = blind /\ calm' = calm
<1>1. PICK d \in Calls :
         /\ Fresh(d)
         /\ stage' = [stage EXCEPT ![c] = "over", ![d] = "sent"]
         /\ asked' = [asked EXCEPT ![c] = Nothing, ![d] = what]
         /\ reply' = [reply EXCEPT ![c] = NoReply]
         /\ UNCHANGED <<blind, calm>>
  BY DEF FinishAndAsk
<1>2. d # c /\ stage[d] = "unsent" /\ \A e \in Calls : stage[e] = "unsent" => e = d \/ d < e
  BY <1>1, FreshIsFirst
<1>3. NetTypeOK'
  BY <1>1 DEF NetTypeOK, Stages
<1>4. stage'[d] = "sent" /\ asked'[d] = what /\ stage'[c] = "over"
  BY <1>1, <1>2 DEF NetTypeOK
<1>5. \A e \in Calls : e # c /\ e # d => Same(e)
  BY <1>1 DEF NetTypeOK, Same
<1> QED BY <1>1, <1>2, <1>3, <1>4, <1>5

LEMMA OutcomeEffect ==
    ASSUME NEW c \in Calls, NEW r, Outcome(c, r)
    PROVE  /\ c \in UnderWay /\ stage[c] # "unsent"
           /\ r = Lost \/ (stage[c] = "served" /\ r = reply[c])
           /\ r.code = "ok" => stage[c] = "served" /\ r = reply[c]
BY DEF Outcome, UnderWay, Lost

\* A step that sends nothing and answers nothing.
LEMMA NetStays ==
    ASSUME NetTypeOK, UNCHANGED net
    PROVE  /\ NetTypeOK' /\ UnderWay' = UnderWay /\ Loads' = Loads
           /\ \A d \in Calls : Same(d)
BY DEF NetTypeOK, net, UnderWay, Loads, Same

LEMMA MeddledEffect ==
    ASSUME NetTypeOK, Meddled
    PROVE  /\ NetTypeOK' /\ UnderWay' = UnderWay /\ Loads' = Loads
           /\ \A d \in Calls : Same(d)
           /\ blind' = blind /\ ~calm'
BY DEF NetTypeOK, Meddled, UnderWay, Loads, Same

LEMMA MountEffect ==
    ASSUME NEW first, NEW mine, mine \subseteq Calls,
           \E c \in mine : \A d \in mine : c <= d, Mount(first, mine)
    PROVE  /\ NetTypeOK
           /\ \A c \in UnderWay : asked[c] = first /\ stage[c] = "sent"
           /\ \A c, d \in UnderWay : c = d
           /\ \E c \in UnderWay : asked[c] = first
           /\ \A c \in Calls : stage[c] \notin {"orphan", "half", "served"}
           /\ SentInOrder
           /\ ~blind /\ calm
<1> DEFINE one(c) == c \in mine /\ \A d \in mine : c <= d
<1>1. /\ stage = [c \in Calls |-> IF one(c) THEN "sent" ELSE IF c \in mine THEN "unsent" ELSE "over"]
      /\ asked = [c \in Calls |-> IF one(c) THEN first ELSE Nothing]
      /\ reply = [c \in Calls |-> NoReply]
      /\ blind = FALSE /\ calm = TRUE
  BY DEF Mount
<1>2. NetTypeOK
  BY <1>1 DEF NetTypeOK, Stages
<1>3. \A c \in Calls : c \in UnderWay <=> one(c)
  BY <1>1 DEF UnderWay
<1>4. \A c, d \in mine : one(c) /\ one(d) => c = d
  <2> SUFFICES ASSUME NEW c \in mine, NEW d \in mine, one(c), one(d)
               PROVE  c = d
    OBVIOUS
  <2>1. c \in Nat /\ d \in Nat
    BY CallsAreNumbered
  <2>2. c <= d /\ d <= c
    OBVIOUS
  <2> QED BY <2>1, <2>2
<1>5. \A c \in UnderWay : c \in Calls
  BY DEF UnderWay
<1>6. SentInOrder
  <2> SUFFICES ASSUME NEW c \in Calls, NEW d \in Calls, one(c), ~one(d), d \in mine
               PROVE  c < d
    BY <1>1, <1>3 DEF SentInOrder
  <2>1. c <= d /\ c # d /\ c \in Nat /\ d \in Nat
    BY CallsAreNumbered
  <2> QED BY <2>1
<1> QED BY <1>1, <1>2, <1>3, <1>4, <1>5, <1>6

-----------------------------------------------------------------------------
(* The steps again, in terms of the calls that are under way.              *)

LEMMA UnderWayIsOfCalls == UnderWay \subseteq Calls /\ Loads \subseteq UnderWay
BY DEF UnderWay, Loads

LEMMA AskStep ==
    ASSUME NetInv, NEW c \in Calls, NEW what, Ask(c, what)
    PROVE  /\ NetInv'
           /\ c \notin UnderWay /\ UnderWay' = UnderWay \union {c}
           /\ Loads' = IF what.kind = "load" THEN Loads \union {c} ELSE Loads
           /\ stage[c] = "unsent" /\ stage'[c] = "sent" /\ asked'[c] = what
           /\ OthersSame(c)
           /\ blind' = blind /\ calm' = calm
           /\ what.kind = "load" => Newest(c)'
<1>1. /\ NetTypeOK'
      /\ stage[c] = "unsent" /\ stage'[c] = "sent" /\ asked'[c] = what
      /\ OthersSame(c)
      /\ \A d \in Calls : stage[d] = "unsent" => d = c \/ c < d
      /\ blind' = blind /\ calm' = calm
  BY AskEffect DEF NetInv
<1>2. c \notin UnderWay /\ UnderWay' = UnderWay \union {c}
  BY <1>1 DEF UnderWay, OthersSame, Same
<1>3. Loads' = IF what.kind = "load" THEN Loads \union {c} ELSE Loads
  BY <1>1, <1>2, UnderWayIsOfCalls DEF Loads, OthersSame, Same
<1>4. NetInv'
  <2>1. ~blind' => \A d \in Calls : stage'[d] # "orphan"
    BY <1>1 DEF NetInv, OthersSame, Same
  <2>2. SentInOrder'
    BY <1>1, <1>2 DEF NetInv, SentInOrder, OthersSame, Same
  <2> QED BY <1>1, <2>1, <2>2 DEF NetInv
<1>5. Newest(c)'
  <2>1. \A d \in Loads' : d = c \/ d < c
    BY <1>1, <1>3, UnderWayIsOfCalls DEF NetInv, SentInOrder
  <2>2. Loads' \subseteq Calls
    BY <1>3, UnderWayIsOfCalls
  <2> QED BY <2>1, <2>2, CallsAreNumbered DEF Newest
<1> QED BY <1>1, <1>2, <1>3, <1>4, <1>5

LEMMA AnswerStep ==
    ASSUME NetInv, NEW c \in Calls, NEW r, Answer(c, r)
    PROVE  /\ NetInv'
           /\ UnderWay' = UnderWay /\ Loads' = Loads
           /\ \/ /\ Unserved(c) /\ stage'[c] = "served" /\ reply'[c] = r
                 /\ asked'[c] = asked[c]
              \/ blind /\ stage[c] = "orphan" /\ stage'[c] = "over"
           /\ OthersSame(c)
           /\ blind' = blind /\ calm' = calm
<1>1. /\ NetTypeOK'
      /\ \/ Unserved(c) /\ stage'[c] = "served" /\ reply'[c] = r /\ asked'[c] = asked[c]
         \/ stage[c] = "orphan" /\ stage'[c] = "over"
      /\ OthersSame(c)
      /\ blind' = blind /\ calm' = calm
  BY AnswerEffect DEF NetInv
<1>2. UnderWay' = UnderWay
  BY <1>1 DEF UnderWay, Unserved, OthersSame, Same
<1>3. Loads' = Loads
  <2>1. \A d \in UnderWay : asked'[d] = asked[d]
    BY <1>1, UnderWayIsOfCalls DEF UnderWay, OthersSame, Same
  <2> QED BY <1>2, <2>1 DEF Loads
<1>4. NetInv'
  <2>1. ~blind' => \A d \in Calls : stage'[d] # "orphan"
    BY <1>1 DEF NetInv, OthersSame, Same
  <2>2. SentInOrder'
    BY <1>1, <1>2 DEF NetInv, SentInOrder, Unserved, OthersSame, Same
  <2> QED BY <1>1, <2>1, <2>2 DEF NetInv
<1> QED BY <1>1, <1>2, <1>3, <1>4 DEF NetInv

LEMMA HalfStep ==
    ASSUME NetInv, NEW c \in Calls, NEW r, ReadHalf(c, r)
    PROVE  /\ NetInv'
           /\ UnderWay' = UnderWay /\ Loads' = Loads
           /\ stage[c] = "sent" /\ stage'[c] = "half" /\ reply'[c] = r /\ asked'[c] = asked[c]
           /\ OthersSame(c)
           /\ blind' = blind /\ calm' = calm
<1>1. /\ NetTypeOK'
      /\ stage[c] = "sent" /\ stage'[c] = "half" /\ reply'[c] = r /\ asked'[c] = asked[c]
      /\ OthersSame(c)
      /\ blind' = blind /\ calm' = calm
  BY ReadHalfEffect DEF NetInv
<1>2. UnderWay' = UnderWay
  BY <1>1 DEF UnderWay, OthersSame, Same
<1>3. Loads' = Loads
  <2>1. \A d \in UnderWay : asked'[d] = asked[d]
    BY <1>1, UnderWayIsOfCalls DEF OthersSame, Same
  <2> QED BY <1>2, <2>1 DEF Loads
<1>4. NetInv'
  <2>1. ~blind' => \A d \in Calls : stage'[d] # "orphan"
    BY <1>1 DEF NetInv, OthersSame, Same
  <2>2. SentInOrder'
    BY <1>1, <1>2 DEF NetInv, SentInOrder, Unserved, OthersSame, Same
  <2> QED BY <1>1, <2>1, <2>2 DEF NetInv
<1> QED BY <1>1, <1>2, <1>3, <1>4

\* A callback that sends nothing.
LEMMA EndStep ==
    ASSUME NetInv, NEW c \in Calls, NEW r, Outcome(c, r), Finish(c, r)
    PROVE  /\ NetInv'
           /\ c \in UnderWay /\ UnderWay' = UnderWay \ {c} /\ Loads' = Loads \ {c}
           /\ stage'[c] \in {"over", "orphan"}
           /\ r = Lost \/ (stage[c] = "served" /\ r = reply[c])
           /\ r.code = "ok" => stage[c] = "served" /\ r = reply[c]
           /\ OthersSame(c)
           /\ ~blind' => ~blind /\ r # Lost
           /\ calm' => calm /\ r # Lost
           /\ calm' /\ asked[c].kind = "load" => r.code = "ok" /\ (Newest(c) => Loads = {c})
<1>1. /\ NetTypeOK'
      /\ stage'[c] \in {"over", "orphan"}
      /\ stage'[c] = "orphan" => stage[c] = "sent"
      /\ OthersSame(c)
      /\ blind' = (blind \/ r = Lost)
      /\ calm' => calm /\ r # Lost
      /\ calm' /\ asked[c].kind = "load" => r.code = "ok" /\ \A d \in Loads : c <= d
  BY FinishEffect DEF NetInv
<1>2. /\ c \in UnderWay
      /\ r = Lost \/ (stage[c] = "served" /\ r = reply[c])
      /\ r.code = "ok" => stage[c] = "served" /\ r = reply[c]
  BY OutcomeEffect
<1>3. UnderWay' = UnderWay \ {c}
  BY <1>1 DEF UnderWay, OthersSame, Same
<1>4. Loads' = Loads \ {c}
  <2>1. \A d \in UnderWay' : asked'[d] = asked[d]
    BY <1>1, <1>3, UnderWayIsOfCalls DEF OthersSame, Same
  <2> QED BY <1>3, <2>1 DEF Loads
<1>5. NetInv'
  <2>1. ~blind' => \A d \in Calls : stage'[d] # "orphan"
    BY <1>1, <1>2 DEF NetInv, OthersSame, Same
  <2>2. SentInOrder'
    BY <1>1, <1>3 DEF NetInv, SentInOrder, OthersSame, Same
  <2>3. calm' => ~blind'
    BY <1>1 DEF NetInv
  <2> QED BY <1>1, <2>1, <2>2, <2>3 DEF NetInv
<1>6. ASSUME calm', asked[c].kind = "load", Newest(c)
      PROVE  Loads = {c}
  <2>1. c \in Loads
    BY <1>2, <1>6 DEF Loads
  <2>2. \A d \in Loads : c <= d /\ d <= c /\ c \in Nat /\ d \in Nat
    BY <1>1, <1>6, UnderWayIsOfCalls, CallsAreNumbered DEF Newest
  <2>3. \A d \in Loads : d = c
    BY <2>2
  <2> QED BY <2>1, <2>3
<1> QED BY <1>1, <1>2, <1>3, <1>4, <1>5, <1>6

\* A callback that ends by sending another call.
LEMMA FollowUpStep ==
    ASSUME NetInv, NEW c \in Calls, NEW r, Outcome(c, r), NEW what, FinishAndAsk(c, what)
    PROVE  \E d \in Calls :
              /\ NetInv'
              /\ c \in UnderWay /\ d \notin UnderWay
              /\ UnderWay' = (UnderWay \ {c}) \union {d}
              /\ Loads' = IF what.kind = "load" THEN (Loads \ {c}) \union {d} ELSE Loads \ {c}
              /\ stage'[c] = "over" /\ stage'[d] = "sent" /\ asked'[d] = what
              /\ stage[d] = "unsent"
              /\ r.code = "ok" => stage[c] = "served" /\ r = reply[c]
              /\ r = Lost \/ (stage[c] = "served" /\ r = reply[c])
              /\ \A e \in Calls : e # c /\ e # d => Same(e)
              /\ blind' = blind /\ calm' = calm
              /\ what.kind = "load" => Newest(d)'
<1>1. /\ c \in UnderWay /\ stage[c] # "unsent"
      /\ r = Lost \/ (stage[c] = "served" /\ r = reply[c])
      /\ r.code = "ok" => stage[c] = "served" /\ r = reply[c]
  BY OutcomeEffect
<1>2. PICK d \in Calls :
         /\ NetTypeOK'
         /\ d # c /\ stage[d] = "unsent" /\ stage'[d] = "sent" /\ asked'[d] = what
         /\ stage'[c] = "over"
         /\ \A e \in Calls : e # c /\ e # d => Same(e)
         /\ \A e \in Calls : stage[e] = "unsent" => e = d \/ d < e
         /\ blind' = blind /\ calm' = calm
  BY <1>1, FinishAndAskEffect DEF NetInv
<1>3. d \notin UnderWay /\ UnderWay' = (UnderWay \ {c}) \union {d}
  BY <1>2 DEF UnderWay, Same
<1>4. Loads' = IF what.kind = "load" THEN (Loads \ {c}) \union {d} ELSE Loads \ {c}
  <2>1. \A e \in UnderWay' : e # d => asked'[e] = asked[e]
    BY <1>2, <1>3, UnderWayIsOfCalls DEF Same
  <2> QED BY <1>2, <1>3, <2>1 DEF Loads
<1>5. NetInv'
  <2>1. ~blind' => \A e \in Calls : stage'[e] # "orphan"
    BY <1>2 DEF NetInv, Same
  <2>2. SentInOrder'
    BY <1>2, <1>3 DEF NetInv, SentInOrder, Same
  <2> QED BY <1>2, <2>1, <2>2 DEF NetInv
<1>6. Newest(d)'
  <2>1. \A e \in Loads' : e = d \/ e < d
    BY <1>2, <1>4, UnderWayIsOfCalls DEF NetInv, SentInOrder
  <2>2. Loads' \subseteq Calls
    BY <1>4, UnderWayIsOfCalls
  <2> QED BY <2>1, <2>2, CallsAreNumbered DEF Newest
<1> QED BY <1>1, <1>2, <1>3, <1>4, <1>5, <1>6

LEMMA StillStep ==
    ASSUME NetInv, UNCHANGED net
    PROVE  /\ NetInv' /\ UnderWay' = UnderWay /\ Loads' = Loads
           /\ \A d \in Calls : Same(d)
           /\ blind' = blind /\ calm' = calm
BY NetStays DEF NetInv, net, SentInOrder, Same

LEMMA MeddledStep ==
    ASSUME NetInv, Meddled
    PROVE  /\ NetInv' /\ UnderWay' = UnderWay /\ Loads' = Loads
           /\ \A d \in Calls : Same(d)
           /\ blind' = blind /\ ~calm'
<1>1. /\ NetTypeOK' /\ UnderWay' = UnderWay /\ Loads' = Loads
      /\ \A d \in Calls : Same(d)
      /\ blind' = blind /\ ~calm'
  BY MeddledEffect DEF NetInv
<1>2. ~blind' => \A d \in Calls : stage'[d] # "orphan"
  BY <1>1 DEF NetInv, Same
<1> QED BY <1>1, <1>2 DEF NetInv, SentInOrder, Same

LEMMA MountStep ==
    ASSUME NEW first, NEW mine, mine \subseteq Calls,
           \E c \in mine : \A d \in mine : c <= d, Mount(first, mine)
    PROVE  /\ NetInv
           /\ \A c \in UnderWay : asked[c] = first /\ stage[c] = "sent"
           /\ \A c, d \in UnderWay : c = d
           /\ \E c \in UnderWay : asked[c] = first /\ Newest(c)
           /\ \A c \in Calls : stage[c] \notin {"orphan", "half", "served"}
           /\ SentInOrder
      /\ ~blind /\ calm
<1>1. /\ NetTypeOK
      /\ \A c \in UnderWay : asked[c] = first /\ stage[c] = "sent"
      /\ \A c, d \in UnderWay : c = d
      /\ \E c \in UnderWay : asked[c] = first
      /\ \A c \in Calls : stage[c] \notin {"orphan", "half", "served"}
      /\ SentInOrder
      /\ ~blind /\ calm
  BY MountEffect
<1>2. ASSUME NEW c \in UnderWay
      PROVE  Newest(c)
  <2>1. c \in Nat /\ \A d \in Loads : d = c
    BY <1>1, UnderWayIsOfCalls, CallsAreNumbered
  <2> QED BY <2>1 DEF Newest
<1> QED BY <1>1, <1>2 DEF NetInv

-----------------------------------------------------------------------------
(* The cards.                                                              *)

\* The screen makes these calls and no others.
KindsAre(kinds) == \A c \in UnderWay : asked[c].kind \in kinds

TabTypes ==
    /\ DOMAIN kindOf = CardIds /\ DOMAIN status = CardIds /\ DOMAIN revealed = CardIds

\* The details of a card are on their way to that card.
DetailsAreOfCard ==
    \A c \in Calls : stage[c] = "served" /\ asked[c].kind = "reveal" /\ reply[c].code = "ok"
                       => reply[c].data = asked[c].card

\* A change has been answered in a way that will load the list again.
CardsWillReload ==
    \E c \in Calls : /\ stage[c] = "served" /\ asked[c].kind \in {"issue", "status", "delete"}
                     /\ IsReloaded(c, reply[c])

\* The load that was sent last is under way, and does not bring an old list.
CardsAreLoading ==
    \E c \in Loads : /\ Newest(c)
                     /\ stage[c] = "served" /\ reply[c].code = "ok" => reply[c].data = Listing

\* The list is what the server has, or will be.
ListCatchesUp ==
    calm => CardsWillReload \/ CardsAreLoading \/ (Loads = {} /\ list = Listing)

\* While one card is asked for, there is no other of its kind, and no other is
\* asked for.
Issuing == {c \in Calls : Unserved(c) /\ asked[c].kind = "issue"}

IssueIsFirst ==
    calm /\ ~hasty =>
        /\ OneOfAKind
        /\ \A c, d \in Issuing : c = d
        /\ \A c \in Issuing : \A k \in CardIds :
              status[k] \in Live => kindOf[k] # asked[c].type

PromptTypes ==
    /\ prompt = NoCard => waiting = NoCall
    /\ waiting \in Calls \union {NoCall}

CardsTabInv ==
    /\ NetInv /\ KindsAre({"load", "issue", "status", "delete", "reveal"})
    /\ TabTypes /\ PromptTypes
    /\ RevealedUnderOwnCard /\ DetailsAreOfCard
    /\ ListCatchesUp
    /\ IssueIsFirst
    /\ CardsTabWaitsForCalls

\* What the steps of one call leave alone.
LEMMA ReloadStays ==
    ASSUME NEW c \in Calls, Same(c)
    PROVE  IsReloaded(c, reply[c])' <=> IsReloaded(c, reply[c])
BY DEF IsReloaded, Same

LEMMA WillReloadStays ==
    ASSUME CardsWillReload,
           \A c \in Calls : stage[c] = "served" /\ asked[c].kind \in {"issue", "status", "delete"}
                             /\ IsReloaded(c, reply[c]) => Same(c)
    PROVE  CardsWillReload'
<1>1. PICK c \in Calls : /\ stage[c] = "served" /\ asked[c].kind \in {"issue", "status", "delete"}
                         /\ IsReloaded(c, reply[c])
  BY DEF CardsWillReload
<1>2. IsReloaded(c, reply[c])'
  BY <1>1, ReloadStays
<1> QED BY <1>1, <1>2 DEF CardsWillReload, Same

LEMMA CardsLoadStays ==
    ASSUME CardsAreLoading, Listing' = Listing,
           Loads' = Loads, \A c \in Loads : Same(c)
    PROVE  CardsAreLoading'
BY DEF CardsAreLoading, Newest, Same

LEMMA TabAsks ==
    ASSUME CardsTabInv, NEW c \in Calls, NEW what, Ask(c, what),
           what.kind \in {"issue", "status", "delete", "reveal"},
           UNCHANGED <<status, list>>
    PROVE  /\ KindsAre({"load", "issue", "status", "delete", "reveal"})'
           /\ DetailsAreOfCard' /\ ListCatchesUp'
<1>1. /\ NetInv'
      /\ c \notin UnderWay /\ UnderWay' = UnderWay \union {c} /\ Loads' = Loads
      /\ stage[c] = "unsent" /\ stage'[c] = "sent" /\ asked'[c] = what
      /\ OthersSame(c) /\ (calm' => calm)
  BY AskStep DEF CardsTabInv
<1>2. KindsAre({"load", "issue", "status", "delete", "reveal"})'
  BY <1>1, UnderWayIsOfCalls DEF CardsTabInv, KindsAre, OthersSame, Same
<1>3. DetailsAreOfCard'
  BY <1>1 DEF CardsTabInv, DetailsAreOfCard, OthersSame, Same
<1>4. Listing' = Listing
  BY DEF Listing
<1>5. ListCatchesUp'
  <2>1. CardsWillReload => CardsWillReload'
    BY <1>1, WillReloadStays DEF OthersSame
  <2>2. CardsAreLoading => CardsAreLoading'
    BY <1>1, <1>4, UnderWayIsOfCalls, CardsLoadStays DEF OthersSame
  <2> QED BY <1>1, <1>4, <2>1, <2>2 DEF CardsTabInv, ListCatchesUp
<1> QED BY <1>2, <1>3, <1>5

\* No card is asked for, and none comes into being.
LEMMA IssueStaysFirst ==
    ASSUME IssueIsFirst, calm' => calm, hasty' = hasty, kindOf' = kindOf,
           \A k \in CardIds : status'[k] \in Live => status[k] \in Live,
           Issuing' \subseteq Issuing, \A c \in Issuing' : asked'[c] = asked[c]
    PROVE  IssueIsFirst'
<1>1. OneOfAKind => OneOfAKind'
  BY DEF OneOfAKind
<1> QED BY <1>1 DEF IssueIsFirst

LEMMA GenerateKeeps ==
    ASSUME CardsTabInv, NEW c \in Calls, NEW kind \in Kinds, Generate(c, kind)
    PROVE  CardsTabInv'
<1> DEFINE what == [kind |-> "issue", type |-> kind]
<1>1. /\ Ask(c, what) /\ ~Has(kind) /\ hasty' = (hasty \/ ~Quiet)
      /\ UNCHANGED <<kindOf, status, list, listing, confirming, prompt, waiting, revealed>>
  BY DEF Generate
<1>2. /\ NetInv'
      /\ c \notin UnderWay /\ UnderWay' = UnderWay \union {c} /\ Loads' = Loads
      /\ stage[c] = "unsent" /\ stage'[c] = "sent" /\ asked'[c] = what
      /\ OthersSame(c) /\ (calm' => calm)
  BY <1>1, AskStep DEF CardsTabInv
<1>3. /\ KindsAre({"load", "issue", "status", "delete", "reveal"})'
      /\ DetailsAreOfCard' /\ ListCatchesUp'
  BY <1>1, TabAsks
<1>4. TabTypes' /\ PromptTypes' /\ RevealedUnderOwnCard'
  BY <1>1 DEF CardsTabInv, TabTypes, PromptTypes, RevealedUnderOwnCard
<1>5. IssueIsFirst'
  <2> SUFFICES ASSUME calm', ~hasty'
               PROVE  /\ OneOfAKind'
                      /\ \A d, e \in Issuing' : d = e
                      /\ \A d \in Issuing' : \A k \in CardIds :
                            status'[k] \in Live => kindOf'[k] # asked'[d].type
    BY DEF IssueIsFirst
  <2>1. calm /\ ~hasty /\ UnderWay = {}
    BY <1>1, <1>2 DEF Quiet
  <2>2. list = Listing
    <3>1. ~CardsWillReload /\ ~CardsAreLoading
      BY <2>1, UnderWayStages, UnderWayIsOfCalls DEF CardsWillReload, CardsAreLoading
    <3> QED BY <2>1, <3>1 DEF CardsTabInv, ListCatchesUp
  <2>3. \A k \in CardIds : status[k] \in Live => kindOf[k] # kind
    BY <1>1, <2>2 DEF Has, Listing, Live
  <2>4. \A d \in Issuing' : d = c
    BY <1>2, <2>1, UnderWayStages DEF Issuing, Unserved, OthersSame, Same
  <2>5. OneOfAKind'
    BY <1>1, <2>1 DEF CardsTabInv, IssueIsFirst, OneOfAKind
  <2> QED BY <1>1, <1>2, <2>3, <2>4, <2>5
<1>6. CardsTabWaitsForCalls'
  BY <1>1, <1>2, UnderWayIsOfCalls DEF CardsTabInv, CardsTabWaitsForCalls, OthersSame, Same
<1> QED BY <1>2, <1>3, <1>4, <1>5, <1>6 DEF CardsTabInv

\* Asking for a change of a card.
LEMMA TabChangeKeeps ==
    ASSUME CardsTabInv, NEW c \in Calls, NEW what, what.kind \in {"status", "delete"},
           Ask(c, what),
           UNCHANGED <<kindOf, status, list, listing, prompt, waiting, revealed, hasty>>
    PROVE  CardsTabInv'
<1>1. /\ NetInv'
      /\ c \notin UnderWay /\ UnderWay' = UnderWay \union {c} /\ Loads' = Loads
      /\ stage[c] = "unsent" /\ stage'[c] = "sent" /\ asked'[c] = what
      /\ OthersSame(c) /\ (calm' => calm)
  BY AskStep DEF CardsTabInv
<1>2. /\ KindsAre({"load", "issue", "status", "delete", "reveal"})'
      /\ DetailsAreOfCard' /\ ListCatchesUp'
  BY TabAsks
<1>3. TabTypes' /\ PromptTypes' /\ RevealedUnderOwnCard'
  BY DEF CardsTabInv, TabTypes, PromptTypes, RevealedUnderOwnCard
<1>4. IssueIsFirst'
  <2>1. Issuing' \subseteq Issuing /\ \A d \in Issuing' : asked'[d] = asked[d]
    BY <1>1 DEF Issuing, Unserved, OthersSame, Same
  <2> QED BY <1>1, <2>1, IssueStaysFirst DEF CardsTabInv
<1>5. CardsTabWaitsForCalls'
  BY <1>1, UnderWayIsOfCalls DEF CardsTabInv, CardsTabWaitsForCalls, OthersSame, Same
<1> QED BY <1>1, <1>2, <1>3, <1>4, <1>5 DEF CardsTabInv

LEMMA SubmitPasswordKeeps ==
    ASSUME CardsTabInv, NEW c \in Calls, NEW right \in BOOLEAN, SubmitPassword(c, right)
    PROVE  CardsTabInv'
<1> DEFINE what == [kind |-> "reveal", card |-> prompt, right |-> right]
<1>1. /\ Ask(c, what) /\ waiting' = c /\ prompt # NoCard
      /\ UNCHANGED <<kindOf, status, list, listing, confirming, prompt, revealed, hasty>>
  BY DEF SubmitPassword
<1>2. /\ NetInv'
      /\ c \notin UnderWay /\ UnderWay' = UnderWay \union {c} /\ Loads' = Loads
      /\ stage[c] = "unsent" /\ stage'[c] = "sent" /\ asked'[c] = what
      /\ OthersSame(c) /\ (calm' => calm)
  BY <1>1, AskStep DEF CardsTabInv
<1>3. /\ KindsAre({"load", "issue", "status", "delete", "reveal"})'
      /\ DetailsAreOfCard' /\ ListCatchesUp'
  BY <1>1, TabAsks
<1>4. TabTypes' /\ PromptTypes' /\ RevealedUnderOwnCard'
  BY <1>1 DEF CardsTabInv, TabTypes, PromptTypes, RevealedUnderOwnCard
<1>5. IssueIsFirst'
  <2>1. Issuing' \subseteq Issuing /\ \A d \in Issuing' : asked'[d] = asked[d]
    BY <1>2 DEF Issuing, Unserved, OthersSame, Same
  <2> QED BY <1>1, <1>2, <2>1, IssueStaysFirst DEF CardsTabInv
<1>6. CardsTabWaitsForCalls'
  BY <1>1, <1>2 DEF CardsTabInv, CardsTabWaitsForCalls
<1> QED BY <1>2, <1>3, <1>4, <1>5, <1>6 DEF CardsTabInv

\* Dialogs and questions are opened and closed, and details hidden.
LEMMA TabLooksKeeps ==
    ASSUME CardsTabInv, UNCHANGED <<net, kindOf, status, list, listing, hasty>>,
           PromptTypes', waiting' \in {waiting, NoCall},
           waiting' # NoCall => prompt' = prompt,
           DOMAIN revealed' = CardIds,
           \A k \in CardIds : revealed'[k] \in {revealed[k], NoCard}
    PROVE  CardsTabInv'
<1>1. /\ NetInv' /\ UnderWay' = UnderWay /\ Loads' = Loads
      /\ \A d \in Calls : Same(d)
      /\ blind' = blind /\ calm' = calm
  BY StillStep DEF CardsTabInv
<1>2. KindsAre({"load", "issue", "status", "delete", "reveal"})'
  BY <1>1, UnderWayIsOfCalls DEF CardsTabInv, KindsAre, Same
<1>3. DetailsAreOfCard'
  BY <1>1 DEF CardsTabInv, DetailsAreOfCard, Same
<1>4. ListCatchesUp'
  <2>1. Listing' = Listing
    BY DEF Listing
  <2>2. CardsWillReload => CardsWillReload'
    BY <1>1, WillReloadStays
  <2>3. CardsAreLoading => CardsAreLoading'
    BY <1>1, <2>1, UnderWayIsOfCalls, CardsLoadStays
  <2> QED BY <1>1, <2>1, <2>2, <2>3 DEF CardsTabInv, ListCatchesUp
<1>5. IssueIsFirst'
  <2>1. Issuing' \subseteq Issuing /\ \A d \in Issuing' : asked'[d] = asked[d]
    BY <1>1 DEF Issuing, Unserved, Same
  <2> QED BY <1>1, <2>1, IssueStaysFirst DEF CardsTabInv
<1>6. TabTypes' /\ RevealedUnderOwnCard'
  BY DEF CardsTabInv, TabTypes, RevealedUnderOwnCard
<1>7. CardsTabWaitsForCalls'
  BY <1>1, UnderWayIsOfCalls DEF CardsTabInv, CardsTabWaitsForCalls, Same
<1> QED BY <1>1, <1>2, <1>3, <1>4, <1>5, <1>6, <1>7 DEF CardsTabInv

LEMMA TabUserKeeps ==
    ASSUME CardsTabInv, User
    PROVE  CardsTabInv'
<1>1. ASSUME NEW c \in Calls, NEW kind \in Kinds, Generate(c, kind)
      PROVE  CardsTabInv'
  BY <1>1, GenerateKeeps
<1>2. ASSUME NEW c \in Calls, NEW k \in CardIds, ChangeStatus(c, k)
      PROVE  CardsTabInv'
  <2>1. PICK s \in Offered(k) : Ask(c, [kind |-> "status", card |-> k, status |-> s])
    BY <1>2 DEF ChangeStatus
  <2> DEFINE what == [kind |-> "status", card |-> k, status |-> s]
  <2>2. what.kind = "status" /\ Ask(c, what)
    BY <2>1
  <2> HIDE DEF what
  <2> QED BY <1>2, <2>2, TabChangeKeeps DEF ChangeStatus, tabVars
<1>3. ASSUME NEW c \in Calls, NEW k \in CardIds, ConfirmDelete(c, k)
      PROVE  CardsTabInv'
  <2> DEFINE what == [kind |-> "delete", card |-> k]
  <2>1. what.kind = "delete" /\ Ask(c, what)
    BY <1>3 DEF ConfirmDelete
  <2> HIDE DEF what
  <2> QED BY <1>3, <2>1, TabChangeKeeps DEF ConfirmDelete
<1>4. ASSUME NEW c \in Calls, NEW right \in BOOLEAN, SubmitPassword(c, right)
      PROVE  CardsTabInv'
  BY <1>4, SubmitPasswordKeeps
<1>5. ASSUME NEW k \in CardIds, AskToConfirm(k) \/ AskForPassword(k) \/ HideDetails(k)
      PROVE  CardsTabInv'
  BY <1>5, TabLooksKeeps DEF AskToConfirm, AskForPassword, HideDetails, CardsTabInv,
     TabTypes, PromptTypes
<1>6. CASE ClosePrompt
  BY <1>6, TabLooksKeeps DEF ClosePrompt, CardsTabInv, TabTypes, PromptTypes
<1> QED BY <1>1, <1>2, <1>3, <1>4, <1>5, <1>6 DEF User

\* What every answer of the server leaves alone.
LEMMA TabAnswers ==
    ASSUME CardsTabInv, NEW c \in Calls, NEW r, Answer(c, r),
           UNCHANGED <<list, listing, prompt, waiting, revealed, hasty>>,
           asked[c].kind = "reveal" /\ r.code = "ok" => r.data = asked[c].card
    PROVE  /\ NetInv' /\ KindsAre({"load", "issue", "status", "delete", "reveal"})'
           /\ PromptTypes' /\ RevealedUnderOwnCard' /\ DetailsAreOfCard' /\ CardsTabWaitsForCalls'
           /\ calm' = calm /\ Loads' = Loads
           /\ calm => Unserved(c) /\ stage'[c] = "served" /\ reply'[c] = r /\ asked'[c] = asked[c]
           /\ OthersSame(c)
           /\ Issuing' \subseteq Issuing \ {c}
           /\ \A d \in Issuing' : asked'[d] = asked[d]
<1>1. /\ NetInv'
      /\ UnderWay' = UnderWay /\ Loads' = Loads
      /\ \/ /\ Unserved(c) /\ stage'[c] = "served" /\ reply'[c] = r
            /\ asked'[c] = asked[c]
         \/ blind /\ stage[c] = "orphan" /\ stage'[c] = "over"
      /\ OthersSame(c)
      /\ blind' = blind /\ calm' = calm
  BY AnswerStep DEF CardsTabInv
<1>2. calm => Unserved(c) /\ stage'[c] = "served" /\ reply'[c] = r /\ asked'[c] = asked[c]
  BY <1>1 DEF CardsTabInv, NetInv
<1>3. \A d \in UnderWay : asked'[d] = asked[d]
  BY <1>1, UnderWayIsOfCalls DEF UnderWay, OthersSame, Same
<1>4. KindsAre({"load", "issue", "status", "delete", "reveal"})'
  BY <1>1, <1>3 DEF CardsTabInv, KindsAre
<1>5. DetailsAreOfCard'
  BY <1>1 DEF CardsTabInv, DetailsAreOfCard, OthersSame, Same
<1>6. PromptTypes' /\ RevealedUnderOwnCard'
  BY DEF CardsTabInv, PromptTypes, RevealedUnderOwnCard
<1>7. CardsTabWaitsForCalls'
  BY <1>1, <1>3 DEF CardsTabInv, CardsTabWaitsForCalls
<1>8. /\ Issuing' \subseteq Issuing \ {c}
      /\ \A d \in Issuing' : asked'[d] = asked[d]
  BY <1>1 DEF Issuing, Unserved, OthersSame, Same
<1> QED BY <1>1, <1>2, <1>4, <1>5, <1>6, <1>7, <1>8

LEMMA ServeLoadKeeps ==
    ASSUME CardsTabInv, NEW c \in Calls, ServeLoad(c),
           UNCHANGED <<list, listing, confirming, prompt, waiting, revealed, hasty>>
    PROVE  CardsTabInv'
<1> DEFINE r == [code |-> "ok", data |-> Listing]
<1>1. /\ asked[c].kind = "load" /\ Answer(c, r) /\ UNCHANGED <<kindOf, status>>
  BY DEF ServeLoad
<1>2. r.code = "ok" /\ r.data = Listing
  OBVIOUS
<1> HIDE DEF r
<1>3. /\ NetInv' /\ KindsAre({"load", "issue", "status", "delete", "reveal"})'
      /\ PromptTypes' /\ RevealedUnderOwnCard' /\ DetailsAreOfCard' /\ CardsTabWaitsForCalls'
      /\ calm' = calm /\ Loads' = Loads
      /\ calm => Unserved(c) /\ stage'[c] = "served" /\ reply'[c] = r /\ asked'[c] = asked[c]
      /\ OthersSame(c)
      /\ Issuing' \subseteq Issuing \ {c}
      /\ \A d \in Issuing' : asked'[d] = asked[d]
  BY <1>1, TabAnswers
<1>4. ListCatchesUp'
  <2>1. Listing' = Listing
    BY <1>1 DEF Listing
  <2>2. calm => c \in Loads
    BY <1>1, <1>3 DEF Loads, UnderWay, Unserved
  <2>3. CardsWillReload => CardsWillReload'
    BY <1>1, <1>3, WillReloadStays DEF OthersSame
  <2>4. ASSUME calm, NEW d \in Loads, Newest(d),
               stage[d] = "served" /\ reply[d].code = "ok" => reply[d].data = Listing
        PROVE  CardsAreLoading'
    <3>1. Newest(d)' /\ d \in Loads'
      BY <1>3, <2>4 DEF Newest
    <3>2. CASE d = c
      BY <1>2, <1>3, <2>1, <2>4, <3>1, <3>2 DEF CardsAreLoading
    <3>3. CASE d # c
      <4>1. Same(d)
        BY <1>3, <3>3, UnderWayIsOfCalls DEF OthersSame
      <4> QED BY <2>1, <2>4, <3>1, <4>1 DEF CardsAreLoading, Same
    <3> QED BY <3>2, <3>3
  <2> QED BY <1>3, <2>2, <2>3, <2>4 DEF CardsTabInv, ListCatchesUp, CardsAreLoading
<1>5. IssueIsFirst'
  BY <1>1, <1>3, IssueStaysFirst DEF CardsTabInv
<1>6. TabTypes'
  BY <1>1 DEF CardsTabInv, TabTypes
<1> QED BY <1>3, <1>4, <1>5, <1>6 DEF CardsTabInv

\* The list is loaded again after a change that the server has made, or could not
\* make.
LEMMA ServedChangeReloads ==
    ASSUME NEW c \in Calls, NEW r, stage'[c] = "served", reply'[c] = r, asked'[c] = asked[c],
           asked[c].kind \in {"issue", "status", "delete"}, IsReloaded(c, r)
    PROVE  CardsWillReload'
<1>1. IsReloaded(c, reply[c])'
  BY DEF IsReloaded
<1> QED BY <1>1 DEF CardsWillReload

LEMMA ServeIssueKeeps ==
    ASSUME CardsTabInv, NEW c \in Calls, ServeIssue(c),
           UNCHANGED <<list, listing, confirming, prompt, waiting, revealed, hasty>>
    PROVE  CardsTabInv'
<1> DEFINE r == [code |-> "ok"]
<1>1. PICK k \in CardIds : /\ status[k] = "absent"
                           /\ kindOf' = [kindOf EXCEPT ![k] = asked[c].type]
                           /\ status' = [status EXCEPT ![k] = "ACTIVE"]
  BY DEF ServeIssue
<1>2. asked[c].kind = "issue" /\ Answer(c, r)
  BY DEF ServeIssue
<1>3. r.code = "ok"
  OBVIOUS
<1> HIDE DEF r
<1>4. /\ NetInv' /\ KindsAre({"load", "issue", "status", "delete", "reveal"})'
      /\ PromptTypes' /\ RevealedUnderOwnCard' /\ DetailsAreOfCard' /\ CardsTabWaitsForCalls'
      /\ calm' = calm /\ Loads' = Loads
      /\ calm => Unserved(c) /\ stage'[c] = "served" /\ reply'[c] = r /\ asked'[c] = asked[c]
      /\ OthersSame(c)
      /\ Issuing' \subseteq Issuing \ {c}
      /\ \A d \in Issuing' : asked'[d] = asked[d]
  BY <1>2, TabAnswers
<1>5. ListCatchesUp'
  <2>1. calm => CardsWillReload'
    BY <1>2, <1>3, <1>4, ServedChangeReloads DEF IsReloaded
  <2> QED BY <1>4, <2>1 DEF ListCatchesUp
<1>6. IssueIsFirst'
  <2> SUFFICES ASSUME calm', ~hasty'
               PROVE  OneOfAKind' /\ Issuing' = {}
    BY DEF IssueIsFirst
  <2>1. /\ OneOfAKind /\ c \in Issuing
        /\ \A d, e \in Issuing : d = e
        /\ \A j \in CardIds : status[j] \in Live => kindOf[j] # asked[c].type
    BY <1>2, <1>4 DEF CardsTabInv, IssueIsFirst, Issuing
  <2>2. Issuing' = {}
    BY <1>4, <2>1
  <2>3. /\ kindOf'[k] = asked[c].type
        /\ \A j \in CardIds : j # k => kindOf'[j] = kindOf[j] /\ status'[j] = status[j]
    BY <1>1 DEF CardsTabInv, TabTypes
  <2>4. OneOfAKind'
    BY <2>1, <2>3 DEF OneOfAKind
  <2> QED BY <2>2, <2>4
<1>7. TabTypes'
  BY <1>1 DEF CardsTabInv, TabTypes
<1> QED BY <1>4, <1>5, <1>6, <1>7 DEF CardsTabInv

LEMMA ServeChangeKeeps ==
    ASSUME CardsTabInv, NEW c \in Calls, ServeChange(c),
           UNCHANGED <<list, listing, confirming, prompt, waiting, revealed, hasty>>
    PROVE  CardsTabInv'
<1> DEFINE k == asked[c].card
<1>1. asked[c].kind \in {"status", "delete"} /\ kindOf' = kindOf
  BY DEF ServeChange
<1>2. PICK r \in {[code |-> "ok"], [code |-> "notFound"]} : Answer(c, r)
  BY DEF ServeChange
<1>3. r.code \in {"ok", "notFound"}
  OBVIOUS
<1>4. /\ DOMAIN status' = CardIds
      /\ \A j \in CardIds : status'[j] \in Live => status[j] \in Live
  BY DEF ServeChange, CardsTabInv, TabTypes
<1>5. /\ NetInv' /\ KindsAre({"load", "issue", "status", "delete", "reveal"})'
      /\ PromptTypes' /\ RevealedUnderOwnCard' /\ DetailsAreOfCard' /\ CardsTabWaitsForCalls'
      /\ calm' = calm /\ Loads' = Loads
      /\ calm => Unserved(c) /\ stage'[c] = "served" /\ reply'[c] = r /\ asked'[c] = asked[c]
      /\ OthersSame(c)
      /\ Issuing' \subseteq Issuing \ {c}
      /\ \A d \in Issuing' : asked'[d] = asked[d]
  BY <1>1, <1>2, TabAnswers
<1>6. ListCatchesUp'
  <2>1. calm => CardsWillReload'
    BY <1>1, <1>3, <1>5, ServedChangeReloads DEF IsReloaded
  <2> QED BY <1>5, <2>1 DEF ListCatchesUp
<1>7. IssueIsFirst'
  BY <1>1, <1>4, <1>5, IssueStaysFirst DEF CardsTabInv
<1>8. TabTypes'
  BY <1>1, <1>4 DEF CardsTabInv, TabTypes
<1> QED BY <1>5, <1>6, <1>7, <1>8 DEF CardsTabInv

\* An answer that does not change the cards, to a call that does not load them or
\* in vain.
LEMMA ServeNoChangeKeeps ==
    ASSUME CardsTabInv, NEW c \in Calls, NEW r, Answer(c, r),
           asked[c].kind = "reveal" /\ r.code = "ok" => r.data = asked[c].card,
           asked[c].kind = "reveal" \/ r.code # "ok",
           UNCHANGED <<kindOf, status, list, listing, confirming, prompt, waiting, revealed, hasty>>
    PROVE  CardsTabInv'
<1>1. /\ NetInv' /\ KindsAre({"load", "issue", "status", "delete", "reveal"})'
      /\ PromptTypes' /\ RevealedUnderOwnCard' /\ DetailsAreOfCard' /\ CardsTabWaitsForCalls'
      /\ calm' = calm /\ Loads' = Loads
      /\ calm => Unserved(c) /\ stage'[c] = "served" /\ reply'[c] = r /\ asked'[c] = asked[c]
      /\ OthersSame(c)
      /\ Issuing' \subseteq Issuing \ {c}
      /\ \A d \in Issuing' : asked'[d] = asked[d]
  BY TabAnswers
<1>2. ListCatchesUp'
  <2> SUFFICES ASSUME calm
               PROVE  CardsWillReload' \/ CardsAreLoading' \/ (Loads' = {} /\ list' = Listing')
    BY <1>1 DEF ListCatchesUp
  <2>1. Listing' = Listing
    BY DEF Listing
  <2>2. CardsWillReload => CardsWillReload'
    BY <1>1, WillReloadStays DEF OthersSame, Unserved
  <2>3. ASSUME CardsAreLoading
        PROVE  CardsAreLoading'
    <3>1. PICK d \in Loads : /\ Newest(d)
                             /\ stage[d] = "served" /\ reply[d].code = "ok"
                                  => reply[d].data = Listing
      BY <2>3 DEF CardsAreLoading
    <3>2. Newest(d)' /\ d \in Loads'
      BY <1>1, <3>1 DEF Newest
    <3>3. CASE d = c
      BY <1>1, <3>1, <3>2, <3>3, UnderWayIsOfCalls DEF CardsAreLoading, Loads
    <3>4. CASE d # c
      <4>1. Same(d)
        BY <1>1, <3>4, UnderWayIsOfCalls DEF OthersSame
      <4> QED BY <1>1, <2>1, <3>1, <3>2, <4>1 DEF CardsAreLoading, Same
    <3> QED BY <3>3, <3>4
  <2> QED BY <1>1, <2>1, <2>2, <2>3 DEF CardsTabInv, ListCatchesUp
<1>3. IssueIsFirst'
  BY <1>1, IssueStaysFirst DEF CardsTabInv
<1>4. TabTypes'
  BY DEF CardsTabInv, TabTypes
<1> QED BY <1>1, <1>2, <1>3, <1>4 DEF CardsTabInv

LEMMA ServeTabKeeps ==
    ASSUME CardsTabInv, NEW c \in Calls, ServeTab(c)
    PROVE  CardsTabInv'
<1>1. UNCHANGED <<list, listing, confirming, prompt, waiting, revealed, hasty>>
  BY DEF ServeTab
<1>2. CASE ServeLoad(c)
  BY <1>1, <1>2, ServeLoadKeeps
<1>3. CASE ServeIssue(c)
  BY <1>1, <1>3, ServeIssueKeeps
<1>4. CASE ServeChange(c)
  BY <1>1, <1>4, ServeChangeKeeps
<1>5. CASE ServeReveal(c)
  <2>1. PICK r \in {[code |-> "notFound"], [code |-> "ok", data |-> asked[c].card],
                    [code |-> "wrongPassword"]} : Answer(c, r)
    BY <1>5 DEF ServeReveal
  <2>2. asked[c].kind = "reveal" /\ (r.code = "ok" => r.data = asked[c].card)
    BY <1>5 DEF ServeReveal
  <2> QED BY <1>1, <1>5, <2>1, <2>2, ServeNoChangeKeeps DEF ServeReveal
<1>6. CASE Refuse(c)
  BY <1>1, <1>6, ServeNoChangeKeeps DEF Refuse, Refused
<1> QED BY <1>2, <1>3, <1>4, <1>5, <1>6 DEF ServeTab

LEMMA OtherWindowKeeps ==
    ASSUME CardsTabInv, OtherWindow
    PROVE  CardsTabInv'
<1>1. /\ NetInv' /\ UnderWay' = UnderWay /\ Loads' = Loads
      /\ \A d \in Calls : Same(d)
      /\ ~calm'
  BY MeddledStep DEF CardsTabInv, OtherWindow
<1>2. /\ DOMAIN status' = CardIds
      /\ UNCHANGED <<kindOf, list, listing, confirming, prompt, waiting, revealed, hasty>>
  BY DEF OtherWindow, CardsTabInv, TabTypes
<1>3. KindsAre({"load", "issue", "status", "delete", "reveal"})' /\ CardsTabWaitsForCalls'
  BY <1>1, <1>2, UnderWayIsOfCalls DEF CardsTabInv, KindsAre, CardsTabWaitsForCalls, Same
<1>4. TabTypes' /\ PromptTypes' /\ RevealedUnderOwnCard'
  BY <1>2 DEF CardsTabInv, TabTypes, PromptTypes, RevealedUnderOwnCard
<1>5. DetailsAreOfCard'
  BY <1>1 DEF CardsTabInv, DetailsAreOfCard, Same
<1>6. ListCatchesUp' /\ IssueIsFirst'
  BY <1>1 DEF ListCatchesUp, IssueIsFirst
<1> QED BY <1>1, <1>3, <1>4, <1>5, <1>6 DEF CardsTabInv

\* A callback that sends nothing, of a call that did not change anything.
LEMMA TabEnds ==
    ASSUME CardsTabInv, NEW c \in Calls, NEW r, Outcome(c, r), Finish(c, r),
           UNCHANGED <<kindOf, status, hasty>>,
           DOMAIN revealed' = CardIds
    PROVE  /\ NetInv' /\ KindsAre({"load", "issue", "status", "delete", "reveal"})'
           /\ TabTypes' /\ DetailsAreOfCard' /\ IssueIsFirst'
           /\ UnderWay' = UnderWay \ {c} /\ Loads' = Loads \ {c}
           /\ r = Lost \/ (stage[c] = "served" /\ r = reply[c])
           /\ r.code = "ok" => stage[c] = "served" /\ r = reply[c]
           /\ OthersSame(c)
           /\ calm' => calm /\ r # Lost
           /\ calm' /\ asked[c].kind = "load" => r.code = "ok" /\ (Newest(c) => Loads = {c})
<1>1. /\ NetInv'
      /\ c \in UnderWay /\ UnderWay' = UnderWay \ {c} /\ Loads' = Loads \ {c}
      /\ stage'[c] \in {"over", "orphan"}
      /\ r = Lost \/ (stage[c] = "served" /\ r = reply[c])
      /\ r.code = "ok" => stage[c] = "served" /\ r = reply[c]
      /\ OthersSame(c)
      /\ calm' => calm /\ r # Lost
      /\ calm' /\ asked[c].kind = "load" => r.code = "ok" /\ (Newest(c) => Loads = {c})
  BY EndStep DEF CardsTabInv
<1>2. KindsAre({"load", "issue", "status", "delete", "reveal"})'
  BY <1>1, UnderWayIsOfCalls DEF CardsTabInv, KindsAre, OthersSame, Same
<1>3. DetailsAreOfCard'
  BY <1>1 DEF CardsTabInv, DetailsAreOfCard, OthersSame, Same
<1>4. TabTypes'
  BY DEF CardsTabInv, TabTypes
<1>5. IssueIsFirst'
  <2>1. Issuing' \subseteq Issuing /\ \A d \in Issuing' : asked'[d] = asked[d]
    BY <1>1 DEF Issuing, Unserved, OthersSame, Same
  <2> QED BY <1>1, <2>1, IssueStaysFirst DEF CardsTabInv
<1> QED BY <1>1, <1>2, <1>3, <1>4, <1>5

\* A callback that loads the list again: whatever else it does, the list will be
\* what the server has.
LEMMA TabReloads ==
    ASSUME CardsTabInv, NEW c \in Calls, NEW r, Outcome(c, r), FinishAndAsk(c, Load),
           UNCHANGED <<kindOf, status, list, listing, hasty>>,
           DOMAIN revealed' = CardIds,
           asked[c].kind # "load"
    PROVE  /\ NetInv' /\ KindsAre({"load", "issue", "status", "delete", "reveal"})'
           /\ TabTypes' /\ DetailsAreOfCard' /\ ListCatchesUp' /\ IssueIsFirst'
           /\ Loads' # {}
           /\ \A d \in UnderWay : d # c => d \in UnderWay' /\ asked'[d] = asked[d]
<1>1. PICK d \in Calls :
              /\ NetInv'
              /\ c \in UnderWay /\ d \notin UnderWay
              /\ UnderWay' = (UnderWay \ {c}) \union {d}
              /\ Loads' = IF Load.kind = "load" THEN (Loads \ {c}) \union {d} ELSE Loads \ {c}
              /\ stage'[c] = "over" /\ stage'[d] = "sent" /\ asked'[d] = Load
              /\ stage[d] = "unsent"
              /\ \A e \in Calls : e # c /\ e # d => Same(e)
              /\ calm' = calm
              /\ Load.kind = "load" => Newest(d)'
  BY FollowUpStep DEF CardsTabInv
<1>2. Load.kind = "load"
  BY DEF Load
<1>3. d \in Loads'
  BY <1>1, <1>2
<1>4. \A e \in UnderWay : e # c => e \in UnderWay' /\ asked'[e] = asked[e]
  BY <1>1, UnderWayIsOfCalls DEF Same
<1>5. KindsAre({"load", "issue", "status", "delete", "reveal"})'
  BY <1>1, <1>2, <1>4 DEF CardsTabInv, KindsAre
<1>6. DetailsAreOfCard'
  BY <1>1, <1>2 DEF CardsTabInv, DetailsAreOfCard, Same
<1>7. ListCatchesUp'
  BY <1>1, <1>2, <1>3 DEF ListCatchesUp, CardsAreLoading
<1>8. IssueIsFirst'
  <2>1. Issuing' \subseteq Issuing /\ \A e \in Issuing' : asked'[e] = asked[e]
    BY <1>1, <1>2 DEF Issuing, Unserved, Same
  <2> QED BY <1>1, <2>1, IssueStaysFirst DEF CardsTabInv
<1>9. TabTypes'
  BY DEF CardsTabInv, TabTypes
<1> QED BY <1>1, <1>3, <1>4, <1>5, <1>6, <1>7, <1>8, <1>9

\* The end of a call that neither loads the list nor calls for it.
LEMMA ListStaysCaughtUp ==
    ASSUME CardsTabInv, NEW c \in Calls, OthersSame(c), calm' => calm,
           Loads' = Loads \ {c}, UNCHANGED <<status, list>>,
           calm' => /\ asked[c].kind # "load"
                    /\ ~ (/\ stage[c] = "served" /\ asked[c].kind \in {"issue", "status", "delete"}
                          /\ IsReloaded(c, reply[c]))
    PROVE  ListCatchesUp'
<1> SUFFICES ASSUME calm'
             PROVE  CardsWillReload' \/ CardsAreLoading' \/ (Loads' = {} /\ list' = Listing')
  BY DEF ListCatchesUp
<1>1. Listing' = Listing
  BY DEF Listing
<1>2. c \notin Loads
  BY DEF Loads
<1>3. CardsWillReload => CardsWillReload'
  BY WillReloadStays DEF OthersSame
<1>4. CardsAreLoading => CardsAreLoading'
  BY <1>1, <1>2, UnderWayIsOfCalls, CardsLoadStays DEF OthersSame
<1> QED BY <1>1, <1>2, <1>3, <1>4 DEF CardsTabInv, ListCatchesUp

LEMMA ListLoadedKeeps ==
    ASSUME CardsTabInv, NEW c \in Calls, NEW r, Outcome(c, r), ListLoaded(c, r)
    PROVE  CardsTabInv'
<1>1. /\ asked[c].kind = "load" /\ Finish(c, r)
      /\ list' = IF r.code = "ok" THEN r.data ELSE list
      /\ listing' = FALSE
      /\ UNCHANGED <<kindOf, status, prompt, waiting, revealed, hasty>>
  BY DEF ListLoaded
<1>2. /\ NetInv' /\ KindsAre({"load", "issue", "status", "delete", "reveal"})'
      /\ TabTypes' /\ DetailsAreOfCard' /\ IssueIsFirst'
      /\ UnderWay' = UnderWay \ {c} /\ Loads' = Loads \ {c}
      /\ r.code = "ok" => stage[c] = "served" /\ r = reply[c]
      /\ OthersSame(c)
      /\ calm' => calm /\ r.code = "ok" /\ (Newest(c) => Loads = {c})
  BY <1>1, TabEnds DEF CardsTabInv, TabTypes
<1>3. ListCatchesUp'
  <2> SUFFICES ASSUME calm'
               PROVE  CardsWillReload' \/ CardsAreLoading' \/ (Loads' = {} /\ list' = Listing')
    BY DEF ListCatchesUp
  <2>1. c \in Loads
    BY <1>1, OutcomeEffect DEF Loads
  <2>2. Listing' = Listing
    BY <1>1 DEF Listing
  <2>3. CardsWillReload => CardsWillReload'
    BY <1>1, <1>2, WillReloadStays DEF OthersSame
  <2>4. ASSUME NEW d \in Loads, Newest(d),
               stage[d] = "served" /\ reply[d].code = "ok" => reply[d].data = Listing
        PROVE  CardsAreLoading' \/ (Loads' = {} /\ list' = Listing')
    <3>1. CASE d = c
      <4>1. Loads' = {}
        BY <1>2, <2>4, <3>1
      <4> QED BY <1>1, <1>2, <2>2, <2>4, <3>1, <4>1
    <3>2. CASE d # c
      <4>1. Same(d) /\ d \in Loads' /\ Newest(d)'
        BY <1>2, <2>4, <3>2, UnderWayIsOfCalls DEF OthersSame, Newest
      <4> QED BY <2>2, <2>4, <4>1 DEF CardsAreLoading, Same
    <3> QED BY <3>1, <3>2
  <2> QED BY <1>2, <2>1, <2>3, <2>4 DEF CardsTabInv, ListCatchesUp, CardsAreLoading
<1>4. CardsTabWaitsForCalls'
  BY <1>1, <1>2, UnderWayIsOfCalls DEF CardsTabInv, CardsTabWaitsForCalls, OthersSame, Same
<1>5. PromptTypes' /\ RevealedUnderOwnCard'
  BY <1>1 DEF CardsTabInv, PromptTypes, RevealedUnderOwnCard
<1> QED BY <1>2, <1>3, <1>4, <1>5 DEF CardsTabInv

LEMMA ChangedKeeps ==
    ASSUME CardsTabInv, NEW c \in Calls, NEW r, Outcome(c, r), Changed(c, r)
    PROVE  CardsTabInv'
<1>1. /\ asked[c].kind \in {"issue", "status", "delete"}
      /\ UNCHANGED <<kindOf, status, list, listing, prompt, waiting, hasty>>
  BY DEF Changed
<1>2. /\ DOMAIN revealed' = CardIds
      /\ \A k \in CardIds : revealed'[k] \in {revealed[k], NoCard}
  BY DEF Changed, RevealedAfter, CardsTabInv, TabTypes
<1>3. PromptTypes' /\ RevealedUnderOwnCard'
  BY <1>1, <1>2 DEF CardsTabInv, PromptTypes, RevealedUnderOwnCard
<1>4. CASE IsReloaded(c, r)
  <2>1. FinishAndAsk(c, Load)
    BY <1>4 DEF Changed
  <2>2. /\ NetInv' /\ KindsAre({"load", "issue", "status", "delete", "reveal"})'
        /\ TabTypes' /\ DetailsAreOfCard' /\ ListCatchesUp' /\ IssueIsFirst'
        /\ Loads' # {}
        /\ \A d \in UnderWay : d # c => d \in UnderWay' /\ asked'[d] = asked[d]
    BY <1>1, <1>2, <2>1, TabReloads
  <2>3. CardsTabWaitsForCalls'
    BY <1>1, <2>2 DEF CardsTabInv, CardsTabWaitsForCalls
  <2> QED BY <1>3, <2>2, <2>3 DEF CardsTabInv
<1>5. CASE ~IsReloaded(c, r)
  <2>1. Finish(c, r)
    BY <1>5 DEF Changed
  <2>2. /\ NetInv' /\ KindsAre({"load", "issue", "status", "delete", "reveal"})'
        /\ TabTypes' /\ DetailsAreOfCard' /\ IssueIsFirst'
        /\ UnderWay' = UnderWay \ {c} /\ Loads' = Loads \ {c}
        /\ r = Lost \/ (stage[c] = "served" /\ r = reply[c])
        /\ OthersSame(c)
        /\ calm' => calm /\ r # Lost
    BY <1>1, <1>2, <2>1, TabEnds
  <2>3. ListCatchesUp'
    BY <1>1, <1>5, <2>2, ListStaysCaughtUp
  <2>4. CardsTabWaitsForCalls'
    BY <1>1, <2>2, UnderWayIsOfCalls DEF CardsTabInv, CardsTabWaitsForCalls, OthersSame, Same, Loads
  <2> QED BY <1>3, <2>2, <2>3, <2>4 DEF CardsTabInv
<1> QED BY <1>4, <1>5

LEMMA PasswordCheckedKeeps ==
    ASSUME CardsTabInv, NEW c \in Calls, NEW r, Outcome(c, r), PasswordChecked(c, r)
    PROVE  CardsTabInv'
<1>1. /\ asked[c].kind = "reveal"
      /\ UNCHANGED <<kindOf, status, list, listing, confirming, hasty>>
  BY DEF PasswordChecked
<1>2. CASE r.code = "notFound" /\ RevealFindsNothing(c, r)
  <2>1. /\ NetInv' /\ KindsAre({"load", "issue", "status", "delete", "reveal"})'
        /\ TabTypes' /\ DetailsAreOfCard' /\ ListCatchesUp' /\ IssueIsFirst'
        /\ Loads' # {}
    BY <1>1, <1>2, TabReloads DEF RevealFindsNothing, CardsTabInv, TabTypes
  <2>2. PromptTypes' /\ RevealedUnderOwnCard' /\ CardsTabWaitsForCalls'
    BY <1>1, <1>2, <2>1 DEF RevealFindsNothing, CardsTabInv, PromptTypes, RevealedUnderOwnCard,
       CardsTabWaitsForCalls
  <2> QED BY <2>1, <2>2 DEF CardsTabInv
<1>3. ASSUME Finish(c, r), DOMAIN revealed' = CardIds, RevealedUnderOwnCard', PromptTypes',
             waiting' \in {waiting, NoCall} \ {c}, waiting' # NoCall => prompt' = prompt
      PROVE  CardsTabInv'
  <2>1. /\ NetInv' /\ KindsAre({"load", "issue", "status", "delete", "reveal"})'
        /\ TabTypes' /\ DetailsAreOfCard' /\ IssueIsFirst'
        /\ UnderWay' = UnderWay \ {c} /\ Loads' = Loads \ {c}
        /\ OthersSame(c)
        /\ calm' => calm
    BY <1>1, <1>3, TabEnds
  <2>2. ListCatchesUp'
    BY <1>1, <2>1, ListStaysCaughtUp
  <2>3. CardsTabWaitsForCalls'
    <3>1. c \notin Loads
      BY <1>1 DEF Loads
    <3>2. \A d \in UnderWay : d # c => asked'[d] = asked[d]
      BY <2>1, UnderWayIsOfCalls DEF OthersSame, Same
    <3> QED BY <1>1, <1>3, <2>1, <3>1, <3>2 DEF CardsTabInv, CardsTabWaitsForCalls
  <2> QED BY <1>3, <2>1, <2>2, <2>3 DEF CardsTabInv
<1>4. NoCall # c
  BY CardsTabConstants
<1>5. CASE r.code = "ok" /\ RevealSucceeds(c, r)
  <2>1. r.data = asked[c].card
    BY <1>1, <1>5, OutcomeEffect DEF CardsTabInv, DetailsAreOfCard
  <2>2. RevealedUnderOwnCard' /\ DOMAIN revealed' = CardIds
    BY <1>5, <2>1 DEF RevealSucceeds, CardsTabInv, TabTypes, RevealedUnderOwnCard
  <2> QED BY <1>3, <1>4, <1>5, <2>2 DEF RevealSucceeds, PromptTypes
<1>6. CASE RevealFails(c, r)
  <2>1. /\ Finish(c, r) /\ UNCHANGED <<prompt, revealed>>
        /\ waiting' = IF waiting = c THEN NoCall ELSE waiting
    BY <1>6 DEF RevealFails
  <2>2. RevealedUnderOwnCard' /\ DOMAIN revealed' = CardIds /\ PromptTypes'
    BY <2>1 DEF CardsTabInv, TabTypes, RevealedUnderOwnCard, PromptTypes
  <2> QED BY <1>3, <1>4, <2>1, <2>2
<1> QED BY <1>2, <1>5, <1>6 DEF PasswordChecked

LEMMA CardsTabStarts ==
    ASSUME TabInit, Mount(Load, CallsOf["cards"]), "cards" \in Screens
    PROVE  CardsTabInv
<1>1. /\ NetInv
      /\ \A c \in UnderWay : asked[c] = Load /\ stage[c] = "sent"
      /\ \E c \in UnderWay : asked[c] = Load /\ Newest(c)
      /\ \A c \in Calls : stage[c] \notin {"orphan", "half", "served"}
  BY ScreensLoad, MountStep
<1>2. Load.kind = "load"
  BY DEF Load
<1>3. \E c \in Loads : stage[c] = "sent" /\ Newest(c)
  BY <1>1, <1>2 DEF Loads
<1>4. ListCatchesUp
  BY <1>3 DEF ListCatchesUp, CardsAreLoading
<1>5. IssueIsFirst
  <2>1. Issuing = {}
    BY <1>1, <1>2 DEF Issuing, Unserved, UnderWay
  <2>2. OneOfAKind
    BY IssuedDiffer, CardsTabConstants DEF TabInit, OneOfAKind, Live
  <2> QED BY <2>1, <2>2 DEF IssueIsFirst
<1>6. KindsAre({"load", "issue", "status", "delete", "reveal"})
  BY <1>1, <1>2 DEF KindsAre
<1>7. TabTypes /\ PromptTypes /\ RevealedUnderOwnCard
  BY DEF TabInit, TabTypes, PromptTypes, RevealedUnderOwnCard
<1>8. DetailsAreOfCard
  BY <1>1 DEF DetailsAreOfCard
<1>9. CardsTabWaitsForCalls
  BY <1>3 DEF TabInit, CardsTabWaitsForCalls
<1> QED BY <1>1, <1>4, <1>5, <1>6, <1>7, <1>8, <1>9 DEF CardsTabInv

LEMMA CardsTabKeeps ==
    ASSUME CardsTabInv, CardsTabNext \/ UNCHANGED cardTabVars
    PROVE  CardsTabInv'
<1>1. CASE User
  BY <1>1, TabUserKeeps
<1>2. CASE OtherWindow
  BY <1>2, OtherWindowKeeps
<1>3. ASSUME NEW c \in Calls, ServeTab(c)
      PROVE  CardsTabInv'
  BY <1>3, ServeTabKeeps
<1>4. ASSUME NEW c \in Calls, Callback(c)
      PROVE  CardsTabInv'
  <2>1. PICK r \in {reply[c], Lost} :
           Outcome(c, r) /\ (ListLoaded(c, r) \/ Changed(c, r) \/ PasswordChecked(c, r))
    BY <1>4 DEF Callback
  <2> QED BY <2>1, ListLoadedKeeps, ChangedKeeps, PasswordCheckedKeeps
<1>5. CASE UNCHANGED cardTabVars
  BY <1>5, TabLooksKeeps DEF cardTabVars, tabVars, CardsTabInv, TabTypes, PromptTypes
<1> QED BY <1>1, <1>2, <1>3, <1>4, <1>5 DEF CardsTabNext, CardsTabRest

-----------------------------------------------------------------------------
(* The accounts.                                                           *)

\* The calls of dialogs that are under way.
Creates == {c \in UnderWay : asked[c].kind = "create"}

Succeeded(c) == stage[c] = "served" /\ reply[c].code = "ok"

ModalTypes ==
    /\ DOMAIN account = AccountIds
    /\ opened \in [Modals -> Nat] /\ used \subseteq Modals /\ modal \in used \union {NoModal}
    /\ opening => modal # NoModal

\* A dialog has one call under way, and none if it can be submitted; an account is
\* opened by a call that succeeds, and before it succeeds the dialog has opened none.
CreatesOnce ==
    /\ \A c, d \in Creates : asked[c].modal = asked[d].modal => c = d
    /\ \A c \in Creates : /\ asked[c].modal \in used
                          /\ ~Succeeded(c) => opened[asked[c].modal] = 0
    /\ \A t \in Modals : opened[t] <= 1
    /\ \A t \in Modals \ used : opened[t] = 0
    /\ modal # NoModal /\ ~opening =>
          opened[modal] = 0 /\ \A c \in Creates : asked[c].modal # modal

AccountsWillReload ==
    \E c \in Calls : Succeeded(c) /\ asked[c].kind \in {"create", "close"}

AccountsAreLoading ==
    \E c \in Loads : Newest(c) /\ (Succeeded(c) => reply[c].data = AccountListing)

AccountsCatchUp ==
    calm => AccountsWillReload \/ AccountsAreLoading \/ (Loads = {} /\ accounts = AccountListing)

DashboardInv ==
    /\ NetInv /\ KindsAre({"load", "create", "close"})
    /\ ModalTypes
    /\ ~blind => CreatesOnce
    /\ AccountsCatchUp
    /\ DashboardWaitsForCalls

LEMMA AccountsCatchUpStays ==
    ASSUME AccountsCatchUp, calm' => calm, UNCHANGED <<account, accounts>>,
           calm => /\ Loads' = Loads
                   /\ \A c \in Loads : Same(c)
                   /\ \A c \in Calls : Succeeded(c) /\ asked[c].kind \in {"create", "close"} => Same(c)
    PROVE  AccountsCatchUp'
<1> SUFFICES ASSUME calm'
             PROVE  AccountsWillReload' \/ AccountsAreLoading' \/ (Loads' = {} /\ accounts' = AccountListing')
  BY DEF AccountsCatchUp
<1>1. AccountListing' = AccountListing
  BY DEF AccountListing
<1>2. AccountsWillReload => AccountsWillReload'
  BY DEF AccountsWillReload, Succeeded, Same
<1>3. AccountsAreLoading => AccountsAreLoading'
  BY <1>1 DEF AccountsAreLoading, Newest, Succeeded, Same
<1> QED BY <1>1, <1>2, <1>3 DEF AccountsCatchUp

\* Dialogs and questions are opened and closed.
LEMMA DashboardLooksKeeps ==
    ASSUME DashboardInv, UNCHANGED <<net, account, accounts, fetching, opened>>,
           \/ UNCHANGED <<modal, used, opening>>
           \/ modal' = NoModal /\ opening' = FALSE /\ used' = used
           \/ \E t \in Modals : /\ modal = NoModal /\ t \notin used
                               /\ modal' = t /\ used' = used \union {t} /\ opening' = opening
    PROVE  DashboardInv'
<1>1. /\ NetInv' /\ UnderWay' = UnderWay /\ Loads' = Loads
      /\ \A d \in Calls : Same(d)
      /\ blind' = blind /\ calm' = calm
  BY StillStep DEF DashboardInv
<1>2. UNCHANGED <<stage, asked, reply>>
  BY DEF net
<1>3. KindsAre({"load", "create", "close"})'
  BY <1>1, <1>2 DEF DashboardInv, KindsAre
<1>4. ModalTypes'
  <2>1. used' \subseteq Modals /\ modal' \in used' \union {NoModal}
    BY DEF DashboardInv, ModalTypes
  <2>2. opening' => modal' # NoModal
    BY DashboardConstants DEF DashboardInv, ModalTypes
  <2> QED BY <2>1, <2>2 DEF DashboardInv, ModalTypes
<1>5. Creates' = Creates
  BY <1>1, <1>2 DEF Creates
<1>6. CreatesOnce => CreatesOnce'
  BY <1>2, <1>5, DashboardConstants DEF CreatesOnce, Succeeded, DashboardInv, ModalTypes
<1>7. AccountsCatchUp'
  BY <1>1, UnderWayIsOfCalls, AccountsCatchUpStays DEF DashboardInv
<1>8. DashboardWaitsForCalls'
  BY <1>1, <1>2 DEF DashboardInv, DashboardWaitsForCalls, ModalTypes
<1> QED BY <1>1, <1>3, <1>4, <1>6, <1>7, <1>8 DEF DashboardInv

LEMMA SubmitNewKeeps ==
    ASSUME DashboardInv, NEW c \in Calls, SubmitNew(c)
    PROVE  DashboardInv'
<1> DEFINE what == [kind |-> "create", modal |-> modal]
<1>1. /\ Ask(c, what) /\ MayOpen /\ opening' = TRUE
      /\ UNCHANGED <<account, accounts, fetching, modal, used, confirmDeleteId, opened>>
  BY DEF SubmitNew
<1>2. what.kind = "create" /\ what.modal = modal
  OBVIOUS
<1> HIDE DEF what
<1>3. /\ NetInv'
      /\ c \notin UnderWay /\ UnderWay' = UnderWay \union {c}
      /\ Loads' = Loads
      /\ stage[c] = "unsent" /\ stage'[c] = "sent" /\ asked'[c] = what
      /\ OthersSame(c) /\ blind' = blind
      /\ calm' => calm
  BY <1>1, <1>2, AskStep DEF DashboardInv
<1>4. KindsAre({"load", "create", "close"})'
  BY <1>2, <1>3, UnderWayIsOfCalls DEF DashboardInv, KindsAre, OthersSame, Same
<1>5. ModalTypes'
  BY <1>1 DEF DashboardInv, ModalTypes, MayOpen
<1>6. ASSUME ~blind
      PROVE  CreatesOnce'
  <2>1. CreatesOnce /\ modal # NoModal /\ ~opening
    BY <1>1, <1>6 DEF DashboardInv, MayOpen
  <2>2. Creates' = Creates \union {c}
    BY <1>2, <1>3, UnderWayIsOfCalls DEF Creates, OthersSame, Same
  <2>3. \A d \in Creates : d # c /\ asked'[d] = asked[d] /\ (Succeeded(d)' <=> Succeeded(d))
    BY <1>3, UnderWayIsOfCalls DEF Creates, Succeeded, OthersSame, Same
  <2>4. modal \in used
    BY <2>1 DEF DashboardInv, ModalTypes
  <2>5. asked'[c].modal = modal
    BY <1>2, <1>3
  <2> QED BY <1>1, <2>1, <2>2, <2>3, <2>4, <2>5 DEF CreatesOnce
<1>7. AccountsCatchUp'
  BY <1>1, <1>3, UnderWayIsOfCalls, AccountsCatchUpStays DEF DashboardInv, Succeeded, OthersSame
<1>8. DashboardWaitsForCalls'
  BY <1>1, <1>2, <1>3 DEF DashboardInv, DashboardWaitsForCalls
<1> QED BY <1>3, <1>4, <1>5, <1>6, <1>7, <1>8 DEF DashboardInv

LEMMA ConfirmCloseKeeps ==
    ASSUME DashboardInv, NEW c \in Calls, NEW a \in AccountIds, ConfirmClose(c, a)
    PROVE  DashboardInv'
<1> DEFINE what == [kind |-> "close", account |-> a]
<1>1. /\ Ask(c, what)
      /\ UNCHANGED <<account, accounts, fetching, modal, used, opening, opened>>
  BY DEF ConfirmClose
<1>2. what.kind = "close"
  OBVIOUS
<1> HIDE DEF what
<1>3. /\ NetInv'
      /\ c \notin UnderWay /\ UnderWay' = UnderWay \union {c}
      /\ Loads' = Loads
      /\ stage[c] = "unsent" /\ stage'[c] = "sent" /\ asked'[c] = what
      /\ OthersSame(c) /\ blind' = blind
      /\ calm' => calm
  BY <1>1, <1>2, AskStep DEF DashboardInv
<1>4. \A d \in UnderWay : d # c /\ asked'[d] = asked[d] /\ (Succeeded(d)' <=> Succeeded(d))
  BY <1>3, UnderWayIsOfCalls DEF Succeeded, OthersSame, Same
<1>5. KindsAre({"load", "create", "close"})'
  BY <1>2, <1>3, <1>4 DEF DashboardInv, KindsAre
<1>6. ModalTypes'
  BY <1>1 DEF DashboardInv, ModalTypes
<1>7. CreatesOnce => CreatesOnce'
  <2>1. Creates' = Creates
    BY <1>2, <1>3, <1>4 DEF Creates
  <2> QED BY <1>1, <1>4, <2>1 DEF CreatesOnce, Creates
<1>8. AccountsCatchUp'
  BY <1>1, <1>3, UnderWayIsOfCalls, AccountsCatchUpStays DEF DashboardInv, Succeeded, OthersSame
<1>9. DashboardWaitsForCalls'
  BY <1>1, <1>3, <1>4 DEF DashboardInv, DashboardWaitsForCalls
<1> QED BY <1>3, <1>5, <1>6, <1>7, <1>8, <1>9 DEF DashboardInv

LEMMA ServeDashboardKeeps ==
    ASSUME DashboardInv, NEW c \in Calls, ServeDashboard(c)
    PROVE  DashboardInv'
<1>1. UNCHANGED <<accounts, fetching, modal, used, opening, confirmDeleteId>>
  BY DEF ServeDashboard
<1>2. PICK r : /\ Answer(c, r)
               /\ \/ /\ asked[c].kind = "load" /\ r.code = "ok" /\ r.data = AccountListing
                     /\ UNCHANGED <<account, opened>>
                  \/ /\ asked[c].kind = "create" /\ r.code = "ok" /\ DOMAIN account' = AccountIds
                     /\ opened' = [opened EXCEPT ![asked[c].modal] = @ + 1]
                  \/ /\ asked[c].kind = "close" /\ r.code = "ok" /\ DOMAIN account' = AccountIds
                     /\ UNCHANGED opened
                  \/ r.code # "ok" /\ UNCHANGED <<account, opened>>
  <2>1. CASE ServeAccounts(c)
    BY <2>1 DEF ServeAccounts
  <2>2. CASE ServeCreate(c)
    <3>1. PICK a \in AccountIds : account' = [account EXCEPT ![a] = "empty"]
      BY <2>2 DEF ServeCreate
    <3>2. DOMAIN account' = AccountIds
      BY <3>1 DEF DashboardInv, ModalTypes
    <3> DEFINE r == [code |-> "ok"]
    <3>3. r.code = "ok" /\ Answer(c, r)
      BY <2>2 DEF ServeCreate
    <3> HIDE DEF r
    <3> QED BY <2>2, <3>2, <3>3 DEF ServeCreate
  <2>3. CASE ServeClose(c)
    <3>1. DOMAIN account' = AccountIds
      BY <2>3 DEF ServeClose, DashboardInv, ModalTypes
    <3> DEFINE r == [code |-> "ok"]
    <3>2. r.code = "ok" /\ Answer(c, r)
      BY <2>3 DEF ServeClose
    <3> HIDE DEF r
    <3> QED BY <2>3, <3>1, <3>2 DEF ServeClose
  <2>4. CASE RefuseDashboard(c)
    BY <2>4 DEF RefuseDashboard, Refused
  <2> QED BY <2>1, <2>2, <2>3, <2>4 DEF ServeDashboard
<1>3. /\ NetInv'
      /\ UnderWay' = UnderWay /\ Loads' = Loads
      /\ \/ /\ Unserved(c) /\ stage'[c] = "served" /\ reply'[c] = r
            /\ asked'[c] = asked[c]
         \/ blind /\ stage[c] = "orphan" /\ stage'[c] = "over"
      /\ OthersSame(c)
      /\ blind' = blind /\ calm' = calm
  BY <1>2, AnswerStep DEF DashboardInv
<1>4. \A d \in UnderWay : asked'[d] = asked[d]
  BY <1>3, UnderWayIsOfCalls DEF UnderWay, OthersSame, Same
<1>5. Creates' = Creates
  BY <1>3, <1>4 DEF Creates
<1>6. KindsAre({"load", "create", "close"})'
  BY <1>3, <1>4 DEF DashboardInv, KindsAre
<1>7. ModalTypes'
  <2>1. opened' \in [Modals -> Nat]
    BY <1>2 DEF DashboardInv, ModalTypes
  <2>2. DOMAIN account' = AccountIds
    BY <1>2 DEF DashboardInv, ModalTypes
  <2> QED BY <1>1, <2>1, <2>2 DEF DashboardInv, ModalTypes
<1>8. ASSUME ~blind
      PROVE  CreatesOnce'
  <2>1. CreatesOnce /\ c \in UnderWay /\ ~Succeeded(c)
    BY <1>3, <1>8 DEF DashboardInv, UnderWay, Unserved, Succeeded
  <2>2. \A d \in Creates : d # c => (Succeeded(d)' <=> Succeeded(d))
    BY <1>3, UnderWayIsOfCalls DEF Creates, OthersSame, Same, Succeeded
  <2>3. Succeeded(c)' <=> r.code = "ok"
    BY <1>3, <1>8 DEF Succeeded
  <2>4. CASE UNCHANGED opened
    BY <1>1, <1>4, <1>5, <2>1, <2>2, <2>4 DEF CreatesOnce, Creates
  <2>5. CASE /\ asked[c].kind = "create" /\ r.code = "ok"
             /\ opened' = [opened EXCEPT ![asked[c].modal] = @ + 1]
    <3>1. c \in Creates /\ asked[c].modal \in Modals /\ opened[asked[c].modal] = 0
      BY <2>1, <2>5 DEF Creates, CreatesOnce, DashboardInv, ModalTypes
    <3>2. /\ opened'[asked[c].modal] = 1
          /\ \A t \in Modals : t # asked[c].modal => opened'[t] = opened[t]
      BY <2>5, <3>1 DEF DashboardInv, ModalTypes
    <3>3. \A d \in Creates : /\ asked'[d].modal \in used'
                             /\ ~Succeeded(d)' => opened'[asked'[d].modal] = 0
      <4> SUFFICES ASSUME NEW d \in Creates
                   PROVE  /\ asked'[d].modal \in used'
                          /\ ~Succeeded(d)' => opened'[asked'[d].modal] = 0
        OBVIOUS
      <4>1. asked'[d] = asked[d] /\ asked[d].modal \in used /\ asked[d].modal \in Modals
        BY <1>4, <2>1 DEF Creates, CreatesOnce, DashboardInv, ModalTypes
      <4>2. CASE d = c
        BY <1>1, <2>3, <2>5, <4>1, <4>2
      <4>3. CASE d # c
        BY <1>1, <2>1, <2>2, <3>1, <3>2, <4>1, <4>3 DEF CreatesOnce
      <4> QED BY <4>2, <4>3
    <3>4. \A t \in Modals : opened'[t] <= 1
      BY <2>1, <3>2 DEF CreatesOnce
    <3>5. \A t \in Modals \ used : opened'[t] = 0
      BY <2>1, <3>1, <3>2 DEF CreatesOnce
    <3>6. modal # NoModal /\ ~opening =>
             opened'[modal] = 0 /\ \A d \in Creates : asked'[d].modal # modal
      BY <1>4, <2>1, <3>1, <3>2 DEF CreatesOnce, Creates, DashboardInv, ModalTypes
    <3>7. \A d, e \in Creates : asked'[d].modal = asked'[e].modal => d = e
      BY <1>4, <2>1 DEF CreatesOnce, Creates
    <3>8. /\ \A d, e \in Creates' : asked'[d].modal = asked'[e].modal => d = e
          /\ \A d \in Creates' : /\ asked'[d].modal \in used'
                                 /\ ~Succeeded(d)' => opened'[asked'[d].modal] = 0
      BY <1>5, <3>3, <3>7
    <3>9. /\ \A t \in Modals : opened'[t] <= 1
          /\ \A t \in Modals \ used' : opened'[t] = 0
          /\ modal' # NoModal /\ ~opening' =>
                opened'[modal'] = 0 /\ \A d \in Creates' : asked'[d].modal # modal'
      BY <1>1, <1>5, <3>4, <3>5, <3>6
    <3> QED BY <3>8, <3>9 DEF CreatesOnce
  <2> QED BY <1>2, <2>4, <2>5
<1>9. AccountsCatchUp'
  <2> SUFFICES ASSUME calm
               PROVE  AccountsCatchUp'
    BY <1>3 DEF AccountsCatchUp
  <2>1. Unserved(c) /\ stage'[c] = "served" /\ reply'[c] = r /\ asked'[c] = asked[c]
    BY <1>3 DEF DashboardInv, NetInv
  <2>2. CASE asked[c].kind \in {"create", "close"} /\ r.code = "ok"
    BY <2>1, <2>2 DEF AccountsCatchUp, AccountsWillReload, Succeeded
  <2>3. CASE asked[c].kind = "load" /\ (r.code = "ok" => r.data = AccountListing) /\ UNCHANGED account
    <3>1. c \in Loads /\ AccountListing' = AccountListing
      BY <1>3, <2>1, <2>3 DEF Loads, UnderWay, Unserved, AccountListing
    <3>2. AccountsWillReload => AccountsWillReload'
      BY <1>3, <2>3 DEF AccountsWillReload, Succeeded, OthersSame, Same
    <3>3. ASSUME NEW d \in Loads, Newest(d), Succeeded(d) => reply[d].data = AccountListing
          PROVE  AccountsAreLoading'
      <4>1. Newest(d)' /\ d \in Loads'
        BY <1>3, <3>3 DEF Newest
      <4>2. CASE d = c
        BY <2>1, <2>3, <3>1, <4>1, <4>2 DEF AccountsAreLoading, Succeeded
      <4>3. CASE d # c
        <5>1. Same(d)
          BY <1>3, <4>3, UnderWayIsOfCalls DEF OthersSame
        <5> QED BY <2>3, <3>1, <3>3, <4>1, <5>1 DEF AccountsAreLoading, Succeeded, Same
      <4> QED BY <4>2, <4>3
    <3> QED BY <1>3, <3>1, <3>2, <3>3 DEF DashboardInv, AccountsCatchUp, AccountsAreLoading
  <2>4. CASE asked[c].kind # "load" /\ UNCHANGED account
    BY <1>1, <1>3, <2>1, <2>4, UnderWayIsOfCalls, AccountsCatchUpStays
       DEF DashboardInv, Succeeded, Unserved, OthersSame, Loads
  <2> QED BY <1>2, <2>2, <2>3, <2>4
<1>10. DashboardWaitsForCalls'
  BY <1>1, <1>3, <1>4 DEF DashboardInv, DashboardWaitsForCalls
<1> QED BY <1>3, <1>6, <1>7, <1>8, <1>9, <1>10 DEF DashboardInv

\* A callback of a dialog's call: that call is no longer under way.
LEMMA CreatesOnceEnds ==
    ASSUME DashboardInv, ~blind, NEW c \in Calls,
           Creates' = Creates \ {c},
           \A d \in Creates : d # c => asked'[d] = asked[d] /\ (Succeeded(d)' <=> Succeeded(d)),
           UNCHANGED <<used, opened>>,
           \/ modal' = NoModal
           \/ /\ modal' = modal
              /\ ~opening' => ~opening \/ (c \in Creates /\ asked[c].modal = modal /\ ~Succeeded(c))
    PROVE  CreatesOnce'
<1>1. CreatesOnce
  BY DEF DashboardInv
<1>2. \A d, e \in Creates' : asked'[d].modal = asked'[e].modal => d = e
  BY <1>1 DEF CreatesOnce
<1>3. \A d \in Creates' : /\ asked'[d].modal \in used'
                          /\ ~Succeeded(d)' => opened'[asked'[d].modal] = 0
  BY <1>1 DEF CreatesOnce
<1>4. /\ \A t \in Modals : opened'[t] <= 1
      /\ \A t \in Modals \ used' : opened'[t] = 0
  BY <1>1 DEF CreatesOnce
<1>5. ASSUME modal' # NoModal, ~opening'
      PROVE  opened'[modal'] = 0 /\ \A d \in Creates' : asked'[d].modal # modal'
  <2>1. CASE c \in Creates /\ asked[c].modal = modal
    BY <1>1, <1>5, <2>1 DEF CreatesOnce
  <2>2. CASE ~(c \in Creates /\ asked[c].modal = modal)
    BY <1>1, <1>5, <2>2 DEF CreatesOnce
  <2> QED BY <2>1, <2>2
<1> QED BY <1>2, <1>3, <1>4, <1>5 DEF CreatesOnce

\* A call of the dashboard ends without another call.
LEMMA DashboardEnds ==
    ASSUME DashboardInv, NEW c \in Calls, NEW r, Outcome(c, r), Finish(c, r),
           UNCHANGED <<account, used, opened>>, modal' = modal,
           asked[c].kind = "create" => opening' = (opening /\ modal # asked[c].modal),
           asked[c].kind # "create" => opening' = opening,
           \/ asked[c].kind = "load" /\ accounts' = (IF r.code = "ok" THEN r.data ELSE accounts)
              /\ fetching' = FALSE
           \/ asked[c].kind \in {"create", "close"} /\ r.code # "ok" /\ UNCHANGED <<accounts, fetching>>
    PROVE  DashboardInv'
<1>1. /\ NetInv'
      /\ c \in UnderWay /\ UnderWay' = UnderWay \ {c} /\ Loads' = Loads \ {c}
      /\ stage'[c] \in {"over", "orphan"}
      /\ r = Lost \/ (stage[c] = "served" /\ r = reply[c])
      /\ r.code = "ok" => stage[c] = "served" /\ r = reply[c]
      /\ OthersSame(c)
      /\ ~blind' => ~blind /\ r # Lost
      /\ calm' => calm /\ r # Lost
      /\ calm' /\ asked[c].kind = "load" => r.code = "ok" /\ (Newest(c) => Loads = {c})
  BY EndStep DEF DashboardInv
<1>2. \A d \in UnderWay : d # c => asked'[d] = asked[d] /\ (Succeeded(d)' <=> Succeeded(d))
  BY <1>1, UnderWayIsOfCalls DEF OthersSame, Same, Succeeded
<1>3. KindsAre({"load", "create", "close"})'
  BY <1>1, <1>2 DEF DashboardInv, KindsAre
<1>4. ModalTypes'
  <2>1. opening' => opening
    OBVIOUS
  <2> QED BY <2>1 DEF DashboardInv, ModalTypes
<1>5. ASSUME ~blind'
      PROVE  CreatesOnce'
  <2>1. Creates' = Creates \ {c}
    BY <1>1, <1>2 DEF Creates
  <2>2. asked[c].kind = "create" => ~Succeeded(c)
    BY <1>1, <1>5 DEF Succeeded
  <2>3. ~opening' => ~opening \/ (c \in Creates /\ asked[c].modal = modal /\ ~Succeeded(c))
    <3>1. CASE asked[c].kind = "create"
      BY <1>1, <2>2, <3>1 DEF Creates
    <3>2. CASE asked[c].kind # "create"
      BY <3>2
    <3> QED BY <3>1, <3>2
  <2>4. \A d \in Creates : d # c => asked'[d] = asked[d] /\ (Succeeded(d)' <=> Succeeded(d))
    BY <1>2 DEF Creates
  <2> QED BY <1>1, <1>5, <2>1, <2>3, <2>4, CreatesOnceEnds
<1>6. AccountsCatchUp'
  <2>1. CASE asked[c].kind # "load"
    <3>1. calm' => ~(Succeeded(c) /\ asked[c].kind \in {"create", "close"})
      BY <1>1, <2>1 DEF Succeeded
    <3>2. Loads' = Loads
      BY <1>1, <2>1 DEF Loads
    <3>3. UNCHANGED <<account, accounts>>
      BY <2>1
    <3> SUFFICES ASSUME calm'
                 PROVE  AccountsCatchUp'
      BY DEF AccountsCatchUp
    <3> QED BY <1>1, <2>1, <3>1, <3>2, <3>3, UnderWayIsOfCalls, AccountsCatchUpStays
            DEF DashboardInv, OthersSame, Loads
  <2>2. CASE asked[c].kind = "load"
    <3> SUFFICES ASSUME calm'
                 PROVE  \/ AccountsWillReload' \/ AccountsAreLoading'
                        \/ Loads' = {} /\ accounts' = AccountListing'
      BY DEF AccountsCatchUp
    <3>1. c \in Loads /\ AccountListing' = AccountListing
      BY <1>1, <2>2 DEF Loads, AccountListing
    <3>2. r.code = "ok" /\ Succeeded(c) /\ accounts' = reply[c].data
      BY <1>1, <2>2 DEF Succeeded
    <3>3. ASSUME NEW d \in Loads, Newest(d), Succeeded(d) => reply[d].data = AccountListing
          PROVE  AccountsAreLoading' \/ (Loads' = {} /\ accounts' = AccountListing')
      <4>1. CASE d = c
        BY <1>1, <2>2, <3>1, <3>2, <3>3, <4>1
      <4>2. CASE d # c
        <5>1. Same(d) /\ d \in Loads' /\ Newest(d)'
          BY <1>1, <3>3, <4>2, UnderWayIsOfCalls DEF OthersSame, Newest
        <5> QED BY <3>1, <3>3, <5>1 DEF AccountsAreLoading, Succeeded, Same
      <4> QED BY <4>1, <4>2
    <3>4. AccountsWillReload => AccountsWillReload'
      BY <1>1, <2>2 DEF AccountsWillReload, Succeeded, OthersSame, Same
    <3> QED BY <1>1, <3>1, <3>3, <3>4 DEF DashboardInv, AccountsCatchUp, AccountsAreLoading
  <2> QED BY <2>1, <2>2
<1>7. DashboardWaitsForCalls'
  <2>1. fetching' => Loads' # {}
    BY <1>1 DEF DashboardInv, DashboardWaitsForCalls, Loads
  <2>2. ASSUME opening'
        PROVE  \E d \in UnderWay' : asked'[d].kind = "create" /\ asked'[d].modal = modal'
    <3>1. opening /\ (asked[c].kind = "create" => modal # asked[c].modal)
      BY <2>2
    <3>2. PICK d \in UnderWay : asked[d].kind = "create" /\ asked[d].modal = modal
      BY <3>1 DEF DashboardInv, DashboardWaitsForCalls
    <3> QED BY <1>1, <1>2, <3>1, <3>2
  <2> QED BY <2>1, <2>2 DEF DashboardWaitsForCalls
<1> QED BY <1>1, <1>3, <1>4, <1>5, <1>6, <1>7 DEF DashboardInv

\* A call of the dashboard succeeds, and the list is loaded again.
LEMMA DashboardReloads ==
    ASSUME DashboardInv, NEW c \in Calls, NEW r, Outcome(c, r), FinishAndAsk(c, LoadAccounts),
           UNCHANGED <<account, accounts, fetching, used, opened>>,
           \/ asked[c].kind = "create" /\ modal' = NoModal /\ opening' = FALSE
           \/ asked[c].kind = "close" /\ UNCHANGED <<modal, opening>>
    PROVE  DashboardInv'
<1>1. PICK d \in Calls :
              /\ NetInv'
              /\ c \in UnderWay /\ d \notin UnderWay
              /\ UnderWay' = (UnderWay \ {c}) \union {d}
              /\ Loads' = IF LoadAccounts.kind = "load" THEN (Loads \ {c}) \union {d} ELSE Loads \ {c}
              /\ stage'[c] = "over" /\ stage'[d] = "sent" /\ asked'[d] = LoadAccounts
              /\ stage[d] = "unsent"
              /\ \A e \in Calls : e # c /\ e # d => Same(e)
              /\ blind' = blind
              /\ LoadAccounts.kind = "load" => Newest(d)'
  BY FollowUpStep DEF DashboardInv
<1>2. LoadAccounts.kind = "load"
  BY DEF LoadAccounts
<1>3. d \in Loads' /\ ~Succeeded(d)'
  BY <1>1, <1>2 DEF Succeeded
<1>4. \A e \in UnderWay : e # c => /\ e \in UnderWay' /\ asked'[e] = asked[e]
                                   /\ Succeeded(e)' <=> Succeeded(e)
  BY <1>1, UnderWayIsOfCalls DEF Same, Succeeded
<1>5. KindsAre({"load", "create", "close"})'
  BY <1>1, <1>2, <1>4 DEF DashboardInv, KindsAre
<1>6. ModalTypes'
  BY DEF DashboardInv, ModalTypes
<1>7. ASSUME ~blind'
      PROVE  CreatesOnce'
  <2>1. Creates' = Creates \ {c}
    BY <1>1, <1>2, <1>4 DEF Creates
  <2> QED BY <1>1, <1>4, <1>7, <2>1, CreatesOnceEnds DEF Creates
<1>8. AccountsCatchUp'
  BY <1>1, <1>2, <1>3 DEF AccountsCatchUp, AccountsAreLoading
<1>9. DashboardWaitsForCalls'
  BY <1>3, <1>4 DEF DashboardInv, DashboardWaitsForCalls
<1> QED BY <1>1, <1>5, <1>6, <1>7, <1>8, <1>9 DEF DashboardInv

LEMMA AccountsChangeKeeps ==
    ASSUME DashboardInv, AccountsChange
    PROVE  DashboardInv'
<1>1. /\ NetInv' /\ UnderWay' = UnderWay /\ Loads' = Loads
      /\ \A d \in Calls : Same(d)
      /\ blind' = blind /\ ~calm'
  BY MeddledStep DEF DashboardInv, AccountsChange
<1>2. /\ DOMAIN account' = AccountIds /\ UNCHANGED <<asked, stage, reply>>
      /\ UNCHANGED <<accounts, fetching, modal, used, opening, opened>>
  BY DEF AccountsChange, Meddled, DashboardInv, ModalTypes
<1>3. KindsAre({"load", "create", "close"})' /\ DashboardWaitsForCalls'
  BY <1>1, <1>2 DEF DashboardInv, KindsAre, DashboardWaitsForCalls
<1>4. ModalTypes'
  BY <1>2 DEF DashboardInv, ModalTypes
<1>5. CreatesOnce => CreatesOnce'
  <2>1. Creates' = Creates
    BY <1>1, <1>2 DEF Creates
  <2> QED BY <1>2, <2>1 DEF CreatesOnce, Succeeded
<1>6. AccountsCatchUp'
  BY <1>1 DEF AccountsCatchUp
<1> QED BY <1>1, <1>3, <1>4, <1>5, <1>6 DEF DashboardInv

LEMMA DashboardStarts ==
    ASSUME ListInit, Mount(LoadAccounts, CallsOf["dashboard"]), "dashboard" \in Screens
    PROVE  DashboardInv
<1>1. /\ NetInv
      /\ \A c \in UnderWay : asked[c] = LoadAccounts /\ stage[c] = "sent"
      /\ \E c \in UnderWay : asked[c] = LoadAccounts /\ Newest(c)
  BY ScreensLoad, MountStep
<1>2. LoadAccounts.kind = "load"
  BY DEF LoadAccounts
<1>3. \E c \in Loads : stage[c] = "sent" /\ Newest(c)
  BY <1>1, <1>2 DEF Loads
<1>4. AccountsCatchUp
  BY <1>3 DEF AccountsCatchUp, AccountsAreLoading, Succeeded
<1>5. KindsAre({"load", "create", "close"}) /\ Creates = {}
  BY <1>1, <1>2 DEF KindsAre, Creates
<1>6. ModalTypes
  BY DEF ListInit, ModalTypes
<1>7. CreatesOnce
  BY <1>5 DEF ListInit, CreatesOnce
<1>8. DashboardWaitsForCalls
  BY <1>3 DEF ListInit, DashboardWaitsForCalls
<1> QED BY <1>1, <1>4, <1>5, <1>6, <1>7, <1>8 DEF DashboardInv

LEMMA DashboardKeeps ==
    ASSUME DashboardInv, DashboardNext \/ UNCHANGED dashboardPageVars
    PROVE  DashboardInv'
<1>1. CASE DashboardUser
  <2>1. ASSUME NEW t \in Modals, OpenModal(t)
        PROVE  DashboardInv'
    BY <2>1, DashboardLooksKeeps DEF OpenModal
  <2>2. CASE CloseModal
    BY <2>2, DashboardLooksKeeps DEF CloseModal
  <2>3. ASSUME NEW a \in AccountIds, AskToClose(a)
        PROVE  DashboardInv'
    BY <2>3, DashboardLooksKeeps DEF AskToClose
  <2> QED BY <1>1, <2>1, <2>2, <2>3, SubmitNewKeeps, ConfirmCloseKeeps DEF DashboardUser
<1>2. ASSUME NEW c \in Calls, DashboardCallback(c)
      PROVE  DashboardInv'
  <2>1. PICK r \in {reply[c], Lost} :
           Outcome(c, r) /\ (AccountsLoaded(c, r) \/ CreateEnds(c, r) \/ CloseEnds(c, r))
    BY <1>2 DEF DashboardCallback
  <2>2. UNCHANGED <<account, used, opened>>
    BY <1>2 DEF DashboardCallback
  <2>3. CASE AccountsLoaded(c, r)
    BY <2>1, <2>2, <2>3, DashboardEnds DEF AccountsLoaded
  <2>4. CASE CreateEnds(c, r) /\ r.code = "ok"
    BY <2>1, <2>2, <2>4, DashboardReloads DEF CreateEnds, Created
  <2>5. CASE CreateEnds(c, r) /\ r.code # "ok"
    BY <2>1, <2>2, <2>5, DashboardEnds DEF CreateEnds, NotCreated
  <2>6. CASE CloseEnds(c, r) /\ r.code = "ok"
    BY <2>1, <2>2, <2>6, DashboardReloads DEF CloseEnds
  <2>7. CASE CloseEnds(c, r) /\ r.code # "ok"
    BY <2>1, <2>2, <2>7, DashboardEnds DEF CloseEnds
  <2> QED BY <2>1, <2>3, <2>4, <2>5, <2>6, <2>7
<1>3. CASE UNCHANGED dashboardPageVars
  BY <1>3, DashboardLooksKeeps DEF dashboardPageVars, dashboardVars
<1> QED BY <1>1, <1>2, <1>3, ServeDashboardKeeps, AccountsChangeKeeps DEF DashboardNext, DashboardRest

-----------------------------------------------------------------------------
(* The account.                                                            *)

\* The deposits and withdrawals that are under way.
Monies == {c \in UnderWay : asked[c].kind \in {"deposit", "withdraw"}}

HeadTypes ==
    /\ moved \in [Dialogs -> Nat] /\ DOMAIN told = Dialogs /\ DOMAIN dialogKind = Dialogs
    /\ dialog \in Dialogs \union {NoDialog}
    /\ dialog # NoDialog => dialogKind[dialog] \in {"deposit", "withdraw"}
    /\ busy => dialog # NoDialog

\* Every call is of a dialog of its kind.
MoniesAreOfDialogs ==
    \A c \in Monies : asked[c].dialog \in Dialogs /\ asked[c].kind = dialogKind[asked[c].dialog]

DoneIsTrue ==
    /\ \A t \in Dialogs : told[t] = "done" => moved[t] > 0
    /\ \A c \in Monies : Succeeded(c) => moved[asked[c].dialog] > 0

\* A dialog has one call under way, and none if it can be submitted; money is moved
\* by a call that succeeds, and before it succeeds the dialog has moved none.
MovesOnce ==
    /\ \A c, d \in Monies : asked[c].dialog = asked[d].dialog => c = d
    /\ \A c \in Monies : /\ told[asked[c].dialog] = "nothing"
                         /\ ~Succeeded(c) => moved[asked[c].dialog] = 0
    /\ \A t \in Dialogs : /\ moved[t] <= 1
                          /\ told[t] = "failed" \/ dialogKind[t] = "none" => moved[t] = 0
    /\ dialog # NoDialog /\ ~busy =>
          moved[dialog] = 0 /\ \A c \in Monies : asked[c].dialog # dialog

BalanceWillReload ==
    \E c \in Calls : Succeeded(c) /\ asked[c].kind \in {"deposit", "withdraw"}

BalanceIsLoading ==
    \E c \in Loads : Newest(c) /\ (Succeeded(c) => reply[c].data = balance)

BalanceCatchesUp ==
    calm => BalanceWillReload \/ BalanceIsLoading \/ (Loads = {} /\ shown = balance)

HeadInv ==
    /\ NetInv /\ KindsAre({"load", "deposit", "withdraw"})
    /\ HeadTypes /\ MoniesAreOfDialogs /\ DoneIsTrue
    /\ ~blind => MovesOnce
    /\ BalanceCatchesUp
    /\ AccountPageWaitsForCalls

LEMMA BalanceCatchesUpStays ==
    ASSUME BalanceCatchesUp, calm' => calm, UNCHANGED <<balance, shown>>,
           calm => /\ Loads' = Loads
                   /\ \A c \in Loads : Same(c)
                   /\ \A c \in Calls : Succeeded(c) /\ asked[c].kind \in {"deposit", "withdraw"} => Same(c)
    PROVE  BalanceCatchesUp'
<1> SUFFICES ASSUME calm'
             PROVE  BalanceWillReload' \/ BalanceIsLoading' \/ (Loads' = {} /\ shown' = balance')
  BY DEF BalanceCatchesUp
<1>1. BalanceWillReload => BalanceWillReload'
  BY DEF BalanceWillReload, Succeeded, Same
<1>2. BalanceIsLoading => BalanceIsLoading'
  BY DEF BalanceIsLoading, Newest, Succeeded, Same
<1> QED BY <1>1, <1>2 DEF BalanceCatchesUp

\* Dialogs are opened and closed.
LEMMA HeadLooksKeeps ==
    ASSUME HeadInv, UNCHANGED <<net, balance, shown, spinning, told, moved>>,
           \/ UNCHANGED <<dialog, dialogKind, busy>>
           \/ dialog' = NoDialog /\ busy' = FALSE /\ dialogKind' = dialogKind
           \/ \E t \in Dialogs : \E kind \in {"deposit", "withdraw"} : 
                 /\ dialog = NoDialog /\ dialogKind[t] = "none"
                 /\ dialog' = t /\ dialogKind' = [dialogKind EXCEPT ![t] = kind] /\ busy' = busy
    PROVE  HeadInv'
<1>1. /\ NetInv' /\ UnderWay' = UnderWay /\ Loads' = Loads
      /\ \A d \in Calls : Same(d)
      /\ blind' = blind /\ calm' = calm
  BY StillStep DEF HeadInv
<1>2. UNCHANGED <<stage, asked, reply>>
  BY DEF net
<1>3. KindsAre({"load", "deposit", "withdraw"})'
  BY <1>1, <1>2 DEF HeadInv, KindsAre
<1>4. DOMAIN dialogKind' = Dialogs
  BY DEF HeadInv, HeadTypes
<1>5. \A t \in Dialogs : dialogKind[t] # "none" => dialogKind'[t] = dialogKind[t]
  BY DEF HeadInv, HeadTypes
<1>6. HeadTypes'
  <2>1. CASE UNCHANGED <<dialog, dialogKind, busy>>
    BY <2>1 DEF HeadInv, HeadTypes
  <2>2. CASE dialog' = NoDialog /\ busy' = FALSE /\ dialogKind' = dialogKind
    BY <2>2 DEF HeadInv, HeadTypes
  <2>3. ASSUME NEW t \in Dialogs, NEW kind \in {"deposit", "withdraw"},
               dialog = NoDialog, dialog' = t, dialogKind' = [dialogKind EXCEPT ![t] = kind],
               busy' = busy
        PROVE  HeadTypes'
    BY <1>4, <2>3 DEF HeadInv, HeadTypes
  <2> QED BY <2>1, <2>2, <2>3
<1>7. Monies' = Monies
  BY <1>1, <1>2 DEF Monies
<1>8. MoniesAreOfDialogs' /\ DoneIsTrue'
  BY <1>2, <1>5, <1>7 DEF HeadInv, MoniesAreOfDialogs, DoneIsTrue, Succeeded, Monies
<1>9. MovesOnce => MovesOnce'
  <2> SUFFICES ASSUME MovesOnce
               PROVE  MovesOnce'
    OBVIOUS
  <2>1. \A t \in Dialogs : dialogKind'[t] = "none" => dialogKind[t] = "none"
    BY <1>5
  <2>2. ASSUME dialog' # NoDialog, ~busy'
        PROVE  moved[dialog'] = 0 /\ \A c \in Monies : asked[c].dialog # dialog'
    <3>1. CASE UNCHANGED <<dialog, busy>>
      BY <2>2, <3>1 DEF MovesOnce
    <3>2. CASE dialog' \in Dialogs /\ dialogKind[dialog'] = "none"
      BY <3>2 DEF MovesOnce, HeadInv, MoniesAreOfDialogs, Monies
    <3> QED BY <2>2, <3>1, <3>2
  <2>3. /\ \A c, d \in Monies' : asked'[c].dialog = asked'[d].dialog => c = d
        /\ \A c \in Monies' : /\ told'[asked'[c].dialog] = "nothing"
                              /\ ~Succeeded(c)' => moved'[asked'[c].dialog] = 0
    BY <1>2, <1>7 DEF MovesOnce, Succeeded
  <2> QED BY <1>2, <1>7, <2>1, <2>2, <2>3 DEF MovesOnce
<1>10. BalanceCatchesUp'
  BY <1>1, UnderWayIsOfCalls, BalanceCatchesUpStays DEF HeadInv
<1>11. AccountPageWaitsForCalls'
  BY <1>1, <1>2 DEF HeadInv, AccountPageWaitsForCalls, HeadTypes
<1> QED BY <1>1, <1>3, <1>6, <1>8, <1>9, <1>10, <1>11 DEF HeadInv

LEMMA SubmitKeeps ==
    ASSUME HeadInv, NEW c \in Calls, NEW a \in Sums, Submit(c, a)
    PROVE  HeadInv'
<1> DEFINE what == [kind |-> dialogKind[dialog], dialog |-> dialog, amount |-> a]
<1>1. /\ Ask(c, what) /\ MaySubmit(a) /\ busy' = TRUE
      /\ told' = [told EXCEPT ![dialog] = "nothing"]
      /\ UNCHANGED <<balance, isOpen, shown, spinning, dialog, dialogKind, moved>>
  BY DEF Submit
<1>2. /\ dialog \in Dialogs /\ ~busy /\ dialog # NoDialog
      /\ dialogKind[dialog] \in {"deposit", "withdraw"}
  BY <1>1 DEF MaySubmit, HeadInv, HeadTypes
<1>3. what.kind = dialogKind[dialog] /\ what.dialog = dialog
  OBVIOUS
<1> HIDE DEF what
<1>4. /\ NetInv'
      /\ c \notin UnderWay /\ UnderWay' = UnderWay \union {c}
      /\ Loads' = IF what.kind = "load" THEN Loads \union {c} ELSE Loads
      /\ stage[c] = "unsent" /\ stage'[c] = "sent" /\ asked'[c] = what
      /\ OthersSame(c) /\ blind' = blind
      /\ calm' => calm
  BY <1>1, AskStep DEF HeadInv
<1>5. \A d \in UnderWay : d # c /\ asked'[d] = asked[d] /\ (Succeeded(d)' <=> Succeeded(d))
  BY <1>4, UnderWayIsOfCalls DEF Succeeded, OthersSame, Same
<1>6. Loads' = Loads
  BY <1>2, <1>3, <1>4
<1>7. KindsAre({"load", "deposit", "withdraw"})'
  BY <1>2, <1>3, <1>4, <1>5 DEF HeadInv, KindsAre
<1>8. HeadTypes'
  BY <1>1, <1>2 DEF HeadInv, HeadTypes
<1>9. Monies' = Monies \union {c} /\ ~Succeeded(c)'
  BY <1>2, <1>3, <1>4, <1>5 DEF Monies, Succeeded
<1>10. MoniesAreOfDialogs'
  BY <1>1, <1>2, <1>3, <1>4, <1>5, <1>9 DEF HeadInv, MoniesAreOfDialogs, Monies
<1>11. /\ told'[dialog] = "nothing"
       /\ \A t \in Dialogs : t # dialog => told'[t] = told[t]
  BY <1>1, <1>2 DEF HeadInv, HeadTypes
<1>12. DoneIsTrue'
  <2>1. \A t \in Dialogs : told'[t] = "done" => moved'[t] > 0
    BY <1>1, <1>11 DEF HeadInv, DoneIsTrue
  <2>2. \A d \in Monies' : Succeeded(d)' => moved'[asked'[d].dialog] > 0
    BY <1>1, <1>5, <1>9 DEF HeadInv, DoneIsTrue, Monies
  <2> QED BY <2>1, <2>2 DEF DoneIsTrue
<1>13. ASSUME ~blind
       PROVE  MovesOnce'
  <2>1. MovesOnce /\ moved[dialog] = 0 /\ \A d \in Monies : asked[d].dialog # dialog
    BY <1>2, <1>13 DEF HeadInv, MovesOnce
  <2>2. \A d \in Monies : asked'[d] = asked[d] /\ asked[d].dialog \in Dialogs
    BY <1>5 DEF Monies, HeadInv, MoniesAreOfDialogs
  <2>3. \A d, e \in Monies' : asked'[d].dialog = asked'[e].dialog => d = e
    BY <1>3, <1>4, <1>9, <2>1, <2>2 DEF MovesOnce
  <2>4. \A d \in Monies' : /\ told'[asked'[d].dialog] = "nothing"
                           /\ ~Succeeded(d)' => moved'[asked'[d].dialog] = 0
    <3> SUFFICES ASSUME NEW d \in Monies'
                 PROVE  /\ told'[asked'[d].dialog] = "nothing"
                        /\ ~Succeeded(d)' => moved'[asked'[d].dialog] = 0
      OBVIOUS
    <3>1. CASE d = c
      BY <1>1, <1>3, <1>4, <1>11, <2>1, <3>1
    <3>2. CASE d \in Monies
      <4>1. Succeeded(d)' <=> Succeeded(d)
        BY <1>5, <3>2 DEF Monies
      <4> QED BY <1>1, <1>11, <2>1, <2>2, <3>2, <4>1 DEF MovesOnce
    <3> QED BY <1>9, <3>1, <3>2
  <2>5. \A t \in Dialogs : /\ moved'[t] <= 1
                           /\ told'[t] = "failed" \/ dialogKind'[t] = "none" => moved'[t] = 0
    BY <1>1, <1>11, <2>1 DEF MovesOnce
  <2> QED BY <1>1, <2>3, <2>4, <2>5 DEF MovesOnce
<1>14. BalanceCatchesUp'
  BY <1>1, <1>4, <1>6, UnderWayIsOfCalls, BalanceCatchesUpStays DEF HeadInv, Succeeded, OthersSame
<1>15. AccountPageWaitsForCalls'
  BY <1>1, <1>2, <1>3, <1>4, <1>6 DEF HeadInv, AccountPageWaitsForCalls
<1> QED BY <1>4, <1>7, <1>8, <1>10, <1>12, <1>13, <1>14, <1>15 DEF HeadInv

LEMMA ServeHeadKeeps ==
    ASSUME HeadInv, NEW c \in Calls, ServeHead(c)
    PROVE  HeadInv'
<1>1. UNCHANGED <<isOpen, shown, spinning, dialog, dialogKind, busy, told>>
  BY DEF ServeHead
<1>2. PICK r : /\ Answer(c, r)
               /\ \/ /\ asked[c].kind = "load" /\ (r.code = "ok" => r.data = balance)
                     /\ UNCHANGED <<balance, moved>>
                  \/ /\ asked[c].kind \in {"deposit", "withdraw"} /\ r.code = "ok"
                     /\ moved' = [moved EXCEPT ![asked[c].dialog] = @ + 1]
                  \/ r.code # "ok" /\ UNCHANGED <<balance, moved>>
  <2>1. CASE ServeAccount(c)
    <3>1. PICK r \in {[code |-> "ok", data |-> balance], [code |-> "notFound"]} : Answer(c, r)
      BY <2>1 DEF ServeAccount
    <3>2. r.code = "ok" => r.data = balance
      OBVIOUS
    <3> QED BY <2>1, <3>1, <3>2 DEF ServeAccount
  <2>2. CASE ServeMoney(c)
    <3> DEFINE r == [code |-> "ok"]
    <3>1. r.code = "ok" /\ Answer(c, r)
      BY <2>2 DEF ServeMoney
    <3> HIDE DEF r
    <3> QED BY <2>2, <3>1 DEF ServeMoney
  <2>3. CASE RefuseMoney(c)
    BY <2>3 DEF RefuseMoney, Refused
  <2> QED BY <2>1, <2>2, <2>3 DEF ServeHead
<1>3. /\ NetInv'
      /\ UnderWay' = UnderWay /\ Loads' = Loads
      /\ \/ /\ Unserved(c) /\ stage'[c] = "served" /\ reply'[c] = r
            /\ asked'[c] = asked[c]
         \/ blind /\ stage[c] = "orphan" /\ stage'[c] = "over"
      /\ OthersSame(c)
      /\ blind' = blind /\ calm' = calm
  BY <1>2, AnswerStep DEF HeadInv
<1>4. \A d \in UnderWay : asked'[d] = asked[d]
  BY <1>3, UnderWayIsOfCalls DEF UnderWay, OthersSame, Same
<1>5. Monies' = Monies
  BY <1>3, <1>4 DEF Monies
<1>6. KindsAre({"load", "deposit", "withdraw"})'
  BY <1>3, <1>4 DEF HeadInv, KindsAre
<1>7. moved' \in [Dialogs -> Nat] /\ \A t \in Dialogs : moved'[t] >= moved[t]
  BY <1>2 DEF HeadInv, HeadTypes
<1>8. HeadTypes'
  BY <1>1, <1>7 DEF HeadInv, HeadTypes
<1>9. MoniesAreOfDialogs'
  BY <1>1, <1>4, <1>5 DEF HeadInv, MoniesAreOfDialogs, Monies
<1>10. \A d \in Calls : d # c => (Succeeded(d)' <=> Succeeded(d))
  BY <1>3 DEF OthersSame, Same, Succeeded
<1>11. Succeeded(c)' => r.code = "ok"
  BY <1>3 DEF Succeeded
<1>12. DoneIsTrue'
  <2>1. \A t \in Dialogs : told'[t] = "done" => moved'[t] > 0
    BY <1>1, <1>7 DEF HeadInv, HeadTypes, DoneIsTrue
  <2>2. ASSUME NEW d \in Monies, Succeeded(d)'
        PROVE  moved'[asked'[d].dialog] > 0
    <3>1. asked'[d] = asked[d] /\ asked[d].dialog \in Dialogs /\ d \in Calls
      BY <1>4 DEF Monies, UnderWay, HeadInv, MoniesAreOfDialogs
    <3>2. CASE d # c
      BY <1>7, <1>10, <2>2, <3>1, <3>2 DEF HeadInv, HeadTypes, DoneIsTrue
    <3>3. CASE d = c
      <4>1. moved' = [moved EXCEPT ![asked[c].dialog] = @ + 1]
        BY <1>2, <1>11, <2>2, <3>3 DEF Monies
      <4> QED BY <3>1, <3>3, <4>1 DEF HeadInv, HeadTypes
    <3> QED BY <3>2, <3>3
  <2> QED BY <1>5, <2>1, <2>2 DEF DoneIsTrue
<1>13. ASSUME ~blind
       PROVE  MovesOnce'
  <2>1. MovesOnce /\ c \in UnderWay /\ ~Succeeded(c)
    BY <1>3, <1>13 DEF HeadInv, UnderWay, Unserved, Succeeded
  <2>2. \A d \in Monies : asked'[d] = asked[d] /\ asked[d].dialog \in Dialogs /\ d \in Calls
    BY <1>4 DEF Monies, UnderWay, HeadInv, MoniesAreOfDialogs
  <2>3. \A d, e \in Monies' : asked'[d].dialog = asked'[e].dialog => d = e
    BY <1>5, <2>1, <2>2 DEF MovesOnce
  <2>4. \A d \in Monies' : told'[asked'[d].dialog] = "nothing"
    BY <1>1, <1>5, <2>1, <2>2 DEF MovesOnce
  <2>5. CASE UNCHANGED moved
    <3>1. \A d \in Monies : ~Succeeded(d)' => ~Succeeded(d)
      BY <1>10, <2>1, <2>2
    <3>2. \A d \in Monies' : ~Succeeded(d)' => moved'[asked'[d].dialog] = 0
      BY <1>5, <2>1, <2>2, <2>5, <3>1 DEF MovesOnce
    <3> QED BY <1>1, <1>5, <2>1, <2>2, <2>3, <2>4, <2>5, <3>2 DEF MovesOnce
  <2>6. CASE /\ asked[c].kind \in {"deposit", "withdraw"} /\ r.code = "ok"
             /\ moved' = [moved EXCEPT ![asked[c].dialog] = @ + 1]
    <3>1. /\ c \in Monies /\ asked[c].dialog \in Dialogs /\ moved[asked[c].dialog] = 0
          /\ told[asked[c].dialog] = "nothing"
      BY <2>1, <2>2, <2>6 DEF Monies, MovesOnce
    <3>2. /\ moved'[asked[c].dialog] = 1
          /\ \A t \in Dialogs : t # asked[c].dialog => moved'[t] = moved[t]
      BY <2>6, <3>1 DEF HeadInv, HeadTypes
    <3>3. Succeeded(c)'
      BY <1>3, <1>13, <2>6 DEF Succeeded
    <3>4. \A d \in Monies : d # c => asked[d].dialog # asked[c].dialog
      BY <2>1, <3>1 DEF MovesOnce
    <3>5. \A d \in Monies' : ~Succeeded(d)' => moved'[asked'[d].dialog] = 0
      BY <1>5, <1>10, <2>1, <2>2, <3>2, <3>3, <3>4 DEF MovesOnce
    <3>6. dialogKind[asked[c].dialog] # "none"
      BY <2>6, <3>1 DEF HeadInv, MoniesAreOfDialogs
    <3>7. \A t \in Dialogs : /\ moved'[t] <= 1
                             /\ told'[t] = "failed" \/ dialogKind'[t] = "none" => moved'[t] = 0
      BY <1>1, <2>1, <3>1, <3>2, <3>6 DEF MovesOnce
    <3>8. dialog' # NoDialog /\ ~busy' =>
             moved'[dialog'] = 0 /\ \A d \in Monies' : asked'[d].dialog # dialog'
      BY <1>1, <1>5, <2>1, <2>2, <3>1, <3>2 DEF MovesOnce, HeadInv, HeadTypes
    <3> QED BY <2>3, <2>4, <3>5, <3>7, <3>8 DEF MovesOnce
  <2> QED BY <1>2, <2>5, <2>6
<1>14. BalanceCatchesUp'
  <2> SUFFICES ASSUME calm
               PROVE  BalanceCatchesUp'
    BY <1>3 DEF BalanceCatchesUp
  <2>1. Unserved(c) /\ stage'[c] = "served" /\ reply'[c] = r /\ asked'[c] = asked[c]
    BY <1>3 DEF HeadInv, NetInv
  <2>2. CASE asked[c].kind \in {"deposit", "withdraw"} /\ r.code = "ok"
    BY <2>1, <2>2 DEF BalanceCatchesUp, BalanceWillReload, Succeeded
  <2>3. CASE asked[c].kind = "load" /\ (r.code = "ok" => r.data = balance) /\ UNCHANGED balance
    <3>1. c \in Loads
      BY <1>3, <2>1, <2>3 DEF Loads, UnderWay, Unserved
    <3>2. BalanceWillReload => BalanceWillReload'
      BY <1>3, <2>3 DEF BalanceWillReload, Succeeded, OthersSame, Same
    <3>3. ASSUME NEW d \in Loads, Newest(d), Succeeded(d) => reply[d].data = balance
          PROVE  BalanceIsLoading'
      <4>1. Newest(d)' /\ d \in Loads'
        BY <1>3, <3>3 DEF Newest
      <4>2. CASE d = c
        BY <2>1, <2>3, <3>1, <4>1, <4>2 DEF BalanceIsLoading, Succeeded
      <4>3. CASE d # c
        <5>1. Same(d)
          BY <1>3, <4>3, UnderWayIsOfCalls DEF OthersSame
        <5> QED BY <2>3, <3>1, <3>3, <4>1, <5>1 DEF BalanceIsLoading, Succeeded, Same
      <4> QED BY <4>2, <4>3
    <3> QED BY <1>3, <3>1, <3>2, <3>3 DEF HeadInv, BalanceCatchesUp, BalanceIsLoading
  <2>4. CASE asked[c].kind # "load" /\ UNCHANGED balance
    BY <1>1, <1>3, <2>1, <2>4, UnderWayIsOfCalls, BalanceCatchesUpStays
       DEF HeadInv, Succeeded, Unserved, OthersSame, Loads
  <2> QED BY <1>2, <2>2, <2>3, <2>4
<1>15. AccountPageWaitsForCalls'
  BY <1>1, <1>3, <1>4 DEF HeadInv, AccountPageWaitsForCalls
<1> QED BY <1>3, <1>6, <1>8, <1>9, <1>12, <1>13, <1>14, <1>15 DEF HeadInv

LEMMA ElsewhereKeeps ==
    ASSUME HeadInv, Elsewhere
    PROVE  HeadInv'
<1>1. /\ NetInv' /\ UnderWay' = UnderWay /\ Loads' = Loads
      /\ \A d \in Calls : Same(d)
      /\ blind' = blind /\ ~calm'
  BY MeddledStep DEF HeadInv, Elsewhere
<1>2. /\ UNCHANGED <<asked, stage, reply>>
      /\ UNCHANGED <<shown, spinning, dialog, dialogKind, busy, told, moved>>
  BY DEF Elsewhere, Meddled
<1>3. KindsAre({"load", "deposit", "withdraw"})' /\ AccountPageWaitsForCalls'
  BY <1>1, <1>2 DEF HeadInv, KindsAre, AccountPageWaitsForCalls
<1>4. HeadTypes'
  BY <1>2 DEF HeadInv, HeadTypes
<1>5. Monies' = Monies
  BY <1>1, <1>2 DEF Monies
<1>6. MoniesAreOfDialogs' /\ DoneIsTrue'
  BY <1>2, <1>5 DEF HeadInv, MoniesAreOfDialogs, DoneIsTrue, Succeeded
<1>7. MovesOnce => MovesOnce'
  BY <1>2, <1>5 DEF MovesOnce, Succeeded
<1>8. BalanceCatchesUp'
  BY <1>1 DEF BalanceCatchesUp
<1> QED BY <1>1, <1>3, <1>4, <1>6, <1>7, <1>8 DEF HeadInv

\* The callback of a deposit or withdrawal: its dialog says so, and may be closed.
LEMMA MovesOnceEnds ==
    ASSUME HeadInv, ~blind, NEW c \in Monies, NEW said,
           said = "failed" => ~Succeeded(c),
           Monies' = Monies \ {c},
           \A d \in Monies : d # c => asked'[d] = asked[d] /\ (Succeeded(d)' <=> Succeeded(d)),
           \/ told' = told
           \/ told' = [told EXCEPT ![asked[c].dialog] = said],
           UNCHANGED <<dialogKind, moved>>,
           \/ dialog' = NoDialog
           \/ /\ dialog' = dialog
              /\ ~busy' => ~busy \/ (asked[c].dialog = dialog /\ ~Succeeded(c))
    PROVE  MovesOnce'
<1>1. MovesOnce /\ asked[c].dialog \in Dialogs
  BY DEF HeadInv, MoniesAreOfDialogs
<1>2. \A t \in Dialogs : t # asked[c].dialog => told'[t] = told[t]
  BY <1>1 DEF HeadInv, HeadTypes
<1>3. told'[asked[c].dialog] \in {"nothing", said}
  BY <1>1 DEF HeadInv, HeadTypes, MovesOnce
<1>4. \A d \in Monies : d # c => asked[d].dialog \in Dialogs /\ asked[d].dialog # asked[c].dialog
  BY <1>1 DEF MovesOnce, HeadInv, MoniesAreOfDialogs
<1>5. /\ \A d, e \in Monies' : asked'[d].dialog = asked'[e].dialog => d = e
      /\ \A d \in Monies' : /\ told'[asked'[d].dialog] = "nothing"
                            /\ ~Succeeded(d)' => moved'[asked'[d].dialog] = 0
  BY <1>1, <1>2, <1>4 DEF MovesOnce
<1>6. \A t \in Dialogs : /\ moved'[t] <= 1
                         /\ told'[t] = "failed" \/ dialogKind'[t] = "none" => moved'[t] = 0
  BY <1>1, <1>2, <1>3 DEF MovesOnce
<1>7. ASSUME dialog' # NoDialog, ~busy'
      PROVE  moved'[dialog'] = 0 /\ \A d \in Monies' : asked'[d].dialog # dialog'
  <2>1. CASE ~busy
    BY <1>1, <1>7, <2>1 DEF MovesOnce
  <2>2. CASE asked[c].dialog = dialog /\ ~Succeeded(c)
    BY <1>1, <1>4, <1>7, <2>2 DEF MovesOnce
  <2> QED BY <1>7, <2>1, <2>2
<1> QED BY <1>5, <1>6, <1>7 DEF MovesOnce

LEMMA AccountLoadedKeeps ==
    ASSUME HeadInv, NEW c \in Calls, NEW r, Outcome(c, r), AccountLoaded(c, r)
    PROVE  HeadInv'
<1>1. /\ asked[c].kind = "load" /\ Finish(c, r)
      /\ shown' = IF r.code = "ok" THEN r.data ELSE shown
      /\ spinning' = FALSE
      /\ UNCHANGED <<balance, isOpen, dialog, dialogKind, busy, told, moved>>
  BY DEF AccountLoaded
<1>2. /\ NetInv'
      /\ c \in UnderWay /\ UnderWay' = UnderWay \ {c} /\ Loads' = Loads \ {c}
      /\ r.code = "ok" => stage[c] = "served" /\ r = reply[c]
      /\ OthersSame(c)
      /\ ~blind' => ~blind
      /\ calm' => calm /\ r.code = "ok" /\ (Newest(c) => Loads = {c})
  BY <1>1, EndStep DEF HeadInv
<1>3. \A d \in UnderWay : d # c => asked'[d] = asked[d] /\ (Succeeded(d)' <=> Succeeded(d))
  BY <1>2, UnderWayIsOfCalls DEF OthersSame, Same, Succeeded
<1>4. KindsAre({"load", "deposit", "withdraw"})'
  BY <1>2, <1>3 DEF HeadInv, KindsAre
<1>5. Monies' = Monies /\ \A d \in Monies : asked'[d] = asked[d] /\ (Succeeded(d)' <=> Succeeded(d))
  BY <1>1, <1>2, <1>3 DEF Monies
<1>6. HeadTypes' /\ MoniesAreOfDialogs' /\ DoneIsTrue'
  BY <1>1, <1>5 DEF HeadInv, HeadTypes, MoniesAreOfDialogs, DoneIsTrue
<1>7. ~blind' => MovesOnce'
  BY <1>1, <1>2, <1>5 DEF HeadInv, MovesOnce
<1>8. BalanceCatchesUp'
  <2> SUFFICES ASSUME calm'
               PROVE  BalanceWillReload' \/ BalanceIsLoading' \/ (Loads' = {} /\ shown' = balance')
    BY DEF BalanceCatchesUp
  <2>1. c \in Loads
    BY <1>1, <1>2 DEF Loads
  <2>2. Succeeded(c) /\ shown' = reply[c].data
    BY <1>1, <1>2 DEF Succeeded
  <2>3. ASSUME NEW d \in Loads, Newest(d), Succeeded(d) => reply[d].data = balance
        PROVE  BalanceIsLoading' \/ (Loads' = {} /\ shown' = balance')
    <3>1. CASE d = c
      BY <1>1, <1>2, <2>2, <2>3, <3>1
    <3>2. CASE d # c
      <4>1. Same(d) /\ d \in Loads' /\ Newest(d)'
        BY <1>2, <2>3, <3>2, UnderWayIsOfCalls DEF OthersSame, Newest
      <4> QED BY <1>1, <2>3, <4>1 DEF BalanceIsLoading, Succeeded, Same
    <3> QED BY <3>1, <3>2
  <2>4. BalanceWillReload => BalanceWillReload'
    BY <1>1, <1>2 DEF BalanceWillReload, Succeeded, OthersSame, Same
  <2> QED BY <1>2, <2>1, <2>3, <2>4 DEF HeadInv, BalanceCatchesUp, BalanceIsLoading
<1>9. AccountPageWaitsForCalls'
  BY <1>1, <1>2, <1>3 DEF HeadInv, AccountPageWaitsForCalls
<1> QED BY <1>2, <1>4, <1>6, <1>7, <1>8, <1>9 DEF HeadInv

LEMMA MoneyMovedKeeps ==
    ASSUME HeadInv, NEW c \in Calls, NEW r, Outcome(c, r), r.code = "ok", MoneyMoved(c),
           asked[c].kind \in {"deposit", "withdraw"},
           UNCHANGED <<balance, isOpen, spinning, dialogKind, moved>>
    PROVE  HeadInv'
<1>1. /\ told' = [told EXCEPT ![asked[c].dialog] = "done"]
      /\ dialog' = IF StaysOpen(c) THEN dialog ELSE NoDialog
      /\ busy' = (busy /\ StaysOpen(c) /\ dialog # asked[c].dialog)
      /\ FinishAndAsk(c, LoadAccount)
      /\ UNCHANGED shown
  BY DEF MoneyMoved
<1>2. PICK d \in Calls :
              /\ NetInv'
              /\ c \in UnderWay /\ d \notin UnderWay
              /\ UnderWay' = (UnderWay \ {c}) \union {d}
              /\ Loads' = IF LoadAccount.kind = "load" THEN (Loads \ {c}) \union {d} ELSE Loads \ {c}
              /\ stage'[c] = "over" /\ stage'[d] = "sent" /\ asked'[d] = LoadAccount
              /\ r.code = "ok" => stage[c] = "served" /\ r = reply[c]
              /\ \A e \in Calls : e # c /\ e # d => Same(e)
              /\ blind' = blind
              /\ LoadAccount.kind = "load" => Newest(d)'
  BY <1>1, FollowUpStep DEF HeadInv
<1>3. LoadAccount.kind = "load"
  BY DEF LoadAccount
<1>4. d \in Loads' /\ ~Succeeded(d)' /\ c \in Monies /\ Succeeded(c)
  BY <1>2, <1>3 DEF Succeeded, Monies
<1>5. \A e \in UnderWay : e # c => /\ e \in UnderWay' /\ asked'[e] = asked[e]
                                   /\ Succeeded(e)' <=> Succeeded(e)
  BY <1>2, UnderWayIsOfCalls DEF Same, Succeeded
<1>6. KindsAre({"load", "deposit", "withdraw"})'
  BY <1>2, <1>3, <1>5 DEF HeadInv, KindsAre
<1>7. Monies' = Monies \ {c} /\ \A e \in Monies : e # c => /\ asked'[e] = asked[e]
                                                           /\ Succeeded(e)' <=> Succeeded(e)
  BY <1>2, <1>3, <1>5 DEF Monies
<1>8. HeadTypes'
  BY <1>1 DEF HeadInv, HeadTypes
<1>9. MoniesAreOfDialogs'
  BY <1>7 DEF HeadInv, MoniesAreOfDialogs
<1>10. DoneIsTrue'
  <2>1. \A t \in Dialogs : told'[t] = "done" => moved'[t] > 0
    BY <1>1, <1>4 DEF HeadInv, HeadTypes, DoneIsTrue
  <2>2. \A e \in Monies' : Succeeded(e)' => moved'[asked'[e].dialog] > 0
    BY <1>7 DEF HeadInv, DoneIsTrue
  <2> QED BY <2>1, <2>2 DEF DoneIsTrue
<1>11. ASSUME ~blind'
       PROVE  MovesOnce'
  <2>1. asked[c].kind = dialogKind[asked[c].dialog]
    BY <1>4 DEF HeadInv, MoniesAreOfDialogs
  <2>2. \/ dialog' = NoDialog
        \/ dialog' = dialog /\ (~busy' => ~busy \/ (asked[c].dialog = dialog /\ ~Succeeded(c)))
    BY <1>1, <2>1 DEF StaysOpen
  <2> DEFINE said == "done"
  <2>3. told' = [told EXCEPT ![asked[c].dialog] = said] /\ (said = "failed" => ~Succeeded(c))
    BY <1>1
  <2> HIDE DEF said
  <2> QED BY <1>2, <1>4, <1>7, <1>11, <2>2, <2>3, MovesOnceEnds
<1>12. BalanceCatchesUp'
  BY <1>2, <1>3, <1>4 DEF BalanceCatchesUp, BalanceIsLoading
<1>13. AccountPageWaitsForCalls'
  <2>1. ASSUME busy'
        PROVE  \E e \in UnderWay' : asked'[e].kind # "load" /\ asked'[e].dialog = dialog'
    <3>1. busy /\ dialog # asked[c].dialog /\ dialog' = dialog
      BY <1>1, <2>1
    <3> QED BY <1>5, <3>1 DEF HeadInv, AccountPageWaitsForCalls
  <2> QED BY <1>4, <2>1 DEF AccountPageWaitsForCalls
<1> QED BY <1>2, <1>6, <1>8, <1>9, <1>10, <1>11, <1>12, <1>13 DEF HeadInv

LEMMA MoneyNotMovedKeeps ==
    ASSUME HeadInv, NEW c \in Calls, NEW r, Outcome(c, r), r.code # "ok", MoneyNotMoved(c, r),
           asked[c].kind \in {"deposit", "withdraw"},
           UNCHANGED <<balance, isOpen, spinning, dialogKind, moved>>
    PROVE  HeadInv'
<1>1. /\ told' \in {told, [told EXCEPT ![asked[c].dialog] = "failed"]}
      /\ busy' = (busy /\ dialog # asked[c].dialog)
      /\ Finish(c, r)
      /\ UNCHANGED <<shown, dialog>>
  BY DEF MoneyNotMoved
<1>2. /\ NetInv'
      /\ c \in UnderWay /\ UnderWay' = UnderWay \ {c} /\ Loads' = Loads \ {c}
      /\ r = Lost \/ (stage[c] = "served" /\ r = reply[c])
      /\ OthersSame(c)
      /\ ~blind' => ~blind /\ r # Lost
      /\ calm' => calm /\ r # Lost
  BY <1>1, EndStep DEF HeadInv
<1>3. \A d \in UnderWay : d # c => asked'[d] = asked[d] /\ (Succeeded(d)' <=> Succeeded(d))
  BY <1>2, UnderWayIsOfCalls DEF OthersSame, Same, Succeeded
<1>4. KindsAre({"load", "deposit", "withdraw"})'
  BY <1>2, <1>3 DEF HeadInv, KindsAre
<1>5. c \in Monies /\ Monies' = Monies \ {c}
      /\ \A d \in Monies : d # c => asked'[d] = asked[d] /\ (Succeeded(d)' <=> Succeeded(d))
  BY <1>2, <1>3 DEF Monies
<1>6. HeadTypes' /\ MoniesAreOfDialogs'
  BY <1>1, <1>5 DEF HeadInv, HeadTypes, MoniesAreOfDialogs
<1>7. DoneIsTrue'
  <2>1. \A t \in Dialogs : told'[t] = "done" => moved'[t] > 0
    BY <1>1 DEF HeadInv, HeadTypes, DoneIsTrue
  <2>2. \A e \in Monies' : Succeeded(e)' => moved'[asked'[e].dialog] > 0
    BY <1>5 DEF HeadInv, DoneIsTrue
  <2> QED BY <2>1, <2>2 DEF DoneIsTrue
<1>8. ASSUME ~blind'
      PROVE  MovesOnce'
  <2>1. ~Succeeded(c)
    BY <1>2, <1>8 DEF Succeeded
  <2>2. ~busy' => ~busy \/ (asked[c].dialog = dialog /\ ~Succeeded(c))
    BY <1>1, <2>1
  <2> DEFINE said == "failed"
  <2>3. told' = told \/ told' = [told EXCEPT ![asked[c].dialog] = said]
    BY <1>1
  <2> HIDE DEF said
  <2> QED BY <1>1, <1>2, <1>5, <1>8, <2>1, <2>2, <2>3, MovesOnceEnds
<1>9. BalanceCatchesUp'
  <2> SUFFICES ASSUME calm'
               PROVE  BalanceCatchesUp'
    BY DEF BalanceCatchesUp
  <2>1. Loads' = Loads
    BY <1>2 DEF Loads
  <2>2. ~Succeeded(c)
    BY <1>2 DEF Succeeded
  <2> QED BY <1>1, <1>2, <2>1, <2>2, UnderWayIsOfCalls, BalanceCatchesUpStays
          DEF HeadInv, OthersSame, Loads
<1>10. AccountPageWaitsForCalls'
  <2>1. spinning' => Loads' # {}
    BY <1>2 DEF HeadInv, AccountPageWaitsForCalls, Loads
  <2>2. ASSUME busy'
        PROVE  \E e \in UnderWay' : asked'[e].kind # "load" /\ asked'[e].dialog = dialog'
    <3>1. busy /\ dialog # asked[c].dialog /\ dialog' = dialog
      BY <1>1, <2>2
    <3> QED BY <1>2, <1>3, <3>1 DEF HeadInv, AccountPageWaitsForCalls
  <2> QED BY <2>1, <2>2 DEF AccountPageWaitsForCalls
<1> QED BY <1>2, <1>4, <1>6, <1>7, <1>8, <1>9, <1>10 DEF HeadInv

LEMMA HeadStarts ==
    ASSUME HeadInit, Mount(LoadAccount, CallsOf["account"]), "account" \in Screens
    PROVE  HeadInv
<1>1. /\ NetInv
      /\ \A c \in UnderWay : asked[c] = LoadAccount /\ stage[c] = "sent"
      /\ \E c \in UnderWay : asked[c] = LoadAccount /\ Newest(c)
  BY ScreensLoad, MountStep
<1>2. LoadAccount.kind = "load"
  BY DEF LoadAccount
<1>3. \E c \in Loads : stage[c] = "sent" /\ Newest(c)
  BY <1>1, <1>2 DEF Loads
<1>4. BalanceCatchesUp
  BY <1>3 DEF BalanceCatchesUp, BalanceIsLoading, Succeeded
<1>5. KindsAre({"load", "deposit", "withdraw"}) /\ Monies = {}
  BY <1>1, <1>2 DEF KindsAre, Monies
<1>6. HeadTypes
  BY DEF HeadInit, HeadTypes
<1>7. MoniesAreOfDialogs /\ DoneIsTrue /\ MovesOnce
  BY <1>5 DEF HeadInit, MoniesAreOfDialogs, DoneIsTrue, MovesOnce
<1>8. AccountPageWaitsForCalls
  BY <1>3 DEF HeadInit, AccountPageWaitsForCalls
<1> QED BY <1>1, <1>4, <1>5, <1>6, <1>7, <1>8 DEF HeadInv

LEMMA HeadKeeps ==
    ASSUME HeadInv, AccountPageNext \/ UNCHANGED accountPageVars
    PROVE  HeadInv'
<1>1. CASE AccountUser
  <2>1. ASSUME NEW t \in Dialogs, NEW kind \in {"deposit", "withdraw"}, OpenDialog(t, kind)
        PROVE  HeadInv'
    BY <2>1, HeadLooksKeeps DEF OpenDialog, CanOpen
  <2>2. CASE CloseDialog
    BY <2>2, HeadLooksKeeps DEF CloseDialog
  <2> QED BY <1>1, <2>1, <2>2, SubmitKeeps DEF AccountUser
<1>2. ASSUME NEW c \in Calls, HeadCallback(c)
      PROVE  HeadInv'
  <2>1. PICK r \in {reply[c], Lost} : Outcome(c, r) /\ (AccountLoaded(c, r) \/ Submitted(c, r))
    BY <1>2 DEF HeadCallback
  <2>2. CASE AccountLoaded(c, r)
    BY <2>1, <2>2, AccountLoadedKeeps
  <2>3. CASE Submitted(c, r) /\ r.code = "ok"
    BY <2>1, <2>3, MoneyMovedKeeps DEF Submitted
  <2>4. CASE Submitted(c, r) /\ r.code # "ok"
    BY <2>1, <2>4, MoneyNotMovedKeeps DEF Submitted
  <2> QED BY <2>1, <2>2, <2>3, <2>4
<1>3. CASE UNCHANGED accountPageVars
  BY <1>3, HeadLooksKeeps DEF accountPageVars, headVars
<1> QED BY <1>1, <1>2, <1>3, ServeHeadKeeps, ElsewhereKeeps DEF AccountPageNext, AccountPageRest

-----------------------------------------------------------------------------
(* The transfer.                                                           *)

\* The lookup and the transfer of a submission.
Payments == {c \in UnderWay : asked[c].kind \in {"lookup", "transfer"}}

\* Among her own accounts, the recipient is another account than the source.
RecipientIsOther ==
    mode = "internal" /\ target # Nobody => target.written = "id" /\ target.account # source

\* The accounts are loaded before anything is filled in, and a page that submits
\* has one call under way.
PaymentsAreAlone ==
    /\ loadingAccts <=> Loads # {}
    /\ loadingAccts => target = Nobody /\ Payments = {}
    /\ submitting <=> Payments # {}
    /\ Payments # {} => target # Nobody
    /\ \A c, d \in Loads : c = d
    /\ \A c, d \in Payments : c = d

\* The server tells the account of the number that it was asked for.
NumbersAreTold ==
    \A c \in Calls : Succeeded(c) /\ asked[c].kind = "lookup" => reply[c].data = asked[c].number

FieldsInv ==
    /\ NetInv /\ KindsAre({"load", "lookup", "transfer"})
    /\ target \in Recipients \union {Nobody}
    /\ RecipientIsOther /\ PaymentsAreAlone /\ NumbersAreTold
    /\ PaysWhatIsShown

\* A step that sends nothing and ends nothing.
LEMMA FieldsStay ==
    ASSUME FieldsInv, NetInv', UnderWay' = UnderWay, Loads' = Loads,
           \A d \in UnderWay : asked'[d] = asked[d],
           NumbersAreTold', UNCHANGED <<submitting, loadingAccts>>,
           \/ UNCHANGED <<source, target, mode>>
           \/ Payments = {} /\ ~loadingAccts /\ target' \in Recipients \union {Nobody}
              /\ RecipientIsOther'
    PROVE  FieldsInv'
<1>1. KindsAre({"load", "lookup", "transfer"})'
  BY DEF FieldsInv, KindsAre
<1>2. Payments' = Payments
  BY DEF Payments
<1>3. PaymentsAreAlone'
  BY <1>2 DEF FieldsInv, PaymentsAreAlone
<1>4. PaysWhatIsShown'
  BY DEF FieldsInv, PaysWhatIsShown, Payments
<1>5. RecipientIsOther' /\ target' \in Recipients \union {Nobody}
  BY DEF FieldsInv, RecipientIsOther
<1> QED BY <1>1, <1>3, <1>4, <1>5 DEF FieldsInv

LEMMA EditKeeps ==
    ASSUME FieldsInv, Editing, UNCHANGED <<net, submitting, loadingAccts>>,
           target' \in Recipients \union {Nobody}, RecipientIsOther'
    PROVE  FieldsInv'
<1>1. /\ NetInv' /\ UnderWay' = UnderWay /\ Loads' = Loads
      /\ UNCHANGED <<stage, asked, reply>>
  BY StillStep DEF FieldsInv, net
<1>2. NumbersAreTold'
  BY <1>1 DEF FieldsInv, NumbersAreTold, Succeeded
<1>3. Payments = {} /\ ~loadingAccts
  BY DEF Editing, FieldsInv, PaymentsAreAlone
<1> QED BY <1>1, <1>2, <1>3, FieldsStay

LEMMA SubmitTransferKeeps ==
    ASSUME FieldsInv, NEW c \in Calls, SubmitTransfer(c)
    PROVE  FieldsInv'
<1>1. /\ Editing /\ source # Nobody /\ target # Nobody /\ submitting' = TRUE
      /\ UNCHANGED <<active, eligible, source, target, mode, loadingAccts, left>>
  BY DEF SubmitTransfer
<1>2. Payments = {} /\ ~loadingAccts /\ Loads = {} /\ UnderWay = {}
  BY <1>1 DEF Editing, FieldsInv, PaymentsAreAlone, Payments, Loads, KindsAre
<1>3. PICK what : /\ Ask(c, what)
                  /\ \/ /\ what.kind = "lookup" /\ what.number = target.account /\ what.from = source
                        /\ mode = "external" /\ target.written = "number"
                     \/ /\ what.kind = "transfer" /\ what.from = source /\ what.to = target.account
                        /\ ~(mode = "external" /\ target.written = "number")
  <2>1. CASE mode = "external" /\ target.written = "number"
    <3> DEFINE what == [kind |-> "lookup", number |-> target.account, from |-> source]
    <3>1. Ask(c, what) /\ what.kind = "lookup" /\ what.number = target.account /\ what.from = source
      BY <2>1 DEF SubmitTransfer
    <3> HIDE DEF what
    <3> QED BY <2>1, <3>1
  <2>2. CASE ~(mode = "external" /\ target.written = "number")
    <3> DEFINE what == [kind |-> "transfer", from |-> source, to |-> target.account]
    <3>1. Ask(c, what) /\ what.kind = "transfer" /\ what.from = source /\ what.to = target.account
      BY <2>2 DEF SubmitTransfer
    <3> HIDE DEF what
    <3> QED BY <2>2, <3>1
  <2> QED BY <2>1, <2>2
<1>4. /\ NetInv'
      /\ UnderWay' = UnderWay \union {c} /\ Loads' = Loads
      /\ stage[c] = "unsent" /\ stage'[c] = "sent" /\ asked'[c] = what
      /\ OthersSame(c)
  BY <1>3, AskStep DEF FieldsInv
<1>5. UnderWay' = {c} /\ Payments' = {c} /\ asked'[c] = what
  BY <1>2, <1>3, <1>4 DEF Payments
<1>6. KindsAre({"load", "lookup", "transfer"})'
  BY <1>3, <1>5 DEF KindsAre
<1>7. PaymentsAreAlone'
  BY <1>1, <1>2, <1>4, <1>5 DEF PaymentsAreAlone
<1>8. NumbersAreTold'
  BY <1>4 DEF FieldsInv, NumbersAreTold, Succeeded, OthersSame, Same
<1>9. RecipientIsOther' /\ target' \in Recipients \union {Nobody}
  BY <1>1 DEF FieldsInv, RecipientIsOther
<1>10. PaysWhatIsShown'
  <2>1. target \in Recipients
    BY <1>1 DEF FieldsInv
  <2>2. target.written = "number" => target = [written |-> "number", account |-> target.account]
    BY <2>1 DEF Recipients
  <2>3. mode = "internal" => target.written = "id" /\ target.account # source
    BY <1>1 DEF FieldsInv, RecipientIsOther
  <2> QED BY <1>1, <1>3, <1>5, <2>2, <2>3 DEF PaysWhatIsShown
<1> QED BY <1>4, <1>6, <1>7, <1>8, <1>9, <1>10 DEF FieldsInv

LEMMA ServeFieldsKeeps ==
    ASSUME FieldsInv, NEW c \in Calls, ServeFields(c)
    PROVE  FieldsInv'
<1>1. UNCHANGED fieldVars
  BY DEF ServeFields
<1>2. PICK r : Answer(c, r) /\ (asked[c].kind = "lookup" /\ r.code = "ok" => r.data = asked[c].number)
  <2>1. CASE TellEligible(c)
    BY <2>1 DEF TellEligible
  <2>2. CASE TellNumber(c)
    <3>1. PICK r \in {[code |-> "ok", data |-> asked[c].number], [code |-> "notFound"]} : Answer(c, r)
      BY <2>2 DEF TellNumber
    <3>2. r.code = "ok" => r.data = asked[c].number
      OBVIOUS
    <3> QED BY <3>1, <3>2
  <2>3. CASE Transfer(c)
    BY <2>3 DEF Transfer
  <2>4. CASE RefuseFields(c)
    BY <2>4 DEF RefuseFields, Refused
  <2> QED BY <2>1, <2>2, <2>3, <2>4 DEF ServeFields
<1>3. /\ NetInv'
      /\ UnderWay' = UnderWay /\ Loads' = Loads
      /\ \/ /\ Unserved(c) /\ stage'[c] = "served" /\ reply'[c] = r
            /\ asked'[c] = asked[c]
         \/ blind /\ stage[c] = "orphan" /\ stage'[c] = "over"
      /\ OthersSame(c)
  BY <1>2, AnswerStep DEF FieldsInv
<1>4. \A d \in UnderWay : asked'[d] = asked[d]
  BY <1>3, UnderWayIsOfCalls DEF UnderWay, OthersSame, Same
<1>5. NumbersAreTold'
  BY <1>2, <1>3 DEF FieldsInv, NumbersAreTold, Succeeded, OthersSame, Same
<1> QED BY <1>1, <1>3, <1>4, <1>5, FieldsStay DEF fieldVars

LEMMA AccountIsClosedKeeps ==
    ASSUME FieldsInv, AccountIsClosed
    PROVE  FieldsInv'
<1>1. /\ NetInv' /\ UnderWay' = UnderWay /\ Loads' = Loads
      /\ UNCHANGED <<stage, asked, reply>>
      /\ UNCHANGED <<eligible, source, target, mode, submitting, loadingAccts, left>>
  BY MeddledStep DEF FieldsInv, AccountIsClosed, Meddled
<1>2. NumbersAreTold'
  BY <1>1 DEF FieldsInv, NumbersAreTold, Succeeded
<1> QED BY <1>1, <1>2, FieldsStay

\* A call of the transfer page ends without another call: nothing is under way any more.
LEMMA FieldsEnd ==
    ASSUME FieldsInv, NEW c \in Calls, NEW r, Outcome(c, r), Finish(c, r), target' = target,
           loadingAccts' = FALSE \/ (asked[c].kind # "load" /\ UNCHANGED loadingAccts),
           submitting' = FALSE \/ (asked[c].kind = "load" /\ UNCHANGED submitting),
           asked[c].kind = "load" \/ UNCHANGED <<source, mode>>
    PROVE  FieldsInv'
<1>1. /\ NetInv'
      /\ c \in UnderWay /\ UnderWay' = UnderWay \ {c} /\ Loads' = Loads \ {c}
      /\ stage'[c] \in {"over", "orphan"}
      /\ OthersSame(c)
  BY EndStep DEF FieldsInv
<1>2. UnderWay = {c}
  BY <1>1 DEF FieldsInv, PaymentsAreAlone, Payments, Loads, KindsAre
<1>3. UnderWay' = {} /\ Loads' = {} /\ Payments' = {}
  BY <1>1, <1>2, UnderWayIsOfCalls DEF Payments
<1>4. asked[c].kind = "load" => c \in Loads /\ Payments = {} /\ ~submitting /\ target = Nobody
  BY <1>1, <1>2 DEF Loads, FieldsInv, PaymentsAreAlone
<1>5. asked[c].kind # "load" => Loads = {} /\ ~loadingAccts
  BY <1>1, <1>2 DEF Loads, FieldsInv, PaymentsAreAlone
<1>6. PaymentsAreAlone'
  BY <1>3, <1>4, <1>5 DEF PaymentsAreAlone
<1>7. NumbersAreTold'
  BY <1>1 DEF FieldsInv, NumbersAreTold, Succeeded, OthersSame, Same
<1>8. RecipientIsOther' /\ target' \in Recipients \union {Nobody}
  BY <1>4 DEF FieldsInv, RecipientIsOther
<1>9. KindsAre({"load", "lookup", "transfer"})' /\ PaysWhatIsShown'
  BY <1>3 DEF KindsAre, PaysWhatIsShown
<1> QED BY <1>1, <1>6, <1>7, <1>8, <1>9 DEF FieldsInv

\* The number is found: the transfer goes to the account that it is the number of.
LEMMA LookedUpKeeps ==
    ASSUME FieldsInv, NEW c \in Calls, NEW r, Outcome(c, r), r.code = "ok", LookedUp(c, r)
    PROVE  FieldsInv'
<1> DEFINE what == [kind |-> "transfer", from |-> asked[c].from, to |-> r.data]
<1>1. /\ asked[c].kind = "lookup" /\ FinishAndAsk(c, what)
      /\ UNCHANGED <<submitting, source, target, mode, loadingAccts>>
  BY DEF LookedUp
<1>2. what.kind = "transfer" /\ what.from = asked[c].from /\ what.to = r.data
  OBVIOUS
<1> HIDE DEF what
<1>3. PICK d \in Calls :
              /\ NetInv'
              /\ c \in UnderWay /\ d \notin UnderWay
              /\ UnderWay' = (UnderWay \ {c}) \union {d}
              /\ Loads' = IF what.kind = "load" THEN (Loads \ {c}) \union {d} ELSE Loads \ {c}
              /\ stage'[c] = "over" /\ stage'[d] = "sent" /\ asked'[d] = what
              /\ r.code = "ok" => stage[c] = "served" /\ r = reply[c]
              /\ \A e \in Calls : e # c /\ e # d => Same(e)
  BY <1>1, FollowUpStep DEF FieldsInv
<1>4. UnderWay = {c} /\ c \in Payments /\ Loads = {} /\ ~loadingAccts
  BY <1>1, <1>3 DEF FieldsInv, PaymentsAreAlone, Payments, Loads, KindsAre
<1>5. UnderWay' = {d} /\ Loads' = {} /\ Payments' = {d}
  BY <1>2, <1>3, <1>4 DEF Payments
<1>6. r.data = asked[c].number
  BY <1>1, <1>3 DEF FieldsInv, NumbersAreTold, Succeeded
<1>7. PaymentsAreAlone'
  BY <1>1, <1>4, <1>5 DEF FieldsInv, PaymentsAreAlone
<1>8. NumbersAreTold'
  BY <1>3 DEF FieldsInv, NumbersAreTold, Succeeded, Same
<1>9. RecipientIsOther' /\ target' \in Recipients \union {Nobody}
  BY <1>1 DEF FieldsInv, RecipientIsOther
<1>10. PaysWhatIsShown'
  <2>1. /\ asked[c].from = source /\ mode = "external"
        /\ target = [written |-> "number", account |-> asked[c].number]
    BY <1>1, <1>3 DEF FieldsInv, PaysWhatIsShown
  <2>2. target.account = asked[c].number
    BY <2>1
  <2>3. target # Nobody
    BY <1>4 DEF FieldsInv, PaymentsAreAlone
  <2> QED BY <1>1, <1>2, <1>3, <1>5, <1>6, <2>1, <2>2, <2>3 DEF PaysWhatIsShown
<1>11. KindsAre({"load", "lookup", "transfer"})'
  BY <1>2, <1>3, <1>5 DEF KindsAre
<1> QED BY <1>3, <1>7, <1>8, <1>9, <1>10, <1>11 DEF FieldsInv

LEMMA FieldsStart ==
    ASSUME FieldsInit, Mount(LoadEligible, CallsOf["transfer"]), "transfer" \in Screens
    PROVE  FieldsInv
<1>1. /\ NetInv
      /\ \A c \in UnderWay : asked[c] = LoadEligible /\ stage[c] = "sent"
      /\ \A c, d \in UnderWay : c = d
      /\ \E c \in UnderWay : asked[c] = LoadEligible
      /\ \A c \in Calls : stage[c] \notin {"orphan", "half", "served"}
  BY ScreensLoad, MountStep
<1>2. LoadEligible.kind = "load"
  BY DEF LoadEligible
<1>3. Loads # {} /\ Payments = {} /\ \A c, d \in Loads : c = d
  BY <1>1, <1>2 DEF Loads, Payments
<1>4. KindsAre({"load", "lookup", "transfer"}) /\ NumbersAreTold /\ PaysWhatIsShown
  BY <1>1, <1>2 DEF KindsAre, NumbersAreTold, Succeeded, PaysWhatIsShown
<1>5. PaymentsAreAlone /\ RecipientIsOther /\ target \in Recipients \union {Nobody}
  BY <1>3 DEF FieldsInit, PaymentsAreAlone, RecipientIsOther
<1> QED BY <1>1, <1>4, <1>5 DEF FieldsInv

LEMMA FieldsKeep ==
    ASSUME FieldsInv, TransferFieldsNext \/ UNCHANGED transferFieldsVars
    PROVE  FieldsInv'
<1>1. ASSUME NEW a \in Own, ChooseSource(a)
      PROVE  FieldsInv'
  <2>1. Editing /\ UNCHANGED <<net, submitting, loadingAccts>>
    BY <1>1 DEF ChooseSource
  <2>2. target' \in Recipients \union {Nobody} /\ RecipientIsOther'
    BY <1>1 DEF ChooseSource, FieldsInv, RecipientIsOther
  <2> QED BY <2>1, <2>2, EditKeeps
<1>2. ASSUME NEW r \in Recipients \union {Nobody}, ChooseTarget(r)
      PROVE  FieldsInv'
  <2>1. Editing /\ UNCHANGED <<net, submitting, loadingAccts>>
    BY <1>2 DEF ChooseTarget
  <2>2. target' \in Recipients \union {Nobody} /\ RecipientIsOther'
    BY <1>2 DEF ChooseTarget, RecipientIsOther
  <2> QED BY <2>1, <2>2, EditKeeps
<1>3. ASSUME NEW m \in {"internal", "external"}, SwitchMode(m)
      PROVE  FieldsInv'
  <2>1. Editing /\ UNCHANGED <<net, submitting, loadingAccts>>
    BY <1>3 DEF SwitchMode
  <2>2. target' \in Recipients \union {Nobody} /\ RecipientIsOther'
    BY <1>3 DEF SwitchMode, RecipientIsOther
  <2> QED BY <2>1, <2>2, EditKeeps
<1>4. ASSUME NEW c \in Calls, FieldsCallback(c)
      PROVE  FieldsInv'
  <2>1. PICK r \in {reply[c], Lost} :
           Outcome(c, r) /\ (EligibleKnown(c, r) \/ LookedUp(c, r) \/ Transferred(c, r))
    BY <1>4 DEF FieldsCallback
  <2>2. CASE EligibleKnown(c, r)
    BY <2>1, <2>2, FieldsEnd DEF EligibleKnown
  <2>3. CASE LookedUp(c, r) /\ r.code = "ok"
    BY <2>1, <2>3, LookedUpKeeps
  <2>4. CASE LookedUp(c, r) /\ r.code # "ok"
    BY <2>1, <2>4, FieldsEnd DEF LookedUp
  <2>5. CASE Transferred(c, r)
    BY <2>1, <2>5, FieldsEnd DEF Transferred
  <2> QED BY <2>1, <2>2, <2>3, <2>4, <2>5
<1>5. CASE UNCHANGED transferFieldsVars
  <2>1. /\ NetInv' /\ UnderWay' = UnderWay /\ Loads' = Loads
        /\ UNCHANGED <<stage, asked, reply, source, target, mode, submitting, loadingAccts>>
    BY <1>5, StillStep DEF FieldsInv, transferFieldsVars, fieldVars, net
  <2>2. NumbersAreTold'
    BY <2>1 DEF FieldsInv, NumbersAreTold, Succeeded
  <2> QED BY <2>1, <2>2, FieldsStay
<1> QED BY <1>1, <1>2, <1>3, <1>4, <1>5, SubmitTransferKeeps, ServeFieldsKeeps, AccountIsClosedKeeps
        DEF TransferFieldsNext, FieldsUser, TransferFieldsRest

-----------------------------------------------------------------------------
(* The transactions.                                                       *)

TableIs(rows, total) ==
    rows = Rows(filter, table.page) /\ total = Cardinality(Matching(filter))

\* The load that was sent last is under way: of the period in the fields, and what
\* it has read so far is what there is.
TableIsLoading ==
    \E c \in Loads :
        /\ Newest(c) /\ asked[c].filter = filter
        /\ stage[c] = "half" => reply[c].total = Cardinality(Matching(filter))
        /\ Succeeded(c) => /\ reply[c].total = Cardinality(Matching(filter))
                           /\ reply[c].rows = Rows(filter, asked[c].page)

TableCatchesUp ==
    calm => owed \/ TableIsLoading \/ (Loads = {} /\ TableIs(table.rows, table.total))

HistoryInv ==
    /\ NetInv /\ KindsAre({"load"})
    /\ TableCatchesUp
    /\ TransactionsTabWaitsForCalls

\* The fields or the page ask for a page of the table.
LEMMA AskPageKeeps ==
    ASSUME HistoryInv, NEW c \in Calls, NEW p, Ask(c, LoadPage(filter', p)), turning' = TRUE
    PROVE  HistoryInv'
<1> DEFINE what == LoadPage(filter', p)
<1>1. what.kind = "load" /\ what.filter = filter'
  BY DEF LoadPage
<1>2. PICK w : w = what
  OBVIOUS
<1>3. /\ NetInv'
      /\ UnderWay' = UnderWay \union {c} /\ Loads' = Loads \union {c}
      /\ stage'[c] = "sent" /\ asked'[c] = w
      /\ OthersSame(c) /\ Newest(c)'
  <2>1. Ask(c, w) /\ w.kind = "load"
    BY <1>1, <1>2
  <2> QED BY <2>1, AskStep DEF HistoryInv
<1>4. asked'[c].kind = "load" /\ asked'[c].filter = filter'
  BY <1>1, <1>2, <1>3
<1>5. KindsAre({"load"})'
  BY <1>3, <1>4, UnderWayIsOfCalls DEF HistoryInv, KindsAre, OthersSame, Same
<1>6. TableCatchesUp'
  BY <1>3, <1>4 DEF TableCatchesUp, TableIsLoading, Succeeded
<1>7. TransactionsTabWaitsForCalls'
  BY <1>3 DEF TransactionsTabWaitsForCalls
<1> QED BY <1>3, <1>5, <1>6, <1>7 DEF HistoryInv

LEMMA ServeTransactionsKeeps ==
    ASSUME HistoryInv, NEW c \in Calls, ServeTransactions(c)
    PROVE  HistoryInv'
<1>1. UNCHANGED <<stamps, owed, filter, table, turning>>
  BY DEF ServeTransactions, CountTransactions, ReadPage, RefuseList
<1>3. ASSUME NetInv', UnderWay' = UnderWay, Loads' = Loads, OthersSame(c), calm' = calm,
             calm => /\ c \in UnderWay /\ asked'[c] = asked[c]
                     /\ stage'[c] = "half" => reply'[c].total = Cardinality(Matching(asked[c].filter))
                     /\ Succeeded(c)' =>
                           /\ stage[c] = "half" /\ reply'[c].total = reply[c].total
                           /\ reply'[c].rows = Rows(asked[c].filter, asked[c].page),
             c \in UnderWay => asked'[c] = asked[c]
      PROVE  HistoryInv'
  <2>1. \A d \in UnderWay : asked'[d] = asked[d]
    BY <1>3, UnderWayIsOfCalls DEF OthersSame, Same
  <2>2. KindsAre({"load"})' /\ TransactionsTabWaitsForCalls'
    BY <1>1, <1>3, <2>1 DEF HistoryInv, KindsAre, TransactionsTabWaitsForCalls
  <2>3. TableCatchesUp'
    <3> SUFFICES ASSUME calm, ~owed
                 PROVE  TableIsLoading'
      <4>1. calm => Loads # {}
        BY <1>3 DEF HistoryInv, KindsAre, Loads
      <4> QED BY <1>1, <1>3, <4>1 DEF TableCatchesUp
    <3>1. c \in Loads
      BY <1>3 DEF HistoryInv, KindsAre, Loads
    <3>2. PICK d \in Loads :
             /\ Newest(d) /\ asked[d].filter = filter
             /\ stage[d] = "half" => reply[d].total = Cardinality(Matching(filter))
             /\ Succeeded(d) => /\ reply[d].total = Cardinality(Matching(filter))
                                /\ reply[d].rows = Rows(filter, asked[d].page)
      BY <3>1 DEF HistoryInv, TableCatchesUp, TableIsLoading
    <3>3. Newest(d)' /\ d \in Loads' /\ asked'[d] = asked[d]
      BY <1>3, <2>1, <3>2, UnderWayIsOfCalls DEF Newest
    <3>4. Matching(filter)' = Matching(filter) /\ Rows(filter, asked[d].page)' = Rows(filter, asked[d].page)
      <4>1. stamps' = stamps /\ filter' = filter
        BY <1>1
      <4> QED BY <3>3, <4>1 DEF Matching, Rows
    <3>5. /\ stage'[d] = "half" => reply'[d].total = Cardinality(Matching(filter)')
          /\ Succeeded(d)' => /\ reply'[d].total = Cardinality(Matching(filter)')
                              /\ reply'[d].rows = Rows(filter, asked[d].page)'
      <4>1. CASE d = c
        BY <1>3, <3>2, <3>4, <4>1
      <4>2. CASE d # c
        <5>1. Same(d)
          BY <1>3, <4>2, UnderWayIsOfCalls DEF OthersSame
        <5> QED BY <3>2, <3>4, <5>1 DEF Succeeded, Same
      <4> QED BY <4>1, <4>2
    <3> QED BY <1>1, <3>2, <3>3, <3>5 DEF TableIsLoading
  <2> QED BY <1>3, <2>2, <2>3 DEF HistoryInv
<1>4. ASSUME NEW r, Answer(c, r),
             r.code = "ok" => /\ stage[c] = "half" /\ r.total = reply[c].total
                              /\ r.rows = Rows(asked[c].filter, asked[c].page)
      PROVE  HistoryInv'
  <2>1. /\ NetInv'
        /\ UnderWay' = UnderWay /\ Loads' = Loads
        /\ \/ /\ Unserved(c) /\ stage'[c] = "served" /\ reply'[c] = r
              /\ asked'[c] = asked[c]
           \/ blind /\ stage[c] = "orphan" /\ stage'[c] = "over"
        /\ OthersSame(c)
        /\ blind' = blind /\ calm' = calm
    BY <1>4, AnswerStep DEF HistoryInv
  <2>2. c \in UnderWay => asked'[c] = asked[c]
    BY <2>1 DEF UnderWay
  <2>3. calm => c \in UnderWay /\ stage'[c] = "served" /\ reply'[c] = r
    BY <2>1 DEF HistoryInv, NetInv, UnderWay, Unserved
  <2>4. Succeeded(c)' /\ calm => r.code = "ok"
    BY <2>3 DEF Succeeded
  <2> QED BY <1>3, <1>4, <2>1, <2>2, <2>3, <2>4
<1>5. CASE CountTransactions(c)
  <2>1. CASE Answer(c, Refused)
    BY <1>4, <2>1 DEF Refused
  <2>2. CASE ReadHalf(c, [code |-> "half", total |-> Cardinality(Matching(asked[c].filter))])
    <3> DEFINE r == [code |-> "half", total |-> Cardinality(Matching(asked[c].filter))]
    <3>1. ReadHalf(c, r) /\ r.total = Cardinality(Matching(asked[c].filter))
      BY <2>2
    <3> HIDE DEF r
    <3>2. /\ NetInv'
          /\ UnderWay' = UnderWay /\ Loads' = Loads
          /\ stage[c] = "sent" /\ stage'[c] = "half" /\ reply'[c] = r /\ asked'[c] = asked[c]
          /\ OthersSame(c)
          /\ blind' = blind /\ calm' = calm
      BY <3>1, HalfStep DEF HistoryInv
    <3>3. c \in UnderWay /\ ~Succeeded(c)'
      BY <3>2 DEF UnderWay, Succeeded
    <3> QED BY <1>3, <3>1, <3>2, <3>3
  <2> QED BY <1>5, <2>1, <2>2 DEF CountTransactions
<1>6. CASE ReadPage(c)
  <2> DEFINE r == [code |-> "ok", total |-> reply[c].total,
                   rows |-> Rows(asked[c].filter, asked[c].page), of |-> Matching(asked[c].filter)]
  <2>1. /\ Answer(c, r) /\ stage[c] = "half" /\ r.total = reply[c].total
        /\ r.rows = Rows(asked[c].filter, asked[c].page)
    BY <1>6 DEF ReadPage
  <2> HIDE DEF r
  <2> QED BY <1>4, <2>1
<1>7. CASE RefuseList(c)
  BY <1>4, <1>7 DEF RefuseList, Refused
<1> QED BY <1>5, <1>6, <1>7 DEF ServeTransactions

LEMMA CommitKeeps ==
    ASSUME HistoryInv, Commit
    PROVE  HistoryInv'
<1>1. /\ NetInv' /\ UnderWay' = UnderWay /\ Loads' = Loads /\ UNCHANGED <<asked, turning>>
      /\ owed' \/ ~calm'
  <2>1. CASE owed' = TRUE /\ UNCHANGED net
    BY <2>1, StillStep DEF HistoryInv, Commit, net
  <2>2. CASE Meddled
    BY <2>2, MeddledStep DEF HistoryInv, Commit, Meddled
  <2> QED BY <2>1, <2>2 DEF Commit
<1> QED BY <1>1 DEF HistoryInv, KindsAre, TableCatchesUp, TransactionsTabWaitsForCalls

LEMMA PageLoadedKeeps ==
    ASSUME HistoryInv, NEW c \in Calls, NEW r, Outcome(c, r), PageLoaded(c, r)
    PROVE  HistoryInv'
<1>1. /\ turning' = FALSE /\ Finish(c, r) /\ UNCHANGED <<stamps, owed, filter>>
      /\ asked[c].kind = "load"
  BY DEF PageLoaded
<1>2. /\ NetInv'
      /\ c \in UnderWay /\ UnderWay' = UnderWay \ {c} /\ Loads' = Loads \ {c}
      /\ r.code = "ok" => stage[c] = "served" /\ r = reply[c]
      /\ OthersSame(c)
      /\ calm' => calm /\ r.code = "ok" /\ (Newest(c) => Loads = {c})
  BY <1>1, EndStep DEF HistoryInv
<1>3. KindsAre({"load"})'
  BY <1>2, UnderWayIsOfCalls DEF HistoryInv, KindsAre, OthersSame, Same
<1>4. TransactionsTabWaitsForCalls'
  BY <1>1 DEF TransactionsTabWaitsForCalls
<1>5. ASSUME calm', ~owed, Newest(c), TableIsLoading
      PROVE  Loads' = {} /\ TableIs(table.rows, table.total)'
  <2>1. c \in Loads /\ Loads = {c}
    BY <1>1, <1>2, <1>5 DEF Loads
  <2>2. /\ asked[c].filter = filter /\ Succeeded(c)
        /\ r.total = Cardinality(Matching(filter)) /\ r.rows = Rows(filter, asked[c].page)
    BY <1>2, <1>5, <2>1 DEF HistoryInv, TableCatchesUp, TableIsLoading, Succeeded
  <2>3. table' = [rows |-> r.rows, of |-> r.of, total |-> r.total,
                 page |-> asked[c].page, filter |-> asked[c].filter]
    BY <1>2, <1>5 DEF PageLoaded, PageShown
  <2>4. table'.rows = r.rows /\ table'.total = r.total /\ table'.page = asked[c].page
    BY <2>3
  <2>5. Matching(filter)' = Matching(filter)
    BY <1>1 DEF Matching
  <2>6. Rows(filter, table.page)' = Rows(filter, asked[c].page)
    BY <1>1, <2>4 DEF Rows, Matching
  <2>7. TableIs(table.rows, table.total)'
    BY <2>2, <2>4, <2>5, <2>6 DEF TableIs
  <2> QED BY <1>2, <2>1, <2>7
<1>6. ASSUME NEW d \in Loads, d # c, Newest(d),
             asked[d].filter = filter,
             stage[d] = "half" => reply[d].total = Cardinality(Matching(filter)),
             Succeeded(d) => /\ reply[d].total = Cardinality(Matching(filter))
                             /\ reply[d].rows = Rows(filter, asked[d].page)
      PROVE  TableIsLoading'
  <2>1. Same(d) /\ d \in Loads' /\ Newest(d)'
    BY <1>2, <1>6, UnderWayIsOfCalls DEF OthersSame, Newest
  <2>2. Matching(filter)' = Matching(filter) /\ Rows(filter, asked[d].page)' = Rows(filter, asked[d].page)
    <3>1. asked'[d] = asked[d]
      BY <2>1 DEF Same
    <3> QED BY <1>1, <3>1 DEF Matching, Rows
  <2> QED BY <1>1, <1>6, <2>1, <2>2 DEF TableIsLoading, Succeeded, Same
<1>7. TableCatchesUp'
  <2> SUFFICES ASSUME calm', ~owed
               PROVE  TableIsLoading' \/ (Loads' = {} /\ TableIs(table.rows, table.total)')
    BY <1>1 DEF TableCatchesUp
  <2>1. c \in Loads /\ TableIsLoading
    BY <1>1, <1>2 DEF Loads, HistoryInv, TableCatchesUp
  <2>2. PICK d \in Loads :
           /\ Newest(d) /\ asked[d].filter = filter
           /\ stage[d] = "half" => reply[d].total = Cardinality(Matching(filter))
           /\ Succeeded(d) => /\ reply[d].total = Cardinality(Matching(filter))
                              /\ reply[d].rows = Rows(filter, asked[d].page)
    BY <2>1 DEF TableIsLoading
  <2> QED BY <1>5, <1>6, <2>1, <2>2
<1> QED BY <1>2, <1>3, <1>4, <1>7 DEF HistoryInv

LEMMA HistoryStarts ==
    ASSUME HistoryInit, Mount(LoadPage(Always, 1), CallsOf["transactions"]), "transactions" \in Screens
    PROVE  HistoryInv
<1> DEFINE first == LoadPage(Always, 1)
<1>1. first.kind = "load" /\ first.filter = filter
  BY DEF LoadPage, HistoryInit
<1>2. PICK w : w = first
  OBVIOUS
<1>3. /\ NetInv
      /\ \A c \in UnderWay : asked[c] = w /\ stage[c] = "sent"
      /\ \E c \in UnderWay : asked[c] = w /\ Newest(c)
  <2>1. Mount(w, CallsOf["transactions"])
    BY <1>2
  <2> QED BY <2>1, ScreensLoad, MountStep
<1>4. \E c \in Loads : stage[c] = "sent" /\ asked[c].filter = filter /\ Newest(c)
  BY <1>1, <1>2, <1>3 DEF Loads
<1>5. TableCatchesUp
  BY <1>4 DEF TableCatchesUp, TableIsLoading, Succeeded
<1>6. KindsAre({"load"})
  BY <1>1, <1>2, <1>3 DEF KindsAre
<1>7. TransactionsTabWaitsForCalls
  BY <1>4 DEF TransactionsTabWaitsForCalls
<1> QED BY <1>3, <1>5, <1>6, <1>7 DEF HistoryInv

LEMMA HistoryKeeps ==
    ASSUME HistoryInv, TransactionsTabNext \/ UNCHANGED transactionsTabVars
    PROVE  HistoryInv'
<1>1. ASSUME NEW c \in Calls, ChangeDates(c) \/ Filter(c) \/ TurnPage(c) \/ Refresh(c)
      PROVE  HistoryInv'
  <2>1. \E p : Ask(c, LoadPage(filter', p)) /\ turning' = TRUE
    <3>1. CASE ChangeDates(c)
      BY <3>1 DEF ChangeDates, AskPage
    <3>2. CASE Filter(c)
      BY <3>2 DEF Filter, AskPage
    <3>3. CASE TurnPage(c)
      BY <3>3 DEF TurnPage, AskPage
    <3>4. CASE Refresh(c)
      BY <3>4 DEF Refresh
    <3> QED BY <1>1, <3>1, <3>2, <3>3, <3>4
  <2> QED BY <2>1, AskPageKeeps
<1>2. ASSUME NEW c \in Calls, TransactionsCallback(c)
      PROVE  HistoryInv'
  BY <1>2, PageLoadedKeeps DEF TransactionsCallback
<1>3. CASE UNCHANGED transactionsTabVars
  <2>1. /\ NetInv' /\ UnderWay' = UnderWay /\ Loads' = Loads
        /\ UNCHANGED <<stage, asked, reply, blind, calm>>
        /\ UNCHANGED <<stamps, owed, filter, table, turning>>
    BY <1>3, StillStep DEF HistoryInv, transactionsTabVars, txnVars, net
  <2>2. KindsAre({"load"})' /\ TransactionsTabWaitsForCalls'
    BY <2>1 DEF HistoryInv, KindsAre, TransactionsTabWaitsForCalls
  <2>3. TableCatchesUp'
    BY <2>1 DEF HistoryInv, TableCatchesUp, TableIsLoading, TableIs, Newest, Succeeded, Matching, Rows
  <2> QED BY <2>1, <2>2, <2>3 DEF HistoryInv
<1> QED BY <1>1, <1>2, <1>3, ServeTransactionsKeeps, CommitKeeps
        DEF TransactionsTabNext, TransactionsUser, TransactionsTabRest

-----------------------------------------------------------------------------
(* What the pages of the table have shown.                                 *)

NewerIn(S, i) == Cardinality({j \in S : j > i})

\* Page p of the numbers in S, the highest first.
PageOf(S, p) == {i \in S : (p - 1) * PageSize <= NewerIn(S, i) /\ NewerIn(S, i) < p * PageSize}

\* What the server lists is a page of what there was when it was read.
IsListing(r, p) ==
    /\ r.of \subseteq Nat /\ IsFiniteSet(r.of)
    /\ r.rows = PageOf(r.of, p)

\* Of what the first page was a page of, only what comes after the page that is shown
\* has not been seen.
SeenSoFar ==
    /\ table.of \subseteq Nat /\ IsFiniteSet(table.of) /\ whole \subseteq table.of
    /\ table.total = Cardinality(table.of)
    /\ \A i \in whole \ seen : table.page * PageSize <= NewerIn(table.of, i)

PagingInv ==
    /\ stamps \in Seq(Stamps)
    /\ \A c \in UnderWay : asked[c].page \in Nat \ {0}
    /\ \A c \in Calls : Succeeded(c) => IsListing(reply[c], asked[c].page)
    /\ table.page \in Nat \ {0}
    /\ inOrder => SeenSoFar

LEMMA NewerGrows ==
    ASSUME NEW S, NEW T, S \subseteq T, T \subseteq Nat, IsFiniteSet(T), NEW i
    PROVE  /\ NewerIn(S, i) \in Nat /\ NewerIn(T, i) \in Nat
           /\ NewerIn(S, i) <= NewerIn(T, i)
<1> DEFINE s == {j \in S : j > i}
           t == {j \in T : j > i}
<1>1. t \in SUBSET T /\ s \in SUBSET t
  OBVIOUS
<1>2. IsFiniteSet(t)
  BY <1>1, FS_Subset
<1>3. IsFiniteSet(s) /\ Cardinality(s) <= Cardinality(t)
  BY <1>1, <1>2, FS_Subset
<1>4. Cardinality(s) \in Nat /\ Cardinality(t) \in Nat
  BY <1>2, <1>3, FS_CardinalityType
<1> QED BY <1>3, <1>4 DEF NewerIn

LEMMA TimesGrows ==
    ASSUME NEW a \in Nat, NEW b \in Nat, NEW k \in Nat, a <= b
    PROVE  a * k <= b * k
<1>1. PICK d \in Nat : b = a + d
  <2>1. b - a \in Nat
    OBVIOUS
  <2> QED BY <2>1
<1>2. (a + d) * k = a * k + d * k
  OBVIOUS
<1>3. d * k \in Nat /\ a * k \in Nat
  OBVIOUS
<1> QED BY <1>1, <1>2, <1>3

\* The last page is full of what is left.
LEMMA PagesHoldAll ==
    ASSUME NEW n \in Nat, NEW k \in Nat \ {0}, NEW p \in Nat, p >= (n + k - 1) \div k
    PROVE  n <= p * k
<1> DEFINE q == (n + k - 1) \div k
<1>1. q \in Nat /\ n + k - 1 < q * k + k
  <2>1. n + k - 1 \in Nat
    OBVIOUS
  <2>2. PICK m \in Nat : m = n + k - 1
    BY <2>1
  <2>3. m \div k \in Nat /\ m < (m \div k) * k + k
    OBVIOUS
  <2> QED BY <2>2, <2>3
<1>2. q * k <= p * k
  BY <1>1, TimesGrows
<1>3. q * k \in Nat /\ p * k \in Nat
  BY <1>1
<1> HIDE DEF q
<1> QED BY <1>1, <1>2, <1>3

LEMMA MatchingIsFinite ==
    ASSUME stamps \in Seq(Stamps), NEW f
    PROVE  Matching(f) \subseteq Nat /\ IsFiniteSet(Matching(f))
<1>1. DOMAIN stamps = 1 .. Len(stamps) /\ Len(stamps) \in Nat
  OBVIOUS
<1>2. Matching(f) \in SUBSET (1 .. Len(stamps))
  BY <1>1 DEF Matching
<1>3. IsFiniteSet(1 .. Len(stamps))
  BY <1>1, FS_Interval
<1> QED BY <1>2, <1>3, FS_Subset

LEMMA RowsArePage ==
    ASSUME NEW f, NEW p
    PROVE  Rows(f, p) = PageOf(Matching(f), p)
BY DEF Rows, PageOf, NewerIn

\* What a page of a larger listing does not show, and the pages before it do not
\* show either, comes after it.
LEMMA NotOnPage ==
    ASSUME NEW S, S \subseteq Nat, IsFiniteSet(S), NEW p \in Nat \ {0}, NEW i \in S,
           i \notin PageOf(S, p), (p - 1) * PageSize <= NewerIn(S, i)
    PROVE  p * PageSize <= NewerIn(S, i)
<1>1. NewerIn(S, i) \in Nat
  BY NewerGrows
<1>2. PageSize \in Nat /\ p * PageSize \in Nat
  BY TransactionsTabConstants
<1>3. ~(NewerIn(S, i) < p * PageSize)
  BY DEF PageOf
<1> QED BY <1>1, <1>2, <1>3

\* A step after which the same is seen.
LEMMA PagingStays ==
    ASSUME PagingInv, UNCHANGED <<table, seen, whole, inOrder>>, stamps' \in Seq(Stamps),
           \A c \in UnderWay' : asked'[c].page \in Nat \ {0},
           \A c \in Calls : Succeeded(c)' => IsListing(reply'[c], asked'[c].page)
    PROVE  PagingInv'
<1>1. SeenSoFar => SeenSoFar'
  BY DEF SeenSoFar, NewerIn
<1>2. \A c \in Calls : Succeeded(c)' => IsListing(reply[c], asked[c].page)'
  BY DEF IsListing, PageOf, NewerIn
<1> QED BY <1>1, <1>2 DEF PagingInv

LEMMA AskKeepsPaging ==
    ASSUME NetInv, PagingInv, NEW c \in Calls, NEW f, NEW p \in Nat \ {0}, Ask(c, LoadPage(f, p)),
           UNCHANGED <<stamps, table, seen, whole, inOrder>>
    PROVE  PagingInv'
<1>1. PICK w : w = LoadPage(f, p)
  OBVIOUS
<1>2. w.page = p
  BY <1>1 DEF LoadPage
<1>3. /\ UnderWay' = UnderWay \union {c} /\ stage'[c] = "sent" /\ asked'[c] = w
      /\ OthersSame(c)
  BY <1>1, AskStep
<1>4. \A d \in UnderWay' : asked'[d].page \in Nat \ {0}
  BY <1>2, <1>3, UnderWayIsOfCalls DEF PagingInv, OthersSame, Same
<1>5. \A d \in Calls : Succeeded(d)' => IsListing(reply'[d], asked'[d].page)
  BY <1>3 DEF PagingInv, OthersSame, Same, Succeeded
<1> QED BY <1>4, <1>5, PagingStays DEF PagingInv

LEMMA ServeKeepsPaging ==
    ASSUME NetInv, PagingInv, NEW c \in Calls, ServeTransactions(c)
    PROVE  PagingInv'
<1>1. UNCHANGED <<stamps, table, seen, whole, inOrder>>
  BY DEF ServeTransactions, CountTransactions, ReadPage, RefuseList
<1>2. ASSUME UnderWay' = UnderWay, OthersSame(c), c \in UnderWay => asked'[c] = asked[c],
             Succeeded(c)' => c \in UnderWay /\ IsListing(reply'[c], asked[c].page)
      PROVE  PagingInv'
  <2>1. \A d \in UnderWay' : asked'[d].page \in Nat \ {0}
    BY <1>2, UnderWayIsOfCalls DEF PagingInv, OthersSame, Same
  <2>2. \A d \in Calls : Succeeded(d)' => IsListing(reply'[d], asked'[d].page)
    BY <1>2 DEF PagingInv, OthersSame, Same, Succeeded
  <2> QED BY <1>1, <2>1, <2>2, PagingStays DEF PagingInv
<1>3. ASSUME NEW r, Answer(c, r), r.code = "ok" => IsListing(r, asked[c].page)
      PROVE  PagingInv'
  <2>1. /\ UnderWay' = UnderWay
        /\ \/ /\ Unserved(c) /\ stage'[c] = "served" /\ reply'[c] = r
              /\ asked'[c] = asked[c]
           \/ stage[c] = "orphan" /\ stage'[c] = "over"
        /\ OthersSame(c)
    BY <1>3, AnswerStep
  <2>2. c \in UnderWay => asked'[c] = asked[c]
    BY <2>1 DEF UnderWay
  <2>3. Succeeded(c)' => c \in UnderWay /\ IsListing(reply'[c], asked[c].page)
    BY <1>3, <2>1 DEF Succeeded, UnderWay, Unserved
  <2> QED BY <1>2, <2>1, <2>2, <2>3
<1>4. CASE CountTransactions(c)
  <2>1. CASE Answer(c, Refused)
    BY <1>3, <2>1 DEF Refused
  <2>2. CASE \E r : ReadHalf(c, r)
    <3>1. UnderWay' = UnderWay /\ OthersSame(c) /\ asked'[c] = asked[c] /\ stage'[c] = "half"
      BY <2>2, HalfStep
    <3> QED BY <1>2, <3>1 DEF Succeeded
  <2> QED BY <1>4, <2>1, <2>2 DEF CountTransactions
<1>5. CASE ReadPage(c)
  <2> DEFINE f == asked[c].filter
             r == [code |-> "ok", total |-> reply[c].total,
                   rows |-> Rows(f, asked[c].page), of |-> Matching(f)]
  <2>1. /\ Answer(c, r)
        /\ r.rows = Rows(f, asked[c].page) /\ r.of = Matching(f)
    BY <1>5 DEF ReadPage
  <2> HIDE DEF r
  <2>2. IsListing(r, asked[c].page)
    BY <2>1, MatchingIsFinite, RowsArePage DEF PagingInv, IsListing
  <2> QED BY <1>3, <2>1, <2>2
<1>6. CASE RefuseList(c)
  BY <1>3, <1>6 DEF RefuseList, Refused
<1> QED BY <1>4, <1>5, <1>6 DEF ServeTransactions

LEMMA CommitKeepsPaging ==
    ASSUME NetInv, PagingInv, Commit
    PROVE  PagingInv'
<1>1. UnderWay' = UnderWay /\ \A d \in Calls : Same(d)
  <2>1. CASE UNCHANGED net
    BY <2>1, StillStep
  <2>2. CASE Meddled
    BY <2>2, MeddledStep
  <2> QED BY <2>1, <2>2 DEF Commit
<1>2. stamps' \in Seq(Stamps)
  <2>1. {2 * Today, 2 * Today + 1} \subseteq Stamps
    BY TransactionsTabConstants DEF Days, Stamps
  <2> QED BY <2>1, AppendProperties DEF Commit, PagingInv
<1>3. \A d \in UnderWay' : asked'[d].page \in Nat \ {0}
  BY <1>1, UnderWayIsOfCalls DEF PagingInv, Same
<1>4. \A d \in Calls : Succeeded(d)' => IsListing(reply'[d], asked'[d].page)
  BY <1>1 DEF PagingInv, Same, Succeeded
<1> QED BY <1>2, <1>3, <1>4, PagingStays DEF Commit

\* A page is shown: what neither it nor the pages before it have shown comes after it.
LEMMA ShowingKeepsPaging ==
    ASSUME PagingInv, NEW c \in Calls, NEW r, IsListing(r, asked[c].page),
           asked[c].page \in Nat \ {0}, PageShown(c, r), inOrder'
    PROVE  SeenSoFar'
<1> DEFINE p == asked[c].page
<1>1. table' = [rows |-> r.rows, of |-> r.of, total |-> r.total,
                page |-> p, filter |-> asked[c].filter]
  BY DEF PageShown
<1>2. table'.of = r.of /\ table'.total = r.total /\ table'.page = p
  BY <1>1
<1>3. /\ r.of \subseteq Nat /\ IsFiniteSet(r.of) /\ r.rows = PageOf(r.of, p)
      /\ r.total = Cardinality(r.of)
  BY DEF IsListing, PageShown
<1>4. PageSize \in Nat
  BY TransactionsTabConstants
<1>5. whole' \subseteq r.of
      /\ \A i \in whole' \ seen' : i \notin r.rows /\ (p - 1) * PageSize <= NewerIn(r.of, i)
  <2>1. CASE p = 1
    <3>1. whole' = r.of /\ seen' = r.rows
      BY <2>1 DEF PageShown
    <3>2. \A i : NewerIn(r.of, i) \in Nat
      BY <1>3, NewerGrows
    <3>3. (p - 1) * PageSize = 0
      BY <1>4, <2>1
    <3> QED BY <3>1, <3>2, <3>3
  <2>2. CASE p # 1
    <3>1. /\ seen' = seen \union r.rows /\ whole' = whole
          /\ inOrder /\ table.of \subseteq r.of
          /\ p \in {table.page - 1, table.page, table.page + 1}
      BY <2>2 DEF PageShown
    <3>2. SeenSoFar /\ table.page \in Nat
      BY <3>1 DEF PagingInv
    <3>3. ASSUME NEW i \in whole \ seen
          PROVE  (p - 1) * PageSize <= NewerIn(r.of, i)
      <4>1. table.page * PageSize <= NewerIn(table.of, i)
        BY <3>2, <3>3 DEF SeenSoFar
      <4>2. /\ NewerIn(table.of, i) \in Nat /\ NewerIn(r.of, i) \in Nat
            /\ NewerIn(table.of, i) <= NewerIn(r.of, i)
        BY <1>3, <3>1, NewerGrows
      <4>3. p - 1 \in Nat /\ p - 1 <= table.page
        BY <3>1, <3>2
      <4>4. (p - 1) * PageSize <= table.page * PageSize
        BY <1>4, <3>2, <4>3, TimesGrows
      <4>5. (p - 1) * PageSize \in Nat /\ table.page * PageSize \in Nat
        BY <1>4, <3>2, <4>3
      <4> QED BY <4>1, <4>2, <4>4, <4>5
    <3> QED BY <3>1, <3>2, <3>3 DEF SeenSoFar
  <2> QED BY <2>1, <2>2
<1>6. \A i \in whole' \ seen' : p * PageSize <= NewerIn(r.of, i)
  BY <1>3, <1>5, NotOnPage
<1>7. \A i \in whole' \ seen' : table'.page * PageSize <= NewerIn(table.of, i)'
  BY <1>2, <1>6 DEF NewerIn
<1> QED BY <1>2, <1>3, <1>5, <1>7 DEF SeenSoFar

LEMMA PageLoadedKeepsPaging ==
    ASSUME NetInv, PagingInv, NEW c \in Calls, NEW r, Outcome(c, r), PageLoaded(c, r)
    PROVE  PagingInv'
<1>1. Finish(c, r) /\ UNCHANGED stamps
  BY DEF PageLoaded
<1>2. /\ c \in UnderWay /\ UnderWay' = UnderWay \ {c}
      /\ stage'[c] \in {"over", "orphan"}
      /\ r.code = "ok" => stage[c] = "served" /\ r = reply[c]
      /\ OthersSame(c)
  BY <1>1, EndStep
<1>3. \A d \in UnderWay' : asked'[d].page \in Nat \ {0}
  BY <1>2, UnderWayIsOfCalls DEF PagingInv, OthersSame, Same
<1>4. \A d \in Calls : Succeeded(d)' => IsListing(reply'[d], asked'[d].page)
  BY <1>2 DEF PagingInv, OthersSame, Same, Succeeded
<1>5. CASE r.code # "ok"
  BY <1>1, <1>3, <1>4, <1>5, PagingStays DEF PageLoaded, PagingInv
<1>6. CASE r.code = "ok"
  <2>1. PageShown(c, r) /\ IsListing(r, asked[c].page) /\ asked[c].page \in Nat \ {0}
    BY <1>2, <1>6 DEF PageLoaded, PagingInv, Succeeded
  <2>2. table'.page = asked[c].page
    BY <2>1 DEF PageShown
  <2>3. \A d \in Calls : Succeeded(d)' => IsListing(reply[d], asked[d].page)'
    BY <1>4 DEF IsListing, PageOf, NewerIn
  <2> QED BY <1>1, <1>3, <2>1, <2>2, <2>3, ShowingKeepsPaging DEF PagingInv
<1> QED BY <1>5, <1>6

LEMMA PagingStarts ==
    ASSUME HistoryInit, Mount(LoadPage(Always, 1), CallsOf["transactions"]), "transactions" \in Screens
    PROVE  PagingInv
<1>1. PICK w : w = LoadPage(Always, 1)
  OBVIOUS
<1>2. w.page = 1
  BY <1>1 DEF LoadPage
<1>3. /\ \A c \in UnderWay : asked[c] = w
      /\ \A c \in Calls : stage[c] # "served"
  BY <1>1, ScreensLoad, MountStep
<1>4. stamps \in Seq(Stamps) /\ table.page = 1 /\ ~inOrder
  BY TransactionsTabConstants DEF HistoryInit
<1> QED BY <1>2, <1>3, <1>4 DEF PagingInv, Succeeded

LEMMA PagingKeeps ==
    ASSUME HistoryInv, PagingInv, TransactionsTabNext \/ UNCHANGED transactionsTabVars
    PROVE  PagingInv'
<1>1. ASSUME NEW c \in Calls, ChangeDates(c) \/ Filter(c) \/ TurnPage(c) \/ Refresh(c)
      PROVE  PagingInv'
  <2>1. \E f : \E p \in Nat \ {0} : Ask(c, LoadPage(f, p))
    <3>1. CASE ChangeDates(c)
      BY <3>1 DEF ChangeDates, AskPage
    <3>2. CASE Filter(c)
      BY <3>2 DEF Filter, AskPage
    <3>3. CASE TurnPage(c)
      <4>1. table.page \in Nat \ {0}
        BY DEF PagingInv
      <4>2. CASE table.page > 1 /\ AskPage(c, filter, table.page - 1)
        BY <4>1, <4>2 DEF AskPage
      <4>3. CASE AskPage(c, filter, table.page + 1)
        BY <4>1, <4>3 DEF AskPage
      <4> QED BY <3>3, <4>2, <4>3 DEF TurnPage
    <3>4. CASE Refresh(c)
      BY <3>4 DEF Refresh
    <3> QED BY <1>1, <3>1, <3>2, <3>3, <3>4
  <2>2. UNCHANGED <<stamps, table, seen, whole, inOrder>>
    BY <1>1 DEF ChangeDates, Filter, TurnPage, Refresh, AskPage
  <2> QED BY <2>1, <2>2, AskKeepsPaging DEF HistoryInv
<1>2. ASSUME NEW c \in Calls, TransactionsCallback(c)
      PROVE  PagingInv'
  BY <1>2, PageLoadedKeepsPaging DEF TransactionsCallback, HistoryInv
<1>3. CASE UNCHANGED transactionsTabVars
  <2>1. UnderWay' = UnderWay /\ UNCHANGED <<stage, asked, reply>>
        /\ UNCHANGED <<stamps, table, seen, whole, inOrder>>
    BY <1>3, StillStep DEF HistoryInv, transactionsTabVars, txnVars, net
  <2> QED BY <2>1, PagingStays DEF PagingInv, Succeeded
<1> QED BY <1>1, <1>2, <1>3, ServeKeepsPaging, CommitKeepsPaging
        DEF HistoryInv, TransactionsTabNext, TransactionsUser, TransactionsTabRest

LEMMA SeenToTheEnd ==
    ASSUME PagingInv
    PROVE  PagingMissesNothing
<1> SUFFICES ASSUME inOrder, table.page >= TotalPages, NEW i \in whole \ seen
             PROVE  FALSE
  BY DEF PagingMissesNothing
<1>1. SeenSoFar /\ table.page \in Nat
  BY DEF PagingInv
<1>2. PageSize \in Nat \ {0} /\ Cardinality(table.of) \in Nat
  BY <1>1, TransactionsTabConstants, FS_CardinalityType DEF SeenSoFar
<1>3. Cardinality(table.of) <= table.page * PageSize
  BY <1>1, <1>2, PagesHoldAll DEF SeenSoFar, TotalPages
<1>4. NewerIn(table.of, i) \in Nat /\ NewerIn(table.of, i) < Cardinality(table.of)
  <2> DEFINE newer == {j \in table.of : j > i}
  <2>1. newer \in SUBSET table.of /\ i \in table.of /\ i \in Nat
    BY <1>1 DEF SeenSoFar
  <2>2. i \notin newer
    BY <2>1
  <2>3. /\ Cardinality(newer) <= Cardinality(table.of)
        /\ Cardinality(table.of) = Cardinality(newer) => table.of = newer
    BY <1>1, <2>1, FS_Subset DEF SeenSoFar
  <2>4. Cardinality(newer) \in Nat
    BY <1>1, NewerGrows DEF SeenSoFar, NewerIn
  <2> QED BY <1>2, <2>1, <2>2, <2>3, <2>4 DEF NewerIn
<1>5. table.page * PageSize <= NewerIn(table.of, i)
  BY <1>1 DEF SeenSoFar
<1>6. table.page * PageSize \in Nat
  BY <1>1, <1>2
<1> QED BY <1>2, <1>3, <1>4, <1>5, <1>6

-----------------------------------------------------------------------------
(* The statements.                                                         *)

EntriesAreSorted ==
    /\ entries \in Seq([stamp : Instants, after : Nat])
    /\ \A i, j \in DOMAIN entries : i <= j => entries[i].stamp <= entries[j].stamp

StatementsInv ==
    /\ NetInv /\ KindsAre({"load"})
    /\ EntriesAreSorted
    /\ StatementWaitsForCalls

LEMMA InstantsAreNumbers == Instants \subseteq Nat
<1>1. \A d \in StatementDays : d \in Nat
  BY StatementConstants
<1>2. \A d \in StatementDays : 2 * d \in Nat /\ 2 * d + 1 \in Nat
  BY <1>1
<1> QED BY <1>2, Zenon DEF Instants

\* A set of positions in a sequence that is not empty has a last one.
LEMMA LastExists ==
    ASSUME NEW n \in Nat, NEW S, S \subseteq 1 .. n, S # {}
    PROVE  Last(S) \in S /\ \A j \in S : j <= Last(S)
<1> DEFINE fromEnd == {n - i : i \in S}
           less == OpToRel(<, Nat)
<1>1. fromEnd \subseteq Nat /\ fromEnd # {}
  <2>1. \A i \in S : n - i \in Nat
    OBVIOUS
  <2>2. PICK i \in S : TRUE
    OBVIOUS
  <2>3. n - i \in fromEnd
    OBVIOUS
  <2> QED BY <2>1, <2>3
<1>2. PICK m \in fromEnd : \A k \in fromEnd : ~ (<<k, m>> \in less)
  <2>1. IsWellFoundedOn(less, Nat)
    BY NatLessThanWellFounded
  <2> HIDE DEF less, fromEnd
  <2> QED BY <1>1, <2>1, WFMin
<1>3. \A k \in fromEnd : ~ (k < m)
  BY <1>1, <1>2 DEF OpToRel
<1>4. PICK i \in S : m = n - i
  BY <1>2
<1>5. \A j \in S : j <= i
  <2> SUFFICES ASSUME NEW j \in S
               PROVE  j <= i
    OBVIOUS
  <2>1. i \in Nat /\ j \in Nat
    <3>1. i \in 1 .. n /\ j \in 1 .. n
      OBVIOUS
    <3> QED BY <3>1
  <2>2. n - j \in fromEnd
    OBVIOUS
  <2>3. ~ (n - j < n - i)
    BY <1>3, <1>4, <2>2
  <2> QED BY <2>1, <2>3
<1> QED BY <1>5 DEF Last

LEMMA LastIsIt ==
    ASSUME NEW n \in Nat, NEW S, S \subseteq 1 .. n, NEW i \in S, \A j \in S : j <= i
    PROVE  Last(S) = i
<1>1. Last(S) \in S /\ \A j \in S : j <= Last(S)
  BY LastExists
<1>2. \A j \in S : j \in Int
  OBVIOUS
<1>3. PICK k \in S : k = Last(S)
  BY <1>1
<1>4. i <= k /\ k <= i
  BY <1>1, <1>3
<1> QED BY <1>2, <1>3, <1>4

LEMMA FetchKeeps ==
    ASSUME StatementsInv, NEW c \in Calls, Fetch(c)
    PROVE  StatementsInv'
<1>1. PICK w : w = StatementLoad(fields)
  OBVIOUS
<1>2. w.kind = "load" /\ Ask(c, w) /\ UNCHANGED <<entries, loadingAcct>> /\ lastAsked' = fields
  BY <1>1 DEF Fetch, StatementLoad
<1>3. /\ NetInv'
      /\ c \notin UnderWay /\ UnderWay' = UnderWay \union {c}
      /\ asked'[c] = w
      /\ OthersSame(c)
  BY <1>2, AskStep DEF StatementsInv
<1>4. \A d \in UnderWay : asked'[d] = asked[d]
  BY <1>3, UnderWayIsOfCalls DEF OthersSame, Same
<1>5. KindsAre({"load"})'
  BY <1>2, <1>3, <1>4 DEF StatementsInv, KindsAre
<1>6. EntriesAreSorted'
  BY <1>2 DEF StatementsInv, EntriesAreSorted
<1>7. StatementLoad(lastAsked)' = w
  BY <1>1, <1>2 DEF StatementLoad
<1>8. StatementWaitsForCalls'
  <2>1. AccountLoad' = AccountLoad
    BY DEF AccountLoad
  <2> QED BY <1>2, <1>3, <1>4, <1>7, <2>1 DEF StatementsInv, StatementWaitsForCalls
<1> QED BY <1>3, <1>5, <1>6, <1>8 DEF StatementsInv

\* A step that sends nothing and ends nothing.
LEMMA StatementsStay ==
    ASSUME StatementsInv, NetInv', UnderWay' = UnderWay, \A d \in UnderWay : asked'[d] = asked[d],
           EntriesAreSorted', UNCHANGED <<loadingAcct, pending, lastAsked>>
    PROVE  StatementsInv'
<1>1. KindsAre({"load"})'
  BY DEF StatementsInv, KindsAre
<1>2. StatementLoad(lastAsked)' = StatementLoad(lastAsked) /\ AccountLoad' = AccountLoad
  BY DEF StatementLoad, AccountLoad
<1>3. StatementWaitsForCalls'
  BY <1>2 DEF StatementsInv, StatementWaitsForCalls
<1> QED BY <1>1, <1>3 DEF StatementsInv

LEMMA CommitEntryKeepsSorted ==
    ASSUME EntriesAreSorted, CommitEntry
    PROVE  EntriesAreSorted'
<1>1. PICK s \in NewStamps, a \in Amounts :
         /\ \A i \in DOMAIN entries : entries[i].stamp <= s
         /\ Balance + a >= 0
         /\ entries' = Append(entries, [stamp |-> s, after |-> Balance + a])
  BY DEF CommitEntry
<1> DEFINE e == [stamp |-> s, after |-> Balance + a]
           n == Len(entries)
<1>2. /\ entries \in Seq([stamp : Instants, after : Nat])
      /\ n \in Nat /\ DOMAIN entries = 1 .. n
  BY DEF EntriesAreSorted
<1>3. Balance \in Nat
  <2>1. CASE entries = <<>>
    BY <2>1 DEF Balance
  <2>2. CASE entries # <<>>
    <3>1. n \in 1 .. n
      BY <1>2, <2>2
    <3>2. entries[n] \in [stamp : Instants, after : Nat]
      BY <1>2, <3>1, ElementOfSeq
    <3> QED BY <2>2, <3>2 DEF Balance
  <2> QED BY <2>1, <2>2
<1>4. Balance + a \in Nat
  <2>1. a \in Int
    BY StatementConstants
  <2> QED BY <1>1, <1>3, <2>1
<1>5. s \in Instants /\ s \in Nat
  BY StatementConstants, InstantsAreNumbers
<1>6. e \in [stamp : Instants, after : Nat] /\ e.stamp = s
  BY <1>4, <1>5
<1> HIDE DEF e
<1>7. /\ entries' \in Seq([stamp : Instants, after : Nat])
      /\ Len(entries') = n + 1 /\ DOMAIN entries' = 1 .. n + 1
      /\ entries'[n + 1] = e
      /\ \A i \in 1 .. n : entries'[i] = entries[i]
  BY <1>1, <1>2, <1>6, AppendProperties DEF e
<1>8. ASSUME NEW i \in DOMAIN entries', NEW j \in DOMAIN entries', i <= j
      PROVE  entries'[i].stamp <= entries'[j].stamp
  <2>1. CASE j \in 1 .. n
    <3>1. i \in 1 .. n
      BY <1>2, <1>7, <1>8, <2>1
    <3> QED BY <1>2, <1>7, <1>8, <2>1, <3>1 DEF EntriesAreSorted
  <2>2. CASE j = n + 1 /\ i \in 1 .. n
    BY <1>1, <1>2, <1>6, <1>7, <2>2
  <2>3. CASE j = n + 1 /\ i = n + 1
    BY <1>5, <1>6, <1>7, <2>3
  <2> QED BY <1>2, <1>7, <2>1, <2>2, <2>3
<1> QED BY <1>7, <1>8 DEF EntriesAreSorted

LEMMA StatementCallbackKeeps ==
    ASSUME StatementsInv, NEW c \in Calls, NEW r, Outcome(c, r), Finish(c, r),
           AccountKnown(c, r) \/ Fetched(c, r), UNCHANGED <<entries, fields, lastAsked>>
    PROVE  StatementsInv'
<1>1. /\ NetInv'
      /\ UnderWay' = UnderWay \ {c}
      /\ OthersSame(c)
  BY EndStep DEF StatementsInv
<1>2. \A d \in UnderWay : d # c => asked'[d] = asked[d]
  BY <1>1, UnderWayIsOfCalls DEF OthersSame, Same
<1>3. KindsAre({"load"})'
  BY <1>1, <1>2 DEF StatementsInv, KindsAre
<1>4. EntriesAreSorted'
  BY DEF StatementsInv, EntriesAreSorted
<1>5. /\ StatementLoad(lastAsked)' = StatementLoad(lastAsked)
      /\ AccountLoad' = AccountLoad /\ StatementLoad(lastAsked) # AccountLoad
  <2>1. StatementLoad(lastAsked).what = "statement" /\ AccountLoad.what = "account"
    BY DEF StatementLoad, AccountLoad
  <2>2. StatementLoad(lastAsked) # AccountLoad
    BY <2>1
  <2> QED BY <2>2 DEF StatementLoad, AccountLoad
<1>6. StatementWaitsForCalls'
  <2>1. CASE AccountKnown(c, r)
    BY <1>1, <1>2, <1>5, <2>1 DEF AccountKnown, StatementsInv, StatementWaitsForCalls
  <2>2. CASE Fetched(c, r)
    BY <1>1, <1>2, <1>5, <2>2 DEF Fetched, StatementsInv, StatementWaitsForCalls
  <2> QED BY <2>1, <2>2
<1> QED BY <1>1, <1>3, <1>4, <1>6 DEF StatementsInv

LEMMA PastIsSorted ==
    ASSUME StatementInit
    PROVE  EntriesAreSorted
BY StatementConstants DEF StatementInit, EntriesAreSorted

LEMMA StatementsStart ==
    ASSUME StatementInit, Mount(AccountLoad, CallsOf["statement"]), "statement" \in Screens
    PROVE  StatementsInv
<1>1. /\ NetInv
      /\ \A c \in UnderWay : asked[c] = AccountLoad
      /\ \E c \in UnderWay : asked[c] = AccountLoad
  BY ScreensLoad, MountStep
<1>2. AccountLoad.kind = "load"
  BY DEF AccountLoad
<1>3. KindsAre({"load"})
  BY <1>1, <1>2 DEF KindsAre
<1>4. StatementWaitsForCalls
  BY <1>1 DEF StatementInit, StatementWaitsForCalls
<1> QED BY <1>1, <1>3, <1>4, PastIsSorted DEF StatementsInv

LEMMA StatementsKeep ==
    ASSUME StatementsInv, StatementNext \/ UNCHANGED statementVars
    PROVE  StatementsInv'
<1>1. CASE StatementUser
  <2>1. CASE EnterDates \/ FetchNothing
    <3>1. /\ UNCHANGED <<net, entries, loadingAcct, pending, lastAsked>>
          /\ UNCHANGED asked
      BY <2>1 DEF EnterDates, FetchNothing, net
    <3>2. NetInv' /\ UnderWay' = UnderWay
      BY <3>1, StillStep DEF StatementsInv
    <3>3. EntriesAreSorted'
      BY <3>1 DEF StatementsInv, EntriesAreSorted
    <3> QED BY <3>1, <3>2, <3>3, StatementsStay
  <2> QED BY <1>1, <2>1, FetchKeeps DEF StatementUser
<1>2. CASE CommitEntry
  <2>1. /\ UNCHANGED <<net, loadingAcct, pending, lastAsked>> /\ UNCHANGED asked
    BY <1>2 DEF CommitEntry, net
  <2>2. NetInv' /\ UnderWay' = UnderWay
    BY <2>1, StillStep DEF StatementsInv
  <2>3. EntriesAreSorted'
    BY <1>2, CommitEntryKeepsSorted DEF StatementsInv
  <2> QED BY <2>1, <2>2, <2>3, StatementsStay
<1>3. ASSUME NEW c \in Calls, ServeStatements(c)
      PROVE  StatementsInv'
  <2>1. UNCHANGED <<entries, loadingAcct, pending, lastAsked>>
    BY <1>3 DEF ServeStatements, stmtVars
  <2>2. EntriesAreSorted'
    BY <2>1 DEF StatementsInv, EntriesAreSorted
  <2>3. NetInv' /\ UnderWay' = UnderWay /\ \A d \in UnderWay : asked'[d] = asked[d]
    <3>1. ASSUME NEW r, Answer(c, r)
          PROVE  NetInv' /\ UnderWay' = UnderWay /\ \A d \in UnderWay : asked'[d] = asked[d]
      <4>1. /\ NetInv' /\ UnderWay' = UnderWay /\ OthersSame(c)
            /\ asked'[c] = asked[c] \/ stage[c] = "orphan"
        BY <3>1, AnswerStep DEF StatementsInv
      <4> QED BY <4>1, UnderWayIsOfCalls DEF UnderWay, OthersSame, Same
    <3>2. ASSUME NEW r, ReadHalf(c, r)
          PROVE  NetInv' /\ UnderWay' = UnderWay /\ \A d \in UnderWay : asked'[d] = asked[d]
      <4>1. /\ NetInv' /\ UnderWay' = UnderWay /\ OthersSame(c) /\ asked'[c] = asked[c]
        BY <3>2, HalfStep DEF StatementsInv
      <4> QED BY <4>1, UnderWayIsOfCalls DEF UnderWay, OthersSame, Same
    <3>3. (\E r : Answer(c, r)) \/ (\E r : ReadHalf(c, r))
      BY <1>3 DEF ServeStatements, TellAccount, ReadOpening, ReadLines, RefuseRead
    <3> QED BY <3>1, <3>2, <3>3
  <2> QED BY <2>1, <2>2, <2>3, StatementsStay
<1>4. ASSUME NEW c \in Calls, StatementCallback(c)
      PROVE  StatementsInv'
  BY <1>4, StatementCallbackKeeps DEF StatementCallback
<1>5. CASE UNCHANGED statementVars
  <2>1. /\ UNCHANGED <<net, entries, loadingAcct, pending, lastAsked>> /\ UNCHANGED asked
    BY <1>5 DEF statementVars, stmtVars, net
  <2>2. NetInv' /\ UnderWay' = UnderWay
    BY <2>1, StillStep DEF StatementsInv
  <2>3. EntriesAreSorted'
    BY <2>1 DEF StatementsInv, EntriesAreSorted
  <2> QED BY <2>1, <2>2, <2>3, StatementsStay
<1> QED BY <1>1, <1>2, <1>3, <1>4, <1>5 DEF StatementNext, StatementRest

-----------------------------------------------------------------------------
(* What a statement adds up to.                                            *)

\* A sum that is defined step by step has one value: of two that differ, consider the
\* first step at which they do.
LEMMA SumsAreUnique ==
    ASSUME NEW n \in Nat, NEW amount, NEW f, NEW g,
           \A j \in 0 .. n : f[j] = IF j = 0 THEN 0 ELSE f[j - 1] + amount[j],
           \A j \in 0 .. n : g[j] = IF j = 0 THEN 0 ELSE g[j - 1] + amount[j]
    PROVE  \A j \in 0 .. n : f[j] = g[j]
<1> DEFINE differ == {j \in 0 .. n : f[j] # g[j]}
           less == OpToRel(<, Nat)
<1>1. CASE differ = {}
  BY <1>1
<1>2. CASE differ # {}
  <2>1. differ \subseteq Nat
    OBVIOUS
  <2>2. PICK m \in differ : \A j \in differ : ~ (<<j, m>> \in less)
    <3>1. IsWellFoundedOn(less, Nat)
      BY NatLessThanWellFounded
    <3> HIDE DEF less, differ
    <3> QED BY <1>2, <2>1, <3>1, WFMin
  <2>3. m \in 0 .. n /\ f[m] # g[m]
    BY <2>2
  <2>4. m # 0
    BY <2>3
  <2>5. m - 1 \in 0 .. n /\ f[m - 1] = g[m - 1]
    <3>1. m - 1 \in 0 .. n /\ m - 1 \in Nat /\ m - 1 < m
      BY <2>3, <2>4
    <3>2. m - 1 \notin differ
      BY <2>1, <2>2, <3>1 DEF OpToRel
    <3> QED BY <3>1, <3>2
  <2> HIDE DEF differ, less
  <2> QED BY <2>3, <2>4, <2>5
<1> QED BY <1>1, <1>2

\* The change of "level" since position k, counted up to position m, grows by the
\* changes between the two.
LEMMA ChangeAt ==
    ASSUME NEW n \in Nat, NEW level, \A j \in 0 .. n : level[j] \in Int,
           NEW k \in 0 .. n, NEW m \in 0 .. n, k <= m, NEW g,
           \A j \in 0 .. n : g[j] = IF j <= k THEN 0 ELSE IF j <= m THEN level[j] - level[k]
                                                             ELSE level[m] - level[k]
    PROVE  /\ \A j \in 0 .. n :
                 g[j] = IF j = 0 THEN 0
                        ELSE g[j - 1] + (IF k < j /\ j <= m THEN level[j] - level[j - 1] ELSE 0)
           /\ g[n] = level[m] - level[k]
<1> DEFINE step(i) == IF k < i /\ i <= m THEN level[i] - level[i - 1] ELSE 0
<1>1. ASSUME NEW j \in 0 .. n
      PROVE  g[j] = IF j = 0 THEN 0 ELSE g[j - 1] + step(j)
  <2>1. level[k] \in Int /\ level[m] \in Int /\ level[j] \in Int
    OBVIOUS
  <2>2. CASE j = 0
    BY <2>2
  <2>3. CASE j # 0
    <3>1. j - 1 \in 0 .. n /\ level[j - 1] \in Int
      BY <2>3
    <3>2. CASE j <= k
      BY <2>3, <3>1, <3>2
    <3>3. CASE j = k + 1 /\ j <= m
      BY <2>1, <2>3, <3>1, <3>3
    <3>4. CASE j > k + 1 /\ j <= m
      BY <2>1, <2>3, <3>1, <3>4
    <3>5. CASE j > m /\ j > k
      <4>1. g[j] = level[m] - level[k] /\ step(j) = 0
        BY <3>5
      <4>2. g[j - 1] = level[m] - level[k]
        <5>1. CASE j - 1 <= k
          <6>1. k = m
            BY <3>1, <3>5, <5>1
          <6> QED BY <2>1, <3>1, <5>1, <6>1
        <5>2. CASE ~(j - 1 <= k) /\ j - 1 <= m
          <6>1. j - 1 = m
            BY <3>1, <3>5, <5>2
          <6> QED BY <3>1, <5>2, <6>1
        <5>3. CASE ~(j - 1 <= k) /\ ~(j - 1 <= m)
          BY <3>1, <5>3
        <5> QED BY <5>1, <5>2, <5>3
      <4> QED BY <2>1, <2>3, <4>1, <4>2
    <3> QED BY <3>1, <3>2, <3>3, <3>4, <3>5
  <2> QED BY <2>2, <2>3
<1>2. g[n] = level[m] - level[k]
  <2>1. level[k] \in Int /\ level[m] \in Int /\ n \in 0 .. n /\ m <= n
    OBVIOUS
  <2>2. CASE n <= k
    <3>1. k = n /\ m = n
      BY <2>2
    <3> QED BY <2>1, <2>2, <3>1
  <2>3. CASE ~(n <= k)
    <3>1. n <= m => m = n
      BY <2>1
    <3> QED BY <2>1, <2>3, <3>1
  <2> QED BY <2>2, <2>3
<1> QED BY <1>1, <1>2

\* A sum of the changes of "level" from position k to position m.
LEMMA ChangesAddUp ==
    ASSUME NEW n \in Nat, NEW level, \A j \in 0 .. n : level[j] \in Int,
           NEW k \in 0 .. n, NEW m \in 0 .. n, k <= m
    PROVE  \A f : (\A j \in 0 .. n :
                      f[j] = IF j = 0 THEN 0
                             ELSE f[j - 1] + (IF k < j /\ j <= m THEN level[j] - level[j - 1] ELSE 0))
                  => f[n] = level[m] - level[k]
<1> DEFINE amount == [i \in 1 .. n |-> IF k < i /\ i <= m THEN level[i] - level[i - 1] ELSE 0]
           g == [j \in 0 .. n |-> IF j <= k THEN 0 ELSE IF j <= m THEN level[j] - level[k]
                                                        ELSE level[m] - level[k]]
<1>1. \A j \in 0 .. n : g[j] = IF j <= k THEN 0 ELSE IF j <= m THEN level[j] - level[k]
                                                    ELSE level[m] - level[k]
  OBVIOUS
<1>2. \A j \in 1 .. n : amount[j] = IF k < j /\ j <= m THEN level[j] - level[j - 1] ELSE 0
  OBVIOUS
<1>3. \A j \in 0 .. n : j # 0 => j \in 1 .. n
  OBVIOUS
<1> HIDE DEF amount, g
<1>4. /\ \A j \in 0 .. n :
            g[j] = IF j = 0 THEN 0
                   ELSE g[j - 1] + (IF k < j /\ j <= m THEN level[j] - level[j - 1] ELSE 0)
      /\ g[n] = level[m] - level[k]
  BY <1>1, ChangeAt
<1>5. \A j \in 0 .. n : g[j] = IF j = 0 THEN 0 ELSE g[j - 1] + amount[j]
  BY <1>2, <1>3, <1>4
<1> SUFFICES ASSUME NEW f,
                    \A j \in 0 .. n :
                       f[j] = IF j = 0 THEN 0
                              ELSE f[j - 1] + (IF k < j /\ j <= m THEN level[j] - level[j - 1] ELSE 0)
             PROVE  f[n] = level[m] - level[k]
  OBVIOUS
<1>6. \A j \in 0 .. n : f[j] = IF j = 0 THEN 0 ELSE f[j - 1] + amount[j]
  BY <1>2, <1>3
<1>7. \A j \in 0 .. n : f[j] = g[j]
  BY <1>5, <1>6, SumsAreUnique
<1> QED BY <1>4, <1>7

\* The balance after the transaction at position i.
Level == [i \in 0 .. Len(entries) |-> IF i = 0 THEN 0 ELSE entries[i].after]

\* The balance after the last transaction of S.
BalanceAt(S) == IF S = {} THEN 0 ELSE entries[Last(S)].after

LEMMA EntriesAreTyped ==
    ASSUME EntriesAreSorted
    PROVE  /\ Len(entries) \in Nat /\ DOMAIN entries = 1 .. Len(entries)
           /\ \A i \in DOMAIN entries : entries[i].stamp \in Nat /\ entries[i].after \in Nat
<1>1. entries \in Seq([stamp : Instants, after : Nat])
  BY DEF EntriesAreSorted
<1>2. Len(entries) \in Nat /\ DOMAIN entries = 1 .. Len(entries)
  BY <1>1
<1>3. \A i \in DOMAIN entries : entries[i] \in [stamp : Instants, after : Nat]
  BY <1>1, <1>2, ElementOfSeq
<1> QED BY <1>2, <1>3, InstantsAreNumbers

\* The transactions up to an instant are the first ones.
LEMMA FirstOnes ==
    ASSUME EntriesAreSorted, NEW S, S \subseteq DOMAIN entries,
           \A i, j \in DOMAIN entries : j \in S /\ entries[i].stamp <= entries[j].stamp => i \in S
    PROVE  \E k \in 0 .. Len(entries) : S = 1 .. k /\ BalanceAt(S) = Level[k]
<1> DEFINE n == Len(entries)
<1>1. n \in Nat /\ DOMAIN entries = 1 .. n
  BY EntriesAreTyped
<1>2. CASE S = {}
  <2>1. S = 1 .. 0 /\ 0 \in 0 .. n
    BY <1>1, <1>2
  <2> QED BY <1>2, <2>1 DEF BalanceAt, Level
<1>3. CASE S # {}
  <2>1. PICK k \in S : k = Last(S) /\ \A j \in S : j <= k
    BY <1>1, <1>3, LastExists
  <2>2. k \in 1 .. n
    BY <1>1, <2>1
  <2>3. S \subseteq 1 .. k
    BY <1>1, <2>1
  <2>4. 1 .. k \subseteq S
    <3>1. ASSUME NEW i \in 1 .. k
          PROVE  i \in S
      <4>1. i \in DOMAIN entries /\ k \in DOMAIN entries /\ i <= k
        BY <1>1, <2>2, <3>1
      <4> QED BY <2>1, <4>1 DEF EntriesAreSorted
    <3> QED BY <3>1
  <2>5. S = 1 .. k
    BY <2>3, <2>4
  <2>6. BalanceAt(S) = Level[k]
    BY <1>3, <2>1, <2>2 DEF BalanceAt, Level
  <2> QED BY <2>2, <2>5, <2>6
<1> QED BY <1>2, <1>3

\* The transactions from one position to another add up to what they change.
LEMMA RunAddsUp ==
    ASSUME EntriesAreSorted, NEW listed,
           NEW k \in 0 .. Len(entries), NEW m \in 0 .. Len(entries), k <= m,
           \A i \in 1 .. Len(entries) : i \in listed <=> k < i /\ i <= m
    PROVE  /\ Total(listed) = Level[m] - Level[k]
           /\ Level[k] \in Int /\ Level[m] \in Int
<1> DEFINE n == Len(entries)
<1>1. /\ n \in Nat /\ DOMAIN entries = 1 .. n
      /\ \A i \in DOMAIN entries : entries[i].after \in Nat
      /\ k \in 0 .. n /\ m \in 0 .. n /\ k <= m
      /\ \A i \in 1 .. n : i \in listed <=> k < i /\ i <= m
  BY EntriesAreTyped
<1>2. \A j \in 0 .. n : Level[j] \in Int
  BY <1>1 DEF Level
<1> DEFINE change(i) == IF i \in listed THEN AmountOf(i) ELSE 0
           g == [j \in 0 .. n |-> IF j <= k THEN 0 ELSE IF j <= m THEN Level[j] - Level[k]
                                                        ELSE Level[m] - Level[k]]
<1>3. \A i \in 1 .. n : change(i) = IF k < i /\ i <= m THEN Level[i] - Level[i - 1] ELSE 0
  <2> SUFFICES ASSUME NEW i \in 1 .. n
               PROVE  change(i) = IF k < i /\ i <= m THEN Level[i] - Level[i - 1] ELSE 0
    OBVIOUS
  <2>1. AmountOf(i) = Level[i] - Level[i - 1]
    BY <1>1 DEF AmountOf, Level
  <2> QED BY <1>1, <2>1
<1>4. g = [j \in 0 .. n |-> IF j = 0 THEN 0 ELSE g[j - 1] + change(j)]
  <2>1. \A j \in 0 .. n : g[j] = IF j <= k THEN 0 ELSE IF j <= m THEN Level[j] - Level[k]
                                                      ELSE Level[m] - Level[k]
    OBVIOUS
  <2>2. n \in Nat /\ \A j \in 0 .. n : j # 0 => j \in 1 .. n
    BY <1>1
  <2>3. g = [j \in 0 .. n |-> g[j]]
    OBVIOUS
  <2> HIDE DEF n, change, g
  <2>4. \A j \in 0 .. n :
           g[j] = IF j = 0 THEN 0
                  ELSE g[j - 1] + (IF k < j /\ j <= m THEN Level[j] - Level[j - 1] ELSE 0)
    BY <1>1, <1>2, <2>1, <2>2, ChangeAt
  <2>5. \A j \in 0 .. n : g[j] = IF j = 0 THEN 0 ELSE g[j - 1] + change(j)
    BY <1>3, <2>2, <2>4
  <2> QED BY <2>3, <2>5
<1> DEFINE upTo == CHOOSE f : f = [j \in 0 .. n |-> IF j = 0 THEN 0 ELSE f[j - 1] + change(j)]
<1>5. Total(listed) = upTo[n]
  BY DEF Total
<1>6. upTo = [j \in 0 .. n |-> IF j = 0 THEN 0 ELSE upTo[j - 1] + change(j)]
  BY <1>4
<1> HIDE DEF upTo
<1>7. \A j \in 0 .. n : upTo[j] = IF j = 0 THEN 0
               ELSE upTo[j - 1] + (IF k < j /\ j <= m THEN Level[j] - Level[j - 1] ELSE 0)
  <2>1. \A j \in 0 .. n : upTo[j] = IF j = 0 THEN 0 ELSE upTo[j - 1] + change(j)
    BY <1>6
  <2>2. \A j \in 0 .. n : j # 0 => j \in 1 .. n
    BY <1>1
  <2> HIDE DEF change
  <2> QED BY <1>3, <2>1, <2>2
<1>8. upTo[n] = Level[m] - Level[k]
  <2>1. n \in Nat /\ k \in 0 .. n /\ m \in 0 .. n /\ k <= m
    BY <1>1
  <2> HIDE DEF n, change, upTo, g
  <2> QED BY <2>1, <1>2, <1>7, ChangesAddUp
<1> QED BY <1>1, <1>2, <1>5, <1>8

\* The transactions of a period lie between those before it and those after it, and
\* its opening and closing balances are the ones at the two borders.
LEMMA PeriodIsRun ==
    ASSUME EntriesAreSorted, NEW p, p.from \in Nat, p.to \in Nat, p.from <= p.to
    PROVE  \E k, m \in 0 .. Len(entries) :
              /\ k <= m
              /\ \A i \in 1 .. Len(entries) : i \in Lines(p) <=> k < i /\ i <= m
              /\ {i \in DOMAIN entries : entries[i].stamp <= 2 * p.to} = 1 .. m
              /\ OpeningOf(p) = Level[k] /\ ClosingOf(p, OpeningOf(p)) = Level[m]
<1> DEFINE n == Len(entries)
           before == Before(2 * p.from)
           listed == Lines(p)
           all == before \union listed
<1>1. /\ n \in Nat /\ DOMAIN entries = 1 .. n
      /\ \A i \in DOMAIN entries : entries[i].stamp \in Nat /\ entries[i].after \in Nat
  BY EntriesAreTyped
<1>2. /\ before = {i \in DOMAIN entries : entries[i].stamp < 2 * p.from}
      /\ listed = {i \in DOMAIN entries : 2 * p.from <= entries[i].stamp /\ entries[i].stamp <= 2 * p.to}
  BY DEF Before, Lines, StartOf, EndOf
<1>3. all = {i \in DOMAIN entries : entries[i].stamp <= 2 * p.to}
  BY <1>1, <1>2
<1>4. PICK k \in 0 .. n : before = 1 .. k /\ BalanceAt(before) = Level[k]
  <2>1. \A i, j \in DOMAIN entries : j \in before /\ entries[i].stamp <= entries[j].stamp => i \in before
    BY <1>1, <1>2
  <2>2. before \subseteq DOMAIN entries
    BY <1>2
  <2> HIDE DEF before
  <2> QED BY <2>1, <2>2, FirstOnes
<1>5. PICK m \in 0 .. n : all = 1 .. m /\ BalanceAt(all) = Level[m]
  <2>1. \A i, j \in DOMAIN entries : j \in all /\ entries[i].stamp <= entries[j].stamp => i \in all
    BY <1>1, <1>3
  <2>2. all \subseteq DOMAIN entries
    BY <1>3
  <2> HIDE DEF all
  <2> QED BY <2>1, <2>2, FirstOnes
<1>6. before \intersect listed = {}
  BY <1>1, <1>2
<1> HIDE DEF before, listed
<1>7. k <= m
  <2>1. CASE k = 0
    BY <2>1
  <2>2. CASE k # 0
    <3>1. k \in before
      BY <1>4, <2>2
    <3>2. k \in 1 .. m
      BY <1>5, <3>1
    <3> QED BY <3>2
  <2> QED BY <2>1, <2>2
<1>8. \A i \in 1 .. n : i \in listed <=> k < i /\ i <= m
  <2> SUFFICES ASSUME NEW i \in 1 .. n
               PROVE  i \in listed <=> k < i /\ i <= m
    OBVIOUS
  <2>1. i \in before <=> i <= k
    BY <1>4
  <2>2. i \in all <=> i <= m
    BY <1>5
  <2>3. i \in all <=> i \in before \/ i \in listed
    OBVIOUS
  <2>4. ~ (i \in before /\ i \in listed)
    BY <1>6
  <2> QED BY <1>1, <2>1, <2>2, <2>3, <2>4
<1>9. OpeningOf(p) = Level[k]
  BY <1>4 DEF OpeningOf, StartOf, BalanceAt, before
<1>10. ClosingOf(p, OpeningOf(p)) = Level[m]
  <2>1. CASE listed = {}
    <3>1. k = m
      <4>1. k < m => m \in listed
        BY <1>1, <1>8
      <4> QED BY <1>7, <2>1, <4>1
    <3> QED BY <1>9, <2>1, <3>1 DEF ClosingOf, listed
  <2>2. CASE listed # {}
    <3>1. PICK i \in listed : i = Last(listed) /\ \A j \in listed : j <= i
      <4>1. listed \subseteq 1 .. n
        BY <1>1, <1>2
      <4> QED BY <1>1, <2>2, <4>1, LastExists
    <3>2. i \in 1 .. n /\ i <= m
      BY <1>1, <1>2, <1>8, <3>1
    <3>3. m \in listed
      BY <1>1, <1>8, <3>1, <3>2
    <3>4. i = m
      BY <3>1, <3>2, <3>3
    <3>5. ClosingOf(p, OpeningOf(p)) = entries[i].after
      BY <2>2, <3>1 DEF ClosingOf, listed
    <3> QED BY <3>2, <3>4, <3>5 DEF Level
  <2> QED BY <2>1, <2>2
<1> QED BY <1>3, <1>5, <1>7, <1>8, <1>9, <1>10 DEF listed

\* The opening balance of a period and its transactions make the closing balance.
LEMMA PeriodAddsUp ==
    ASSUME EntriesAreSorted, NEW p, p.from \in Nat, p.to \in Nat, p.from <= p.to
    PROVE  OpeningOf(p) + Total(Lines(p)) = ClosingOf(p, OpeningOf(p))
<1>1. PICK k, m \in 0 .. Len(entries) :
         /\ k <= m
         /\ \A i \in 1 .. Len(entries) : i \in Lines(p) <=> k < i /\ i <= m
         /\ OpeningOf(p) = Level[k] /\ ClosingOf(p, OpeningOf(p)) = Level[m]
  BY PeriodIsRun
<1>2. /\ Total(Lines(p)) = Level[m] - Level[k]
      /\ Level[k] \in Int /\ Level[m] \in Int
  BY <1>1, RunAddsUp
<1> QED BY <1>1, <1>2

\* What is left out between two statements is what the second one begins with more
\* than the first one ends with.
LEMMA SortedEntriesJoin ==
    ASSUME EntriesAreSorted
    PROVE  StatementsJoin
<1> SUFFICES ASSUME NEW f \in StatementDays, NEW d \in StatementDays, NEW g \in StatementDays,
                    f <= d, g = d + 1
             PROVE  LET earlier == [from |-> f, to |-> d] IN
                    ClosingOf(earlier, OpeningOf(earlier)) + Total(LeftOut(d))
                        = OpeningOf([from |-> g, to |-> g])
  BY DEF StatementsJoin
<1> DEFINE earlier == [from |-> f, to |-> d]
           later == [from |-> g, to |-> g]
<1>1. f \in Nat /\ d \in Nat /\ g \in Nat
  BY StatementConstants
<1>2. /\ Len(entries) \in Nat /\ DOMAIN entries = 1 .. Len(entries)
      /\ \A i \in DOMAIN entries : entries[i].stamp \in Nat
  BY EntriesAreTyped
<1>3. PICK m \in 0 .. Len(entries) :
         /\ {i \in DOMAIN entries : entries[i].stamp <= 2 * d} = 1 .. m
         /\ ClosingOf(earlier, OpeningOf(earlier)) = Level[m]
  BY <1>1, PeriodIsRun
<1>4. PICK q \in 0 .. Len(entries) :
         Before(2 * g) = 1 .. q /\ BalanceAt(Before(2 * g)) = Level[q]
  <2>1. /\ Before(2 * g) \subseteq DOMAIN entries
        /\ \A i, j \in DOMAIN entries :
              j \in Before(2 * g) /\ entries[i].stamp <= entries[j].stamp => i \in Before(2 * g)
    BY <1>1, <1>2 DEF Before
  <2> QED BY <2>1, FirstOnes
<1>5. OpeningOf(later) = Level[q]
  BY <1>4 DEF OpeningOf, StartOf, BalanceAt
<1>6. /\ \A i \in 1 .. Len(entries) : i \in 1 .. m <=> entries[i].stamp <= 2 * d
      /\ \A i \in 1 .. Len(entries) : i \in 1 .. q <=> entries[i].stamp < 2 * g
  BY <1>2, <1>3, <1>4 DEF Before
<1>7. m <= q /\ \A i \in 1 .. Len(entries) : i \in LeftOut(d) <=> m < i /\ i <= q
  <2>1. ASSUME NEW i \in 1 .. Len(entries)
        PROVE  /\ i <= m <=> entries[i].stamp <= 2 * d
               /\ i <= q <=> entries[i].stamp < 2 * d + 2
               /\ i \in LeftOut(d) <=> entries[i].stamp = 2 * d + 1
               /\ entries[i].stamp \in Nat
    BY <1>1, <1>2, <1>6, <2>1 DEF LeftOut
  <2>2. m <= q
    <3>1. CASE m = 0
      BY <3>1
    <3>2. CASE m # 0
      <4>1. m \in 1 .. Len(entries) /\ m <= m
        BY <3>2
      <4> QED BY <1>1, <2>1, <4>1
    <3> QED BY <3>1, <3>2
  <2>3. ASSUME NEW i \in 1 .. Len(entries)
        PROVE  i \in LeftOut(d) <=> m < i /\ i <= q
    <3>1. PICK s \in Nat : s = entries[i].stamp
      BY <2>1, <2>3
    <3>2. s = 2 * d + 1 <=> ~(s <= 2 * d) /\ s < 2 * d + 2
      BY <1>1
    <3>3. m < i <=> ~(i <= m)
      BY <2>3
    <3> QED BY <2>1, <2>3, <3>1, <3>2, <3>3
  <2> QED BY <2>2, <2>3
<1>8. /\ Total(LeftOut(d)) = Level[q] - Level[m]
      /\ Level[m] \in Int /\ Level[q] \in Int
  BY <1>7, RunAddsUp
<1> QED BY <1>3, <1>5, <1>8

\* A statement that adds up: its transactions make the closing balance of the opening
\* balance, unless one was made before the period between the two reads.
AddsUp(s) == s.steady => s.opening + s.total = s.closing

ProperPeriods == {p \in [from : StatementDays, to : StatementDays] : p.from <= p.to}

\* A call for a statement is for a period; between its reads it holds the balance after
\* the transactions it has seen, and after them a statement that adds up.
AddingInv ==
    /\ fields \in [from : StatementDays, to : StatementDays]
    /\ \A c \in UnderWay : asked[c] = AccountLoad \/ \E p \in ProperPeriods : asked[c] = StatementLoad(p)
    /\ \A c \in Calls :
          stage[c] = "half" =>
              /\ asked[c] # AccountLoad
              /\ reply[c].before \subseteq DOMAIN entries
              /\ reply[c].opening = BalanceAt(reply[c].before)
    /\ \A c \in Calls : Succeeded(c) /\ asked[c] # AccountLoad => AddsUp(reply[c].data)
    /\ StatementAddsUp

LEMMA PeriodsAreNumbers ==
    ASSUME NEW p \in ProperPeriods
    PROVE  p.from \in Nat /\ p.to \in Nat /\ p.from <= p.to
BY StatementConstants DEF ProperPeriods

LEMMA StatementIsNoAccount ==
    ASSUME NEW p
    PROVE  StatementLoad(p) # AccountLoad /\ StatementLoad(p).period = p
<1>1. StatementLoad(p).what = "statement" /\ AccountLoad.what = "account"
  BY DEF StatementLoad, AccountLoad
<1> QED BY <1>1 DEF StatementLoad

LEMMA AddingStarts ==
    ASSUME StatementInit, Mount(AccountLoad, CallsOf["statement"]), "statement" \in Screens
    PROVE  AddingInv
<1>1. \A c \in UnderWay : asked[c] = AccountLoad
  BY ScreensLoad, MountStep
<1>2. \A c \in Calls : stage[c] \notin {"half", "served"}
  BY DEF Mount
<1>3. fields \in [from : StatementDays, to : StatementDays] /\ statement = NoStatement
  BY StatementConstants DEF StatementInit
<1> QED BY <1>1, <1>2, <1>3 DEF AddingInv, Succeeded, StatementAddsUp

\* A step that leaves the calls alone, and the account.
LEMMA AddingStays ==
    ASSUME AddingInv, UNCHANGED <<net, entries>>,
           fields' \in [from : StatementDays, to : StatementDays], StatementAddsUp'
    PROVE  AddingInv'
<1>1. stage' = stage /\ asked' = asked /\ reply' = reply /\ entries' = entries
  BY DEF net
<1> QED BY <1>1 DEF AddingInv, UnderWay, Succeeded, AddsUp, BalanceAt, AccountLoad, StatementLoad

LEMMA FetchKeepsAdding ==
    ASSUME StatementsInv, AddingInv, NEW c \in Calls, Fetch(c)
    PROVE  AddingInv'
<1>1. PICK w : w = StatementLoad(fields)
  OBVIOUS
<1>2. /\ Ask(c, w) /\ fields.from <= fields.to
      /\ statement' = NoStatement /\ UNCHANGED <<entries, fields>>
  BY <1>1 DEF Fetch
<1>3. /\ UnderWay' = UnderWay \union {c}
      /\ stage'[c] = "sent" /\ asked'[c] = w
      /\ OthersSame(c)
  BY <1>2, AskStep DEF StatementsInv
<1>4. w # AccountLoad /\ \E p \in ProperPeriods : w = StatementLoad(p)
  BY <1>1, <1>2, StatementIsNoAccount DEF AddingInv, ProperPeriods
<1>5. \A d \in UnderWay' : asked'[d] = AccountLoad \/ \E p \in ProperPeriods : asked'[d] = StatementLoad(p)
  BY <1>3, <1>4, UnderWayIsOfCalls DEF AddingInv, OthersSame, Same
<1>6. \A d \in Calls :
         stage'[d] = "half" =>
             /\ asked'[d] # AccountLoad
             /\ reply'[d].before \subseteq DOMAIN entries
             /\ reply'[d].opening = BalanceAt(reply'[d].before)
  BY <1>3 DEF AddingInv, OthersSame, Same
<1>7. \A d \in Calls : Succeeded(d)' /\ asked'[d] # AccountLoad => AddsUp(reply'[d].data)
  BY <1>3 DEF AddingInv, OthersSame, Same, Succeeded
<1>8. StatementAddsUp'
  BY <1>2 DEF StatementAddsUp
<1> QED BY <1>2, <1>5, <1>6, <1>7, <1>8 DEF AddingInv, BalanceAt, AddsUp, AccountLoad, StatementLoad

\* The balance after transactions of the past does not change.
LEMMA CommitKeepsAdding ==
    ASSUME EntriesAreSorted, AddingInv, CommitEntry
    PROVE  AddingInv'
<1>1. PICK e : entries' = Append(entries, e)
  BY DEF CommitEntry
<1>2. UNCHANGED <<net, fields, statement>> /\ stage' = stage /\ asked' = asked /\ reply' = reply
  BY DEF CommitEntry, net
<1>3. Len(entries) \in Nat /\ DOMAIN entries = 1 .. Len(entries)
  BY EntriesAreTyped
<1>4. DOMAIN entries \subseteq DOMAIN entries' /\ \A i \in DOMAIN entries : entries'[i] = entries[i]
  <2>1. entries \in Seq([stamp : Instants, after : Nat])
    BY DEF EntriesAreSorted
  <2>2. Len(entries') = Len(entries) + 1 /\ DOMAIN entries' = 1 .. Len(entries) + 1
        /\ \A i \in 1 .. Len(entries) : entries'[i] = entries[i]
    BY <1>1, <2>1
  <2> QED BY <1>3, <2>2
<1>5. ASSUME NEW c \in Calls, stage'[c] = "half"
      PROVE  /\ asked'[c] # AccountLoad
             /\ reply'[c].before \subseteq DOMAIN entries'
             /\ reply'[c].opening = IF reply'[c].before = {} THEN 0
                                    ELSE entries'[Last(reply'[c].before)].after
  <2>1. /\ asked[c] # AccountLoad
        /\ reply[c].before \subseteq DOMAIN entries
        /\ reply[c].opening = BalanceAt(reply[c].before)
    BY <1>2, <1>5 DEF AddingInv
  <2>2. reply[c].before # {} => Last(reply[c].before) \in DOMAIN entries
    BY <1>3, <2>1, LastExists
  <2> QED BY <1>2, <1>4, <2>1, <2>2 DEF BalanceAt
<1>6. StatementAddsUp'
  BY <1>2 DEF AddingInv, StatementAddsUp
<1> QED BY <1>2, <1>5, <1>6
        DEF AddingInv, UnderWay, Succeeded, AddsUp, BalanceAt, AccountLoad, StatementLoad

\* The handlers: what they have read, and what they answer.
LEMMA ServeKeepsAdding ==
    ASSUME StatementsInv, AddingInv, NEW c \in Calls, ServeStatements(c)
    PROVE  AddingInv'
<1>1. UNCHANGED <<entries, fields, statement>>
  BY DEF ServeStatements, stmtVars
<1>2. StatementAddsUp'
  BY <1>1 DEF AddingInv, StatementAddsUp
<1>3. ASSUME UnderWay' = UnderWay, OthersSame(c), c \in UnderWay => asked'[c] = asked[c],
             stage'[c] = "half" =>
                /\ asked'[c] # AccountLoad
                /\ reply'[c].before \subseteq DOMAIN entries
                /\ reply'[c].opening = BalanceAt(reply'[c].before),
             Succeeded(c)' /\ asked'[c] # AccountLoad => AddsUp(reply'[c].data)
      PROVE  AddingInv'
  <2>1. \A d \in UnderWay' : asked'[d] = AccountLoad \/ \E p \in ProperPeriods : asked'[d] = StatementLoad(p)
    BY <1>3, UnderWayIsOfCalls DEF AddingInv, OthersSame, Same
  <2>2. \A d \in Calls :
           stage'[d] = "half" =>
               /\ asked'[d] # AccountLoad
               /\ reply'[d].before \subseteq DOMAIN entries
               /\ reply'[d].opening = BalanceAt(reply'[d].before)
    BY <1>3 DEF AddingInv, OthersSame, Same
  <2>3. \A d \in Calls : Succeeded(d)' /\ asked'[d] # AccountLoad => AddsUp(reply'[d].data)
    BY <1>3 DEF AddingInv, OthersSame, Same, Succeeded
  <2> QED BY <1>1, <1>2, <2>1, <2>2, <2>3 DEF AddingInv, BalanceAt, AddsUp, AccountLoad, StatementLoad
<1>4. ASSUME NEW r, Answer(c, r),
             r.code = "ok" /\ Unserved(c) /\ asked[c] # AccountLoad => AddsUp(r.data)
      PROVE  AddingInv'
  <2>1. /\ UnderWay' = UnderWay
        /\ \/ /\ Unserved(c) /\ stage'[c] = "served" /\ reply'[c] = r
              /\ asked'[c] = asked[c]
           \/ stage[c] = "orphan" /\ stage'[c] = "over"
        /\ OthersSame(c)
    BY <1>4, AnswerStep DEF StatementsInv
  <2>2. c \in UnderWay => asked'[c] = asked[c]
    BY <2>1 DEF UnderWay
  <2>3. Succeeded(c)' /\ asked'[c] # AccountLoad => AddsUp(reply'[c].data)
    BY <1>4, <2>1 DEF Succeeded
  <2> QED BY <1>3, <2>1, <2>2, <2>3
<1>5. CASE TellAccount(c)
  <2>1. PICK r : r = [code |-> "ok"]
    OBVIOUS
  <2> QED BY <1>4, <1>5, <2>1 DEF TellAccount
<1>6. CASE RefuseRead(c)
  BY <1>4, <1>6 DEF RefuseRead, Refused
<1>7. CASE ReadOpening(c)
  <2>1. PICK r : r = [code |-> "half", opening |-> OpeningOf(asked[c].period),
                      before |-> Before(StartOf(asked[c].period.from))]
    OBVIOUS
  <2>2. ReadHalf(c, r) /\ asked[c].what = "statement"
    BY <1>7, <2>1 DEF ReadOpening
  <2>3. /\ UnderWay' = UnderWay
        /\ stage'[c] = "half" /\ reply'[c] = r /\ asked'[c] = asked[c]
        /\ OthersSame(c)
    BY <2>2, HalfStep DEF StatementsInv
  <2>4. asked[c] # AccountLoad
    BY <2>2 DEF AccountLoad
  <2>5. r.before \subseteq DOMAIN entries /\ r.opening = BalanceAt(r.before)
    BY <2>1 DEF OpeningOf, BalanceAt, Before
  <2> QED BY <1>3, <2>3, <2>4, <2>5 DEF Succeeded
<1>8. CASE ReadLines(c)
  <2>1. PICK p : p = asked[c].period
    OBVIOUS
  <2>2. PICK s : s = [period |-> p, opening |-> reply[c].opening, total |-> Total(Lines(p)),
                      closing |-> ClosingOf(p, reply[c].opening),
                      steady |-> reply[c].before = Before(StartOf(p.from))]
    OBVIOUS
  <2>3. PICK r : r = [code |-> "ok", data |-> s]
    OBVIOUS
  <2>4. stage[c] = "half" /\ Answer(c, r)
    BY <1>8, <2>1, <2>2, <2>3 DEF ReadLines
  <2>5. asked[c] # AccountLoad /\ reply[c].opening = BalanceAt(reply[c].before)
    BY <2>4 DEF AddingInv
  <2>6. p \in ProperPeriods
    <3>1. c \in UnderWay
      BY <2>4 DEF UnderWay
    <3>2. PICK q \in ProperPeriods : asked[c] = StatementLoad(q)
      BY <2>5, <3>1 DEF AddingInv
    <3> QED BY <2>1, <3>2, StatementIsNoAccount
  <2>7. AddsUp(s)
    <3> SUFFICES ASSUME s.steady
                 PROVE  s.opening + s.total = s.closing
      BY DEF AddsUp
    <3>1. reply[c].before = Before(StartOf(p.from))
      BY <2>2
    <3>2. reply[c].opening = OpeningOf(p)
      BY <2>5, <3>1 DEF OpeningOf, BalanceAt
    <3>3. OpeningOf(p) + Total(Lines(p)) = ClosingOf(p, OpeningOf(p))
      BY <2>6, PeriodsAreNumbers, PeriodAddsUp DEF StatementsInv
    <3> QED BY <2>2, <3>2, <3>3
  <2>8. AddsUp(r.data)
    BY <2>3, <2>7
  <2> QED BY <1>4, <2>4, <2>8
<1> QED BY <1>5, <1>6, <1>7, <1>8 DEF ServeStatements

\* The page shows the statement that came.
LEMMA StatementCallbackKeepsAdding ==
    ASSUME StatementsInv, AddingInv, NEW c \in Calls, NEW r, Outcome(c, r), Finish(c, r),
           AccountKnown(c, r) \/ Fetched(c, r), UNCHANGED <<entries, fields, lastAsked>>
    PROVE  AddingInv'
<1>1. /\ UnderWay' = UnderWay \ {c}
      /\ stage'[c] \in {"over", "orphan"}
      /\ r.code = "ok" => stage[c] = "served" /\ r = reply[c]
      /\ OthersSame(c)
  BY EndStep DEF StatementsInv
<1>2. \A d \in UnderWay' : asked'[d] = AccountLoad \/ \E p \in ProperPeriods : asked'[d] = StatementLoad(p)
  BY <1>1, UnderWayIsOfCalls DEF AddingInv, OthersSame, Same
<1>3. \A d \in Calls :
         stage'[d] = "half" =>
             /\ asked'[d] # AccountLoad
             /\ reply'[d].before \subseteq DOMAIN entries
             /\ reply'[d].opening = BalanceAt(reply'[d].before)
  BY <1>1 DEF AddingInv, OthersSame, Same
<1>4. \A d \in Calls : Succeeded(d)' /\ asked'[d] # AccountLoad => AddsUp(reply'[d].data)
  BY <1>1 DEF AddingInv, OthersSame, Same, Succeeded
<1>5. StatementAddsUp'
  <2>1. CASE statement' = statement
    BY <2>1 DEF AddingInv, StatementAddsUp
  <2>2. CASE Fetched(c, r) /\ r.code = "ok"
    <3>1. statement' = r.data /\ asked[c] # AccountLoad
      BY <2>2 DEF Fetched
    <3>2. AddsUp(r.data)
      BY <1>1, <2>2, <3>1 DEF AddingInv, Succeeded
    <3> QED BY <3>1, <3>2 DEF AddsUp, StatementAddsUp
  <2> QED BY <2>1, <2>2 DEF AccountKnown, Fetched
<1>6. fields' \in [from : StatementDays, to : StatementDays]
  BY DEF AddingInv
<1> QED BY <1>2, <1>3, <1>4, <1>5, <1>6 DEF AddingInv, BalanceAt, AddsUp, AccountLoad, StatementLoad

LEMMA AddingKeeps ==
    ASSUME StatementsInv, AddingInv, StatementNext \/ UNCHANGED statementVars
    PROVE  AddingInv'
<1>1. CASE EnterDates
  <2>1. UNCHANGED <<net, entries, statement>> /\ fields' \in [from : StatementDays, to : StatementDays]
    BY <1>1 DEF EnterDates
  <2>2. StatementAddsUp'
    BY <2>1 DEF AddingInv, StatementAddsUp
  <2> QED BY <2>1, <2>2, AddingStays
<1>2. CASE FetchNothing \/ UNCHANGED statementVars
  <2>1. UNCHANGED <<net, entries, statement>> /\ fields' = fields
    BY <1>2 DEF FetchNothing, statementVars, stmtVars
  <2>2. StatementAddsUp' /\ fields' \in [from : StatementDays, to : StatementDays]
    BY <2>1 DEF AddingInv, StatementAddsUp
  <2> QED BY <2>1, <2>2, AddingStays
<1>3. CASE CommitEntry
  BY <1>3, CommitKeepsAdding DEF StatementsInv
<1>4. ASSUME NEW c \in Calls, StatementCallback(c)
      PROVE  AddingInv'
  BY <1>4, StatementCallbackKeepsAdding DEF StatementCallback
<1> QED BY <1>1, <1>2, <1>3, <1>4, FetchKeepsAdding, ServeKeepsAdding
        DEF StatementNext, StatementUser, StatementRest

-----------------------------------------------------------------------------
(* The pages.                                                              *)

\* The dialogs of a page that is not open have done nothing.
HeadIsUntouched == \A t \in Dialogs : told[t] = "nothing" /\ moved[t] = 0

ListIsUntouched == \A t \in Modals : opened[t] = 0

\* No page of the table, and no statement, is shown before its screen is opened.
TableIsUntouched == ~inOrder

StatementIsUntouched == EntriesAreSorted /\ statement = NoStatement

\* The screen that is open keeps its own invariant; of the others, what holds when
\* the page is opened.
PagesInv ==
    /\ open \in Screens
    /\ IF open = "cards" THEN CardsTabInv ELSE RevealedUnderOwnCard /\ OneOfAKind
    /\ IF open = "account" THEN HeadInv ELSE HeadIsUntouched
    /\ IF open = "dashboard" THEN DashboardInv ELSE ListIsUntouched
    /\ IF open = "statement" THEN StatementsInv /\ AddingInv ELSE StatementIsUntouched
    /\ IF open = "transactions" THEN HistoryInv /\ PagingInv ELSE TableIsUntouched
    /\ open = "transfer" => FieldsInv

\* What holds of a screen that is not open.
LEMMA ClosedScreens ==
    /\ TabInit => RevealedUnderOwnCard /\ OneOfAKind
    /\ HeadInit => HeadIsUntouched
    /\ ListInit => ListIsUntouched
    /\ StatementInit => StatementIsUntouched
    /\ HistoryInit => TableIsUntouched
<1>1. TabInit => RevealedUnderOwnCard /\ OneOfAKind
  BY IssuedDiffer, CardsTabConstants DEF TabInit, RevealedUnderOwnCard, OneOfAKind, Live
<1>2. HeadInit => HeadIsUntouched
  BY DEF HeadInit, HeadIsUntouched
<1>3. ListInit => ListIsUntouched
  BY DEF ListInit, ListIsUntouched
<1>4. StatementInit => StatementIsUntouched
  BY PastIsSorted DEF StatementInit, StatementIsUntouched
<1>5. HistoryInit => TableIsUntouched
  BY DEF HistoryInit, TableIsUntouched
<1> QED BY <1>1, <1>2, <1>3, <1>4, <1>5

LEMMA PagesStart == PagesInit => PagesInv
<1> SUFFICES ASSUME PagesInit
             PROVE  PagesInv
  OBVIOUS
<1>1. /\ open \in Screens
      /\ TabInit /\ HeadInit /\ HistoryInit /\ ListInit /\ StatementInit /\ FieldsInit
      /\ Mount(FirstCall, CallsOf[open])
  BY DEF PagesInit
<1>2. CASE open = "cards"
  BY <1>1, <1>2, CardsTabStarts, ClosedScreens DEF FirstCall, PagesInv
<1>3. CASE open = "account"
  BY <1>1, <1>3, HeadStarts, ClosedScreens DEF FirstCall, PagesInv
<1>4. CASE open = "transactions"
  BY <1>1, <1>4, HistoryStarts, PagingStarts, ClosedScreens DEF FirstCall, PagesInv
<1>5. CASE open = "dashboard"
  BY <1>1, <1>5, DashboardStarts, ClosedScreens DEF FirstCall, PagesInv
<1>6. CASE open = "statement"
  BY <1>1, <1>6, StatementsStart, AddingStarts, ClosedScreens DEF FirstCall, PagesInv
<1>7. CASE open = "transfer"
  BY <1>1, <1>7, FieldsStart, ClosedScreens DEF FirstCall, PagesInv
<1> QED BY <1>1, <1>2, <1>3, <1>4, <1>5, <1>6, <1>7, ScreensAreKnown

\* A screen that is not open stays as it is.
LEMMA ClosedScreensStay ==
    /\ UNCHANGED tabVars /\ RevealedUnderOwnCard /\ OneOfAKind
          => RevealedUnderOwnCard' /\ OneOfAKind'
    /\ UNCHANGED headVars /\ HeadIsUntouched => HeadIsUntouched'
    /\ UNCHANGED dashboardVars /\ ListIsUntouched => ListIsUntouched'
    /\ UNCHANGED stmtVars /\ StatementIsUntouched => StatementIsUntouched'
    /\ UNCHANGED txnVars /\ TableIsUntouched => TableIsUntouched'
<1>1. UNCHANGED tabVars /\ RevealedUnderOwnCard /\ OneOfAKind => RevealedUnderOwnCard' /\ OneOfAKind'
  BY DEF tabVars, RevealedUnderOwnCard, OneOfAKind
<1>2. UNCHANGED headVars /\ HeadIsUntouched => HeadIsUntouched'
  BY DEF headVars, HeadIsUntouched
<1>3. UNCHANGED dashboardVars /\ ListIsUntouched => ListIsUntouched'
  BY DEF dashboardVars, ListIsUntouched
<1>4. UNCHANGED stmtVars /\ StatementIsUntouched => StatementIsUntouched'
  BY DEF stmtVars, StatementIsUntouched, EntriesAreSorted
<1>5. UNCHANGED txnVars /\ TableIsUntouched => TableIsUntouched'
  BY DEF txnVars, TableIsUntouched
<1> QED BY <1>1, <1>2, <1>3, <1>4, <1>5

LEMMA PagesKeep ==
    ASSUME PagesInv, PagesNext \/ UNCHANGED pagesVars
    PROVE  PagesInv'
<1>1. CASE CardsScreen
  <2>1. /\ open = "cards" /\ open' = open /\ CardsTabNext
        /\ UNCHANGED headVars /\ UNCHANGED txnVars
        /\ UNCHANGED dashboardVars /\ UNCHANGED stmtVars
    BY <1>1 DEF CardsScreen
  <2>2. CardsTabInv'
    BY <2>1, CardsTabKeeps DEF PagesInv
  <2> QED BY <2>1, <2>2, ClosedScreensStay DEF PagesInv
<1>2. CASE AccountScreen
  <2>1. /\ open = "account" /\ open' = open /\ AccountPageNext
        /\ UNCHANGED tabVars /\ UNCHANGED txnVars
        /\ UNCHANGED dashboardVars /\ UNCHANGED stmtVars
    BY <1>2 DEF AccountScreen
  <2>2. HeadInv'
    BY <2>1, HeadKeeps DEF PagesInv
  <2> QED BY <2>1, <2>2, ClosedScreensStay DEF PagesInv
<1>3. CASE TransactionsScreen
  <2>1. /\ open = "transactions" /\ open' = open /\ TransactionsTabNext
        /\ UNCHANGED tabVars /\ UNCHANGED headVars
        /\ UNCHANGED dashboardVars /\ UNCHANGED stmtVars
    BY <1>3 DEF TransactionsScreen
  <2>2. HistoryInv' /\ PagingInv'
    BY <2>1, HistoryKeeps, PagingKeeps DEF PagesInv
  <2> QED BY <2>1, <2>2, ClosedScreensStay DEF PagesInv
<1>4. CASE DashboardScreen
  <2>1. /\ open = "dashboard" /\ open' = open /\ DashboardNext
        /\ UNCHANGED tabVars /\ UNCHANGED headVars
        /\ UNCHANGED txnVars /\ UNCHANGED stmtVars
    BY <1>4 DEF DashboardScreen
  <2>2. DashboardInv'
    BY <2>1, DashboardKeeps DEF PagesInv
  <2> QED BY <2>1, <2>2, ClosedScreensStay DEF PagesInv
<1>5. CASE StatementScreen
  <2>1. /\ open = "statement" /\ open' = open /\ StatementNext
        /\ UNCHANGED tabVars /\ UNCHANGED headVars
        /\ UNCHANGED txnVars /\ UNCHANGED dashboardVars
    BY <1>5 DEF StatementScreen
  <2>2. StatementsInv' /\ AddingInv'
    BY <2>1, StatementsKeep, AddingKeeps DEF PagesInv
  <2> QED BY <2>1, <2>2, ClosedScreensStay DEF PagesInv
<1>6. CASE TransferScreen
  <2>1. /\ open = "transfer" /\ open' = open /\ TransferFieldsNext
        /\ UNCHANGED tabVars /\ UNCHANGED headVars /\ UNCHANGED txnVars
        /\ UNCHANGED dashboardVars /\ UNCHANGED stmtVars
    BY <1>6 DEF TransferScreen
  <2>2. FieldsInv'
    BY <2>1, FieldsKeep DEF PagesInv
  <2> QED BY <2>1, <2>2, ClosedScreensStay DEF PagesInv
<1>7. CASE UNCHANGED pagesVars
  <2>1. /\ UNCHANGED cardTabVars /\ UNCHANGED accountPageVars /\ UNCHANGED transactionsTabVars
        /\ UNCHANGED dashboardPageVars /\ UNCHANGED statementVars /\ UNCHANGED transferFieldsVars
    BY <1>7 DEF pagesVars, cardTabVars, accountPageVars, transactionsTabVars,
                dashboardPageVars, statementVars, transferFieldsVars
  <2>2. /\ open' = open
        /\ UNCHANGED tabVars /\ UNCHANGED headVars /\ UNCHANGED txnVars
        /\ UNCHANGED dashboardVars /\ UNCHANGED stmtVars
    BY <1>7 DEF pagesVars
  <2>3. /\ open = "cards" => CardsTabInv'
        /\ open = "account" => HeadInv'
        /\ open = "transactions" => HistoryInv' /\ PagingInv'
        /\ open = "dashboard" => DashboardInv'
        /\ open = "statement" => StatementsInv' /\ AddingInv'
        /\ open = "transfer" => FieldsInv'
    BY <2>1, CardsTabKeeps, HeadKeeps, HistoryKeeps, PagingKeeps, DashboardKeeps,
       StatementsKeep, AddingKeeps, FieldsKeep
       DEF PagesInv
  <2> QED BY <2>2, <2>3, ClosedScreensStay DEF PagesInv
<1> QED BY <1>1, <1>2, <1>3, <1>4, <1>5, <1>6, <1>7 DEF PagesNext

-----------------------------------------------------------------------------
(* What the invariant says.                                                *)

\* A page for which nothing is under way has nothing to wait for.
LEMMA QuietIsDone ==
    ASSUME Quiet
    PROVE  /\ Loads = {}
           /\ \A c \in Calls : stage[c] # "served"
BY DEF Quiet, UnderWay, Loads

LEMMA ScreensAreRight ==
    ASSUME PagesInv
    PROVE  /\ RevealedUnderOwnCard /\ OneOfAKindIfPatient
           /\ DialogTellsTruth /\ OneAccountPerDialog
           /\ PaysWhatIsShown
           /\ StatementsJoin /\ StatementAddsUp
           /\ PagingMissesNothing
<1>1. RevealedUnderOwnCard /\ OneOfAKindIfPatient
  BY DEF PagesInv, CardsTabInv, IssueIsFirst, OneOfAKindIfPatient
<1>2. DialogTellsTruth
  <2>1. CASE open = "account"
    BY <2>1 DEF PagesInv, HeadInv, DoneIsTrue, MovesOnce, HeadTypes, DialogTellsTruth
  <2>2. CASE open # "account"
    BY <2>2 DEF PagesInv, HeadIsUntouched, DialogTellsTruth
  <2> QED BY <2>1, <2>2
<1>3. OneAccountPerDialog
  <2>1. CASE open = "dashboard"
    BY <2>1 DEF PagesInv, DashboardInv, CreatesOnce, ModalTypes, OneAccountPerDialog
  <2>2. CASE open # "dashboard"
    BY <2>2 DEF PagesInv, ListIsUntouched, OneAccountPerDialog
  <2> QED BY <2>1, <2>2
<1>4. PaysWhatIsShown
  <2>1. \/ FieldsInv \/ CardsTabInv \/ HeadInv \/ HistoryInv \/ DashboardInv \/ StatementsInv
    BY ScreensAreKnown DEF PagesInv
  <2> QED BY <2>1 DEF FieldsInv, CardsTabInv, HeadInv, HistoryInv, DashboardInv, StatementsInv,
                      KindsAre, PaysWhatIsShown
<1>5. StatementsJoin
  BY SortedEntriesJoin DEF PagesInv, StatementsInv, StatementIsUntouched
<1>6. StatementAddsUp
  <2>1. CASE open = "statement"
    BY <2>1 DEF PagesInv, AddingInv
  <2>2. CASE open # "statement"
    BY <2>2 DEF PagesInv, StatementIsUntouched, StatementAddsUp
  <2> QED BY <2>1, <2>2
<1>7. PagingMissesNothing
  <2>1. CASE open = "transactions"
    BY <2>1, SeenToTheEnd DEF PagesInv
  <2>2. CASE open # "transactions"
    BY <2>2 DEF PagesInv, TableIsUntouched, PagingMissesNothing
  <2> QED BY <2>1, <2>2
<1> QED BY <1>1, <1>2, <1>3, <1>4, <1>5, <1>6, <1>7

LEMMA QuietPagesAreCurrent ==
    ASSUME PagesInv
    PROVE  ShownIsCurrent
<1>1. ASSUME open = "cards", Quiet, calm
      PROVE  list = Listing
  <2>1. CardsTabInv
    BY <1>1 DEF PagesInv
  <2> QED BY <1>1, <2>1, QuietIsDone
          DEF CardsTabInv, ListCatchesUp, CardsWillReload, CardsAreLoading
<1>2. ASSUME open = "account", Quiet, calm
      PROVE  shown = balance
  <2>1. HeadInv
    BY <1>2 DEF PagesInv
  <2> QED BY <1>2, <2>1, QuietIsDone
          DEF HeadInv, BalanceCatchesUp, BalanceWillReload, BalanceIsLoading, Succeeded
<1>3. ASSUME open = "transactions", Quiet, calm, ~owed
      PROVE  /\ table.rows = Rows(filter, table.page)
             /\ table.total = Cardinality(Matching(filter))
  <2>1. HistoryInv
    BY <1>3 DEF PagesInv
  <2>2. TableIs(table.rows, table.total)
    BY <1>3, <2>1, QuietIsDone DEF HistoryInv, TableCatchesUp, TableIsLoading
  <2> QED BY <2>2 DEF TableIs
<1>4. ASSUME open = "dashboard", Quiet, calm
      PROVE  accounts = AccountListing
  <2>1. DashboardInv
    BY <1>4 DEF PagesInv
  <2> QED BY <1>4, <2>1, QuietIsDone
          DEF DashboardInv, AccountsCatchUp, AccountsWillReload, AccountsAreLoading, Succeeded
<1> QED BY <1>1, <1>2, <1>3, <1>4
        DEF ShownIsCurrent, ListIsCurrent, BalanceIsCurrent, TableIsCurrent, AccountListIsCurrent

LEMMA PagesWait ==
    ASSUME PagesInv
    PROVE  WaitsOnlyForCalls
<1>1. open = "transfer" => TransferFieldsWaitForCalls
  BY DEF PagesInv, FieldsInv, PaymentsAreAlone, Payments, TransferFieldsWaitForCalls
<1> QED BY <1>1 DEF PagesInv, CardsTabInv, HeadInv, HistoryInv, DashboardInv, StatementsInv,
                    WaitsOnlyForCalls

-----------------------------------------------------------------------------
(* The theorems.                                                           *)

\* Each screen keeps its invariant while it is open, and the others stay as they are.
THEOREM PagesStayRight == PagesSpec => []PagesInv
<1>1. PagesInit => PagesInv
  BY PagesStart
<1>2. PagesInv /\ [PagesNext]_pagesVars => PagesInv'
  BY PagesKeep
<1> QED BY <1>1, <1>2, PTL DEF PagesSpec

\* Full card details are shown under no card but the one that the password was given
\* for (CardsTab: the dialog of the details, which asks for one card and may be closed
\* and opened for another before the answer comes).
THEOREM PagesRevealUnderOwnCard == PagesSpec => []RevealedUnderOwnCard
<1>1. PagesInv => RevealedUnderOwnCard
  BY ScreensAreRight
<1> QED BY <1>1, PagesStayRight, PTL

\* The limit of one card of a kind, which only the page knows, holds as long as the
\* user is patient, no answer is lost and no other window is used.
THEOREM PagesIssueOneOfAKind == PagesSpec => []OneOfAKindIfPatient
<1>1. PagesInv => OneOfAKindIfPatient
  BY ScreensAreRight
<1> QED BY <1>1, PagesStayRight, PTL

\* A dialog that says "done" has moved money; while no call is lost it has moved
\* money at most once, and one that says "failed" has moved none.
THEOREM PagesTellTruth == PagesSpec => []DialogTellsTruth
<1>1. PagesInv => DialogTellsTruth
  BY ScreensAreRight
<1> QED BY <1>1, PagesStayRight, PTL

\* While no call is lost, the dialog for a new account opens at most one.
THEOREM PagesOpenOneAccount == PagesSpec => []OneAccountPerDialog
<1>1. PagesInv => OneAccountPerDialog
  BY ScreensAreRight
<1> QED BY <1>1, PagesStayRight, PTL

\* A transfer under way is from the account and to the recipient in the fields, even
\* when the recipient was looked up by number first.
THEOREM PagesPayWhatIsShown == PagesSpec => []PaysWhatIsShown
<1>1. PagesInv => PaysWhatIsShown
  BY ScreensAreRight
<1> QED BY <1>1, PagesStayRight, PTL

\* The statement that begins on the day after another one opens with the other's closing
\* balance and what was moved in the last fraction of a second between them, which is on
\* neither (StartOf, EndOf).
THEOREM PagesJoinStatements == PagesSpec => []StatementsJoin
<1>1. PagesInv => StatementsJoin
  BY ScreensAreRight
<1> QED BY <1>1, PagesStayRight, PTL

\* The opening balance of the statement that is shown and its transactions make its
\* closing balance, unless one was made before the period between the two reads of
\* the handler (Statements: ReadOpening and ReadLines).
THEOREM PagesAddUp == PagesSpec => []StatementAddsUp
<1>1. PagesInv => StatementAddsUp
  BY ScreensAreRight
<1> QED BY <1>1, PagesStayRight, PTL

\* Turning the pages of the transactions to the last one shows every transaction that
\* was there when the first page was listed, although new ones push the others on to
\* later pages meanwhile.
THEOREM PagesMissNothing == PagesSpec => []PagingMissesNothing
<1>1. PagesInv => PagingMissesNothing
  BY ScreensAreRight
<1> QED BY <1>1, PagesStayRight, PTL

\* When nothing is under way, each page shows what the server has, unless a call
\* failed, a load overtook an earlier one or somebody else changed it.
THEOREM PagesShowTheCurrent == PagesSpec => []ShownIsCurrent
<1>1. PagesInv => ShownIsCurrent
  BY QuietPagesAreCurrent
<1> QED BY <1>1, PagesStayRight, PTL

\* No page and no dialog waits for a call that is over, or that is about something
\* else.
THEOREM PagesWaitOnlyForCalls == PagesSpec => []WaitsOnlyForCalls
<1>1. PagesInv => WaitsOnlyForCalls
  BY PagesWait
<1> QED BY <1>1, PagesStayRight, PTL
=============================================================================
