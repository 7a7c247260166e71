----------------------------- MODULE NBX_proofs -----------------------------
(***************************************************************************)
(* Proofs about NBX, for every set of ranks, every nbx_cycle of at least   *)
(* two and any number of exchanges.                                        *)
(*                                                                         *)
(* The argument.  The sends a rank has in flight all belong to the exchange*)
(* it is in, and it has not entered that exchange's barrier.  A rank that  *)
(* left k exchanges saw k barriers complete, so every rank entered at      *)
(* least k of them.  Put together: a message in flight to a rank belongs   *)
(* to that rank's current exchange or to the next one, and two consecutive *)
(* values of NBX_cnt tell these two apart.                                 *)
(***************************************************************************)
EXTENDS NBX, TLAPS, FiniteSetTheorems, SequenceTheorems

Inside(p) == pc[p] # "app"

(* barriers counts one call per exchange left, and one more for a rank     *)
(* that is inside and has entered the barrier; bar_req names that call.    *)
BarrierCount ==
    \A p \in Proc :
        /\ Inside(p) /\ reached_bar_req[p] =>
            /\ barriers[p] = done[p] + 1
            /\ bar_req[p] = barriers[p]
        /\ ~(Inside(p) /\ reached_bar_req[p]) => barriers[p] = done[p]

(* Nobody is more barriers ahead than everybody has entered. *)
BarrierOrder == \A p, q \in Proc : done[p] <= barriers[q]

(* The circular counters agree as far as the exchanges do. *)
CounterAgreement ==
    \A p, q \in Proc :
        /\ done[p] = done[q] => NBX_cnt[p] = NBX_cnt[q]
        /\ done[q] = done[p] + 1 => NBX_cnt[q] = NextCnt(NBX_cnt[p])

(* A message in flight belongs to its sender's current exchange, and the   *)
(* sender waits for it before the barrier.                                 *)
InFlight ==
    \A m \in flight :
        /\ m \in sent
        /\ m \in req[m.src]
        /\ Inside(m.src)
        /\ ~reached_bar_req[m.src]
        /\ m.round = done[m.src]
        /\ m.cnt = NBX_cnt[m.src]

(* What was sent: in exchanges begun by the sender.  A message of an       *)
(* exchange its receiver has not begun is still in flight.                 *)
SentHistory ==
    \A m \in sent :
        /\ m.round < Begun(m.src)
        /\ m.round >= Begun(m.dst) => m \in flight

(* The messages a rank has are those of its latest exchange that left the  *)
(* network.                                                                *)
GotHistory ==
    \A p \in Proc : got[p] = Addressed(p, Begun(p)) \ flight

(* Request ids count the messages of the call. *)
RidCount ==
    \A p \in Proc : IsFiniteSet(got[p]) /\ rid[p] = Cardinality(got[p])

(* What the invariant says of messages, and what the protocol needs for it:*)
(* that the tag tells a rank which messages are of its exchange.           *)
Messages == TypeOK /\ RidCount /\ InFlight /\ SentHistory /\ GotHistory

TagsTell ==
    \A m \in flight :
        Inside(m.dst) /\ m.cnt = NBX_cnt[m.dst] => m.round = done[m.dst]

(* The inductive invariant. *)
IInv == Messages /\ BarrierCount /\ BarrierOrder /\ CounterAgreement

----------------------------------------------------------------------------
(* The messages of a call are messages, whatever list the caller passes,   *)
(* and they are new to the call: sender, exchange and tag are the rank's.  *)
LEMMA QueuedSends ==
    ASSUME TypeOK, NEW p \in Proc, NEW list \in SendLists
    PROVE  /\ queue_all_sends(p, list) \subseteq Message
           /\ \A m \in queue_all_sends(p, list) :
                m.src = p /\ m.round = done[p] /\ m.cnt = NBX_cnt[p]
<1>1. list \in Seq([prc : Proc, sz : Nat])
    BY NBXAssumption
<1>2. ASSUME NEW i \in DOMAIN list
      PROVE  i \in Nat /\ list[i].prc \in Proc
    <2>1. i \in 1..Len(list) /\ Len(list) \in Nat
        BY <1>1, <1>2
    <2>2. list[i] \in [prc : Proc, sz : Nat]
        BY <1>1, <2>1, ElementOfSeq, Zenon
    <2> QED
        BY <2>1, <2>2
<1>3. done[p] \in Nat /\ NBX_cnt[p] \in 0..(nbx_cycle - 1)
    BY DEF TypeOK
<1> QED
    BY <1>2, <1>3 DEF queue_all_sends, Message

(* The circular counter stays in range and never stands still. *)
LEMMA NextCntMoves ==
    ASSUME NEW c \in 0..(nbx_cycle - 1)
    PROVE  NextCnt(c) \in 0..(nbx_cycle - 1) /\ NextCnt(c) # c
BY NBXAssumption DEF NextCnt

(* What one call of progressCommunication does: at most one message is     *)
(* received, and at most the barrier of this exchange is entered.          *)
Receives(p, m) ==
    /\ m \in flight /\ m.dst = p /\ m.cnt = NBX_cnt[p]
    /\ flight' = flight \ {m}
    /\ got' = [got EXCEPT ![p] = @ \cup {m}]
    /\ rid' = [rid EXCEPT ![p] = @ + 1]

LEMMA ProgressEffect ==
    ASSUME NEW p \in Proc, progressCommunication(p)
    PROVE  /\ Inside(p)
           /\ pc' = [pc EXCEPT ![p] = "test"]
           /\ UNCHANGED <<NBX_cnt, req, done, sent>>
           /\ (\E m \in flight : Receives(p, m)) \/ UNCHANGED <<flight, got, rid>>
           /\ EnterBarrier(p) \/ UNCHANGED <<reached_bar_req, barriers, bar_req>>
<1>1. CASE \E m \in flight : ProgressReceive(p, m)
    BY <1>1 DEF ProgressReceive, Polled, Receives, Inside, Probeable, OfThisExchange,
        CheckSends, SkipBarrier
<1>2. CASE \E m \in flight : ProgressForeign(p, m)
    BY <1>2 DEF ProgressForeign, Polled, Inside
<1>3. CASE ProgressNothing(p)
    BY <1>3 DEF ProgressNothing, Polled, Inside, CheckSends, SkipBarrier
<1> QED
    BY <1>1, <1>2, <1>3 DEF progressCommunication

LEMMA InitTypeOK == Init => TypeOK
BY NBXAssumption DEF Init, TypeOK

(* Every step keeps the types. *)
LEMMA StepTypeOK == TypeOK /\ [Next]_vars => TypeOK'
<1> SUFFICES ASSUME TypeOK, [Next]_vars PROVE TypeOK'
    OBVIOUS
<1>1. ASSUME NEW p \in Proc, NEW list \in SendLists, Start(p, list)
      PROVE  TypeOK'
    <2>1. queue_all_sends(p, list) \subseteq Message
        BY QueuedSends
    <2> QED
        BY <1>1, <2>1 DEF TypeOK, Start
<1>2. ASSUME NEW p \in Proc, progressCommunication(p)
      PROVE  TypeOK'
    <2>1. /\ flight' \in SUBSET Message
          /\ got' \in [Proc -> SUBSET Message]
          /\ rid' \in [Proc -> Nat]
        BY <1>2, ProgressEffect DEF TypeOK, Receives
    <2>2. /\ reached_bar_req' \in [Proc -> BOOLEAN]
          /\ barriers' \in [Proc -> Nat]
          /\ bar_req' \in [Proc -> Nat]
        <3>1. CASE EnterBarrier(p)
            BY <3>1 DEF TypeOK, EnterBarrier
        <3>2. CASE UNCHANGED <<reached_bar_req, barriers, bar_req>>
            BY <3>2 DEF TypeOK
        <3> QED
            BY <1>2, <3>1, <3>2, ProgressEffect
    <2>3. /\ pc' \in [Proc -> {"app", "progress", "test"}]
          /\ UNCHANGED <<NBX_cnt, req, done, sent>>
        BY <1>2, ProgressEffect DEF TypeOK
    <2> QED
        BY <2>1, <2>2, <2>3 DEF TypeOK, Message
<1>3. ASSUME NEW p \in Proc, Leave(p)
      PROVE  TypeOK'
    <2>1. NextCnt(NBX_cnt[p]) \in 0..(nbx_cycle - 1)
        BY NextCntMoves DEF TypeOK
    <2> QED
        BY <1>3, <2>1 DEF TypeOK, Leave
<1>4. ASSUME NEW p \in Proc, LoopAgain(p)
      PROVE  TypeOK'
    BY <1>4 DEF TypeOK, LoopAgain
<1>5. CASE UNCHANGED vars
    BY <1>5 DEF TypeOK, vars, rankVars
<1> QED
    BY <1>1, <1>2, <1>3, <1>4, <1>5 DEF Next, Finished

(* Type correctness of the exchange. *)
THEOREM TypeCorrect == Spec => []TypeOK
BY InitTypeOK, StepTypeOK, PTL DEF Spec

----------------------------------------------------------------------------
(* Messages, one lemma per action.  Nothing here depends on how exchanges  *)
(* get their counters or barriers their order.                             *)

(* A call begins. *)
LEMMA StartKeepsMessages ==
    ASSUME Messages, NEW p \in Proc, NEW list \in SendLists, Start(p, list)
    PROVE  Messages'
<1> DEFINE new == queue_all_sends(p, list)
<1>1. TypeOK /\ TypeOK'
    BY StepTypeOK DEF Messages, Next
<1>2. /\ new \subseteq Message
      /\ \A m \in new : m.src = p /\ m.round = done[p] /\ m.cnt = NBX_cnt[p]
    BY <1>1, QueuedSends
<1>3. /\ ~Inside(p) /\ Inside(p)'
      /\ \A q \in Proc \ {p} : Inside(q)' = Inside(q)
      /\ \A q \in Proc \ {p} : Begun(q)' = Begun(q)
      /\ Begun(p) = done[p] /\ Begun(p)' = done[p] + 1
    BY <1>1 DEF Start, TypeOK, Inside, Begun
<1>4. /\ flight' = flight \cup new /\ sent' = sent \cup new
      /\ req' = [req EXCEPT ![p] = new]
      /\ reached_bar_req' = [reached_bar_req EXCEPT ![p] = FALSE]
      /\ got' = [got EXCEPT ![p] = {}]
      /\ rid' = [rid EXCEPT ![p] = 0]
      /\ UNCHANGED <<NBX_cnt, bar_req, done, barriers>>
    BY DEF Start
<1>5. RidCount'
    BY <1>1, <1>4, FS_EmptySet DEF Messages, RidCount, TypeOK
<1>6. InFlight'
    <2>1. \A m \in flight : m.src \in Proc \ {p}
        BY <1>1, <1>3 DEF Messages, InFlight, TypeOK, Message
    <2> QED
        BY <1>1, <1>2, <1>3, <1>4, <2>1 DEF Messages, InFlight, TypeOK
<1>7. SentHistory'
    <2>1. \A m \in sent' : m.src \in Proc /\ m.dst \in Proc /\ m.round \in Nat
        BY <1>1 DEF TypeOK, Message
    <2>2. \A q \in Proc : Begun(q) \in Nat /\ Begun(q)' \in Nat /\ Begun(q) <= Begun(q)'
        BY <1>1, <1>3 DEF Begun, TypeOK
    <2>3. ASSUME NEW m \in sent
          PROVE  m.round < Begun(m.src)' /\ (m.round >= Begun(m.dst)' => m \in flight')
        BY <1>4, <2>1, <2>2 DEF Messages, SentHistory
    <2>4. ASSUME NEW m \in new
          PROVE  m.round < Begun(m.src)' /\ m \in flight'
        BY <1>1, <1>2, <1>3, <1>4 DEF TypeOK
    <2> QED
        BY <1>4, <2>3, <2>4 DEF SentHistory
<1>8. GotHistory'
    <2>1. new \cap sent = {}
        BY <1>1, <1>2, <1>3 DEF Messages, SentHistory, TypeOK, Message
    <2>2. ASSUME NEW q \in Proc \ {p}
          PROVE  got'[q] = Addressed(q, Begun(q))' \ flight'
        BY <1>1, <1>3, <1>4, <2>1, <2>2 DEF Messages, GotHistory, Addressed, TypeOK
    <2>3. got'[p] = Addressed(p, Begun(p))' \ flight'
        <3>1. \A m \in sent' : m.dst = p /\ m.round + 1 = done[p] + 1 => m \in flight'
            BY <1>1, <1>3, <1>4 DEF Messages, SentHistory, TypeOK, Message
        <3> QED
            BY <1>1, <1>3, <1>4, <3>1 DEF Addressed, TypeOK
    <2> QED
        BY <2>2, <2>3 DEF GotHistory
<1> QED
    BY <1>1, <1>5, <1>6, <1>7, <1>8 DEF Messages

(* One call of progressCommunication. *)
LEMMA ProgressKeepsMessages ==
    ASSUME Messages, TagsTell, NEW p \in Proc, progressCommunication(p)
    PROVE  Messages'
<1>1. TypeOK /\ TypeOK'
    BY StepTypeOK DEF Messages, Next
<1>2. /\ Inside(p)
      /\ pc' = [pc EXCEPT ![p] = "test"]
      /\ UNCHANGED <<NBX_cnt, req, done, sent>>
      /\ (\E m \in flight : Receives(p, m)) \/ UNCHANGED <<flight, got, rid>>
      /\ EnterBarrier(p) \/ UNCHANGED <<reached_bar_req, barriers, bar_req>>
    BY ProgressEffect
<1>3. \A q \in Proc : Inside(q)' = Inside(q) /\ Begun(q)' = Begun(q)
    BY <1>1, <1>2 DEF Inside, Begun, TypeOK
<1>4. flight' \subseteq flight
    BY <1>2 DEF Receives
<1>5. InFlight'
    <2>1. ASSUME NEW m \in flight'
          PROVE  ~reached_bar_req'[m.src]
        <3>1. /\ m \in flight /\ m.src \in Proc
              /\ m \in req[m.src] /\ ~reached_bar_req[m.src]
            BY <1>1, <1>4 DEF Messages, InFlight, TypeOK, Message
        <3>2. CASE EnterBarrier(p)
            <4>1. m.src # p
                BY <3>1, <3>2 DEF EnterBarrier, SendsAcknowledged, AllMatched
            <4> QED
                BY <1>1, <3>1, <3>2, <4>1 DEF EnterBarrier, TypeOK
        <3> QED
            BY <1>2, <3>1, <3>2
    <2>2. \A m \in flight' : m \in flight /\ m.src \in Proc
        BY <1>1, <1>4 DEF TypeOK, Message
    <2> QED
        BY <1>2, <1>3, <2>1, <2>2 DEF Messages, InFlight
<1>6. CASE UNCHANGED <<flight, got, rid>>
    <2>1. RidCount'
        BY <1>6 DEF Messages, RidCount
    <2>2. SentHistory'
        BY <1>1, <1>2, <1>3, <1>6 DEF Messages, SentHistory, TypeOK, Message
    <2>3. GotHistory'
        BY <1>2, <1>3, <1>6 DEF Messages, GotHistory, Addressed
    <2> QED
        BY <1>1, <1>5, <2>1, <2>2, <2>3 DEF Messages
<1>7. CASE \E m \in flight : Receives(p, m)
    <2>1. PICK m \in flight : Receives(p, m)
        BY <1>7
    <2>2. m \in sent /\ m \in Message /\ m.dst = p /\ m.round = done[p] /\ m \notin got[p]
        BY <1>1, <1>2, <2>1 DEF Messages, TagsTell, TypeOK, Receives, GotHistory, InFlight
    <2>3. Begun(p) = done[p] + 1
        BY <1>2 DEF Begun, Inside
    <2>4. RidCount'
        <3>1. IsFiniteSet(got[p] \cup {m}) /\ Cardinality(got[p] \cup {m}) = Cardinality(got[p]) + 1
            BY <2>2, FS_AddElement DEF Messages, RidCount
        <3> QED
            BY <1>1, <2>1, <3>1 DEF Messages, RidCount, Receives, TypeOK
    <2>5. SentHistory'
        <3>1. \A n \in sent : n.src \in Proc /\ n.dst \in Proc
            BY <1>1 DEF TypeOK, Message
        <3>2. ~(m.round >= Begun(m.dst))
            BY <1>1, <2>2, <2>3 DEF TypeOK
        <3> QED
            BY <1>2, <1>3, <2>1, <3>1, <3>2 DEF Messages, SentHistory, Receives
    <2>6. GotHistory'
        <3>1. m \in Addressed(p, Begun(p))
            BY <2>2, <2>3 DEF Addressed
        <3>2. \A q \in Proc : Addressed(q, Begun(q))' = Addressed(q, Begun(q))
            BY <1>2, <1>3 DEF Addressed
        <3>3. \A q \in Proc \ {p} : m \notin Addressed(q, Begun(q))
            BY <2>2 DEF Addressed
        <3>4. got'[p] = got[p] \cup {m} /\ \A q \in Proc \ {p} : got'[q] = got[q]
            BY <1>1, <2>1 DEF Receives, TypeOK
        <3> QED
            BY <2>1, <3>1, <3>2, <3>3, <3>4 DEF Messages, GotHistory, Receives
    <2> QED
        BY <1>1, <1>5, <2>4, <2>5, <2>6 DEF Messages
<1> QED
    BY <1>2, <1>6, <1>7

(* The call returns: its barrier was entered. *)
LEMMA LeaveKeepsMessages ==
    ASSUME Messages, NEW p \in Proc, Leave(p)
    PROVE  Messages'
<1>1. TypeOK /\ TypeOK'
    BY StepTypeOK DEF Messages, Next
<1>2. /\ pc[p] = "test" /\ reached_bar_req[p]
      /\ pc' = [pc EXCEPT ![p] = "app"]
      /\ done' = [done EXCEPT ![p] = @ + 1]
      /\ NBX_cnt' = [NBX_cnt EXCEPT ![p] = NextCnt(@)]
      /\ req' = [req EXCEPT ![p] = {}]
      /\ bar_req' = [bar_req EXCEPT ![p] = 0]
      /\ UNCHANGED <<reached_bar_req, rid, got, sent, flight, barriers>>
    BY DEF Leave, BarrierPassed
<1>3. /\ Inside(p) /\ ~Inside(p)'
      /\ \A q \in Proc \ {p} : Inside(q)' = Inside(q)
      /\ \A q \in Proc : Begun(q)' = Begun(q)
    BY <1>1, <1>2 DEF Inside, Begun, TypeOK
<1>4. RidCount'
    BY <1>2 DEF Messages, RidCount
<1>5. InFlight'
    <2>1. \A m \in flight : m.src \in Proc \ {p}
        BY <1>1, <1>2 DEF Messages, InFlight, TypeOK, Message
    <2> QED
        BY <1>1, <1>2, <1>3, <2>1 DEF Messages, InFlight, TypeOK
<1>6. SentHistory'
    BY <1>1, <1>2, <1>3 DEF Messages, SentHistory, TypeOK, Message
<1>7. GotHistory'
    BY <1>2, <1>3 DEF Messages, GotHistory, Addressed
<1> QED
    BY <1>1, <1>4, <1>5, <1>6, <1>7 DEF Messages

(* Another turn of the loop. *)
LEMMA LoopKeepsMessages ==
    ASSUME Messages, NEW p \in Proc, LoopAgain(p)
    PROVE  Messages'
<1>1. TypeOK /\ TypeOK'
    BY StepTypeOK DEF Messages, Next
<1>2. \A q \in Proc : Inside(q)' = Inside(q) /\ Begun(q)' = Begun(q)
    BY <1>1 DEF LoopAgain, Inside, Begun, TypeOK
<1>3. UNCHANGED <<NBX_cnt, req, reached_bar_req, bar_req, rid, got, done, sent, flight, barriers>>
    BY DEF LoopAgain
<1>4. InFlight' /\ SentHistory'
    BY <1>1, <1>2, <1>3 DEF Messages, InFlight, SentHistory, TypeOK, Message
<1>5. RidCount' /\ GotHistory'
    BY <1>2, <1>3 DEF Messages, RidCount, GotHistory, Addressed
<1> QED
    BY <1>1, <1>4, <1>5 DEF Messages

----------------------------------------------------------------------------
(* Counters and barriers.                                                  *)

(* Where a message in flight stands between its sender and its receiver:   *)
(* no rank is past its exchange, the receiver is in it or one before it,   *)
(* and NBX_cnt tells which.                                                *)
LEMMA FlightWindow ==
    ASSUME IInv, NEW m \in flight
    PROVE  /\ \A p \in Proc : done[p] <= m.round
           /\ m.round \in {done[m.dst], done[m.dst] + 1}
           /\ m.cnt = NBX_cnt[m.dst] <=> m.round = done[m.dst]
           /\ m.round = done[m.dst] + 1 => Inside(m.dst) /\ reached_bar_req[m.dst]
<1>1. /\ m \in Message
      /\ m.src \in Proc /\ m.dst \in Proc
      /\ \A p \in Proc : done[p] \in Nat /\ barriers[p] \in Nat
      /\ \A p \in Proc : NBX_cnt[p] \in 0..(nbx_cycle - 1)
    BY DEF IInv, Messages, TypeOK, Message
<1>2. barriers[m.src] = done[m.src] /\ m.round = done[m.src] /\ m.cnt = NBX_cnt[m.src]
    BY <1>1 DEF IInv, Messages, InFlight, BarrierCount
<1>3. \A p \in Proc : done[p] <= m.round
    BY <1>1, <1>2 DEF IInv, BarrierOrder
<1>4. m.round <= barriers[m.dst]
    BY <1>1, <1>2 DEF IInv, BarrierOrder
<1>5. m.round \in {done[m.dst], done[m.dst] + 1}
    BY <1>1, <1>2, <1>3, <1>4 DEF IInv, BarrierCount
<1>6. m.round = done[m.dst] + 1 => Inside(m.dst) /\ reached_bar_req[m.dst]
    BY <1>1, <1>4 DEF IInv, BarrierCount
<1>7. m.cnt = NBX_cnt[m.dst] <=> m.round = done[m.dst]
    <2>1. NextCnt(NBX_cnt[m.dst]) # NBX_cnt[m.dst]
        BY <1>1, NextCntMoves
    <2> QED
        BY <1>1, <1>2, <1>5, <2>1 DEF IInv, CounterAgreement
<1> QED
    BY <1>3, <1>5, <1>6, <1>7

LEMMA InitMessages == Init => Messages
<1> SUFFICES ASSUME Init PROVE Messages
    OBVIOUS
<1>1. TypeOK
    BY InitTypeOK
<1>2. RidCount
    BY FS_EmptySet DEF Init, RidCount
<1>3. InFlight /\ SentHistory
    BY DEF Init, InFlight, SentHistory
<1>4. GotHistory
    BY DEF Init, GotHistory, Addressed
<1> QED
    BY <1>1, <1>2, <1>3, <1>4 DEF Messages

LEMMA InitIInv == Init => IInv
<1> SUFFICES ASSUME Init PROVE IInv
    OBVIOUS
<1>1. BarrierCount /\ BarrierOrder /\ CounterAgreement
    BY DEF Init, BarrierCount, BarrierOrder, CounterAgreement, Inside
<1> QED
    BY <1>1, InitMessages DEF IInv

LEMMA StartKeepsIInv ==
    ASSUME IInv, NEW p \in Proc, NEW list \in SendLists, Start(p, list)
    PROVE  IInv'
<1>1. TypeOK /\ Messages'
    BY StartKeepsMessages DEF IInv, Messages
<1>2. \A q \in Proc : Inside(q)' <=> Inside(q) \/ q = p
    BY <1>1 DEF Start, TypeOK, Inside
<1>3. /\ ~Inside(p)
      /\ reached_bar_req' = [reached_bar_req EXCEPT ![p] = FALSE]
      /\ UNCHANGED <<NBX_cnt, bar_req, done, barriers>>
    BY DEF Start, Inside
<1>4. BarrierCount' /\ BarrierOrder' /\ CounterAgreement'
    BY <1>1, <1>2, <1>3
        DEF IInv, BarrierCount, BarrierOrder, CounterAgreement, TypeOK
<1> QED
    BY <1>1, <1>4 DEF IInv

LEMMA ProgressKeepsIInv ==
    ASSUME IInv, NEW p \in Proc, progressCommunication(p)
    PROVE  IInv'
<1>1. TypeOK /\ TypeOK'
    BY StepTypeOK DEF IInv, Messages, Next
<1>2. TagsTell
    BY FlightWindow DEF TagsTell
<1>3. Messages'
    BY <1>2, ProgressKeepsMessages DEF IInv
<1>4. /\ Inside(p)
      /\ pc' = [pc EXCEPT ![p] = "test"]
      /\ UNCHANGED <<NBX_cnt, done>>
      /\ EnterBarrier(p) \/ UNCHANGED <<reached_bar_req, barriers, bar_req>>
    BY ProgressEffect
<1>5. \A q \in Proc : Inside(q)' = Inside(q)
    BY <1>1, <1>4 DEF Inside, TypeOK
<1>6. BarrierCount' /\ BarrierOrder'
    <2>1. CASE EnterBarrier(p)
        BY <1>1, <1>4, <1>5, <2>1
            DEF IInv, EnterBarrier, BarrierCount, BarrierOrder, TypeOK
    <2>2. CASE UNCHANGED <<reached_bar_req, barriers, bar_req>>
        BY <1>4, <1>5, <2>2 DEF IInv, BarrierCount, BarrierOrder
    <2> QED
        BY <1>4, <2>1, <2>2
<1>7. CounterAgreement'
    BY <1>4 DEF IInv, CounterAgreement
<1> QED
    BY <1>3, <1>6, <1>7 DEF IInv

(* The barrier completes and the call returns. *)
LEMMA LeaveKeepsIInv ==
    ASSUME IInv, NEW p \in Proc, Leave(p)
    PROVE  IInv'
<1>1. TypeOK /\ TypeOK' /\ Messages'
    BY StepTypeOK, LeaveKeepsMessages DEF IInv, Messages, Next
<1>2. /\ pc[p] = "test" /\ reached_bar_req[p]
      /\ pc' = [pc EXCEPT ![p] = "app"]
      /\ done' = [done EXCEPT ![p] = @ + 1]
      /\ NBX_cnt' = [NBX_cnt EXCEPT ![p] = NextCnt(@)]
      /\ bar_req' = [bar_req EXCEPT ![p] = 0]
      /\ UNCHANGED <<reached_bar_req, barriers>>
    BY DEF Leave, BarrierPassed
<1>3. /\ barriers[p] = done[p] + 1
      /\ \A q \in Proc : barriers[q] >= done[p] + 1
    BY <1>1, <1>2 DEF IInv, TypeOK, BarrierCount, Inside, Leave, BarrierPassed, BarrierComplete
<1>4. /\ Inside(p) /\ ~Inside(p)'
      /\ \A q \in Proc \ {p} : Inside(q)' = Inside(q)
    BY <1>1, <1>2 DEF Inside, TypeOK
<1>5. BarrierCount'
    BY <1>1, <1>2, <1>3, <1>4 DEF IInv, BarrierCount, TypeOK
<1>6. BarrierOrder'
    BY <1>1, <1>2, <1>3 DEF IInv, BarrierOrder, TypeOK
<1>7. CounterAgreement'
    <2>1. \A q \in Proc : done[q] \in Nat /\ done[q] <= done[p] + 1
        BY <1>1, <1>3 DEF IInv, BarrierOrder, TypeOK
    <2>2. \A q \in Proc \ {p} : done'[q] = done[q] /\ NBX_cnt'[q] = NBX_cnt[q]
        BY <1>1, <1>2 DEF TypeOK
    <2>3. done'[p] = done[p] + 1 /\ NBX_cnt'[p] = NextCnt(NBX_cnt[p])
        BY <1>1, <1>2 DEF TypeOK
    <2>4. ASSUME NEW q \in Proc \ {p}
          PROVE  /\ done'[p] = done'[q] => NBX_cnt'[p] = NBX_cnt'[q]
                 /\ done'[q] # done'[p] + 1
                 /\ done'[p] = done'[q] + 1 => NBX_cnt'[p] = NextCnt(NBX_cnt'[q])
        BY <2>1, <2>2, <2>3 DEF IInv, CounterAgreement
    <2>5. ASSUME NEW q \in Proc \ {p}, NEW r \in Proc \ {p}
          PROVE  /\ done'[q] = done'[r] => NBX_cnt'[q] = NBX_cnt'[r]
                 /\ done'[r] = done'[q] + 1 => NBX_cnt'[r] = NextCnt(NBX_cnt'[q])
        BY <2>2 DEF IInv, CounterAgreement
    <2>6. done'[p] # done'[p] + 1
        BY <2>1, <2>3
    <2> QED
        BY <2>4, <2>5, <2>6 DEF CounterAgreement, NextCnt
<1> QED
    BY <1>1, <1>5, <1>6, <1>7 DEF IInv

LEMMA LoopKeepsIInv ==
    ASSUME IInv, NEW p \in Proc, LoopAgain(p)
    PROVE  IInv'
<1>1. TypeOK /\ Messages'
    BY LoopKeepsMessages DEF IInv, Messages
<1>2. \A q \in Proc : Inside(q)' = Inside(q)
    BY <1>1 DEF LoopAgain, Inside, TypeOK
<1>3. UNCHANGED <<NBX_cnt, reached_bar_req, bar_req, done, barriers>>
    BY DEF LoopAgain
<1>4. BarrierCount' /\ BarrierOrder' /\ CounterAgreement'
    BY <1>2, <1>3 DEF IInv, BarrierCount, BarrierOrder, CounterAgreement
<1> QED
    BY <1>1, <1>4 DEF IInv

(* Steps that change nothing. *)
LEMMA StutterKeepsIInv == IInv /\ UNCHANGED vars => IInv'
BY DEF vars, rankVars, IInv, Messages, TypeOK, RidCount, BarrierCount, BarrierOrder,
    CounterAgreement, InFlight, SentHistory, GotHistory, Inside, Begun, Addressed, NextCnt

(* The inductive invariant holds in every reachable state. *)
THEOREM Invariance == Spec => []IInv
<1>1. IInv /\ [Next]_vars => IInv'
    BY StartKeepsIInv, ProgressKeepsIInv, LeaveKeepsIInv, LoopKeepsIInv, StutterKeepsIInv
        DEF Next, Finished
<1> QED
    BY InitIInv, <1>1, PTL DEF Spec

----------------------------------------------------------------------------
(* What follows from the invariant. *)
LEMMA NoSendOutlivesExchange == IInv => AllSendsReceived
BY FlightWindow DEF AllSendsReceived, IInv, Messages, TypeOK, Message

LEMMA AllDelivered == IInv => Delivered
<1> SUFFICES ASSUME IInv, NEW p \in Proc, pc[p] = "app"
             PROVE  got[p] = Addressed(p, done[p]) /\ rid[p] = Cardinality(got[p])
    BY DEF Delivered
<1>1. Begun(p) = done[p]
    BY DEF Begun
<1>2. ASSUME NEW m \in Addressed(p, done[p])
      PROVE  m \notin flight
    <2>1. m.round \in Nat /\ done[p] \in Nat /\ m.round + 1 = done[p]
        BY <1>2 DEF Addressed, IInv, Messages, TypeOK, Message
    <2> QED
        BY <2>1, FlightWindow
<1> QED
    BY <1>1, <1>2 DEF IInv, Messages, GotHistory, RidCount

LEMMA ForeignIsHarmless == IInv => ForeignMeansComplete
<1> SUFFICES ASSUME IInv, NEW p \in Proc, pc[p] # "app",
                    NEW m \in Probeable(flight, p), ~OfThisExchange(p, m)
             PROVE  /\ m.round = Begun(p)
                    /\ reached_bar_req[p]
                    /\ Addressed(p, Begun(p)) \cap flight = {}
    BY DEF ForeignMeansComplete
<1>1. m \in flight /\ m.dst = p /\ m.cnt # NBX_cnt[p] /\ m.src \in Proc
    BY DEF Probeable, OfThisExchange, IInv, Messages, TypeOK, Message
<1>2. Begun(p) = done[p] + 1 /\ done[p] \in Nat
    BY DEF Begun, IInv, Messages, TypeOK
<1>3. m.round = done[p] + 1 /\ reached_bar_req[p]
    BY <1>1, FlightWindow
<1>4. done[m.src] = done[p] + 1
    BY <1>1, <1>3 DEF IInv, Messages, InFlight
<1>5. ASSUME NEW n \in Addressed(p, Begun(p)), n \in flight
      PROVE  FALSE
    <2>1. n.round \in Nat /\ n.round + 1 = done[p] + 1
        BY <1>2, <1>5 DEF Addressed, IInv, Messages, TypeOK, Message
    <2>2. done[m.src] <= n.round
        BY <1>1, <1>5, FlightWindow
    <2> QED
        BY <1>2, <1>4, <2>1, <2>2
<1> QED
    BY <1>2, <1>3, <1>5

(* Once one rank has left an exchange, no message of it is in flight       *)
(* anywhere, then or later: the promise of the comment on NBX_cnt.         *)
THEOREM SendsReceived == Spec => []AllSendsReceived
BY Invariance, NoSendOutlivesExchange, PTL

(* A rank holds messages of the exchange it is in, or just left, only. *)
THEOREM AssociationCorrect == Spec => []RightAssociation
<1>1. IInv => RightAssociation
    BY DEF IInv, Messages, GotHistory, Addressed, RightAssociation
<1> QED
    BY Invariance, <1>1, PTL

(* A call returns with every message addressed to the rank, each with a    *)
(* request id of its own.                                                  *)
THEOREM DeliveryComplete == Spec => []Delivered
BY Invariance, AllDelivered, PTL

(* The early return of progressCommunication on a message of another       *)
(* exchange never hides work that is left in this one.                     *)
THEOREM EarlyReturnHarmless == Spec => []ForeignMeansComplete
BY Invariance, ForeignIsHarmless, PTL

----------------------------------------------------------------------------
(* NBX implements SparseExchange: every step maps to one of it or to none. *)
LEMMA StartKeepsPromise ==
    ASSUME TypeOK, NEW p \in Proc, NEW list \in SendLists, Start(p, list)
    PROVE  Promise!Begin(p)
<1>1. /\ queue_all_sends(p, list) \subseteq Message
      /\ \A m \in queue_all_sends(p, list) : m.src = p /\ m.round = done[p]
    BY QueuedSends
<1> QED
    BY <1>1 DEF Promise!Begin, Start, Message, TypeOK

LEMMA ProgressKeepsPromise ==
    ASSUME Messages, TagsTell, NEW p \in Proc, progressCommunication(p)
    PROVE  (\E m \in sent : Promise!HandOver(p, m)) \/ UNCHANGED (Promise!vars)
<1>1. /\ Inside(p)
      /\ UNCHANGED <<done, sent>>
      /\ [q \in Proc |-> pc[q] # "app"]' = [q \in Proc |-> pc[q] # "app"]
    BY ProgressEffect DEF Inside, Messages, TypeOK
<1>2. CASE UNCHANGED got
    BY <1>1, <1>2 DEF Promise!vars
<1>3. ASSUME NEW m \in flight, Receives(p, m)
      PROVE  m \in sent /\ Promise!HandOver(p, m)
    <2>1. m \in sent /\ m.dst = p /\ m.round = done[p] /\ m \notin got[p]
        BY <1>1, <1>3 DEF Messages, TagsTell, InFlight, GotHistory, Receives
    <2> QED
        BY <1>1, <1>3, <2>1 DEF Promise!HandOver, Receives, Inside
<1> QED
    BY <1>2, <1>3, ProgressEffect

\* A call may return when everybody has begun and no message of the exchange
\* is in flight.
LEMMA LeaveKeepsPromise ==
    ASSUME Messages, NEW p \in Proc, Leave(p),
           \A q \in Proc : Begun(q) > done[p],
           \A m \in flight : m.round # done[p]
    PROVE  Promise!End(p)
<1>1. /\ TypeOK
      /\ Inside(p) /\ pc' = [pc EXCEPT ![p] = "app"]
      /\ done' = [done EXCEPT ![p] = @ + 1]
      /\ UNCHANGED <<got, sent, flight>>
    BY DEF Messages, Inside, Leave
<1>2. ASSUME NEW m \in sent, m.round = done[p]
      PROVE  /\ m.dst = p => m \in got[p]
             /\ m.src = p => m \in got[m.dst] \/ done[m.dst] > done[p]
    <2>1. m.dst \in Proc /\ m.src \in Proc /\ done[p] \in Nat /\ done[m.dst] \in Nat
        BY <1>1, <1>2 DEF TypeOK, Message
    <2>2. m \notin flight
        BY <1>2
    <2>3. Begun(m.dst) = done[p] + 1 => m \in got[m.dst]
        BY <1>2, <2>1, <2>2 DEF Messages, GotHistory, Addressed
    <2>4. Begun(m.dst) # done[p] + 1 => done[m.dst] > done[p]
        BY <2>1 DEF Begun
    <2>5. m.dst = p => Begun(m.dst) = done[p] + 1
        BY <1>1 DEF Begun, Inside
    <2> QED
        BY <2>3, <2>4, <2>5
<1>3. [q \in Proc |-> pc[q] # "app"]' = [[q \in Proc |-> pc[q] # "app"] EXCEPT ![p] = FALSE]
    BY <1>1 DEF TypeOK
<1> QED
    BY <1>1, <1>2, <1>3 DEF Promise!End, Promise!Begun, Begun, Inside

LEMMA LoopKeepsPromise ==
    ASSUME TypeOK, NEW p \in Proc, LoopAgain(p)
    PROVE  UNCHANGED (Promise!vars)
BY DEF LoopAgain, TypeOK, Promise!vars

LEMMA StepKeepsPromise == IInv /\ [Next]_vars => [Promise!Next]_(Promise!vars)
<1> SUFFICES ASSUME IInv, [Next]_vars PROVE [Promise!Next]_(Promise!vars)
    OBVIOUS
<1>1. TypeOK /\ Messages
    BY DEF IInv, Messages
<1>2. ASSUME NEW p \in Proc, progressCommunication(p)
      PROVE  (\E m \in sent : Promise!HandOver(p, m)) \/ UNCHANGED (Promise!vars)
    <2>1. TagsTell
        BY FlightWindow DEF TagsTell
    <2> QED
        BY <1>1, <1>2, <2>1, ProgressKeepsPromise
<1>3. ASSUME NEW p \in Proc, Leave(p)
      PROVE  Promise!End(p)
    <2>1. \A q \in Proc : barriers[q] >= done[p] + 1
        BY <1>1, <1>3
            DEF IInv, BarrierCount, Inside, Leave, BarrierPassed, BarrierComplete, TypeOK
    <2>2. \A q \in Proc : Begun(q) > done[p]
        BY <1>1, <2>1 DEF IInv, BarrierCount, Begun, Inside, TypeOK
    <2>3. ASSUME NEW m \in flight
          PROVE  m.round # done[p]
        <3>1. m.src \in Proc
            BY <1>1 DEF TypeOK, Message
        <3> QED
            BY <1>1, <2>1, <3>1 DEF Messages, InFlight, IInv, BarrierCount, TypeOK
    <2> QED
        BY <1>1, <1>3, <2>2, <2>3, LeaveKeepsPromise
<1>4. CASE UNCHANGED vars
    BY <1>4 DEF vars, rankVars, Promise!vars
<1> QED
    BY <1>1, <1>2, <1>3, <1>4, StartKeepsPromise, LoopKeepsPromise
        DEF Next, Finished, Promise!Next

(* Every behaviour of the protocol is one that SparseExchange allows. *)
THEOREM Refinement == Spec => KeepsPromise
<1>1. Init => Promise!Init
    BY DEF Init, Promise!Init
<1> QED
    BY <1>1, StepKeepsPromise, Invariance, PTL DEF Spec, KeepsPromise, Promise!Spec

=============================================================================
