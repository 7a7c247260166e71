-------------------------------- MODULE NBX --------------------------------
(***************************************************************************)
(* The blocking dynamic sparse data exchange of Vcluster_base:             *)
(* sendrecvMultipleMessagesNBX for senders that know whom they send to and *)
(* receivers that know nothing.  Every rank issues synchronous sends, then *)
(* polls: it receives what a probe shows it, enters a non-blocking barrier *)
(* once all its sends were matched, and leaves when the barrier completes. *)
(* Ranks leave at different times and may begin the next exchange while    *)
(* others still poll, so messages carry NBX_cnt in their tag.              *)
(*                                                                         *)
(* Blocking calls use slot 0 of the four queue slots only; the other three *)
(* stay NBX_UNACTIVE, and a tag that maps to one of them is not received.  *)
(***************************************************************************)
EXTENDS MPINet, FiniteSets, Sequences

CONSTANTS
    Proc,           \* the ranks of ext_comm
    SendLists,      \* the arguments an application may pass: prc[] with sz[]
    nbx_cycle,      \* NBX_cnt counts modulo this
    MaxExchanges    \* bound: exchanges every rank performs

\* The constructor complains about nbx_cycle < 2*NQUEUE; one slot needs 2.
ASSUME NBXAssumption ==
    /\ SendLists \subseteq Seq([prc : Proc, sz : Nat])
    /\ nbx_cycle \in Nat /\ nbx_cycle >= 2
    /\ MaxExchanges \in Nat

VARIABLES
    pc,             \* "app", "progress" or "test": where the rank is
    NBX_cnt,        \* which exchange, modulo nbx_cycle; also the cnt base
    req,            \* the synchronous sends whose requests are held
    reached_bar_req,\* NBX_prc_reached_bar_req[0]
    bar_req,        \* the barrier call bar_req stands for, 0: the null request
    rid,            \* rid[0]: messages received in this exchange
    got,            \* history: the messages received in the latest exchange
    done,           \* history: exchanges left
    sent,           \* history: every message ever sent
    flight,         \* MPI: messages sent and not matched
    barriers        \* MPI: MPI_Ibarrier calls made

rankVars == <<pc, NBX_cnt, req, reached_bar_req, bar_req, rid, got, done>>
vars == <<rankVars, sent, flight, barriers>>

\* The messages of one call.  An entry of size 0 is not sent.  cnt is the
\* part of the tag that names the exchange: the tag is
\* SEND_SPARSE + (NBX_cnt + NBX_prc_qcnt)*131072 + i with NBX_prc_qcnt = 0.
queue_all_sends(p, list) ==
    {[src |-> p, dst |-> list[i].prc, round |-> done[p], idx |-> i, cnt |-> NBX_cnt[p]] :
        i \in {j \in DOMAIN list : list[j].sz # 0}}

Init ==
    /\ pc = [p \in Proc |-> "app"]
    /\ NBX_cnt = [p \in Proc |-> 0]
    /\ req = [p \in Proc |-> {}]
    /\ reached_bar_req = [p \in Proc |-> FALSE]
    /\ bar_req = [p \in Proc |-> 0]
    /\ rid = [p \in Proc |-> 0]
    /\ got = [p \in Proc |-> {}]
    /\ done = [p \in Proc |-> 0]
    /\ sent = {}
    /\ flight = {}
    /\ barriers = [p \in Proc |-> 0]

----------------------------------------------------------------------------
(* sendrecvMultipleMessagesNBX up to its polling loop. *)
Start(p, list) ==
    /\ pc[p] = "app"
    /\ done[p] < MaxExchanges
    /\ pc' = [pc EXCEPT ![p] = "progress"]
    /\ req' = [req EXCEPT ![p] = queue_all_sends(p, list)]
    /\ flight' = flight \cup queue_all_sends(p, list)
    /\ sent' = sent \cup queue_all_sends(p, list)
    /\ rid' = [rid EXCEPT ![p] = 0]
    /\ got' = [got EXCEPT ![p] = {}]
    /\ reached_bar_req' = [reached_bar_req EXCEPT ![p] = FALSE]
    /\ UNCHANGED <<NBX_cnt, bar_req, done, barriers>>

\* Seeded fault: MPI_Isend in place of MPI_Issend, complete without a receive.
SendsAcknowledged_Isend(p) == TRUE

(* What MPI_Testall answers on the requests of rank p. *)
SendsAcknowledged(p) == AllMatched(req[p], flight')

(* The end of progressCommunication: MPI_Testall may answer late, never    *)
(* early, and with no request at all the answer is fixed.                  *)
EnterBarrier(p) ==
    /\ ~reached_bar_req[p]
    /\ SendsAcknowledged(p)
    /\ reached_bar_req' = [reached_bar_req EXCEPT ![p] = TRUE]
    /\ barriers' = [barriers EXCEPT ![p] = @ + 1]
    /\ bar_req' = [bar_req EXCEPT ![p] = barriers'[p]]

SkipBarrier(p) ==
    /\ reached_bar_req[p] \/ req[p] # {}
    /\ UNCHANGED <<reached_bar_req, barriers, bar_req>>

CheckSends(p) == EnterBarrier(p) \/ SkipBarrier(p)

\* Seeded fault: a rank that entered the barrier receives no more.
OfThisExchange_StopsAtBarrier(p, m) == m.cnt = NBX_cnt[p] /\ ~reached_bar_req[p]

(* The probed message belongs to this exchange of rank p. *)
OfThisExchange(p, m) == m.cnt = NBX_cnt[p]

(* progressCommunication, by what the probe shows.  All of one call is one *)
(* step: only MPI sees a difference between its parts, and it may already  *)
(* show them late.                                                         *)
Polled(p) ==
    /\ pc[p] = "progress"
    /\ pc' = [pc EXCEPT ![p] = "test"]
    /\ UNCHANGED <<NBX_cnt, req, done, sent>>

ProgressReceive(p, m) ==
    /\ Polled(p)
    /\ m \in Probeable(flight, p)
    /\ OfThisExchange(p, m)
    /\ flight' = flight \ {m}
    /\ got' = [got EXCEPT ![p] = @ \cup {m}]
    /\ rid' = [rid EXCEPT ![p] = @ + 1]
    /\ CheckSends(p)

ProgressForeign(p, m) ==
    /\ Polled(p)
    /\ m \in Probeable(flight, p)
    /\ ~OfThisExchange(p, m)
    /\ UNCHANGED <<flight, got, rid, reached_bar_req, barriers, bar_req>>

ProgressNothing(p) ==
    /\ Polled(p)
    /\ UNCHANGED <<flight, got, rid>>
    /\ CheckSends(p)

progressCommunication(p) ==
    \/ \E m \in flight : ProgressReceive(p, m)
    \/ \E m \in flight : ProgressForeign(p, m)
    \/ ProgressNothing(p)

\* Seeded fault: MPI_Test called before the barrier was entered.
BarrierPassed_NullRequest(p) == BarrierComplete(barriers, bar_req[p])

(* MPI_Test on the barrier request, made only once the barrier was entered.*)
(* On the null request it answers true.                                    *)
BarrierPassed(p) == reached_bar_req[p] /\ BarrierComplete(barriers, bar_req[p])

\* Seeded faults: every exchange uses the same tags; the tags grow for ever.
NextCnt_Same(c) == c
NextCnt_NoWrap(c) == c + 1

(* The counter is circular. *)
NextCnt(c) == (c + 1) % nbx_cycle

(* The rest of the loop body and, when the barrier is complete, what       *)
(* follows the loop.                                                       *)
Leave(p) ==
    /\ pc[p] = "test"
    /\ BarrierPassed(p)
    /\ pc' = [pc EXCEPT ![p] = "app"]
    /\ bar_req' = [bar_req EXCEPT ![p] = 0]
    /\ req' = [req EXCEPT ![p] = {}]
    /\ NBX_cnt' = [NBX_cnt EXCEPT ![p] = NextCnt(@)]
    /\ done' = [done EXCEPT ![p] = @ + 1]
    /\ UNCHANGED <<reached_bar_req, rid, got, sent, flight, barriers>>

LoopAgain(p) ==
    /\ pc[p] = "test"
    /\ reached_bar_req[p] => bar_req[p] # 0
    /\ pc' = [pc EXCEPT ![p] = "progress"]
    /\ UNCHANGED <<NBX_cnt, req, reached_bar_req, bar_req, rid, got, done, sent, flight, barriers>>

(* Every rank made its exchanges: the application has finished. *)
Finished ==
    /\ \A p \in Proc : pc[p] = "app" /\ done[p] = MaxExchanges
    /\ UNCHANGED vars

Next ==
    \/ \E p \in Proc :
        \/ \E list \in SendLists : Start(p, list)
        \/ progressCommunication(p)
        \/ Leave(p)
        \/ LoopAgain(p)
    \/ Finished

Spec == Init /\ [][Next]_vars

(* Fairness.  The loop is a do-while, so a rank inside keeps polling (WF);  *)
(* MPI's progress rule says that a probe, Testall or Test that is repeated *)
(* eventually sees what is there (SF, since it is asked once per turn of   *)
(* the loop).  An exchange is collective: every rank begins it (WF).       *)
FairSpec ==
    /\ Spec
    /\ \A p \in Proc :
        /\ WF_vars(\E list \in SendLists : Start(p, list))
        /\ WF_vars(progressCommunication(p))
        /\ WF_vars(Leave(p) \/ LoopAgain(p))
        /\ SF_vars(\E m \in flight : ProgressReceive(p, m))
        /\ SF_vars(progressCommunication(p) /\ EnterBarrier(p))
        /\ SF_vars(Leave(p))

----------------------------------------------------------------------------
(* Exchanges rank p has begun, and the messages other ranks addressed to   *)
(* it in its k-th one.                                                     *)
Begun(p) == IF pc[p] = "app" THEN done[p] ELSE done[p] + 1
Addressed(p, k) == {m \in sent : m.dst = p /\ m.round + 1 = k}

Message == [src : Proc, dst : Proc, round : Nat, idx : Nat, cnt : 0..(nbx_cycle - 1)]

(* Types of the ranks' state and of MPI's. *)
TypeOK ==
    /\ pc \in [Proc -> {"app", "progress", "test"}]
    /\ NBX_cnt \in [Proc -> 0..(nbx_cycle - 1)]
    /\ req \in [Proc -> SUBSET Message]
    /\ reached_bar_req \in [Proc -> BOOLEAN]
    /\ bar_req \in [Proc -> Nat]
    /\ rid \in [Proc -> Nat]
    /\ got \in [Proc -> SUBSET Message]
    /\ done \in [Proc -> Nat]
    /\ sent \in SUBSET Message
    /\ flight \in SUBSET Message
    /\ barriers \in [Proc -> Nat]

(* What the comment on NBX_cnt promises of the barrier: once any rank has  *)
(* left an exchange, every send of that exchange, of every rank, has been  *)
(* received; none is made afterwards.  So send buffers may be reused and   *)
(* no receiver misses a message.                                           *)
AllSendsReceived ==
    \A m \in flight : \A p \in Proc : m.round >= done[p]

(* "a wrong send/recv association": a rank never receives, in one          *)
(* exchange, a message that was sent in another, although ranks run one    *)
(* exchange apart and NBX_cnt wraps around.                                *)
RightAssociation ==
    \A p \in Proc : \A m \in got[p] : m.round + 1 = Begun(p)

(* A rank outside an exchange has exactly the messages addressed to it in  *)
(* the latest one, and the request ids it gave to msg_alloc (rid) counted  *)
(* each of them once, from 0: msg_alloc uses them as indices.              *)
Delivered ==
    \A p \in Proc : pc[p] = "app" =>
        /\ got[p] = Addressed(p, done[p])
        /\ rid[p] = Cardinality(got[p])

(* progressCommunication returns at once, before it looks at its own sends,*)
(* when the probe shows a message of another exchange, and that message    *)
(* stays at the head of its channel.  It can do no harm: such a message    *)
(* is the next exchange's, this rank already entered the barrier, and      *)
(* nothing of this exchange is still on its way to the rank.               *)
ForeignMeansComplete ==
    \A p \in Proc : pc[p] # "app" =>
        \A m \in Probeable(flight, p) : ~OfThisExchange(p, m) =>
            /\ m.round = Begun(p)
            /\ reached_bar_req[p]
            /\ Addressed(p, Begun(p)) \cap flight = {}

(* Every call returns: all ranks complete all their exchanges. *)
Termination == <>(\A p \in Proc : pc[p] = "app" /\ done[p] = MaxExchanges)

(* The protocol does what SparseExchange promises: a rank is inside while  *)
(* it polls, and the histories are the abstract ones.                      *)
Promise == INSTANCE SparseExchange WITH inside <- [p \in Proc |-> pc[p] # "app"]

KeepsPromise == Promise!Spec

=============================================================================
