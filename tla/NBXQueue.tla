------------------------------ MODULE NBXQueue ------------------------------
(***************************************************************************)
(* The queue of asynchronous exchanges of Vcluster_base: up to NQUEUE calls*)
(* of sendrecvMultipleMessagesNBXAsync are queued in slots, all of them are*)
(* completed by sendrecvMultipleMessagesNBXWait, and the application may   *)
(* call progressCommunication in between.  A call is of one of three kinds:*)
(*    NBX_UNKNOWN    receivers know nothing: synchronous sends and barrier,*)
(*    NBX_KNOWN      receivers know senders and sizes: plain send and recv,*)
(*    NBX_KNOWN_PRC  receivers know senders: sizes first, data in the Wait.*)
(* The slots share one vector of requests, one barrier request and one     *)
(* vector of received sizes.  NBX describes the blocking call in detail.   *)
(* The same vector holds the requests of the blocking calls with known     *)
(* receivers and of sum, max, min and allGather, which execute waits for;  *)
(* their collectives and the barriers use one communicator.                *)
(*                                                                         *)
(* The ranks run the same program, a sequence of calls; what each call     *)
(* sends is part of the program.                                           *)
(***************************************************************************)
EXTENDS MPINet, FiniteSets, Sequences, Integers, SequencesExt

CONSTANTS
    Proc,           \* the ranks
    NQUEUE,         \* slots
    nbx_cycle,      \* NBX_cnt counts modulo this
    Programs        \* the programs an application may be

\* A program is a sequence of calls [op, sends]: sends is a set of messages
\* [src, dst, sz], at most one between two ranks.
Ops == {"unknown", "known", "known_prc", "sync", "progress", "wait",
        "known_sync", "known_prc_sync", "reduce", "execute"}
ASSUME QueueAssumption ==
    /\ IsFiniteSet(Proc)
    /\ NQUEUE \in Nat \ {0}
    /\ nbx_cycle \in Nat \ {0}
    /\ Programs \subseteq
          Seq([op : Ops, sends : SUBSET [src : Proc, dst : Proc, sz : Nat \ {0}]])

(***************************************************************************)
(* What an application has to observe for its calls not to disturb one     *)
(* another: the discipline of the unit tests, as conditions on programs    *)
(* that the theorems about the queue name.                                 *)
(***************************************************************************)
Queues == {"unknown", "known", "known_prc"}
Executes == {"execute", "known_sync", "known_prc_sync"}

\* Calls a and c, a before c, with no Wait between them.
SameBatch(pr, a, c) == a < c /\ \A k \in (a + 1)..(c - 1) : pr[k].op # "wait"

\* Some call of ops is queued when call c is made.
Pending(pr, c, ops) == \E a \in 1..(c - 1) : pr[a].op \in ops /\ SameBatch(pr, a, c)

\* From progressCommunication on nothing is added to what is queued.
ProgressLast(pr) ==
    \A a, g, c \in DOMAIN pr :
        /\ a < g /\ g < c /\ SameBatch(pr, a, c)
        /\ pr[a].op = "unknown" /\ pr[g].op = "progress"
        => pr[c].op \notin Queues \cup {"reduce", "known_sync", "known_prc_sync"}

\* Calls of the barrier protocol are queued before those of known receivers.
UnknownFirst(pr) ==
    \A a, c \in DOMAIN pr :
        pr[a].op \in {"known", "known_prc"} /\ SameBatch(pr, a, c) => pr[c].op # "unknown"

\* No reduction while a call of the barrier protocol is queued.
ReduceAlone(pr) ==
    \A c \in DOMAIN pr : pr[c].op = "reduce" => ~Pending(pr, c, {"unknown"})

\* A reduction is waited for before the next exchange.
ReduceExecuted(pr) ==
    \A a, c \in DOMAIN pr :
        a < c /\ pr[a].op = "reduce" /\ pr[c].op \in {"unknown", "sync", "wait"}
        => \E e \in (a + 1)..(c - 1) : pr[e].op \in Executes

\* A call has at most one message between two ranks.
OneEach(pr) ==
    \A c \in DOMAIN pr : \A s, t \in pr[c].sends : s.src = t.src /\ s.dst = t.dst => s = t

Disciplined ==
    \A pr \in Programs :
        ProgressLast(pr) /\ UnknownFirst(pr) /\ ReduceAlone(pr) /\ ReduceExecuted(pr)

VARIABLES
    prog, eager,        \* the program; whether MPI_Isend completes by itself
    ip, pc, at,         \* next call; where the rank is in it; slot in Wait
    NBX_cnt, cnt_base, qcnt, NBX_active, reached, rid,
    bar_req, req, sz_recv_tmp,
    slotCall,           \* history: which call of the program a slot holds
    finished, got,      \* history: calls completed; messages received
    posts,              \* history: sending operations of each rank, in order
    flight, posted,     \* MPI: messages, posted receives
    colls, reducing     \* MPI: collective calls made; reductions under way

rank == <<ip, pc, at, NBX_cnt, cnt_base, qcnt, NBX_active, reached, rid,
          bar_req, req, sz_recv_tmp, slotCall, finished, got, posts>>
mpi == <<flight, posted, colls, reducing>>
vars == <<prog, eager, rank, mpi>>

Slots == 0..(NQUEUE - 1)
Call(p) == prog[ip[p]]
Running(p, ops) == pc[p] = "app" /\ ip[p] <= Len(prog) /\ Call(p).op \in ops

Init ==
    /\ prog \in Programs
    /\ eager \in BOOLEAN
    /\ ip = [p \in Proc |-> 1]
    /\ pc = [p \in Proc |-> "app"]
    /\ at = [p \in Proc |-> 0]
    /\ NBX_cnt = [p \in Proc |-> 0]
    /\ cnt_base = [p \in Proc |-> 0]
    /\ qcnt = [p \in Proc |-> -1]
    /\ NBX_active = [p \in Proc |-> [i \in Slots |-> "unactive"]]
    /\ reached = [p \in Proc |-> [i \in Slots |-> FALSE]]
    /\ rid = [p \in Proc |-> [i \in Slots |-> 0]]
    /\ bar_req = [p \in Proc |-> 0]
    /\ req = [p \in Proc |-> {}]
    /\ sz_recv_tmp = [p \in Proc |-> [where |-> 0, val |-> <<>>]]
    /\ slotCall = [p \in Proc |-> [i \in Slots |-> 0]]
    /\ finished = [p \in Proc |-> {}]
    /\ got = [p \in Proc |-> {}]
    /\ posts = [p \in Proc |-> 0]
    /\ flight = {}
    /\ posted = {}
    /\ colls = [p \in Proc |-> <<>>]
    /\ reducing = {}

----------------------------------------------------------------------------
(* Sends, receives and requests.                                           *)

\* The messages rank p sends in call c.  cls tells the tags of the barrier
\* protocol from those of send(), which start SEND_RECV_BASE higher; both
\* carry cnt.  part is "size" for the sizes of NBX_KNOWN_PRC.
Outgoing(p, c, cls, part, cnt) ==
    {[cls |-> cls, src |-> p, dst |-> s.dst, sz |-> s.sz, part |-> part, call |-> c,
      cnt |-> cnt, round |-> posts[p], idx |-> 0] : s \in {t \in prog[c].sends : t.src = p}}

\* prc_recv of a call, and the receives posted for it in that order.
Senders(p, c) == SetToSeq({s.src : s \in {t \in prog[c].sends : t.dst = p}})

Incoming(p, c, part, cnt, sizes) ==
    {[dst |-> p, src |-> Senders(p, c)[i], part |-> part, call |-> c, cnt |-> cnt,
      sz |-> sizes[i], pos |-> i, where |-> sz_recv_tmp'[p].where, round |-> posts[p]] :
        i \in DOMAIN Senders(p, c)}

Requests(op, things) == {[op |-> op, of |-> x] : x \in things}

\* A request is complete.  A plain send may be complete before its receive.
Complete(r, inFlight, waiting) ==
    CASE r.op = "issend" -> r.of \notin inFlight
      [] r.op = "isend"  -> eager \/ r.of \notin inFlight
      [] r.op = "irecv"  -> r.of \notin waiting
      [] r.op = "reduce" -> r.of \notin reducing

\* What MPI_Testall or MPI_Waitall finds, before or after this step's receive.
AllComplete(p, inFlight, waiting) == \A r \in req[p] : Complete(r, inFlight, waiting)

\* A posted receive r takes message m.
Takes(r, m) == m.cls = "known" /\ r.dst = m.dst /\ r.src = m.src /\ r.cnt = m.cnt

\* What a probe may show: what no posted receive takes.
Visible(p) == Probeable({m \in flight : \A r \in posted : ~Takes(r, m)}, p)

\* MPI matches the oldest message with the oldest receive that takes it.
Match(r, m) ==
    /\ r \in posted /\ m \in flight /\ Takes(r, m)
    /\ \A n \in flight : Takes(r, n) => ~SentBefore(n, m)
    /\ \A t \in posted : Takes(t, m) => t.round >= r.round
    /\ flight' = flight \ {m}
    /\ posted' = posted \ {r}
    /\ got' = [got EXCEPT ![r.dst] =
                  @ \cup {[call |-> r.call, part |-> r.part, sz |-> r.sz, msg |-> m]}]
    /\ sz_recv_tmp' =
          IF r.part = "size" /\ r.where = sz_recv_tmp[r.dst].where
          THEN [sz_recv_tmp EXCEPT ![r.dst].val[r.pos] = m.sz]
          ELSE sz_recv_tmp
    /\ UNCHANGED <<prog, eager, ip, pc, at, NBX_cnt, cnt_base, qcnt, NBX_active, reached,
                   rid, bar_req, req, slotCall, finished, posts, colls, reducing>>

\* Collective calls are matched by their order on the communicator.
Calls == [p \in Proc |-> Len(colls[p])]

\* A reduction that every rank has called writes its result, sooner or later.
Deliver(r) ==
    /\ r \in reducing
    /\ BarrierComplete(Calls, r.nth)
    /\ reducing' = reducing \ {r}
    /\ UNCHANGED <<prog, eager, rank, flight, posted, colls>>

----------------------------------------------------------------------------
(* Queueing a call.  slot is the one it gets.                              *)

NextCall(p) == ip' = [ip EXCEPT ![p] = @ + 1]

\* Seeded faults: no wrap around; a cycle one short of twice the slots.
NextCnt_NoWrap(c) == c + 1
NextCnt_Short(c) == (c + 1) % (nbx_cycle - 1)

NextCnt(c) == (c + 1) % nbx_cycle

Occupy(p, slot, kind) ==
    /\ qcnt' = [qcnt EXCEPT ![p] = slot]
    /\ NBX_active' = [NBX_active EXCEPT ![p][slot] = kind]
    /\ slotCall' = [slotCall EXCEPT ![p][slot] = ip[p]]
    /\ cnt_base' = [cnt_base EXCEPT ![p] = IF slot = 0 THEN NBX_cnt[p] ELSE @]
    /\ posts' = [posts EXCEPT ![p] = @ + 1]

\* Seeded fault: the requests held are forgotten for every slot.
queue_all_sends_Clears(p, slot) ==
    LET out == Outgoing(p, ip[p], "sparse", "data", NBX_cnt[p] + slot) IN
    /\ flight' = flight \cup out
    /\ req' = [req EXCEPT ![p] = Requests("issend", out)]

\* Seeded fault: MPI_Isend in place of MPI_Issend.
queue_all_sends_Isend(p, slot) ==
    LET out == Outgoing(p, ip[p], "sparse", "data", NBX_cnt[p] + slot) IN
    /\ flight' = flight \cup out
    /\ req' = [req EXCEPT ![p] = (IF slot = 0 THEN {} ELSE @) \cup Requests("isend", out)]

\* queue_all_sends: the requests held are forgotten for the first slot.
queue_all_sends(p, slot) ==
    LET out == Outgoing(p, ip[p], "sparse", "data", NBX_cnt[p] + slot) IN
    /\ flight' = flight \cup out
    /\ req' = [req EXCEPT ![p] = (IF slot = 0 THEN {} ELSE @) \cup Requests("issend", out)]

\* The asynchronous call does not look whether the slot exists; the blocking
\* one wants the queue to be empty, and goes straight to its loop.
QueueUnknown(p) ==
    LET slot == qcnt[p] + 1 IN
    /\ Running(p, {"unknown", "sync"})
    /\ Call(p).op = "sync" => slot = 0
    /\ slot \in Slots
    /\ queue_all_sends(p, slot)
    /\ Occupy(p, slot, "unknown")
    /\ rid' = [rid EXCEPT ![p][slot] = 0]
    /\ reached' = [reached EXCEPT ![p][slot] = FALSE]
    /\ IF Call(p).op = "sync"
       THEN pc' = [pc EXCEPT ![p] = "wait"] /\ UNCHANGED ip
       ELSE NextCall(p) /\ UNCHANGED pc
    /\ at' = [at EXCEPT ![p] = 0]
    /\ UNCHANGED <<prog, eager, NBX_cnt, bar_req, sz_recv_tmp, finished, got, posted, colls, reducing>>

\* send() and recv() for call c of rank p, which holds the requests held.
PostKnown(p, held, c, part, cnt, sizes) ==
    LET out == Outgoing(p, c, "known", part, cnt)
        in == Incoming(p, c, part, cnt, sizes) IN
    /\ flight' = flight \cup out
    /\ posted' = posted \cup in
    /\ req' = [req EXCEPT ![p] = held \cup Requests("isend", out) \cup Requests("irecv", in)]

\* sz_recv: the sizes of the messages from prc_recv.
AnnouncedSizes(p, c) ==
    [i \in DOMAIN Senders(p, c) |->
        (CHOOSE s \in prog[c].sends : s.src = Senders(p, c)[i] /\ s.dst = p).sz]

\* sz_recv_tmp.resize(n): a longer vector may move in memory.
Resized(v, n) ==
    IF n <= Len(v.val) THEN {v}
    ELSE {[where |-> w, val |-> [i \in 1..n |-> IF i <= Len(v.val) THEN v.val[i] ELSE 0]] :
              w \in {v.where, v.where + 1}}

QueueKnown(p) ==
    LET slot == qcnt[p] + 1 IN
    /\ Running(p, {"known", "known_prc"})
    /\ slot \in Slots
    /\ IF Call(p).op = "known"
       THEN /\ UNCHANGED sz_recv_tmp
            /\ PostKnown(p, req[p], ip[p], "data", NBX_cnt[p], AnnouncedSizes(p, ip[p]))
       ELSE /\ \E v \in Resized(sz_recv_tmp[p], Len(Senders(p, ip[p]))) :
                  sz_recv_tmp' = [sz_recv_tmp EXCEPT ![p] = v]
            /\ PostKnown(p, req[p], ip[p], "size", NBX_cnt[p], [i \in DOMAIN Senders(p, ip[p]) |-> 0])
    /\ Occupy(p, slot, Call(p).op)
    /\ NextCall(p)
    /\ UNCHANGED <<prog, eager, pc, at, NBX_cnt, reached, rid, bar_req, finished, got, colls, reducing>>

\* The error returns: NBX_prc_qcnt stays incremented.
Refused(p) ==
    /\ \/ Running(p, {"known", "known_prc"}) /\ qcnt[p] + 1 >= NQUEUE
       \/ Running(p, {"sync"}) /\ qcnt[p] + 1 # 0
    /\ qcnt' = [qcnt EXCEPT ![p] = @ + 1]
    /\ NextCall(p)
    /\ UNCHANGED <<prog, eager, pc, at, NBX_cnt, cnt_base, NBX_active, reached, rid, bar_req, req,
                   sz_recv_tmp, slotCall, finished, got, posts, flight, posted, colls, reducing>>

----------------------------------------------------------------------------
(* progressCommunication.                                                  *)

\* The slot a tag names, for this rank.
SlotOf(p, m) == m.cnt - cnt_base[p]

\* Seeded fault: no more receives in a slot whose barrier was entered.
Polling_StopsAtBarrier(p, i) ==
    i \in Slots /\ NBX_active[p][i] = "unknown" /\ ~reached[p][i]

Polling(p, i) == i \in Slots /\ NBX_active[p][i] = "unknown"

\* The loop over the slots.  The first late slots are told that the sends are
\* still pending.  Once MPI_Testall answered true all requests are null, so it
\* answers true for the slots that follow; with no request it is not asked.
EnterBarriers(p) ==
    \E late \in 0..NQUEUE :
        LET now == {i \in Slots : i >= late /\ Polling(p, i) /\ ~reached[p][i]} IN
        /\ late # 0 => req[p] # {}
        /\ now # {} => AllComplete(p, flight', posted')
        /\ reached' = [reached EXCEPT ![p] = [i \in Slots |-> i \in now \/ @[i]]]
        /\ colls' = [colls EXCEPT ![p] = @ \o [i \in 1..Cardinality(now) |-> "barrier"]]
        /\ bar_req' = [bar_req EXCEPT ![p] = IF now = {} THEN @ ELSE Len(colls'[p])]

ProgressReceive(p, m) ==
    /\ m \in Visible(p)
    /\ Polling(p, SlotOf(p, m))
    /\ SlotOf(p, m) <= qcnt[p]
    /\ flight' = flight \ {m}
    /\ got' = [got EXCEPT ![p] =
                  @ \cup {[call |-> slotCall[p][SlotOf(p, m)], part |-> "data", sz |-> m.sz, msg |-> m]}]
    /\ rid' = [rid EXCEPT ![p][SlotOf(p, m)] = @ + 1]
    /\ UNCHANGED posted
    /\ EnterBarriers(p)

ProgressForeign(p, m) ==
    /\ m \in Visible(p)
    /\ ~Polling(p, SlotOf(p, m))
    /\ UNCHANGED <<flight, posted, got, rid, reached, colls, bar_req>>

\* No message, or one in a slot that is active but not queued: the tag is out
\* of the range of the queue.
ProgressNothing(p) ==
    /\ UNCHANGED <<flight, posted, got, rid>>
    /\ EnterBarriers(p)

progressCommunication(p) ==
    /\ \/ \E m \in flight : ProgressReceive(p, m) \/ ProgressForeign(p, m)
       \/ ProgressNothing(p)
    /\ UNCHANGED <<prog, eager, at, NBX_cnt, cnt_base, qcnt, NBX_active, req, sz_recv_tmp,
                   slotCall, finished, posts, reducing>>

UserProgress(p) ==
    /\ Running(p, {"progress"})
    /\ progressCommunication(p)
    /\ NextCall(p)
    /\ UNCHANGED pc

----------------------------------------------------------------------------
(* sendrecvMultipleMessagesNBXWait, and the loop of the blocking call.     *)

\* Go on with the first slot from j that is not unactive, or return.
GoOn(p, j) ==
    LET rest == {i \in Slots : i >= j /\ NBX_active'[p][i] # "unactive"} IN
    IF rest = {}
    THEN /\ pc' = [pc EXCEPT ![p] = "app"]
         /\ at' = [at EXCEPT ![p] = 0]
         /\ qcnt' = [qcnt EXCEPT ![p] = -1]
         /\ NextCall(p)
    ELSE /\ pc' = [pc EXCEPT ![p] = "wait"]
         /\ at' = [at EXCEPT ![p] = Min(rest)]
         /\ UNCHANGED <<ip, qcnt>>

Wait(p) ==
    /\ Running(p, {"wait"})
    /\ UNCHANGED NBX_active
    /\ GoOn(p, 0)
    /\ UNCHANGED <<prog, eager, NBX_cnt, cnt_base, reached, rid, bar_req, req, sz_recv_tmp,
                   slotCall, finished, got, posts, flight, posted, colls, reducing>>

InSlot(p, kind) == pc[p] = "wait" /\ NBX_active[p][at[p]] = kind
Held(p) == slotCall[p][at[p]]

\* Seeded fault: the requests of reductions are not waited for.
execute_Sends(p) == \A r \in req[p] : r.op = "reduce" \/ Complete(r, flight, posted)

\* execute(): wait for every request held, whichever slot it belongs to.
execute(p) == AllComplete(p, flight, posted)

\* The sizes are here: exchange the data they announce.
WaitSizes(p) ==
    /\ InSlot(p, "known_prc")
    /\ execute(p)
    /\ NBX_cnt' = [NBX_cnt EXCEPT ![p] = NextCnt(@)]
    /\ UNCHANGED sz_recv_tmp
    /\ PostKnown(p, {}, Held(p), "data", NBX_cnt'[p], sz_recv_tmp[p].val)
    /\ NBX_active' = [NBX_active EXCEPT ![p][at[p]] = "known"]
    /\ posts' = [posts EXCEPT ![p] = @ + 1]
    /\ UNCHANGED <<prog, eager, ip, pc, at, cnt_base, qcnt, reached, rid, bar_req, slotCall,
                   finished, got, colls, reducing>>

\* The slot is complete.
Free(p) ==
    /\ req' = [req EXCEPT ![p] = {}]
    /\ NBX_cnt' = [NBX_cnt EXCEPT ![p] = NextCnt(@)]
    /\ finished' = [finished EXCEPT ![p] = @ \cup {Held(p)}]
    /\ UNCHANGED <<prog, eager, cnt_base, reached, rid, sz_recv_tmp, slotCall, got, posts,
                   flight, posted, colls, reducing>>

WaitKnown(p) ==
    /\ InSlot(p, "known")
    /\ execute(p)
    /\ Free(p)
    /\ NBX_active' = [NBX_active EXCEPT ![p][at[p]] = "unactive"]
    /\ GoOn(p, at[p] + 1)
    /\ UNCHANGED bar_req

WaitProgress(p) ==
    /\ InSlot(p, "unknown")
    /\ progressCommunication(p)
    /\ pc' = [pc EXCEPT ![p] = "test"]
    /\ UNCHANGED ip

\* Seeded fault: MPI_Test before the barrier was entered, on a null request.
BarrierPassed_NullRequest(p) == BarrierComplete(Calls, bar_req[p])

\* MPI_Test on the barrier request, whichever slot it was made for.
BarrierPassed(p) == reached[p][at[p]] /\ BarrierComplete(Calls, bar_req[p])

\* The blocking call leaves slot 0 marked as active.
WaitUnknown(p) ==
    /\ pc[p] = "test"
    /\ BarrierPassed(p)
    /\ Free(p)
    /\ bar_req' = [bar_req EXCEPT ![p] = 0]
    /\ IF Call(p).op = "sync"
       THEN /\ pc' = [pc EXCEPT ![p] = "app"]
            /\ qcnt' = [qcnt EXCEPT ![p] = -1]
            /\ NextCall(p)
            /\ UNCHANGED <<at, NBX_active>>
       ELSE /\ NBX_active' = [NBX_active EXCEPT ![p][at[p]] = "unactive"]
            /\ GoOn(p, at[p] + 1)

WaitAgain(p) ==
    /\ pc[p] = "test"
    /\ reached[p][at[p]] => bar_req[p] # 0
    /\ pc' = [pc EXCEPT ![p] = "wait"]
    /\ UNCHANGED <<prog, eager, ip, at, NBX_cnt, cnt_base, qcnt, NBX_active, reached, rid, bar_req,
                   req, sz_recv_tmp, slotCall, finished, got, posts, flight, posted, colls, reducing>>

----------------------------------------------------------------------------
(* The blocking calls with known receivers, which use no slot, and the     *)
(* reductions with their execute.                                          *)
StartKnownSync(p) ==
    LET sizes == Call(p).op = "known_prc_sync" IN
    /\ Running(p, {"known_sync", "known_prc_sync"})
    /\ IF sizes
       THEN /\ \E v \in Resized(sz_recv_tmp[p], Len(Senders(p, ip[p]))) :
                  sz_recv_tmp' = [sz_recv_tmp EXCEPT ![p] = v]
            /\ PostKnown(p, req[p], ip[p], "size", NBX_cnt[p], [i \in DOMAIN Senders(p, ip[p]) |-> 0])
       ELSE /\ UNCHANGED sz_recv_tmp
            /\ PostKnown(p, req[p], ip[p], "data", NBX_cnt[p], AnnouncedSizes(p, ip[p]))
    /\ posts' = [posts EXCEPT ![p] = @ + 1]
    /\ pc' = [pc EXCEPT ![p] = IF sizes THEN "sizes" ELSE "data"]
    /\ UNCHANGED <<prog, eager, ip, at, NBX_cnt, cnt_base, qcnt, NBX_active, reached, rid, bar_req,
                   slotCall, finished, got, colls, reducing>>

KnownSyncData(p) ==
    /\ pc[p] = "sizes"
    /\ execute(p)
    /\ NBX_cnt' = [NBX_cnt EXCEPT ![p] = NextCnt(@)]
    /\ UNCHANGED sz_recv_tmp
    /\ PostKnown(p, {}, ip[p], "data", NBX_cnt'[p], sz_recv_tmp[p].val)
    /\ posts' = [posts EXCEPT ![p] = @ + 1]
    /\ pc' = [pc EXCEPT ![p] = "data"]
    /\ UNCHANGED <<prog, eager, ip, at, cnt_base, qcnt, NBX_active, reached, rid, bar_req, slotCall,
                   finished, got, colls, reducing>>

EndKnownSync(p) ==
    /\ pc[p] = "data"
    /\ execute(p)
    /\ NBX_cnt' = [NBX_cnt EXCEPT ![p] = NextCnt(@)]
    /\ req' = [req EXCEPT ![p] = {}]
    /\ finished' = [finished EXCEPT ![p] = @ \cup {ip[p]}]
    /\ pc' = [pc EXCEPT ![p] = "app"]
    /\ NextCall(p)
    /\ UNCHANGED <<prog, eager, at, cnt_base, qcnt, NBX_active, reached, rid, bar_req, sz_recv_tmp,
                   slotCall, got, posts, mpi>>

\* sum, max, min, allGather: one collective call, one request.
Reduce(p) ==
    LET r == [by |-> p, call |-> ip[p], nth |-> Len(colls[p]) + 1] IN
    /\ Running(p, {"reduce"})
    /\ colls' = [colls EXCEPT ![p] = Append(@, "reduce")]
    /\ reducing' = reducing \cup {r}
    /\ req' = [req EXCEPT ![p] = @ \cup Requests("reduce", {r})]
    /\ NextCall(p)
    /\ UNCHANGED <<prog, eager, pc, at, NBX_cnt, cnt_base, qcnt, NBX_active, reached, rid, bar_req,
                   sz_recv_tmp, slotCall, finished, got, posts, flight, posted>>

Execute(p) ==
    /\ Running(p, {"execute"})
    /\ execute(p)
    /\ req' = [req EXCEPT ![p] = {}]
    /\ NextCall(p)
    /\ UNCHANGED <<prog, eager, pc, at, NBX_cnt, cnt_base, qcnt, NBX_active, reached, rid, bar_req,
                   sz_recv_tmp, slotCall, finished, got, posts, mpi>>

----------------------------------------------------------------------------
Finished ==
    /\ \A p \in Proc : pc[p] = "app" /\ ip[p] > Len(prog)
    /\ UNCHANGED vars

Step(p) ==
    \/ QueueUnknown(p) \/ QueueKnown(p) \/ Refused(p) \/ UserProgress(p)
    \/ Wait(p) \/ WaitSizes(p) \/ WaitKnown(p)
    \/ WaitProgress(p) \/ WaitUnknown(p) \/ WaitAgain(p)
    \/ StartKnownSync(p) \/ KnownSyncData(p) \/ EndKnownSync(p)
    \/ Reduce(p) \/ Execute(p)

Next ==
    \/ \E p \in Proc : Step(p)
    \/ \E r \in posted, m \in flight : Match(r, m)
    \/ \E r \in reducing : Deliver(r)
    \/ Finished

Spec == Init /\ [][Next]_vars

\* MPI tells a rank that waits something new: a message is there, its sends
\* have been received, or the barrier is complete.
Learns(p) ==
    \/ WaitProgress(p) /\ <<flight, reached>>' # <<flight, reached>>
    \/ WaitUnknown(p)

(* Fairness: as in NBX, ranks keep running and repeated MPI calls see what *)
(* is there.  A rank can learn only finitely often in a program, so it is  *)
(* enough that it does not poll forever with something to learn again and  *)
(* again.  A receive that is posted is matched without further calls,      *)
(* since the ranks are inside MPI_Waitall or keep polling.                 *)
Fairness ==
    /\ \A p \in Proc :
        /\ WF_vars(Step(p))
        /\ SF_vars(Learns(p))
    /\ WF_vars(\E r \in posted, m \in flight : Match(r, m))
    /\ WF_vars(\E r \in reducing : Deliver(r))

FairSpec == Spec /\ Fairness

----------------------------------------------------------------------------
Kinds == {"unactive", "unknown", "known", "known_prc"}

(* Types of the state of the queue. *)
TypeOK ==
    /\ ip \in [Proc -> 1..(Len(prog) + 1)]
    /\ pc \in [Proc -> {"app", "wait", "test", "sizes", "data"}]
    /\ at \in [Proc -> Slots]
    /\ NBX_cnt \in [Proc -> 0..(nbx_cycle - 1)]
    /\ cnt_base \in [Proc -> 0..(nbx_cycle - 1)]
    /\ qcnt \in [Proc -> -1..Len(prog)]
    /\ NBX_active \in [Proc -> [Slots -> Kinds]]
    /\ reached \in [Proc -> [Slots -> BOOLEAN]]
    /\ rid \in [Proc -> [Slots -> Nat]]
    /\ slotCall \in [Proc -> [Slots -> 0..Len(prog)]]
    /\ finished \in [Proc -> SUBSET (1..Len(prog))]
    /\ bar_req \in [Proc -> Nat]
    /\ colls \in [Proc -> Seq({"barrier", "reduce"})]
    /\ \A r \in posted : r.dst \in Proc /\ r.src \in Proc
    /\ \A m \in flight : m.dst \in Proc /\ m.src \in Proc

(* "when all the processor call MPI_Ibarrier all send has been received":  *)
(* once a rank has completed a call of the barrier protocol, no message of *)
(* that call is in flight, although the slots share one request vector and *)
(* one barrier request.                                                    *)
QueueSendsReceived ==
    \A m \in flight : m.cls = "sparse" => \A p \in Proc : m.call \notin finished[p]

(* Wait empties the shared request vector after every slot.  Nothing that  *)
(* is still under way is forgotten by that: every synchronous send not yet *)
(* received, every posted receive and every reduction has its request.     *)
NoRequestForgotten ==
    /\ \A m \in flight : m.cls = "sparse" => \E r \in req[m.src] : r.op = "issend" /\ r.of = m
    /\ \A w \in posted : \E r \in req[w.dst] : r.op = "irecv" /\ r.of = w
    /\ \A x \in reducing : \E r \in req[x.by] : r.op = "reduce" /\ r.of = x

(* A message is received for the call, and the part of the call, that it   *)
(* was sent in: tags, slots and the order of posted receives agree between *)
(* ranks that are a whole batch apart, and when NBX_cnt wraps around.      *)
QueueRightAssociation ==
    \A p \in Proc : \A g \in got[p] : g.call = g.msg.call /\ g.part = g.msg.part

(* A completed call has delivered every message of it to the rank, and a   *)
(* known receive was given the size that arrives.                          *)
QueueDelivered ==
    \A p \in Proc : \A c \in finished[p] : \A s \in prog[c].sends : s.dst = p =>
        \E g \in got[p] :
            /\ g.call = c /\ g.part = "data" /\ g.sz = s.sz
            /\ g.msg.call = c /\ g.msg.part = "data" /\ g.msg.src = s.src

(* MPI demands that all ranks make their collective calls in one order.    *)
(* The barriers are entered inside progressCommunication, at a moment that *)
(* differs between ranks; no reduction may fall on both sides of it.       *)
CollectivesMatch ==
    \A p, q \in Proc : \A i \in DOMAIN colls[p] \cap DOMAIN colls[q] :
        colls[p][i] = colls[q][i]

(* Whoever is past execute has the results of the reductions before it.    *)
ReductionsExecuted ==
    \A r \in reducing : \A e \in DOMAIN prog :
        prog[e].op = "execute" /\ e > r.call => ip[r.by] <= e

(* The program runs to its end on every rank. *)
QueueTermination == <>(\A p \in Proc : ip[p] > Len(prog))

=============================================================================
