------------------------------ MODULE SSendRecv ------------------------------
(***************************************************************************)
(* The semantic layer of Vcluster on one rank: SSendRecv, SSendRecvAsync   *)
(* and SSendRecvWait (and their P and P_op forms, which differ in what is  *)
(* merged, not in the bookkeeping).  Each call packs what it sends, hands  *)
(* it to sendrecvMultipleMessagesNBXAsync, collects what arrives in        *)
(* recv_buf[slot], and at its end sorts that by (processor, tag) and       *)
(* appends it to the caller's recv.  Slots are counted by NBX_prc_scnt and *)
(* NBX_prc_pcnt, apart from the counter of Vcluster_base.  SGather and     *)
(* SScatter do the same around one blocking exchange.                      *)
(*                                                                         *)
(* Vcluster_base is abstract here: a queued call receives all its messages,*)
(* of one source in the order of their tags (NBX and NBXQueue show when).  *)
(* All ranks make the same sequence of calls; peers are numbers, since the *)
(* sort compares ranks.  A call is named by its position in the program.   *)
(***************************************************************************)
EXTENDS Naturals, FiniteSets, Sequences, SequencesExt

CONSTANTS
    Peers,          \* ranks that send to this one
    NQUEUE,         \* slots
    Programs        \* the programs an application may be

\* in[s] is the number of messages peer s sends to this rank in the call.
\* SGather is the root's side, SGatherSend that of the other ranks.  lists is
\* the call whose prc and sz the caller passes again, 0 for new ones.
Ops == {"SSendRecv", "SSendRecvAsync", "SSendRecvWait", "SGather", "SGatherSend", "SScatter"}
Opts == {"NONE", "RECEIVE_KNOWN", "KNOWN_ELEMENT"}
ASSUME SemanticAssumption ==
    /\ Peers \subseteq Nat \ {0} /\ IsFiniteSet(Peers)
    /\ NQUEUE \in Nat \ {0}
    /\ Programs \subseteq Seq([op : Ops, opt : Opts, in : [Peers -> Nat], lists : Nat])

(***************************************************************************)
(* What an application has to observe for its calls not to disturb one     *)
(* another: the discipline of the unit tests, as conditions on programs    *)
(* that the theorems name.                                                 *)
(***************************************************************************)
MadeBefore(pr, op, c) == Cardinality({k \in 1..(c - 1) : pr[k].op = op})

\* Every asynchronous call made before call c has had its Wait.
Idle(pr, c) == MadeBefore(pr, "SSendRecvAsync", c) = MadeBefore(pr, "SSendRecvWait", c)

\* Blocking calls are made while none is queued.
BlockingAlone(pr) ==
    \A c \in DOMAIN pr : pr[c].op \notin {"SSendRecvAsync", "SSendRecvWait"} => Idle(pr, c)

\* A call that knows its peers is made alone, and gets one message from each.
WithPeersKnown(call) == call.op \in {"SSendRecv", "SSendRecvAsync"} /\ call.opt # "NONE"
KnownAlone(pr) ==
    \A c \in DOMAIN pr : WithPeersKnown(pr[c]) =>
        /\ Idle(pr, c)
        /\ pr[c].op = "SSendRecvAsync" /\ c < Len(pr) => pr[c + 1].op = "SSendRecvWait"
        /\ \A s \in Peers : pr[c].in[s] <= 1

\* Gathers and scatters are given new lists; in a scatter the root sends.
ListsNew(pr) == \A c \in DOMAIN pr : pr[c].lists = 0
OneRoot(pr) ==
    \A c \in DOMAIN pr : pr[c].op = "SScatter" =>
        \A s, t \in Peers : pr[c].in[s] # 0 /\ pr[c].in[t] # 0 => s = t

Disciplined ==
    \A pr \in Programs : BlockingAlone(pr) /\ KnownAlone(pr) /\ ListsNew(pr) /\ OneRoot(pr)

VARIABLES
    prog, ip,       \* the program; the next call
    pc,             \* "app", or inside the base: "sync", "wait", "blocking"
    scnt, pcnt,     \* NBX_prc_scnt, NBX_prc_pcnt
    mem,            \* mem[s]: the call whose packed data it holds, 0: deleted
    bi,             \* bi[s]: the call whose prc_recv NBX_prc_bi[s] names
    recv_buf, tags, \* what arrived in slot s, and the tags noted for it
    prc_recv,       \* the caller's list, per call
    send_buf,       \* the call whose pointers send_buf holds
    queue,          \* the base's queued calls, in order
    left,           \* messages not yet arrived
    open,           \* history: asynchronous calls without their Wait
    recv, finished  \* the caller's recv object, per call; calls finished

vars == <<prog, ip, pc, scnt, pcnt, mem, bi, recv_buf, tags, prc_recv, send_buf,
          queue, left, open, recv, finished>>

Slots == 0..(NQUEUE - 1)
Running(ops) == pc = "app" /\ ip <= Len(prog) /\ prog[ip].op \in ops

Inbox(c) == UNION {{[call |-> c, src |-> s, k |-> k] : k \in 1..prog[c].in[s]} : s \in Peers}

\* The messages of a call by processor and, for one processor, as sent.
Earlier(m, n) == m.src < n.src \/ (m.src = n.src /\ m.k < n.k)
Rank(m, c) == Cardinality({n \in Inbox(c) : Earlier(n, m)})
Expected(c) ==
    [i \in 1..Cardinality(Inbox(c)) |-> CHOOSE m \in Inbox(c) : Rank(m, c) = i - 1]
SourcesOf(msgs) == [i \in DOMAIN msgs |-> msgs[i].src]

\* What the root of a gather adds itself.
Own(c) == IF prog[c].op = "SGather" THEN <<[call |-> c, src |-> 0, k |-> 0]>> ELSE <<>>

Init ==
    /\ prog \in Programs
    /\ ip = 1 /\ pc = "app" /\ scnt = 0 /\ pcnt = 0 /\ send_buf = 0
    /\ mem = [s \in Slots |-> 0]
    /\ bi = [s \in Slots |-> 0]
    /\ recv_buf = [s \in Slots |-> <<>>]
    /\ tags = [s \in Slots |-> <<>>]
    /\ prc_recv = [c \in DOMAIN prog |-> <<>>]
    /\ queue = <<>> /\ left = {} /\ open = <<>>
    /\ recv = [c \in DOMAIN prog |-> <<>>]
    /\ finished = {}

----------------------------------------------------------------------------
\* msg_alloc_known for all receives of call c.  Both ways of receiving from
\* known processors pass &NBX_prc_bi, the first element of the array, so the
\* buffers are those of slot 0.
Blank(c) == [i \in DOMAIN Expected(c) |-> [call |-> 0, src |-> 0, k |-> 0]]
msg_alloc_known(c, bufs) ==
    IF Expected(c) = <<>> THEN bufs ELSE [bufs EXCEPT ![0] = Blank(c)]

\* Seeded fault: the buffers of the slot keep what an earlier call received.
reset_recv_buf_Nothing(bufs) == bufs

reset_recv_buf(bufs) == [bufs EXCEPT ![scnt] = <<>>]

ClearTags == [tags EXCEPT ![scnt] = <<>>]

(* prepare_send_buffer.  With RECEIVE_KNOWN the caller gives prc_recv, here *)
(* as an earlier exchange returned it, and the tags noted earlier stay.    *)
(* Knowing only the processors, the receives are posted by Wait.           *)
prepare_send_buffer(c) ==
    LET known == prog[c].opt # "NONE"
        posted == prog[c].opt # "RECEIVE_KNOWN" IN
    /\ scnt \in Slots
    /\ mem' = [mem EXCEPT ![scnt] = c]
    /\ bi' = [bi EXCEPT ![scnt] = c]
    /\ send_buf' = c
    /\ recv_buf' = IF prog[c].opt = "KNOWN_ELEMENT"
                   THEN msg_alloc_known(c, reset_recv_buf(recv_buf))
                   ELSE reset_recv_buf(recv_buf)
    /\ tags' = IF known THEN tags ELSE ClearTags
    /\ prc_recv' = [prc_recv EXCEPT ![c] = IF known THEN SourcesOf(Expected(c)) ELSE <<>>]
    /\ queue' = Append(queue, [call |-> c, slot |-> scnt, known |-> known, posted |-> posted,
                               data |-> c, rid |-> 0])
    /\ left' = left \cup Inbox(c)

SSendRecvAsync ==
    /\ Running({"SSendRecvAsync"})
    /\ prepare_send_buffer(ip)
    /\ scnt' = scnt + 1
    /\ open' = Append(open, ip)
    /\ ip' = ip + 1
    /\ UNCHANGED <<prog, pc, pcnt, recv, finished>>

SSendRecv ==
    /\ Running({"SSendRecv"})
    /\ prepare_send_buffer(ip)
    /\ pc' = "sync"
    /\ UNCHANGED <<prog, ip, scnt, pcnt, open, recv, finished>>

SSendRecvWait ==
    /\ Running({"SSendRecvWait"})
    /\ open # <<>>
    /\ pc' = "wait"
    /\ UNCHANGED <<prog, ip, scnt, pcnt, mem, bi, recv_buf, tags, prc_recv, send_buf, queue, left,
                   open, recv, finished>>

(* SGather and SScatter up to the end of the blocking exchange, which is   *)
(* refused, with nothing sent or received, while calls are queued (what a  *)
(* refusal does to the counters of the base is in NBXQueue).  Their        *)
(* base_info names the same slot; the caller's prc is not cleared.         *)
Collect ==
    /\ Running({"SGather", "SGatherSend", "SScatter"})
    /\ scnt \in Slots
    /\ recv_buf' = reset_recv_buf(recv_buf)
    /\ tags' = ClearTags
    /\ bi' = [bi EXCEPT ![scnt] = ip]
    /\ prc_recv' = [prc_recv EXCEPT ![ip] =
                       IF prog[ip].lists = 0 THEN <<>> ELSE prc_recv[prog[ip].lists]]
    /\ IF queue = <<>>
       THEN /\ queue' = <<[call |-> ip, slot |-> scnt, known |-> FALSE, posted |-> TRUE,
                           data |-> ip, rid |-> 0]>>
            /\ left' = Inbox(ip)
       ELSE UNCHANGED <<queue, left>>
    /\ pc' = "blocking"
    /\ UNCHANGED <<prog, ip, scnt, pcnt, mem, send_buf, open, recv, finished>>

----------------------------------------------------------------------------
(* Vcluster_base, by what it calls back.                                   *)

\* The queued call that message m, the oldest of its source, arrives for.
Arrives(m, j) ==
    /\ j \in DOMAIN queue /\ queue[j].call = m.call /\ queue[j].posted
    /\ \A n \in left : n.src = m.src /\ n.call = m.call => n.k >= m.k
    /\ \A i \in 1..(j - 1) : queue[i].known = queue[j].known =>
          \A n \in left : n.src = m.src => n.call # queue[i].call

\* msg_alloc: slot, position and processor are noted as messages arrive.
Receive(m, j) ==
    LET s == queue[j].slot
        ri == queue[j].rid IN
    /\ Arrives(m, j) /\ ~queue[j].known
    /\ recv_buf' = [recv_buf EXCEPT ![s] = [i \in 1..(ri + 1) |-> IF i <= ri THEN @[i] ELSE m]]
    /\ prc_recv' = [prc_recv EXCEPT ![bi[s]] = Append(@, m.src)]
    /\ tags' = [tags EXCEPT ![s] = Append(@, m.k)]
    /\ queue' = [queue EXCEPT ![j].rid = @ + 1]
    /\ left' = left \ {m}
    /\ UNCHANGED <<prog, ip, pc, scnt, pcnt, mem, bi, send_buf, open, recv, finished>>

\* A posted receive is filled in where it is, if the buffer is still there.
\* The data is what the sender's send_buf held when it was sent.
FillIn(m, j) ==
    LET pos == CHOOSE i \in DOMAIN Expected(m.call) : Expected(m.call)[i] = m IN
    /\ Arrives(m, j) /\ queue[j].known
    /\ recv_buf' = IF pos \in DOMAIN recv_buf[0]
                   THEN [recv_buf EXCEPT ![0][pos] = [m EXCEPT !.call = queue[j].data]]
                   ELSE recv_buf
    /\ left' = left \ {m}
    /\ UNCHANGED <<prog, ip, pc, scnt, pcnt, mem, bi, tags, prc_recv, send_buf, queue, open,
                   recv, finished>>

\* The sizes are known: post the receives and send what send_buf now holds.
PostAfterSizes(j) ==
    /\ pc \in {"sync", "wait"}
    /\ j \in DOMAIN queue /\ ~queue[j].posted
    /\ \A i \in 1..(j - 1) : \A n \in left : n.call # queue[i].call
    /\ queue' = [queue EXCEPT ![j].posted = TRUE, ![j].data = send_buf]
    /\ recv_buf' = msg_alloc_known(queue[j].call, recv_buf)
    /\ UNCHANGED <<prog, ip, pc, scnt, pcnt, mem, bi, tags, prc_recv, send_buf, left, open,
                   recv, finished>>

(* The base's Wait is complete, for all calls queued. *)
BaseWaitDone ==
    /\ \A j \in DOMAIN queue : queue[j].posted
    /\ left = {}
    /\ queue' = <<>>

----------------------------------------------------------------------------
\* Seeded fault: processors only.
Before_ProcOnly(a, b) == a.proc < b.proc

(* operator< of reorder_buffer. *)
Before(a, b) == a.proc < b.proc \/ (a.proc = b.proc /\ a.tag < b.tag)

\* (unsigned int)-1, beyond any tag.
NoTag == 1000000

(* reorder_buffer: sorting[i] is the old position of what comes i-th.  The *)
(* order of entries that compare equal is not specified.                   *)
Entry(prc, tag, i) ==
    [proc |-> prc[i], tag |-> IF i \in DOMAIN tag THEN tag[i] ELSE NoTag]
Sortings(buf, prc, tag) ==
    {f \in [DOMAIN buf -> DOMAIN buf] :
        /\ \A i, j \in DOMAIN buf : f[i] = f[j] => i = j
        /\ \A i, j \in DOMAIN buf :
              i < j => ~Before(Entry(prc, tag, f[j]), Entry(prc, tag, f[i]))}
reorder_buffer(buf, prc, tag) ==
    {[buf |-> [i \in DOMAIN f |-> buf[f[i]]], prc |-> [i \in DOMAIN f |-> prc[f[i]]]] :
        f \in Sortings(buf, prc, tag)}

\* prc as it is read up to index n: past its end there may be anything.
ReadTo(prc, n) ==
    {prc \o past : past \in [1..(IF n > Len(prc) THEN n - Len(prc) ELSE 0) -> Peers]}

\* The buffers of NBX_prc_pcnt, sorted by prc and tag, with the sorted prc.
Sorted(prc, tag) ==
    UNION {reorder_buffer(recv_buf[pcnt], full, tag) : full \in ReadTo(prc, Len(recv_buf[pcnt]))}

\* Call c returns with r merged into its recv.
Merge(c, r) ==
    /\ recv_buf' = [recv_buf EXCEPT ![pcnt] = r.buf]
    /\ prc_recv' = [prc_recv EXCEPT ![c] = r.prc \o SourcesOf(Own(c))]
    /\ recv' = [recv EXCEPT ![c] = r.buf \o Own(c)]
    /\ finished' = finished \cup {c}
    /\ pc' = "app"
    /\ ip' = ip + 1
    /\ UNCHANGED <<prog, bi, tags, send_buf, left>>

\* What follows Wait in call c, which uses tags and mem of slot s: sort,
\* delete the packed data, merge.
Process(c, s) ==
    /\ \E r \in Sorted(prc_recv[c], tags[s]) : Merge(c, r)
    /\ mem' = [mem EXCEPT ![s] = 0]

\* The blocking exchange is over, or was refused.  A scatter is not sorted;
\* a rank that only sends merges nothing.
EndCollect ==
    /\ pc = "blocking"
    /\ IF \E j \in DOMAIN queue : queue[j].call = ip THEN BaseWaitDone ELSE UNCHANGED queue
    /\ CASE prog[ip].op = "SGather" -> \E r \in Sorted(prc_recv[ip], tags[scnt]) : Merge(ip, r)
         [] prog[ip].op = "SScatter" -> Merge(ip, [buf |-> recv_buf[pcnt], prc |-> prc_recv[ip]])
         [] OTHER -> /\ pc' = "app" /\ ip' = ip + 1
                     /\ UNCHANGED <<prog, bi, tags, send_buf, left, recv_buf, prc_recv, recv, finished>>
    /\ UNCHANGED <<scnt, pcnt, mem, open>>

EndSSendRecv ==
    /\ pc = "sync"
    /\ BaseWaitDone
    /\ Process(ip, scnt)
    /\ UNCHANGED <<scnt, pcnt, open>>

\* Seeded faults: the counters never return to the first slot; the packed
\* data deleted is that of the newest call.
Counters_NoReset(s, p) == <<s, p + 1>>
PackedIn_Newest == scnt - 1

Counters(s, p) == IF s = p + 1 THEN <<0, 0>> ELSE <<s, p + 1>>
PackedIn == pcnt

EndSSendRecvWait ==
    /\ pc = "wait"
    /\ BaseWaitDone
    /\ Process(Head(open), PackedIn)
    /\ scnt' = Counters(scnt, pcnt)[1]
    /\ pcnt' = Counters(scnt, pcnt)[2]
    /\ open' = Tail(open)

----------------------------------------------------------------------------
Finished ==
    /\ pc = "app" /\ ip > Len(prog)
    /\ UNCHANGED vars

Next ==
    \/ SSendRecvAsync \/ SSendRecv \/ SSendRecvWait
    \/ \E m \in left, j \in DOMAIN queue : Receive(m, j) \/ FillIn(m, j)
    \/ \E j \in DOMAIN queue : PostAfterSizes(j)
    \/ EndSSendRecv \/ EndSSendRecvWait
    \/ Collect \/ EndCollect
    \/ Finished

Spec == Init /\ [][Next]_vars

----------------------------------------------------------------------------
Msgs == [call : 0..Len(prog), src : Peers \cup {0}, k : Nat]

(* Types of the layer's state; NBX_prc_pcnt indexes an existing slot. *)
TypeOK ==
    /\ ip \in 1..(Len(prog) + 1)
    /\ pc \in {"app", "sync", "wait", "blocking"}
    /\ scnt \in 0..NQUEUE /\ pcnt \in Slots /\ pcnt <= scnt
    /\ mem \in [Slots -> 0..Len(prog)]
    /\ bi \in [Slots -> 0..Len(prog)]
    /\ recv_buf \in [Slots -> Seq(Msgs)]
    /\ tags \in [Slots -> Seq(Nat)]
    /\ prc_recv \in [DOMAIN prog -> Seq(Peers \cup {0})]
    /\ recv \in [DOMAIN prog -> Seq(Msgs)]
    /\ finished \subseteq DOMAIN prog

(* A finished call has merged exactly its own messages, by processor and,  *)
(* for one processor, in the order they were sent, and its prc_recv tells  *)
(* where each came from: whatever order they arrived in, and whatever      *)
(* other calls were queued, waited for and finished in between.            *)
MergedInOrder ==
    \A c \in finished :
        /\ recv[c] = Expected(c) \o Own(c)
        /\ prc_recv[c] = SourcesOf(recv[c])

(* The packed data of a call exists from the call to its end and no longer:*)
(* while the base still sends from it, it is neither deleted nor lost      *)
(* because another call takes its slot; afterwards it does not leak.       *)
PackedWhileQueued ==
    {mem[s] : s \in Slots} \ {0} =
        {open[i] : i \in DOMAIN open} \cup (IF pc = "sync" THEN {ip} ELSE {})

(* How far the slots reach: the slots used are as many as the asynchronous *)
(* calls made since none was queued, whatever Waits, blocking calls and    *)
(* gathers came between.  So a call runs past the arrays exactly when it   *)
(* is number NQUEUE + 1 since then, and never earlier.                     *)
SlotsSinceIdle ==
    \E a \in 1..ip :
        /\ Idle(prog, a)
        /\ \A b \in (a + 1)..ip : ~Idle(prog, b)
        /\ MadeBefore(prog, "SSendRecvAsync", ip) = MadeBefore(prog, "SSendRecvAsync", a) + scnt

(* "you can queue at most NQUEUE": a call made while fewer are queued finds*)
(* a slot.  It does not, where a program always keeps a call queued.       *)
QueueHasRoom ==
    pc = "app" /\ ip <= Len(prog) /\ prog[ip].op # "SSendRecvWait" /\ Len(open) < NQUEUE
        => scnt < NQUEUE

=============================================================================
