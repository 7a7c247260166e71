-------------------------------- MODULE Wire --------------------------------
(***************************************************************************)
(* What a message looks like on the wire: its tag, which names the exchange*)
(* and the slot it belongs to, and its size, which both ends work out for  *)
(* themselves, as a number of elements of an MPI type that must fit an int.*)
(* Senders and one receiver run the same program of exchanges (a batch of  *)
(* unknown calls and its Wait), plain sends and receives, blocking known   *)
(* calls and collectives.  When a rank may leave an exchange is NBX's      *)
(* subject; here it is taken from there.                                   *)
(*                                                                         *)
(* The wire is a set: a probe may show messages of different senders in    *)
(* any order.  Only receives that name a tag go by the order of sending.   *)
(***************************************************************************)
EXTENDS Integers, Sequences

CONSTANTS
    INT_MAX,        \* 2147483647: the largest count that MPI takes
    tag_ub,         \* the largest tag that MPI takes, MPI_TAG_UB
    SEND_SPARSE,    \* 8192: the tags of exchanges begin here
    SEND_RECV_BASE, \* 4096: those of send and recv
    Stride,         \* 131072: the tags of one exchange
    NQUEUE,         \* slots of the queue
    StructSize,     \* sizeof of a type that MPI does not know
    Programs        \* programs, sequences of calls

\* How many exchanges the tags can tell apart.
nbx_cycle_NoQueue == (tag_ub - SEND_SPARSE - Stride) \div Stride

nbx_cycle == (tag_ub - SEND_SPARSE - Stride - NQUEUE * Stride) \div Stride

\* Primitive C types, the MPI types the wrappers are specialised to, and the
\* sizes of both.
Sizeof ==
    [char |-> 1, uchar |-> 1, short |-> 2, ushort |-> 2, int |-> 4, uint |-> 4,
     float |-> 4, long |-> 8, size_t |-> 8, double |-> 8, struct |-> StructSize]
Specialised ==
    [char |-> "MPI_CHAR", uchar |-> "MPI_UNSIGNED_CHAR", short |-> "MPI_SHORT",
     ushort |-> "MPI_UNSIGNED_SHORT", int |-> "MPI_INT", uint |-> "MPI_UNSIGNED",
     float |-> "MPI_FLOAT", long |-> "MPI_LONG", size_t |-> "MPI_UNSIGNED_LONG",
     double |-> "MPI_DOUBLE"]
Primitive == DOMAIN Specialised
MPISize ==
    [MPI_BYTE |-> 1, MPI_CHAR |-> 1, MPI_UNSIGNED_CHAR |-> 1, MPI_SHORT |-> 2,
     MPI_UNSIGNED_SHORT |-> 2, MPI_INT |-> 4, MPI_UNSIGNED |-> 4, MPI_FLOAT |-> 4,
     MPI_LONG |-> 8, MPI_UNSIGNED_LONG |-> 8, MPI_DOUBLE |-> 8]

\* A call: its kind; for an exchange the lists, one for each slot, that map
\* positions to sizes; the type, number of elements and tag of the others.
Kinds == {"exchange", "memory", "vector", "known", "allGather", "Bcast", "BcastProps", "reduce"}

\* What an application may ask for.  Sizes are bounded so that a message fits
\* an int when counted in doubles; tags stay below those of exchanges.
Legal(call) ==
    /\ call.op \in Kinds /\ call.T \in DOMAIN Sizeof /\ call.n \in Nat
    /\ call.props \in Seq(Nat)
    /\ call.tag \in 0 .. SEND_RECV_BASE - 1
    /\ call.op = "exchange" =>
          /\ DOMAIN call.lists = 1 .. Len(call.lists)
          /\ Len(call.lists) \in 1 .. NQUEUE
          /\ \A q \in DOMAIN call.lists :
                /\ DOMAIN call.lists[q] \subseteq 0 .. Stride - 1
                /\ \A i \in DOMAIN call.lists[q] : call.lists[q][i] \in 1 .. 8 * INT_MAX - 1
    /\ call.op = "reduce" => call.T \in Primitive

ASSUME WireAssumption ==
    /\ SEND_SPARSE \in Nat /\ SEND_RECV_BASE \in Nat /\ Stride \in Nat \ {0}
    /\ 2 * SEND_RECV_BASE <= SEND_SPARSE /\ SEND_RECV_BASE < Stride
    /\ INT_MAX \in Nat \ {0} /\ NQUEUE \in Nat \ {0} /\ StructSize \in Nat \ {0}
    /\ tag_ub \in Nat /\ nbx_cycle >= 2 * NQUEUE
    /\ \A p \in Programs : DOMAIN p = 1 .. Len(p) /\ \A k \in DOMAIN p : Legal(p[k])

\* What the theorems ask of an application.  Exchanges hold the ranks together:
\* from one up to the next, the slots of both included, or up to any plain
\* call, the counter must not come round.
Width(call) == IF call.op = "exchange" THEN Len(call.lists) ELSE 1

ShortRuns ==
    \A p \in Programs : \A j, k \in DOMAIN p :
        /\ j < k /\ p[j].op = "exchange"
        /\ \A i \in j + 1 .. k - 1 : p[i].op # "exchange"
        => Width(p[j]) + (k - j - 1) + Width(p[k]) <= nbx_cycle

\* Messages below the sizes at which the two ends of a known receive part, and
\* collectives whose count fits an int.
Small(call) ==
    /\ call.op \in {"memory", "known"} => call.n < INT_MAX
    /\ call.op \in {"vector", "Bcast"} =>
          IF call.T \in Primitive THEN call.n <= INT_MAX ELSE call.n * Sizeof[call.T] < INT_MAX
    /\ call.op = "allGather" => Sizeof[call.T] <= INT_MAX
    /\ call.op = "BcastProps" => \A i \in DOMAIN call.props : call.n * call.props[i] <= INT_MAX
SmallCalls == \A p \in Programs : \A k \in DOMAIN p : Small(p[k])

Sides == {"senders", "receiver"}

VARIABLES
    prog,           \* the program
    at,             \* per side: the call it is about to make or is in
    inside,         \* per side: whether it is in an exchange
    NBX_cnt,        \* per side; in an exchange also NBX_prc_cnt_base
    wire,           \* messages not received yet
    received,       \* what the receiver was given
    aborted         \* MPI reported an error: MPI_SAFE_CALL ended the program

vars == <<prog, at, inside, NBX_cnt, wire, received, aborted>>

----------------------------------------------------------------------------
\* Counts.

\* The conversion of a size_t to the int that MPI takes.
AsInt(n) ==
    IF n <= INT_MAX THEN n
    ELSE ((n + INT_MAX + 1) % (2 * (INT_MAX + 1))) - (INT_MAX + 1)

Part(type, n) == [type |-> type, count |-> AsInt(n)]
BytesOf(part) == part.count * MPISize[part.type]

\* The synchronous sends of an exchange.
Sparse_Truncated(sz) ==
    IF sz > INT_MAX THEN Part("MPI_DOUBLE", sz \div 8) ELSE Part("MPI_BYTE", sz)

Sparse(sz) ==
    IF sz > INT_MAX THEN Part("MPI_DOUBLE", sz \div 8 + 1) ELSE Part("MPI_BYTE", sz)

MPI_IsendWB(sz) ==
    IF sz <= INT_MAX THEN Part("MPI_BYTE", sz) ELSE Part("MPI_DOUBLE", sz \div 8)

MPI_IrecvWB(sz) ==
    IF sz < INT_MAX THEN Part("MPI_BYTE", sz) ELSE Part("MPI_DOUBLE", sz \div 256)

\* A vector of n elements: counted in elements of its own MPI type, or bytes.
MPI_IsendW(T, n) ==
    IF T \in Primitive THEN Part(Specialised[T], n) ELSE MPI_IsendWB(n * Sizeof[T])

MPI_IrecvW_NoSizeof(T, n) ==
    IF T \in Primitive THEN Part(Specialised[T], n) ELSE MPI_IrecvWB(n)

MPI_IrecvW(T, n) ==
    IF T \in Primitive THEN Part(Specialised[T], n) ELSE MPI_IrecvWB(n * Sizeof[T])
MPI_IAllGatherW(T, n) ==
    IF T \in Primitive THEN Part(Specialised[T], n) ELSE Part("MPI_BYTE", n * Sizeof[T])
MPI_IBcastW(T, n) ==
    IF T \in Primitive THEN Part(Specialised[T], n) ELSE Part("MPI_BYTE", n * Sizeof[T])
MPI_IallreduceW(T) == Part(Specialised[T], 1)

\* The parts of a collective and what each should amount to.  A vector stored
\* property by property is broadcast with one request for each property.
Parts(call) ==
    CASE call.op = "allGather" -> <<[part |-> MPI_IAllGatherW(call.T, 1), sz |-> Sizeof[call.T]]>>
      [] call.op = "Bcast" -> <<[part |-> MPI_IBcastW(call.T, call.n), sz |-> call.n * Sizeof[call.T]]>>
      [] call.op = "BcastProps" ->
            [i \in DOMAIN call.props |->
                [part |-> Part("MPI_BYTE", call.n * call.props[i]), sz |-> call.n * call.props[i]]]
      [] call.op = "reduce" -> <<[part |-> MPI_IallreduceW(call.T), sz |-> Sizeof[call.T]]>>

----------------------------------------------------------------------------
\* Tags.

SparseTag(cnt, slot, i) == SEND_SPARSE + (cnt + slot) * Stride + i

\* What a plain send or receive puts on the wire.
PlainTag(call, cnt) ==
    SEND_RECV_BASE + (IF call.op = "known" THEN SEND_SPARSE + cnt * Stride ELSE call.tag)

\* Division as in C, towards zero.
CDiv(a, b) == IF a >= 0 THEN a \div b ELSE -((-a) \div b)

\* The slot a tag maps to; unsigned, so what is below 0 is above NQUEUE.
SlotOf(tag, base) == CDiv(tag - SEND_SPARSE, Stride) - base

\* The tags of a batch of n calls.
InWindow_Open(tag, base, n) == TRUE

InWindow_Short(tag, base, n) ==
    SEND_SPARSE + base * Stride <= tag /\ tag < SEND_SPARSE + (base + n - 1) * Stride

InWindow(tag, base, n) ==
    SEND_SPARSE + base * Stride <= tag /\ tag < SEND_SPARSE + (base + n) * Stride

NextCnt_NoWrap(cnt, n) == cnt + n

NextCnt(cnt, n) == (cnt + n) % nbx_cycle

----------------------------------------------------------------------------
\* A program runs after any number of exchanges.
Init ==
    /\ prog \in Programs
    /\ at = [s \in Sides |-> 1]
    /\ inside = [s \in Sides |-> FALSE]
    /\ \E cnt \in 0 .. nbx_cycle - 1 : NBX_cnt = [s \in Sides |-> cnt]
    /\ wire = {}
    /\ received = {}
    /\ aborted = FALSE

AtCall(s, ops) == ~aborted /\ at[s] \in DOMAIN prog /\ prog[at[s]].op \in ops
Call(s) == prog[at[s]]

\* Only an exchange counts its messages by slot and position.
NoSlot == -1

\* A batch of unknown calls; those of size 0 are not in the lists.
queue_all_sends(cnt, k, lists) ==
    UNION {{[tag |-> SparseTag(cnt, q - 1, i), part |-> Sparse(lists[q][i]), step |-> k,
             slot |-> q - 1, pos |-> i, sz |-> lists[q][i]] :
                i \in DOMAIN lists[q]} : q \in DOMAIN lists}

Exchange(s) ==
    /\ AtCall(s, {"exchange"}) /\ ~inside[s]
    /\ inside' = [inside EXCEPT ![s] = TRUE]
    /\ wire' = IF s = "senders" THEN wire \cup queue_all_sends(NBX_cnt[s], at[s], Call(s).lists)
               ELSE wire
    /\ UNCHANGED <<prog, at, NBX_cnt, received, aborted>>

\* The size a probed message is given: in doubles where that is possible.
MsgSize(part) == IF BytesOf(part) % 8 = 0 THEN (BytesOf(part) \div 8) * 8 ELSE BytesOf(part)

Given(m, slot, size) == [msg |-> m, step |-> at["receiver"], slot |-> slot, size |-> size]

\* The probe shows a message.  Unless it maps to an active slot, and its tag
\* is one of this batch, it stays where it is.
progressCommunication ==
    /\ AtCall("receiver", {"exchange"}) /\ inside["receiver"]
    /\ \E m \in wire :
          LET base == NBX_cnt["receiver"]
              n == Len(Call("receiver").lists)
              slot == SlotOf(m.tag, base) IN
          /\ slot \in 0 .. n - 1
          /\ InWindow(m.tag, base, n)
          /\ received' = received \cup {Given(m, slot, MsgSize(m.part))}
          /\ wire' = wire \ {m}
    /\ UNCHANGED <<prog, at, inside, NBX_cnt, aborted>>

\* The barrier: everybody is in the exchange, or has left it, and nothing of
\* it is on the wire.
Wait(s) ==
    /\ AtCall(s, {"exchange"}) /\ inside[s]
    /\ \A t \in Sides : at[t] > at[s] \/ (at[t] = at[s] /\ inside[t])
    /\ \A m \in wire : m.step # at[s]
    /\ inside' = [inside EXCEPT ![s] = FALSE]
    /\ NBX_cnt' = [NBX_cnt EXCEPT ![s] = NextCnt(@, Len(Call(s).lists))]
    /\ at' = [at EXCEPT ![s] = @ + 1]
    /\ UNCHANGED <<prog, wire, received, aborted>>

----------------------------------------------------------------------------
\* Point to point: send and recv of memory, of a vector, or as a blocking
\* call with known receivers makes them, which advances NBX_cnt.

Plain == {"memory", "vector", "known"}
SentPart(call) == IF call.op = "vector" THEN MPI_IsendW(call.T, call.n) ELSE MPI_IsendWB(call.n)
PostedPart(call) == IF call.op = "vector" THEN MPI_IrecvW(call.T, call.n) ELSE MPI_IrecvWB(call.n)
PlainSize(call) == IF call.op = "vector" THEN call.n * Sizeof[call.T] ELSE call.n

Executed(s) ==
    /\ NBX_cnt' = IF Call(s).op = "known" THEN [NBX_cnt EXCEPT ![s] = NextCnt(@, 1)] ELSE NBX_cnt
    /\ at' = [at EXCEPT ![s] = @ + 1]

\* An MPI_Isend may complete before anybody receives.
send ==
    /\ AtCall("senders", Plain)
    /\ wire' = wire \cup
          {[tag |-> PlainTag(Call("senders"), NBX_cnt["senders"]),
            part |-> SentPart(Call("senders")), step |-> at["senders"],
            slot |-> NoSlot, pos |-> 0, sz |-> PlainSize(Call("senders"))]}
    /\ Executed("senders")
    /\ UNCHANGED <<prog, inside, received, aborted>>

Matches(m) ==
    /\ m.tag = PlainTag(Call("receiver"), NBX_cnt["receiver"])
    /\ \A o \in wire : o.tag = m.tag => m.step <= o.step

\* A message longer than the receive is an error, as is a negative count.
recv ==
    /\ AtCall("receiver", Plain)
    /\ \E m \in {o \in wire : Matches(o)} :
          LET room == PostedPart(Call("receiver")) IN
          IF BytesOf(m.part) > BytesOf(room) \/ m.part.count < 0 \/ room.count < 0
          THEN aborted' = TRUE /\ UNCHANGED <<at, NBX_cnt, wire, received>>
          ELSE /\ received' = received \cup {Given(m, NoSlot, BytesOf(m.part))}
               /\ wire' = wire \ {m}
               /\ Executed("receiver")
               /\ UNCHANGED aborted
    /\ UNCHANGED <<prog, inside>>

----------------------------------------------------------------------------
\* allGather, Bcast, sum, max or min, and execute: a step of all ranks.  All
\* pass the same sizes (the callers' duty).
Collective ==
    /\ AtCall("senders", {"allGather", "Bcast", "BcastProps", "reduce"})
    /\ at["receiver"] = at["senders"]
    /\ LET parts == Parts(Call("senders")) IN
       IF \E i \in DOMAIN parts : parts[i].part.count < 0
       THEN aborted' = TRUE /\ UNCHANGED <<at, received>>
       ELSE /\ received' = received \cup
                  {Given([tag |-> 0, part |-> parts[i].part, step |-> at["senders"],
                          slot |-> NoSlot, pos |-> i, sz |-> parts[i].sz],
                         NoSlot, BytesOf(parts[i].part)) : i \in DOMAIN parts}
            /\ at' = [s \in Sides |-> at[s] + 1]
            /\ UNCHANGED aborted
    /\ UNCHANGED <<prog, inside, NBX_cnt, wire>>

Finished == \A s \in Sides : at[s] = Len(prog) + 1
Idle == (Finished \/ aborted) /\ UNCHANGED vars

Next ==
    \/ \E s \in Sides : Exchange(s) \/ Wait(s)
    \/ progressCommunication
    \/ send
    \/ recv
    \/ Collective
    \/ Idle

Spec == Init /\ [][Next]_vars
FairSpec == Spec /\ WF_vars(Next)

----------------------------------------------------------------------------

Messages ==
    [tag : Nat, part : [type : DOMAIN MPISize, count : Int], step : Nat,
     slot : Int, pos : Nat, sz : Nat]

\* The types; NBX_cnt stays below the cycle.
TypeOK ==
    /\ prog \in Programs
    /\ at \in [Sides -> Nat \ {0}]
    /\ inside \in [Sides -> BOOLEAN]
    /\ NBX_cnt \in [Sides -> 0 .. nbx_cycle - 1]
    /\ wire \subseteq Messages
    /\ received \subseteq [msg : Messages, step : Nat, slot : Int, size : Int]
    /\ aborted \in BOOLEAN

\* Every tag is one that MPI takes, wherever the counter stands and however
\* many calls are queued (the constructor's formula for nbx_cycle).
TagsLegal == \A m \in wire : m.tag <= tag_ub

\* What progressCommunication takes is a message of the batch it works on, in
\* the slot it was sent for; it never takes a plain message, nor does recv
\* take one of an exchange (the tests of lines 651 to 675).
RightSlot == \A r \in received : r.step = r.msg.step /\ r.slot = r.msg.slot

\* Nothing is lost of a message of an exchange whatever its size; up to
\* INT_MAX bytes it arrives as sent, above with up to 8 bytes more
\* (queue_all_sends rounds up, progressCommunication believes the probe).
SparseCovered ==
    \A r \in received : r.msg.slot # NoSlot =>
        IF r.msg.sz <= INT_MAX THEN r.size = r.msg.sz
        ELSE r.msg.sz <= r.size /\ r.size <= r.msg.sz + 8

\* What receivers were told to expect arrives, all of it, and the program is
\* not ended by an error: both ends of send and recv, and the collectives,
\* come to the same count of the same type.
KnownWhole ==
    /\ ~aborted
    /\ \A r \in received : r.msg.slot = NoSlot => r.size = r.msg.sz

\* Every program ends: no message is left on the wire because the receiver
\* does not recognise its tag.
WireTermination == <>Finished

=============================================================================
