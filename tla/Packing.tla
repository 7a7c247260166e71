------------------------------ MODULE Packing ------------------------------
(***************************************************************************)
(* How the objects of one semantic call become messages and elements again *)
(* (VCluster_meta_function.hpp, and what Vcluster does around it).         *)
(* An object is a vector of elements with several properties.  It travels  *)
(*    serialized, in one buffer of packed memory (layout "packed"),        *)
(*    as it lies in memory, in one buffer (layout "lin"), or               *)
(*    one buffer per property (layout "inte").                             *)
(* A receiver finds nothing but buffers.  It sorts them by processor and   *)
(* tag, walks over them with a stride, makes a vector of each stride and   *)
(* hands that to an operation, which adds or merges it into recv, in host  *)
(* or in device memory.                                                    *)
(*                                                                         *)
(* Values are abstract: a cell of recv is the set of the cells that were   *)
(* written or merged into it.  The exchange below is that of NBX and       *)
(* NBXQueue: between two ranks messages do not overtake.                   *)
(***************************************************************************)
EXTENDS Integers, FiniteSets, Sequences, SequencesExt

CONSTANTS
    Proc,           \* the ranks, numbers since they are sorted
    PropSize,       \* sizeof of each property of T::value_type
    Header,         \* bytes a serialized vector has besides its elements
    Calls           \* the calls an application may make, on all ranks alike

Props == DOMAIN PropSize
RowSize == FoldLeft(+, 0, PropSize)

\* base is the template argument layout_base of the call, layout that of T;
\* direct is opt & MPI_GPU_DIRECT, aware an MPI that takes device pointers;
\* prps are the properties to merge.  sends[p] lists objects and receivers.
Call == [form : {"SSendRecv", "SGather", "SScatter"}, root : Proc,
         layout : {"packed", "lin", "inte"}, base : {"lin", "inte"},
         opt : {"NONE", "RECEIVE_KNOWN", "KNOWN_ELEMENT"},
         direct : BOOLEAN, aware : BOOLEAN, prps : Seq(Props),
         op : {"add", "merge", "merge_gpu", "gg_recv_merge", "gg_recv_merge_run_device"},
         sends : [Proc -> Seq([dst : Proc, n : Nat])]]

\* A gather and a scatter have no opt and add every property; in a gather
\* everybody has one object for the root; a scatter sends a vector as it lies.
AsDeclared(c) ==
    /\ c.form # "SSendRecv" =>
          c.opt = "NONE" /\ ~c.direct /\ c.op = "add" /\ c.prps = [j \in Props |-> j]
    /\ c.form = "SGather" => \A p \in Proc : Len(c.sends[p]) = 1 /\ c.sends[p][1].dst = c.root
    /\ c.form = "SScatter" => c.layout = "lin"

ASSUME PackingAssumption ==
    /\ Proc \subseteq Nat /\ IsFiniteSet(Proc)
    /\ PropSize \in Seq(Nat \ {0}) /\ PropSize # <<>>
    /\ Header \in Nat \ {0}
    /\ Calls \subseteq {c \in Call : AsDeclared(c)}

VARIABLES
    call,           \* the call that is made
    pc,             \* "app", "wait" (inside the exchange), "done"
    flight,         \* messages sent and not received
    recv_buf, tags, \* what arrived, in order, and the tags noted by msg_alloc
    prc_recv, sz_recv, sz_byte, \* the caller's lists
    recv            \* the caller's object, in both memories

vars == <<call, pc, flight, recv_buf, tags, prc_recv, sz_recv, sz_byte, recv>>

Objects(p) == call.sends[p]
Known == call.opt # "NONE"
Empty(n) == [k \in 1..n |-> [j \in Props |-> {}]]
Sum(seq) == FoldLeft(+, 0, seq)

\* Where the application keeps the values that count.
Home == IF call.direct THEN "device" ELSE "host"

----------------------------------------------------------------------------
(* Packing, on the sender.                                                 *)

\* packingRequest: how many bytes the buffers of an object take.
packingRequest(o) ==
    CASE call.layout = "packed" -> <<Header + o.n * RowSize>>
      [] call.layout = "lin"    -> <<o.n * RowSize>>
      [] call.layout = "inte"   -> [j \in Props |-> o.n * PropSize[j]]

\* Packed memory, or the vector that is scattered: the objects of rank p one
\* after the other.  EndOf is where object i begins, Beginning what is there.
EndOf(p, i) == Sum([k \in 1..(i - 1) |-> Sum(packingRequest(Objects(p)[k]))])
Beginning(p, at) ==
    LET here == {k \in DOMAIN Objects(p) : EndOf(p, k) = at} IN
    IF here = {} THEN 0 ELSE CHOOSE k \in here : \A l \in here : l <= k

\* Seeded fault: getPointerEnd() after the object was packed.
PointerEnd_After(p, i) == EndOf(p, i + 1)

\* send_buf gets getPointerEnd() before the object is packed; a scatter steps
\* through the vector by the sizes of the chunks.
PointerEnd(p, i) == EndOf(p, i)

Buffer(p, i, props, current) ==
    [src |-> p, obj |-> i, n |-> IF i = 0 THEN 0 ELSE Objects(p)[i].n, prp |-> props,
     current |-> current /\ i # 0]

\* Seeded fault: the host pointer without deviceToHost.
set_buf_pointer_for_each_prop_Stale(p, i) ==
    LET at == IF call.direct /\ call.aware THEN "device" ELSE "host" IN
    [j \in Props |-> Buffer(p, i, {j}, at = Home)]

\* One pointer per property, to the device or to the host after deviceToHost.
set_buf_pointer_for_each_prop(p, i) ==
    LET at == IF call.direct /\ call.aware THEN "device" ELSE "host"
        copied == call.direct /\ ~call.aware IN
    [j \in Props |-> Buffer(p, i, {j}, at = Home \/ copied)]

\* The pointers of object i.  Without properties apart it is the host's.
packing(p, i) ==
    CASE call.layout = "packed" \/ call.form = "SScatter" ->
            <<Buffer(p, Beginning(p, PointerEnd(p, i)), Props, Home = "host")>>
      [] call.layout = "lin" /\ call.form # "SScatter"    ->
            <<Buffer(p, i, Props, Home = "host")>>
      [] call.layout = "inte" /\ call.form # "SScatter"   -> set_buf_pointer_for_each_prop(p, i)

prc_send(p) == [i \in DOMAIN Objects(p) |-> Objects(p)[i].dst]

\* Seeded fault: one entry per object although it has several buffers.
construct_prc_Once(p) == prc_send(p)

\* construct_prc: one entry per buffer.
construct_prc(p) ==
    IF call.layout = "inte"
    THEN FlattenSeq([i \in DOMAIN Objects(p) |-> [j \in Props |-> prc_send(p)[i]]])
    ELSE prc_send(p)

send_sz_byte(p) == FlattenSeq([i \in DOMAIN Objects(p) |-> packingRequest(Objects(p)[i])])
send_buf(p) == FlattenSeq([i \in DOMAIN Objects(p) |-> packing(p, i)])

\* The root of a gather sends nothing, nor does anybody else in a scatter.
Sends(p) ==
    CASE call.form = "SSendRecv" -> TRUE
      [] call.form = "SGather"   -> p # call.root
      [] call.form = "SScatter"  -> p = call.root

\* The calls with known receivers are given prc_send, the others prc_send_;
\* those drop what has no bytes.
Outgoing(p) ==
    LET prc == IF Known THEN prc_send(p) ELSE construct_prc(p) IN
    IF ~Sends(p) THEN {}
    ELSE {[src |-> p, dst |-> prc[k], tag |-> k, bytes |-> send_sz_byte(p)[k], of |-> send_buf(p)[k], at |-> "wire"] :
            k \in {l \in DOMAIN prc : Known \/ send_sz_byte(p)[l] # 0}}

----------------------------------------------------------------------------
(* What the application knows: the objects addressed to rank p, in order.  *)

Arrive(p, q) ==
    FlattenSeq([i \in DOMAIN Objects(q) |->
        LET o == Objects(q)[i] IN
        IF o.dst = p /\ (o.n # 0 \/ call.layout = "packed")
        THEN <<[src |-> q, obj |-> i, n |-> o.n]>> ELSE <<>>])

Senders(p) ==
    CASE call.form = "SSendRecv" -> Proc
      [] call.form = "SGather"   -> IF p = call.root THEN Proc \ {p} ELSE {}
      [] call.form = "SScatter"  -> {call.root}

Ascending(ranks) ==
    CHOOSE s \in [1..Cardinality(ranks) -> ranks] : \A i, k \in DOMAIN s : i < k => s[i] < s[k]

Arrivals(p) == FlattenSeq([k \in DOMAIN Ascending(Senders(p)) |-> Arrive(p, Ascending(Senders(p))[k])])

Elements(p) == Sum([m \in DOMAIN Arrivals(p) |-> Arrivals(p)[m].n])

\* For merging: the rows of recv that each arriving object is merged into,
\* and where its part of the whole list ends.  Row 1 is never touched.
prc_off(p, m) == Sum([k \in 1..m |-> Arrivals(p)[k].n])
opart(p) == [m \in DOMAIN Arrivals(p) |-> [k \in 1..Arrivals(p)[m].n |-> 1 + prc_off(p, m - 1) + k]]

\* prc_recv with RECEIVE_KNOWN, in an order that is not the sorted one, and
\* sz_recv where the application knows the elements too.
KnownSenders(p) == Reverse(Ascending({Arrivals(p)[m].src : m \in DOMAIN Arrivals(p)}))
KnownElements(p) ==
    [i \in DOMAIN KnownSenders(p) |->
        (CHOOSE m \in ToSet(Arrivals(p)) : m.src = KnownSenders(p)[i]).n]

Init ==
    /\ call \in Calls
    /\ pc = [p \in Proc |-> "app"]
    /\ flight = {}
    /\ recv_buf = [p \in Proc |-> <<>>]
    /\ tags = [p \in Proc |-> <<>>]
    /\ prc_recv = [p \in Proc |-> <<>>]
    /\ \E old \in {<<>>, <<9, 9, 9>>} :
          sz_recv = [p \in Proc |-> IF call.opt = "KNOWN_ELEMENT" THEN KnownElements(p) ELSE old]
    /\ sz_byte = [p \in Proc |-> <<>>]
    /\ recv = [p \in Proc |->
                  LET rows == Empty(IF call.op = "add" THEN 1 ELSE 1 + Elements(p)) IN
                  [host |-> rows, device |-> rows]]

----------------------------------------------------------------------------
NoBuffer == [src |-> 0, dst |-> 0, tag |-> 0, bytes |-> 0, at |-> "host",
             of |-> [src |-> 0, obj |-> 0, n |-> 0, prp |-> {}, current |-> FALSE]]

\* prepare_send_buffer, or the first part of SGather and SScatter: the lists
\* are cleared or, where the caller gives them, taken.  In a scatter the root
\* gives the receivers and the chunks; a gather is given new lists.
Prepare(p) ==
    LET posted == IF Known THEN [i \in DOMAIN KnownSenders(p) |-> NoBuffer] ELSE <<>> IN
    /\ pc[p] = "app"
    /\ pc' = [pc EXCEPT ![p] = "wait"]
    /\ flight' = flight \cup Outgoing(p)
    /\ recv_buf' = [recv_buf EXCEPT ![p] = posted]
    /\ prc_recv' = [prc_recv EXCEPT ![p] =
          IF Known THEN KnownSenders(p)
          ELSE IF call.form = "SScatter" /\ p = call.root THEN prc_send(p) ELSE <<>>]
    /\ sz_recv' = [sz_recv EXCEPT ![p] =
          CASE call.form = "SSendRecv" -> @
            [] call.form = "SGather"   -> <<>>
            [] call.form = "SScatter"  ->
                  IF p = call.root THEN [i \in DOMAIN Objects(p) |-> Objects(p)[i].n] ELSE <<>>]
    /\ UNCHANGED <<call, tags, sz_byte, recv>>

\* Of one sender the oldest first.
Next_from(p, m) ==
    /\ pc[p] = "wait" /\ m \in flight /\ m.dst = p
    /\ \A o \in flight : o.dst = p /\ o.src = m.src => m.tag <= o.tag

\* msg_alloc: into device memory if MPI can.  A gather or scatter lets it
\* note the bytes in the caller's sz; the others in sz_recv_byte of the slot,
\* from which nothing is taken any more.
msg_alloc(p, m) ==
    LET at == IF call.direct /\ call.aware THEN "device" ELSE "host" IN
    /\ Next_from(p, m) /\ ~Known
    /\ recv_buf' = [recv_buf EXCEPT ![p] = Append(@, [m EXCEPT !.at = at])]
    /\ prc_recv' = [prc_recv EXCEPT ![p] = Append(@, m.src)]
    /\ tags' = [tags EXCEPT ![p] = Append(@, m.tag)]
    /\ sz_recv' = [sz_recv EXCEPT ![p] = IF call.form = "SSendRecv" THEN @ ELSE Append(@, m.bytes)]
    /\ flight' = flight \ {m}
    /\ UNCHANGED <<call, pc, sz_byte, recv>>

\* A receive posted by msg_alloc_known, always in host memory.
FillIn(p, m) ==
    /\ Next_from(p, m) /\ Known
    /\ \E i \in DOMAIN recv_buf[p] :
          /\ recv_buf[p][i] = NoBuffer /\ prc_recv[p][i] = m.src
          /\ recv_buf' = [recv_buf EXCEPT ![p][i] = [m EXCEPT !.at = "host"]]
    /\ flight' = flight \ {m}
    /\ UNCHANGED <<call, pc, tags, prc_recv, sz_recv, sz_byte, recv>>

\* The exchange is over: every message was received, or those rank p knew of.
Complete(p) ==
    /\ pc[p] = "wait"
    /\ IF Known
       THEN \A i \in DOMAIN recv_buf[p] : recv_buf[p][i] # NoBuffer
       ELSE flight = {} /\ \A q \in Proc : pc[q] # "app"

----------------------------------------------------------------------------
(* Unpacking.  buf are the sorted buffers; i counts them from 0 as in C.   *)

\* What is read as property j of element k from a buffer that is taken to
\* hold the properties prp and to be in memory at.
Garbage == [src |-> 0, obj |-> 0, k |-> 0, prp |-> 0]
Cell(b, prp, at, k, j) ==
    IF b.of.prp = prp /\ b.of.current /\ b.at = at /\ k <= b.of.n
    THEN {[src |-> b.of.src, obj |-> b.of.obj, k |-> k, prp |-> j]}
    ELSE {Garbage}

Unpacked(buf, i) ==
    [k \in 1..buf[i + 1].of.n |-> [j \in Props |-> Cell(buf[i + 1], Props, "host", k, j)]]

Unpacked_lin(buf, i) ==
    [k \in 1..(buf[i + 1].bytes \div RowSize) |->
        [j \in Props |-> Cell(buf[i + 1], Props, "host", k, j)]]

\* process_receive_mem_traits_inte: a buffer per property, the number of
\* elements from the last.  Past the end of buf there may be anything.
Unpacked_inte(buf, i) ==
    LET b(j) == IF i + j \in DOMAIN buf THEN buf[i + j] ELSE NoBuffer
        at == IF call.direct /\ call.aware THEN "device" ELSE "host"
        n_ele == b(Len(PropSize)).bytes \div PropSize[Len(PropSize)] IN
    [k \in 1..n_ele |-> [j \in Props |-> Cell(b(j), {j}, at, k, j)]]

\* unpack_selector_with_prp: the choice follows the call's layout, not T's.
v2(buf, i) ==
    CASE call.layout = "packed"                        -> Unpacked(buf, i)
      [] call.layout # "packed" /\ call.base = "lin"   -> Unpacked_lin(buf, i)
      [] call.layout # "packed" /\ call.base = "inte"  -> Unpacked_inte(buf, i)

\* Seeded fault: every buffer is taken for an object.
Stride_One == 1

\* What the unpacking of one object returns: the properties to merge, counted.
Stride == IF call.layout # "packed" /\ call.base = "inte" THEN Len(call.prps) ELSE 1

Starts(buf) == [m \in 1..((Len(buf) + Stride - 1) \div Stride) |-> (m - 1) * Stride]

----------------------------------------------------------------------------
(* The operations.  r is recv, rows the vector v2.                         *)
Merged(j) == j \in ToSet(call.prps)
Picked(rows) == [k \in DOMAIN rows |-> [j \in Props |-> IF Merged(j) THEN rows[k][j] ELSE {}]]

add_prp(r, rows) == [host |-> r.host \o Picked(rows), device |-> r.device \o Empty(Len(rows))]
add_prp_device(r, rows) == [host |-> r.host \o Empty(Len(rows)), device |-> r.device \o Picked(rows)]

hostToDevice(r, from, to) ==
    [r EXCEPT !.device = [x \in DOMAIN @ |-> [j \in Props |->
        IF x - 1 \in from..to /\ Merged(j) THEN r.host[x][j] ELSE @[x][j]]]]

\* merge_prp_v: element k of rows goes to row into[k]; with replace_ alone.
merge_prp(r, at, rows, into, replace) ==
    [r EXCEPT ![at] = [x \in DOMAIN @ |-> [j \in Props |->
        LET new == UNION {rows[k][j] : k \in {l \in DOMAIN rows \cap DOMAIN into : into[l] = x}} IN
        IF ~Merged(j) \/ new = {} THEN @[x][j] ELSE IF replace THEN new ELSE @[x][j] \cup new]]]

\* op_ssend_recv_add, without and with serialization.
op_ssend_recv_add(r, rows) ==
    IF call.layout = "packed" \/ ~call.direct THEN add_prp(r, rows)
    ELSE IF call.aware THEN add_prp_device(r, rows)
    ELSE hostToDevice(add_prp(r, rows), Len(r.host), Len(r.host) + Len(rows) - 1)

\* op_ssend_recv_merge: the list of the buffer's number.
op_ssend_recv_merge(p, r, rows, i) ==
    merge_prp(r, "host", rows, IF i + 1 \in DOMAIN opart(p) THEN opart(p)[i + 1] ELSE <<>>, FALSE)

\* op_ssend_recv_merge_gpu: the buffer's number over the properties merged
\* tells the object, whose part of the list begins where the last one ended.
\* Not implemented for serialized objects.
op_ssend_recv_merge_gpu(p, r, rows, i) ==
    LET m == i \div Len(call.prps)
        start == IF i = 0 THEN 0 ELSE prc_off(p, m)
        stop == prc_off(p, m + 1) IN
    IF call.layout = "packed" THEN r
    ELSE merge_prp(r, "device", rows, SubSeq(FlattenSeq(opart(p)), start + 1, stop), FALSE)

\* Seeded fault: the marker is not moved on.
Moved_Not(start, rows) == start

Moved(start, rows) == start + Len(rows)

\* op_ssend_gg_recv_merge: rows replace those of recv from the marker on.
From(start, rows) == [k \in DOMAIN rows |-> start + k]
op_ssend_gg_recv_merge(r, rows, start) == merge_prp(r, "host", rows, From(start, rows), TRUE)
op_ssend_gg_recv_merge_run_device(r, rows, start) ==
    IF call.aware THEN merge_prp(r, "device", rows, From(start, rows), TRUE)
    ELSE hostToDevice(op_ssend_gg_recv_merge(r, rows, start), start, start + Len(rows) - 1)

execute(p, r, rows, i, start) ==
    CASE call.op = "add"           -> op_ssend_recv_add(r, rows)
      [] call.op = "merge"         -> op_ssend_recv_merge(p, r, rows, i)
      [] call.op = "merge_gpu"     -> op_ssend_recv_merge_gpu(p, r, rows, i)
      [] call.op = "gg_recv_merge" -> op_ssend_gg_recv_merge(r, rows, start)
      [] call.op = "gg_recv_merge_run_device" -> op_ssend_gg_recv_merge_run_device(r, rows, start)

\* Seeded faults: the size of recv instead of what was added; the wrong sign.
Added_Total(old, new) == Len(new.host)
Added_Swapped(old, new) == Len(old.host) - Len(new.host)

Added(old, new) == Len(new.host) - Len(old.host)

resize(v, n) == [k \in 1..n |-> IF k \in DOMAIN v THEN v[k] ELSE 0]

\* process_receive_buffer_with_prp: the loop over the buffers.  Only the first
\* entry of each stride is written in sz and sz_byte.
process_one(p, buf, s, i) ==
    LET rows == v2(buf, i)
        new == execute(p, s.recv, rows, i, s.start) IN
    [recv |-> new, start |-> Moved(s.start, rows),
     sz |-> [s.sz EXCEPT ![i + 1] = Added(s.recv, new)],
     byte |-> [s.byte EXCEPT ![i + 1] = buf[i + 1].bytes]]

process(p, buf, sz) ==
    FoldLeft(LAMBDA s, i : process_one(p, buf, s, i),
             [recv |-> recv[p], start |-> 1,
              sz |-> resize(sz, Len(buf)), byte |-> resize(sz_byte[p], Len(buf))],
             Starts(buf))

Before(x, y) == x.proc < y.proc \/ (x.proc = y.proc /\ x.tag < y.tag)

\* reorder_buffer: positions sorted by processor and tag.  Messages of known
\* senders have no tag of their own: here they send one each.
Sorting(p) ==
    LET entry(i) == [proc |-> prc_recv[p][i], tag |-> IF i \in DOMAIN tags[p] THEN tags[p][i] ELSE 0]
        rank(i) == Cardinality({l \in DOMAIN recv_buf[p] :
                       \/ Before(entry(l), entry(i))
                       \/ l < i /\ ~Before(entry(i), entry(l))}) IN
    [n \in DOMAIN recv_buf[p] |-> CHOOSE i \in DOMAIN recv_buf[p] : rank(i) = n - 1]
Sorted(f, v) == [i \in DOMAIN f |-> v[f[i]]]

Finish(p, buf) ==
    /\ pc' = [pc EXCEPT ![p] = "done"]
    /\ recv_buf' = [recv_buf EXCEPT ![p] = buf]
    /\ UNCHANGED <<call, flight, tags>>

\* The end of SSendRecv and of its forms with properties: those that add tell
\* the sizes, those with an operation do not.
EndSSendRecv(p) ==
    LET f == Sorting(p)
        s == process(p, Sorted(f, recv_buf[p]), sz_recv[p]) IN
    /\ call.form = "SSendRecv" /\ Complete(p)
    /\ recv' = [recv EXCEPT ![p] = s.recv]
    /\ prc_recv' = [prc_recv EXCEPT ![p] = Sorted(f, @)]
    /\ IF call.op = "add"
       THEN /\ sz_recv' = [sz_recv EXCEPT ![p] = s.sz]
            /\ sz_byte' = [sz_byte EXCEPT ![p] = s.byte]
       ELSE UNCHANGED <<sz_recv, sz_byte>>
    /\ Finish(p, Sorted(f, recv_buf[p]))

\* The root of a gather adds what it has itself.
Own(p) == [k \in 1..Objects(p)[1].n |->
              [j \in Props |-> {[src |-> p, obj |-> 1, k |-> k, prp |-> j]}]]

EndSGather(p) ==
    LET f == Sorting(p)
        s == process(p, Sorted(f, recv_buf[p]), Sorted(f, sz_recv[p])) IN
    /\ call.form = "SGather" /\ Complete(p)
    /\ IF p = call.root
       THEN /\ recv' = [recv EXCEPT ![p] = add_prp(s.recv, Own(p))]
            /\ prc_recv' = [prc_recv EXCEPT ![p] = Append(Sorted(f, @), p)]
            /\ sz_recv' = [sz_recv EXCEPT ![p] = Append(s.sz, Len(Own(p)))]
       ELSE UNCHANGED <<recv, prc_recv, sz_recv>>
    /\ Finish(p, Sorted(f, recv_buf[p]))
    /\ UNCHANGED sz_byte

\* A scatter sorts nothing and leaves the lists as msg_alloc left them.
EndSScatter(p) ==
    /\ call.form = "SScatter" /\ Complete(p)
    /\ recv' = [recv EXCEPT ![p] = process(p, recv_buf[p], <<>>).recv]
    /\ Finish(p, recv_buf[p])
    /\ UNCHANGED <<prc_recv, sz_recv, sz_byte>>

Done ==
    /\ \A p \in Proc : pc[p] = "done"
    /\ UNCHANGED vars

Next ==
    \/ \E p \in Proc :
        \/ Prepare(p)
        \/ \E m \in flight : msg_alloc(p, m) \/ FillIn(p, m)
        \/ EndSSendRecv(p) \/ EndSGather(p) \/ EndSScatter(p)
    \/ Done

Spec == Init /\ [][Next]_vars

----------------------------------------------------------------------------
Cells == [src : Nat, obj : Nat, k : Nat, prp : Nat]
Rows == Seq([Props -> SUBSET Cells])

(* Types; prc_recv names the processor of every buffer. *)
TypeOK ==
    /\ pc \in [Proc -> {"app", "wait", "done"}]
    /\ prc_recv \in [Proc -> Seq(Proc)]
    /\ sz_recv \in [Proc -> Seq(Nat)]
    /\ sz_byte \in [Proc -> Seq(Nat)]
    /\ tags \in [Proc -> Seq(Nat)]
    /\ \A p \in Proc : \A at \in {"host", "device"} : \A x \in DOMAIN recv[p][at] :
          \A j \in Props : recv[p][at][x][j] \subseteq Cells
    /\ \A m \in flight : m.src \in Proc /\ m.dst \in Proc

(* "each object T in the vector send is sent to one processor specified in *)
(* this list": while a rank is in the call, and after it, every property of*)
(* its objects that have elements is on its way to the receiver of the     *)
(* object, or in its buffers, and nothing is with anybody else.            *)
SentToOwner ==
    LET buffers == (flight \cup UNION {ToSet(recv_buf[q]) : q \in Proc}) \ {NoBuffer} IN
    /\ \A m \in buffers : m.of.obj # 0 /\ m.dst = Objects(m.src)[m.of.obj].dst
    /\ \A p \in Proc : pc[p] # "app" /\ Sends(p) =>
          \A i \in DOMAIN Objects(p) : Objects(p)[i].n # 0 =>
              UNION {m.of.prp : m \in {b \in buffers : b.src = p /\ b.of.obj = i}} = Props

(* What recv holds after the call, in the memory where the application     *)
(* keeps it: what it held, then every element of every object addressed to *)
(* the rank, by sender and as listed there, each with the properties asked *)
(* for taken from that same element: whatever the layout, the number of    *)
(* buffers and the order in which they arrived.                            *)
ExpectedRows(p) ==
    FlattenSeq([m \in DOMAIN Arrivals(p) |->
        [k \in 1..Arrivals(p)[m].n |-> [j \in Props |->
            IF Merged(j) THEN {[src |-> Arrivals(p)[m].src, obj |-> Arrivals(p)[m].obj, k |-> k, prp |-> j]}
            ELSE {}]]])

ObjectsWhole ==
    \A p \in Proc : pc[p] = "done" =>
        recv[p][Home] = Empty(1) \o ExpectedRows(p) \o
                        (IF call.form = "SGather" /\ p = call.root THEN Own(p) ELSE <<>>)

(* Read at the first buffer of each object, the lists of the caller tell   *)
(* who sent it, how many elements it added and how many bytes its buffer   *)
(* had, whatever they held before the call.  A gather adds the root at the *)
(* end.  The root of a scatter may use its lists again.                    *)
SizesTell ==
    \A p \in Proc : pc[p] = "done" =>
        CASE call.form = "SScatter" ->
                p = call.root =>
                    prc_recv[p] = prc_send(p) /\ sz_recv[p] = [i \in DOMAIN Objects(p) |-> Objects(p)[i].n]
          [] call.form # "SScatter" /\ call.op = "add" ->
                /\ \A m \in DOMAIN Arrivals(p) :
                      LET i == (m - 1) * (IF call.layout = "inte" THEN Cardinality(Props) ELSE 1) + 1 IN
                      /\ prc_recv[p][i] = Arrivals(p)[m].src
                      /\ sz_recv[p][i] = Arrivals(p)[m].n
                      /\ call.form = "SSendRecv" =>
                            sz_byte[p][i] = packingRequest(Arrivals(p)[m])[1]
                /\ call.form = "SGather" /\ p = call.root =>
                      Last(prc_recv[p]) = p /\ Last(sz_recv[p]) = Objects(p)[1].n
          [] OTHER -> TRUE

----------------------------------------------------------------------------
(* What an application must see to.                                        *)

\* Receivers that are known get one buffer of each sender, not one per property.
OneBuffer(calls) == \A c \in calls : c.opt # "NONE" => c.layout # "inte"

\* SSendRecvP<...> names a property: with none the loop over the buffers has stride 0.
SomeProperty(calls) == \A c \in calls : c.prps # <<>>

\* The template arguments and options of a call fit each other: layout_base is
\* that of the object, of a buffer per property every property is merged, the
\* device has properties apart only, and the operation works where the
\* application keeps its values.  A known sender has one object for a receiver.
Fitting(c) ==
    /\ c.layout # "packed" => c.base = c.layout
    /\ c.layout = "inte" => Len(c.prps) = Len(PropSize) /\ c.opt = "NONE"
    /\ c.direct => c.layout = "inte"
    /\ c.op = "merge" => c.layout # "inte"
    /\ c.op = "merge_gpu" => c.direct /\ c.aware
    /\ c.op = "gg_recv_merge" => ~c.direct
    /\ c.op = "gg_recv_merge_run_device" => c.direct
    /\ c.opt # "NONE" => \A p \in Proc : \A i, k \in DOMAIN c.sends[p] :
                             c.sends[p][i].dst = c.sends[p][k].dst => i = k
AllFit(calls) == \A c \in calls : Fitting(c)

\* The root of a scatter has nothing for itself, else its lists grow.
RootOnlySends(calls) ==
    \A c \in calls : c.form = "SScatter" =>
        \A i \in DOMAIN c.sends[c.root] : c.sends[c.root][i].dst # c.root

=============================================================================
