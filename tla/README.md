# A TLA+ model of openfpm_vcluster

openfpm_vcluster is the communication layer of OpenFPM: a C++ class, `Vcluster`, through which the
MPI processes ("ranks") of a simulation exchange data. Its heart is a *dynamic sparse data
exchange*: every rank knows whom it wants to send to, nobody knows from whom it will receive, and
the call must return on every rank with everything that was sent to it. This directory models that
protocol, the queue of asynchronous exchanges built on it with its log, the bookkeeping of the
"semantic" calls above both, how these calls make messages of objects and objects of messages, what
messages look like on the wire, and the life of the library and its cluster objects; it checks them
with TLC and proves the core protocol, and the arithmetic of tags and sizes, correct with TLAPS.

Paths below are relative to `src/src/`; `VCluster_base.hpp` and `VCluster.hpp` are in `VCluster/`.

## 1. Inventory

Each rank is one thread. Ranks share nothing; they interact through MPI only, and inside one rank
the components share the members of `Vcluster_base`.

| Component | State | Operations | Interacts by |
|---|---|---|---|
| **Blocking sparse exchange (NBX)**, `VCluster_base.hpp` 239-274, 642-740, 1382-1442 | `NBX_cnt`, `req`, `NBX_active[0]`, `rid[0]`, `NBX_prc_reached_bar_req[0]`, `bar_req` | `sendrecvMultipleMessagesNBX`, `queue_all_sends`, `progressCommunication` | `MPI_Issend`, `MPI_Iprobe` + `MPI_Recv`, `MPI_Ibarrier`, the call-back `msg_alloc` |
| **Queue of asynchronous exchanges**, 866-897, 997-1017, 1140-1168, 1304-1340, 1488-1585 | the same per slot (`NQUEUE` = 4), `NBX_prc_qcnt`, `NBX_prc_cnt_base`, `sz_recv_tmp`, and one `req`, one `bar_req` for all slots | `...NBXAsync` of three kinds, `progressCommunication`, `sendrecvMultipleMessagesNBXWait` | as above, and `MPI_Isend`/`MPI_Irecv`/`MPI_Waitall` for known receivers |
| **Blocking exchange with known receivers**, 785-821, 1062-1095, 1214-1260 | `req`, `NBX_cnt`, `sz_recv_tmp` | two forms of `sendrecvMultipleMessagesNBX` | `send`, `recv`, `execute` |
| **Semantic send and receive**, `VCluster.hpp` 174-413, 698-1374 | per slot `mem`, `pmem`, `sz_recv_byte`, `NBX_prc_bi`, `recv_buf`, `tags`; `NBX_prc_scnt`, `NBX_prc_pcnt`; `send_buf` | `SSendRecv`, `SSendRecvP`, `SSendRecvP_op`, their `Async` and `Wait` | calls the queue; is called back in `msg_alloc`, `msg_alloc_known` |
| **Semantic gather and scatter**, 455-690 | slot `NBX_prc_scnt` of the same | `SGather`, `SScatter` | one blocking exchange each |
| **Reductions and plain communication**, `VCluster_base.hpp` 583-635, 1605-1793 | `req`, `stat` | `sum`, `max`, `min`, `send`, `recv`, `allGather`, `Bcast`, `execute` | collectives and point to point; the same `req` as the exchanges |
| **Sizes and tags on the wire**, 263-270, 397-414, 651-675, `MPI_wrapper/` | `nbx_cycle` | elements, bytes or doubles, around 2^31; tags from counter, slot and position, and back | both ends must agree; `MPI_TAG_UB` |
| **Packing and merging**, `VCluster_meta_function.hpp`, `VCluster.hpp` 163-294, 401-413 | `send_buf`, `send_sz_byte`, `prc_send_`; the caller's `recv`, `prc_recv`, `sz_recv`; host and device copies | `packingRequest`, `packing`, `construct_prc`, unpacking by strides, `op_ssend_recv_add`, `..._merge`, `..._merge_gpu`, `op_ssend_gg_recv_merge`, `..._run_device` | one exchange; containers of openfpm_data (not in the repository) |
| **Lifecycle**, `VCluster.cpp`, `VCluster.hpp` 1389-1483, `VCluster_base.hpp` 287-415 | the two global clusters and their pointers, `n_vcluster`, `ofp_initialized`, one `NBX_cnt` per object | `openfpm_init`, `openfpm_finalize`, constructor and destructor, `barrier` | `MPI_Init`, `MPI_Finalize`, one communicator for all objects |
| **Log**, `util/Vcluster_log.hpp` | `s_log`, `r_log` | `logSend`, `logRecv`, `NBXreport`, `clear` | called from exchanges; read beside `req` |
| Unit tests, build | | | not modelled, see section 6 |

What is hard here is concurrency between ranks, and sharing inside one:

- ranks leave an exchange at different times, so two consecutive exchanges overlap on the wire; the
  only thing that keeps them apart is `NBX_cnt` in the tag, and it wraps around;
- a synchronous send completes by the *receiver's* action, so a rank that stops polling, or waits
  in `MPI_Waitall`, can stop everybody else;
- the four slots of the queue share one vector of requests, one barrier request and one vector of
  sizes, and `progressCommunication` may be called by the application at any point;
- the semantic layer counts slots by two counters of its own, beside the base's `NBX_prc_qcnt`.

There is no persistence, no failure detection and no retransmission: MPI is reliable, and a rank
that dies takes the program down. So there are no crashes or lost messages in the models.

What makes each component correct, and where it is stated, is in section 3. The hazards, with
their lines and the properties aimed at them, are listed in `PROJECT.json`.

## 2. Modules

```
MPINet            what MPI promises (external)
  |-- NBX --------- implements --------> SparseExchange   (abstract exchange)
  |     |-- MCNBX          instances for TLC
  |     |-- NBX_proofs     theorems
  |     `-- Clusters       several objects, init and finalize
  |           |-- MCClusters     programs for TLC
  |           `-- Clusters_proofs    theorems, for disciplined programs, over NBX_proofs
  `-- NBXQueue
        |-- MCNBXQueue     programs for TLC
        |-- NBXQueue_proofs      theorems, for disciplined programs
        |-- NBXQueueOrder  what a program tells of slots, counters and tags
        |     `-- NBXQueueMatch_proofs   theorems, over NBXQueue_proofs: tags, delivery
        `-- Log            the log beside the queue
              |-- MCLog          the same programs with Log
              `-- Log_proofs     theorems, for disciplined programs, over NBXQueue_proofs
SSendRecv         semantic layer of one rank, above an abstract base
  |-- MCSSendRecv          programs for TLC
  `-- SSendRecv_proofs     theorems; results: for disciplined programs
Packing           objects, buffers and the lists of one semantic call, on all ranks
  |-- MCPacking            calls for TLC
  `-- Packing_proofs       theorems; for calls that keep to OneBuffer, SomeProperty, Fitting, RootOnlySends
Wire              tags, counts and MPI types of every message
  |-- MCWire               programs for TLC
  `-- Wire_proofs          theorems: tags, sizes, which call a message reaches
```

**MPINet** is where MPI is described for the exchanges: messages between two ranks do not overtake
(`Probeable`: a wildcard probe may show the oldest unmatched message of any source), an `MPI_Issend`
is complete when its receive has been matched (`AllMatched`), the n-th `MPI_Ibarrier` is complete
when all ranks made their n-th call (`BarrierComplete`). A message carries two fields that are not
on the wire, `round` and `idx`: they order the sends of a rank and let properties say where a
message belongs.

**NBX** is the blocking call in slot 0. `pc` says whether a rank is outside (`"app"`), about to call
`progressCommunication` (`"progress"`), or about to execute the rest of the loop body (`"test"`).
`Start` is the call up to the loop (`queue_all_sends` included; entries of size 0 are not sent).
`progressCommunication` is one step with three alternatives, what the probe shows: a message of
this exchange (received, then the sends are checked), a message of another one (early return,
nothing else happens), nothing (the sends are checked). One call is one step because only MPI could
tell its parts apart, and MPI may already answer each of its questions late: `SkipBarrier` is an
`MPI_Testall` that has not noticed yet, `ProgressNothing` a probe that has not, `LoopAgain` an
`MPI_Test` that has not. `Leave` is the loop's exit and what follows. `cnt` is the part of the tag
that names the exchange, modulo `nbx_cycle`; the position in the list is `idx`. `got`, `done` and
`sent` are history variables and influence nothing but the bound on the number of exchanges.

**SparseExchange** says what such an exchange promises without a protocol: a rank begins with
messages, is handed messages of that exchange, each once, and ends only when everybody has begun,
everything addressed to it was handed over, and everything it sent reached its receiver. NBX
implements it with `inside[p]` = `pc[p] # "app"` (`Promise`, `KeepsPromise`).

**NBXQueue** is the queue. The ranks run one program, a sequence of calls (the interface is
collective), and differ in how far they are. `QueueUnknown`, `QueueKnown` and `Refused` are the
asynchronous calls and their error returns, `UserProgress` a call of `progressCommunication` by the
application, `Wait*` the loop over the slots in `sendrecvMultipleMessagesNBXWait`. Plain sends and
posted receives are matched by `Match`, MPI's own step. `eager` says whether `MPI_Isend` completes
by itself (MPI may choose), `posted` holds receives without a message, and `sz_recv_tmp` has a
`where`: `resize` may move it, and a receive posted earlier then writes to the old place. With
several slots, `EnterBarriers` is the loop over them, in which `MPI_Testall` may turn true on the
way (`late`). The blocking call is included (`op = "sync"`) because it leaves slot 0 marked active.
A call of kind `known_prc` is two phases, sizes then data. The blocking calls with known receivers
(`StartKnownSync`, `KnownSyncData`, `EndKnownSync`) use no slot but share `req`, `NBX_cnt` and
`sz_recv_tmp` with the queue. `Reduce` is `sum`, `max`, `min` (and `allGather`): one collective call
and one request; `Execute` waits for every request. Barriers and reductions are collective calls of
one communicator, matched by their order (`colls`); `Deliver` is MPI writing a result.

**SSendRecv** is one rank of the semantic layer. Below it the base is abstract: a queued call
receives all its messages, in any order between sources, in order for one source; NBX and NBXQueue
are where that is established. `prepare_send_buffer`, `msg_alloc` (`Receive`), `msg_alloc_known`,
`reorder_buffer` and the end of each call are modelled with the slot index each of them really
uses (`NBX_prc_scnt`, `NBX_prc_pcnt`, or the constant 0 behind `&NBX_prc_bi`). The `P` and `P_op`
forms differ from these in what is merged, not in the bookkeeping. `Collect` and `EndCollect` are
`SGather` (on the root, and on the ranks that only send) and `SScatter`: the same slot and call-back
around one blocking exchange, which the base refuses while calls are queued; `lists` says whether
the caller passes the lists of an earlier call. A message is its call, source
and position; what is in it, and its size, are abstracted.

**Wire** looks at what the other modules abstract: the tag of a message and its size. Senders and a
receiver run one program of exchanges (batches of up to `NQUEUE` unknown calls), `send` and `recv` of
memory and of vectors, blocking known calls and collectives; either side may be ahead as far as MPI
lets it. A message has a tag and a part, a count of an MPI type, as the wrappers in `MPI_wrapper/`
work it out; `AsInt` is the conversion of a `size_t` to the `int` that MPI takes. `SlotOf` and
`InWindow` are the two tests in `progressCommunication`, with C's division. `recv` compares the
message with the receive that was posted and aborts if it is too long (`MPI_SAFE_CALL` ends the
program). When a side may leave an exchange is taken from NBX. `step`, `slot`, `pos` and `sz` of a
message are not on the wire; properties compare with them.

**Packing** is one semantic call on all ranks, data included. A call fixes the layout of the object
(serialized, one buffer, one buffer per property), the `layout_base` it is made with, the options,
the properties to merge, the operation, and what every rank sends. `Prepare` is
`prepare_send_buffer`, or the first half of `SGather` or `SScatter`; `msg_alloc` and `FillIn` take
one message each, so arrivals interleave; `EndSSendRecv`, `EndSGather` and `EndSScatter` sort the
buffers, walk over them (`process`) and apply the operation (`execute`). Values are names: a cell of
`recv` is the set of the cells (sender, object, element, property) written or merged into it, and
what is read from the wrong buffer, from past the end or from the wrong memory is `Garbage`. There
are two copies of `recv`, `host` and `device`, and `aware` says whether MPI takes device pointers
(in the code two macros). The containers of openfpm_data are external: `add_prp`, `merge_prp` and
`hostToDevice` are what the code here relies on them to do. The sizes of elements and the order of
the caller's lists are kept, because `sz_recv`, `sz_byte` and the number of elements follow from them.

**Log** adds the log to the queue (it is compiled in with `VERBOSE_TEST`). `LogNext` is the next-state
relation of NBXQueue with what each action logs: sends of the barrier protocol in
`queue_all_sends`, receives in `progressCommunication`, and `clear` where a slot completes.
`NBXreport` is what a report written now would say. The lists are sets, since requests and entries
are added in one order and only ever emptied as a whole.

**Clusters** composes NBX with the objects that run its exchanges. A program is a sequence of
`openfpm_init`, `openfpm_finalize`, `barrier`, making and destroying an object of one's own, and
exchanges of a given object. `NBX_cnt` is the counter of the object in use and `cnt` keeps the
others (`Use` changes between them; nothing else of an object survives a blocking exchange).
`Construct` and `Constructed` are the constructor before and after `MPI_Comm_split_type`, a
collective call like `MPI_Barrier`; both are matched with the exchanges' barriers by their order, as
MPI does. `Destroy` is the destructor, with `n_vcluster` and `MPI_Finalize`.

Operators named `X_Something` before an operator `X` are seeded faults: what `X` would be
with a plausible bug. No specification uses them; putting one in the place of `X` must break the
property named with it in `PROJECT.json`, which shows that the property can fail.

## 3. Runs and what they show

| Run | Instance | Properties |
|---|---|---|
| `nbx3` | 3 ranks, 2 exchanges, at most one message per rank (to anyone, itself included), `nbx_cycle` 2, symmetric; 140 808 states | `TypeOK`, `AllSendsReceived`, `RightAssociation`, `Delivered`, `ForeignMeansComplete` |
| `nbx2` | 2 ranks, 3 exchanges, up to two messages on one channel and an entry of size 0; 42 901 states | `KeepsPromise`, `Termination` |
| `queue3` | 3 ranks, 2 slots, `nbx_cycle` 4, programs `SafePrograms`, with Log; 143 777 states | `TypeOK`, `QueueSendsReceived`, `NoRequestForgotten`, `QueueRightAssociation`, `QueueDelivered`, `CollectivesMatch`, `ReductionsExecuted`, `ReportMatches`, `ReportComplete`, `QueueTermination` |
| `ssendrecv4` | one rank, 3 peers, 3 slots, 165 programs; 28 313 states | `TypeOK`, `MergedInOrder`, `PackedWhileQueued`, `SlotsSinceIdle` |
| `wire` | 4 slots, the code's tag constants, `nbx_cycle` 8 and every value of `NBX_cnt`, `INT_MAX` 511, 211 programs; 38 616 states | `TypeOK`, `TagsLegal`, `RightSlot`, `SparseCovered`, `KnownWhole`, `WireTermination` |
| `packing` | 3 ranks, two properties of 2 and 3 bytes, 62 calls; 20 723 states | `TypeOK`, `SentToOwner`, `ObjectsWhole`, `SizesTell` |
| `clusters` | 2 ranks, up to 3 objects and 3 exchanges, `nbx_cycle` 2, 7 programs; 136 215 states | `ClustersTypeOK`, `LibraryUsable`, `LastOneFinalizes`, `RightAssociation`, `KeepsPromise`, `ClustersTermination` |

- **`AllSendsReceived`** is the claim in the comment on `NBX_cnt` (`VCluster_base.hpp` 129-144): once
  any rank has left an exchange, none of its messages is in flight anywhere. **`RightAssociation`**
  is the danger that comment describes, a message received in an exchange other than its own.
  **`Delivered`**: outside an exchange a rank has exactly what was addressed to it, and `rid` counted
  it (call-backs use it as an index).
- **`ForeignMeansComplete`** is why the early return at line 653 is harmless. It looks like
  head-of-line blocking: a foreign message stays first in its channel and makes every call return
  before the rank tests its own sends. But whenever it happens the rank is already in the barrier
  and nothing of this exchange is still under way to it.
- **`KeepsPromise`**, **`Termination`**: the refinement, and that every call returns.
- **`QueueSendsReceived`**, **`QueueRightAssociation`**, **`QueueDelivered`** are the same for the
  queue, across slots, kinds and batches; `QueueDelivered` also wants known receives to have been
  given the right size. **`NoRequestForgotten`** is what the shared request vector hangs on: nothing
  under way has lost its request although each slot's completion empties the vector.
- **`CollectivesMatch`**: all ranks make their barriers and reductions in one order, although a rank
  enters a barrier inside `progressCommunication`, at a moment of its own. **`ReductionsExecuted`**:
  after `execute` the results of all earlier reductions are there. It says that the request of a
  reduction stays until something waits for it, beside those of blocking known calls. It does not say
  that other exchanges may come between: `ReduceExecuted` (section 5) keeps them out, as the error
  message of `queue_all_sends` demands, and `ReductionDropped` shows what they do.
- **`MergedInOrder`**: what a semantic call appends to `recv` is exactly its own messages, by
  processor and then as sent, whatever the order of arrival and whatever other calls did meanwhile.
  **`PackedWhileQueued`**: packed memory is neither deleted early, nor overwritten, nor leaked.
  **`SlotsSinceIdle`**: the slots in use are as many as the asynchronous calls since none was queued,
  whatever came between, so that an application knows when it runs past the arrays: with call
  `NQUEUE + 1` since then and not before, however few are queued (`ssendrecv_pipelined`, section 4).

- **`TagsLegal`**: no tag passes `MPI_TAG_UB` (the formula for `nbx_cycle` in the constructor).
  **`RightSlot`**: a tag maps back to the exchange and slot it was made for, and plain messages, whose
  tags lie below those of exchanges, are never taken; without the test of line 675 a plain message
  would be, when `NBX_cnt` is 0, because C divides towards zero.
- **`SparseCovered`**, **`KnownWhole`**: what arrives is what was sent, for exchanges at every size
  (above `INT_MAX` bytes with up to 8 bytes more), for the others at sizes below `INT_MAX` bytes or,
  for primitive types, elements. **`WireTermination`**: no message stays because its tag is not
  recognised.

- **`ReportMatches`** is the comment in `NBXreport` ("req and s_log must match"): each request a report
  asks MPI about has the entry of its own send, although the end of one slot empties both for all.
  It is stated for slots of the barrier protocol; requests of known calls are in `req` alone, and the
  code prints an error then. **`ReportComplete`**: a report names every send of the rank that nobody
  has received yet, and no message of a call that has returned.
- **`SentToOwner`**: every property of every object is under way to, or with, the rank the caller
  named for that object, and nothing is with anybody else. **`ObjectsWhole`**: after the call `recv`
  has, in the memory where the application keeps it, what it had and then every element of every
  object addressed to the rank, each property taken from that element, whatever the layout and the
  order of arrival. **`SizesTell`**: the caller's lists say who sent each object, how many elements
  it added and how many bytes came, whatever they held before.
- **`LibraryUsable`**: nobody calls MPI before it is initialised or after it is finalised, and no
  object is used or destroyed that does not exist. **`LastOneFinalizes`**: `n_vcluster` counts the
  objects, and MPI ends with the last of them, with nothing under way to or from the rank.
  `RightAssociation` and `KeepsPromise` of NBX hold in `clusters` for exchanges of different objects,
  provided two in a row have different counters or a collective call between them: the objects then
  behave as one sequence of exchanges. **`ClustersTermination`**: every rank reaches the end.

Why the bounds are enough to be interesting. Two live exchanges at most overlap (that is part of the
proved invariant), so two exchanges and a counter modulo 2 already show every overlap, and three
exchanges a counter that came back to its first value. Three ranks are needed for one to lag while
two others go on. `nbx_cycle` is the smallest value the constructor accepts without complaint
(`2*NQUEUE`): `NextCnt_Short` shows that one less is not enough for the queue. Two slots suffice for
what slots share; batches of different sizes, gaps after refused calls and a slot left active by
the blocking call are in the programs. The programs follow the unit tests: calls of one kind queued
together, or unknown before known, `progressCommunication` once everything is queued.

For `wire`, `INT_MAX` is 511 because TLC's own integers have 32 bits; sizes are at, just below and
just above it, and at the largest size that fits an `int` when counted in doubles. 511 is of the
form 2^n - 1 as in the code, and large enough for `>> 8` to leave something. The tag constants are
the code's, with the smallest `MPI_TAG_UB` that the constructor accepts, so that the counter wraps.

For `packing`, three ranks let two senders' buffers interleave at one receiver; two properties of
unlike sizes tell a buffer taken for another by its content and by the number of elements; a rank
sends several objects, an empty one and one to itself. Calls are of one queue slot, as the slots are
SSendRecv's subject. For `clusters`, two ranks suffice for one to be an exchange ahead, and three
exchanges let the counters of two objects meet and the one of an object wrap.

**Fairness** (`FairSpec`). A rank inside a call runs a `do ... while` without blocking calls, and an
application makes its next call, so steps of a rank are weakly fair. That a repeated probe,
`MPI_Testall` or `MPI_Test` eventually sees what is there is MPI's progress rule; since each is asked
once per turn of the loop it is enabled again and again rather than continuously, hence strong
fairness. NBX has it for receiving, for noticing that the sends are complete and for noticing the
barrier, one condition each; NBXQueue has the weaker one condition that a rank to which any of the
three is possible again and again does one of them (`Learns`), which is enough as each happens
finitely often. A
posted receive is matched without further calls of the two ranks than those they make (weak).
Nothing is assumed of who is probed first. In Wire a step that changes the state is always progress,
and `WF_vars(Next)`, that somebody goes on if anybody can, is enough. `LogSpec` has the fairness of
NBXQueue (`Fairness`); `ClustersFair` has that of NBX, and weak fairness of the program's other steps:
a collective call returns when every rank is in it.

## 4. Where code and comments disagree

Each of these is a run that TLC ends with a counterexample, on a program that the interface allows
and the unit tests do not contain:

- `queue_progress_between`: asynchronous call, `progressCommunication`, asynchronous call, Wait. The
  first slot enters its barrier with no sends; in Wait its completion clears the request vector,
  in which the second slot's send is pending; the second slot finds no request, enters its barrier,
  and a rank may finish the call before the message was received. Documented as safe at lines
  134-135 and 1446-1448.
- `wire_big_known`: from 2 147 483 647 bytes on, `MPI_IrecvWB` posts `sz >> 8` doubles where
  `MPI_IsendWB` sends bytes, or `sz >> 3` doubles: the receive is too short and MPI ends the program.
- `packing_known_inte`: with `RECEIVE_KNOWN`, `prepare_send_buffer` passes `prc_send` (one entry per
  object) with sizes and pointers that have one entry per buffer (`VCluster.hpp` 278, 283; the other
  branch passes `prc_send_`, 292). With a buffer per property, the first buffers go to the receivers
  of other objects and the rest nowhere. Line 166 documents one receiver per object.
- `clusters_two_counters`: `openfpm_init` makes two objects on one communicator, both counting from 0.
  An exchange of one directly after the same number of exchanges of the other has the same tags, and
  a rank still inside the first receives a message of the second. Lines 142-143 of
  `VCluster_base.hpp` promise that tags tell them apart.
- `ssendrecv_pipelined`: `NBX_prc_scnt` is reset only when nothing is queued (`VCluster.hpp` 1247). A
  program that always keeps one call queued, and never more than two, runs past the arrays; the base,
  which starts to count again with every Wait, prints nothing.

More are in the MC modules but have no run of their own. Replace the program set, and the property
where one is named,

- in `QueueProgressBetween.cfg` by `ProgressBeforeKnown`, with `QueueRightAssociation` (the payload of a
  known call carries the tag of slot 0 whatever its slot, `VCluster_base.hpp` 1156: a rank that probes it in
  `progressCommunication`, before it has posted the receive, takes it for the exchange in slot 0);
  `SizesTwice`, with `QueueDelivered` (two queued calls that exchange sizes share `sz_recv_tmp`, and payload
  is received with the size of the other call); `KnownFirst`, with `FairSpec` and `QueueTermination`
  (`execute()` in the slot of the known call waits for the sends of the unknown one on all ranks, and nobody
  probes: Wait never returns); `RefusedBetween`, with `QueueRightAssociation`, `NQUEUE` = 3
  and `nbx_cycle` = 6 (a blocking call that is refused keeps the number of a slot: the unknown call
  queued after it sends with the tag of the first call after the Wait, whose messages a slower rank
  then takes for it); `ReductionDropped`, with `ReductionsExecuted` or `NoRequestForgotten` (an exchange
  between a reduction and its `execute` prints an error and empties the requests, the reduction's
  included); `ReductionInside`, with `CollectivesMatch` (some ranks reduce before they enter the queued
  exchange's barrier, others after); or `ExecuteInside`, with `FairSpec` and `QueueTermination` (`execute`
  waits for the queued exchange's sends, which nobody receives);
- in `NBXQueue3.cfg` by `ExecuteBetween`, with `ReportMatches` (`execute` while an unknown call is queued
  empties the requests and leaves `s_log`, so the next report names sends for requests that are gone);
- in `SSendRecvPipelined.cfg`, for `MergedInOrder`, by `TwiceKnown` (two queued calls with known peers
  share the buffers of slot 0, since both pass `&NBX_prc_bi`, `VCluster.hpp` 279 and 284, not the element of
  their slot as line 292 does), `GatherAgain` (`SGather` appends to the caller's `prc` without clearing it
  and sorts by its first entries: a second gather with the same lists merges in the order of arrival),
  `BlockingInside` (`SSendRecv` while an
  `SSendRecvAsync` is queued reads `recv_buf[NBX_prc_pcnt]`, the other call's slot, and returns its data),
  `StaleTags` (`RECEIVE_KNOWN` sorts by the tags of an earlier call when a processor sends several
  messages), `SendBufReused` (a `RECEIVE_KNOWN` call sends what a later call packed) or `GatherInside` (a
  gather while a call is queued is refused below, and merges the queued call's data);
- in `WireBigKnown.cfg` by `BigVector` (the same for vectors of a type MPI does not know) or `BigBcast`
  (a broadcast of more than `INT_MAX` bytes has a negative count);
- in `PackingKnownInte.cfg`, with `ObjectsWhole`, by `Subset` (fewer properties asked for than the
  object has: the walk over the buffers advances by the former), `DefaultBase` (the default
  `layout_base` for an object with a buffer per property: each buffer is taken for whole elements),
  `MergePerProperty` (`opart` is indexed by the number of the buffer, not of the object),
  `MergeGpuOneBuffer` (the GPU merge divides the number of the buffer by that of the properties also
  where an object is one buffer) or `DirectOneBuffer` (`MPI_GPU_DIRECT` for an object in one buffer:
  received in device memory, read from host memory); with `SizesTell`, by `ScatterKeeps` (a root that
  keeps a chunk finds it appended to its lists of chunks);
- in `ClustersTwoCounters.cfg`, with `LibraryUsable`, by `InitAgain` or `FinalizeTwice` (`openfpm_finalize`
  leaves the global pointers as they are: a second `openfpm_init` makes no objects, a second
  `openfpm_finalize` destroys them again) or `DeleteBeforeInit` (destroying the only object finalises
  MPI, after which `openfpm_init` cannot bring it back).

`SparseCovered` states what remains of an exchange above `INT_MAX` bytes: the receiver is told up to
8 bytes more than were sent. `VCluster_meta_function.hpp` 261 divides that size by the size of an
element, so where elements have at most 8 bytes the merge may add one that nobody sent.

## 5. What is proved

`NBX_proofs` proves, for every finite or infinite set of ranks, every set of send lists, every
`nbx_cycle` of at least 2 and every number of exchanges (the assumptions are `NBXAssumption` of NBX):
`TypeCorrect`, `SendsReceived`, `AssociationCorrect`, `DeliveryComplete`, `EarlyReturnHarmless`, and
`Refinement`, that NBX implements SparseExchange. They are the invariants of `nbx3` and the
refinement of `nbx2`, without the bounds.

None of these invariants is inductive. What carries them is `IInv`, proved in `Invariance`, one
lemma per action. With `Begun(p)` the number of exchanges rank p has begun, its parts are:

1. `RidCount`: what a rank received in its latest exchange is finite, and `rid` is its size;
2. `BarrierCount`: a rank made one barrier call for each exchange it left, and one more if it is in
   the barrier of the present one, in which case `bar_req` is that call;
3. `BarrierOrder`: no rank has left more exchanges than any rank has made barrier calls. With 2, two
   ranks are at most one exchange apart;
4. `CounterAgreement`: ranks that left equally many exchanges have the same `NBX_cnt`, and those one
   apart have counters one apart. As `nbx_cycle >= 2`, equal tags of live messages mean the same
   exchange: the only use of that assumption;
5. `InFlight`: a message in flight is of its sender's present exchange, carries its `NBX_cnt`, has its
   request in `req`, and its sender has not entered the barrier;
6. `SentHistory`: a message sent is of an exchange its sender has begun, and is still in flight if the
   receiver has not begun that exchange;
7. `GotHistory`: what a rank received in its latest exchange is exactly what was sent to it in that
   exchange and is not in flight.

The step that matters is `Leave`: a complete barrier means that every rank entered it (2), so no
message of this exchange is in flight (5), so every receiver has its messages (7).

Parts 1 and 5 to 7, with the types, are `Messages`. They are kept whatever gives exchanges their
counters and barriers their order, as long as the tag tells a rank which messages are of its exchange
(`TagsTell`), so their lemmas serve Clusters too, where 2 to 4 are false.

`Clusters_proofs` proves, for every set of ranks, every `nbx_cycle` of at least 2 and every disciplined
program, `LibraryStaysUsable` (`LibraryUsable`), `LastFinalizes` (`LastOneFinalizes`), `OneSequence`
(`RightAssociation`), `ClustersTypes`, and `ClustersRefinement`: exchanges through several objects, with
other collective calls between, still implement SparseExchange. `Disciplined` in Clusters says, of
the program's steps alone, what an application has to observe:

- `ObjectsExist`: it uses and destroys an object, and calls `barrier`, while there is one, and has one
  object of its own at a time (`FinalizeTwice` breaks it);
- `InitOnce`: no `openfpm_init` after `openfpm_finalize` (`InitAgain`);
- `NothingAfter`: no object is made after the last one was destroyed, unless the application
  initialised MPI itself (`DeleteBeforeInit`);
- `CountersDiffer`: exchanges of different objects with no collective call between them have
  different counters (`TwoCounters`). The other exchanges need nothing: `CountersTell` proves that
  two of one object always differ when no collective call lies between, as only one fits there.

MCClusters assumes it of the programs of `clusters`, so TLC evaluates it. The invariant `ClustersInv`
makes what a rank holds a function of the step it is at: which objects exist and how many there are
(`ObjectsThere`, `ObjectsCounted`), whether MPI is up (`LibraryState`), every object's counter
(`Counters`, by `CounterAt`: the exchanges since the object was made, modulo `nbx_cycle`), and the number
of collective calls (`CallsCounted`: those of the steps before, and of this one what it has made). Between
ranks only `SeenByAll` is needed: a collective call, be it an exchange's barrier, `MPI_Barrier` or
a constructor's `MPI_Comm_split_type`, that one rank saw complete was made by every rank. From this
follows where a message in flight can meet a rank (`FlightPosition`): at the sender's step, or
inside an earlier exchange with no collective call between the two, where the counters differ. That is
`TagsTell`. For `Leave`, `EndPosition` shows from the same counts that everybody is in this exchange
or past it, and that no message of it is in flight.

`Wire_proofs` proves, for every `INT_MAX`, every `MPI_TAG_UB` the constructor accepts, every number of
slots and every program (`WireAssumption`): `TypeCorrect`, `TagsAlwaysLegal` and
`ExchangeLosesNothing`. The lemmas carry the weight: `TagRoundTrip` (a tag of an exchange is legal,
maps back to its slot, and lies in the window of the batches that have this slot and no others) and
`SizeRoundTrip` (both ends' arithmetic composed). The invariant only adds that what is on the wire for
an exchange was counted by `queue_all_sends` (`WireSizes`).

It also proves `SlotsRight` (`RightSlot`) and `KnownArrivesWhole` (`KnownWhole`). Both need
something of the application, stated in Wire: `ShortRuns`, that from an exchange to the next one, the
slots of both included, the counter does not come round (with an `MPI_TAG_UB` of 2^31 - 1: fewer than
some 16 000 calls in a row without an exchange), and for `KnownWhole` `SmallCalls`, sizes below those
of the disagreement `wire_big_known`. MCWire assumes both of the programs of `wire`, so TLC evaluates
that they hold there. The invariant `Matching` names what the code never writes down: one sequence `c`
of the values of `NBX_cnt`, the same on both sides, with `NBX_cnt[s] = c[at[s]]` (`Counted`). Since
the value a recursive definition takes cannot be proved here, the invariant says that such a sequence exists,
and each step extends it by one value (`Advance`). `Positions`: no exchange lies between the sides
but the one the receiver has not left. `OnWire`: what is on the wire is exactly what the calls
between them sent, with tags from `c`. `Ahead`: seen from the receiver's exchange at `b` with `n` calls,
senders stand at `b + n + u`, or that less `nbx_cycle`. Then `Apart`, the arithmetic of the window test,
refuses every message of a later call, and the non-overtaking of MPI makes the first message with a
receive's tag the one of that call (`MatchedRight`).

`NBXQueue_proofs` proves, for every finite set of ranks, every number of slots, every `nbx_cycle` and
every disciplined program: `SendsReceived` (`QueueSendsReceived`), `RequestsKept`
(`NoRequestForgotten`), `CollectivesInOrder` (`CollectivesMatch`), `ReductionsDone`
(`ReductionsExecuted`) and `TypeCorrect`. These hold only if the application observes what the code
does not check, `Disciplined` in NBXQueue, in terms of the program's calls alone:

- `ProgressLast`: after an asynchronous unknown call and a `progressCommunication`, nothing more is
  queued before the Wait (what `queue_progress_between` and `ProgressBeforeKnown` do);
- `UnknownFirst`: unknown calls are queued before known ones (`KnownFirst` does not);
- `ReduceAlone`: no reduction while an unknown call is queued (`ReductionInside`, `ExecuteInside`);
- `ReduceExecuted`: between a reduction and the next unknown call or Wait there is an `execute`, or a
  blocking known call, which contains one. Otherwise `queue_all_sends` empties `req` with the
  reduction's request in it, and so does a Wait that finds slot 0 as a blocking call left it.

Everything the unit tests do is disciplined, and so is every program of the passing runs: MCNBXQueue
assumes it (`TheoremsApply`) and TLC evaluates it. The programs may otherwise be anything: mixed
kinds, uneven batches, blocking calls left active in slot 0, calls that are refused.

The invariant `IInv` says, per rank: where it is in the program (`AtCall`), what each slot holds
(`SlotHolds`: a call of this batch of the right kind, the blocking call, or what a blocking call left
behind), that slots are in the order of calls and barriers are entered from the last slot on
(`SlotOrder`, `BarrierOrder`); that each send, receive or reduction under way has its request in `req`
and belongs to a slot whose barrier is still to come (`SendsHeld`, `ReceivesHeld`, `ReductionsHeld`),
so that a rank that entered a barrier has nothing under way (`QuietBehind`). Between ranks the one
shared fact is a count, `Counted`: the n-th collective call of a rank belongs to the n-th call of the
*program* that makes one, and a rank has made one for each of those it has begun, but for the slots
that have not reached their barrier. The step that matters is `WaitUnknown`: `bar_req` stands for the
latest barrier of the rank, not that of the slot (`BarrierSeen`), so when `MPI_Test` succeeds every
rank has made as many collective calls as this one has begun; hence all of them entered the barrier
of this slot (`Passed`), hence none of them has a send of it under way. That the later slots of the
same Wait find `bar_req` null and pass without a test of their own is covered by the same count.

`NBXQueueMatch_proofs` proves, of the same queue, `AssociationCorrect` (`QueueRightAssociation`: a message
is received for the call, and the part of it, that it was sent in) and `DeliveryComplete`
(`QueueDelivered`), again for every number of ranks and slots and every `nbx_cycle`. The tags demand more of
the program; `TagsDisciplined` in NBXQueueOrder is `Disciplined` and

- `CountsAlone`: between two unknown calls of a batch there is no blocking call. One that is refused
  keeps a slot number (`RefusedBetween`); one with known receivers counts `NBX_cnt`, and waits for
  the queued sends, which nobody receives;
- `OneSizes`: no two calls that exchange sizes in a batch (`SizesTwice`);
- `OneEach`: at most one message between two ranks in a call, as in all of NBXQueue (what a call sends is
  a set there);
- `ShortRuns`: from an exchange to the end of the next one the numbers in the tags do not come round. An
  exchange is what holds ranks together: without one, a rank may be any number of known calls ahead.
  With an `MPI_TAG_UB` of 2^31 - 1 that is some 16 000 calls in a row.

MCNBXQueue assumes it of the programs of `queue3`, with the smallest `nbx_cycle`.

The proof rests on all ranks running one program. A *moment* is a pair, the call and a number that orders
what happens inside it, since a Wait completes slots one by one and exchanges sizes before data. NBXQueueOrder
says what the program alone tells about moments: the slot a call is given (`SlotIndex`), which steps
count `NBX_cnt` (`Ticks`, `CountBefore`) and when a part of a call is sent and its receives are posted
(`Stamp`). `MInv` says, per rank, that the moment it has reached (`Now`) tells everything else: the
slots hold the calls of the batch, those before `at` completed (`Slotted`); `NBX_cnt` and
`NBX_prc_cnt_base` are the counts of the program (`Counter`, `Base`); exchanges whose end it has passed are
finished (`Exchanged`). What is under way carries the tag the program gives it (`Message`, `Receive`).
Between ranks there are two facts:

- `Pairing`, for known receivers: of each message, if both ranks are past its stamp then its send and its
  receive are either both under way or both done; if only one rank is, its half is. Together with the
  order of posting (`SendOrder`, `ReceiveOrder`) and MPI's rule that neither overtakes, a receive is
  matched with the message of its own call: were the two of different calls with one tag, the older one's
  other half would be there and come first. So even calls with one tag, as all known calls of a batch
  have, are not confused.
- for polling: a rank that polls for exchange `a` has not finished it, hence by `QueueSendsReceived` and
  the barriers of `IInv` nobody has passed the end of a later exchange. So every message in flight was sent
  between `a` and there (`WithinReach`), where `ShortRuns` keeps numbers apart: what lies in the window
  of the batch belongs to the slot its tag names.

`NothingLost` and `SizesKnown` carry delivery: each message of a call that its sender has begun is in flight
or received, and each size asked for is still to come, at the place where `sz_recv_tmp` is now, or is there.
`AtSizes` only says which call the sizes phase belongs to.

`Log_proofs` proves `ReportsMatch` (`ReportMatches`) and `ReportsComplete` (`ReportComplete`) for every
`LogDisciplined` program: disciplined, with at most one message between two ranks in a call
(`OneEach` in NBXQueue; the logs are sets here) and with nothing that executes while an unknown call is queued
(`ExecuteAlone`, which `ExecuteBetween` breaks). MCLog assumes it of the programs of `queue3`. The difficulty
is that `req` and `s_log` are emptied at different places: `req` also by `execute`, by the end of known
slots and by the first call queued. `LogInvariant` adds to `IInv`, per rank: which call each request of
`req` is for (`RequestsRight`: a synchronous send belongs to a call queued in a slot, plain sends and
receives to known calls, a reduction to one that no `execute` has followed), that `s_log` lists the
synchronous sends, each once (`SendsLogged`, `OneEntry`), that every entry of `r_log` is of a call that is
queued (`ReceivesLogged`), and that no queued call is finished (`Unfinished`). Wherever `req` is emptied
without `s_log`, the invariant of the queue shows that no unknown call is in a slot, so by
`NothingLogged` there was nothing in the lists. `SlotFinished` is the step after which `r_log` may
hold nothing of a finished call.

`SSendRecv_proofs` proves, for every program of semantic calls, every number of slots and every set of
peers, that packed memory is there exactly while its call is under way (`PackedMemoryKept`, the
property `PackedWhileQueued`). That alone is not inductive: it says that some slot holds the memory of
an open call, not which one `SSendRecvWait` deletes. `SlotsAccounted` says which: the open calls lie in
the order they were made in the slots from `NBX_prc_pcnt` to `NBX_prc_scnt - 1`, a blocking call lies
in the slot behind them, all others are empty, and `scnt = pcnt + Len(open)`. When the last open call
ends both counters return to 0, which is the case the proof has to tell apart. The theorem holds also
for programs whose results are wrong (section 4); it assumes, as the model does, that a call
is made only when a slot is free (`scnt < NQUEUE`) and that there is a Wait only for an open call.

The results are right only if calls keep out of each other's way. `Merged` (`MergedInOrder`) and
`SlotsTyped` (`TypeOK`) hold for every disciplined program; `Disciplined` in SSendRecv says, of the
calls alone:

- `BlockingAlone`: no blocking call, gather or scatter while a call is queued (`BlockingInside`,
  `GatherInside` do so);
- `KnownAlone`: nothing else is queued beside a call that knows its peers, its Wait comes next, and each
  peer sends it one message (`TwiceKnown`, `SendBufReused`, `StaleTags`);
- `ListsNew`: gathers and scatters get new lists (`GatherAgain`);
- `OneRoot`: in a scatter only the root sends, since its buffers are not sorted.

MCSSendRecv assumes `Disciplined` of the programs of `ssendrecv4`. Unknown calls may overlap in any way
and in any number.

`SlotsCounted` (`SlotsSinceIdle`) needs nothing of the programs: it follows from `SlotsAccounted`,
by which `scnt = pcnt + Len(open)`, so that `SSendRecvWait` resets the counters exactly when it ends the
last open call (`OpenCounted`: the open calls are the asynchronous calls less the Waits). With it the
documented `QueueHasRoom` is reduced to the programs: it fails exactly where call `NQUEUE + 1` comes
before the queue ran empty. No discipline is stated for that; the run `ssendrecv_pipelined` reports it.

The invariant behind `Merged` is `ResultsInv`. `Caller(s)` is the call a slot is used for, as in
`SlotsAccounted`. `Opened` ties the list of open calls to the calls the program has made; from it
follows that a call with known peers is alone, in slot 0, where `&NBX_prc_bi` points (`Alone`).
`QueueHolds`: the slot a queued call was given is still that of its `Caller`, `rid` is the number of
buffers there, and a call that knows its peers sends, or will send, from its own `send_buf`. `Flying`:
only messages of queued calls are to come. `BuffersHold` says what is in a slot: for an unknown call
`Arrived` (the messages of its call that are not to come, each once, those of one source in order, with
`tags` and `prc_recv` telling theirs), for a known one `FilledIn` (a place for every message, filled
if it is not to come). When the base's Wait is complete nothing is to come, so the buffers list exactly
the messages of the call (`EndComplete`). `SortedGives` then shows that `reorder_buffer` leaves no
choice: the sort may do what it likes with equal entries, but either the tags tell messages of a
source apart, or there is one of each. That a list ordered by (processor, position) with these messages is
`Expected` is `SortedIsExpected`, by counting what lies before each (`RankCounts`).

`Packing_proofs` proves, for every set of ranks, every list of properties and every set of calls, `TypeCorrect`
(`TypeOK`), `ObjectsSentToOwner` (`SentToOwner`), `ObjectsArriveWhole` (`ObjectsWhole`) and `ListsTell` (`SizesTell`).
They need some things of the calls, stated at the end of Packing; MCPacking assumes all of them of the calls of
`packing`, and for most it has calls that do without and break the property (section 4):

- `OneBuffer`, for `ObjectsSentToOwner`: known receivers are not combined with one buffer per property, which is
  the disagreement `packing_known_inte`;
- `SomeProperty`, for the other three: a call names a property to merge. With none the stride of the loop over
  the buffers is 0;
- `AllFit`, for `ObjectsArriveWhole` and `ListsTell`: the template arguments and options of each call fit each
  other (`Fitting`). `layout_base` is that of the object (else `DefaultBase`); of a buffer per property as many
  properties are asked for as there are (`Subset`), and its senders are not known (`KnownPerProperty`); the device
  has properties apart only (`DirectOneBuffer`); `merge` is not used with a buffer per property
  (`MergePerProperty`), `merge_gpu` only where the buffers are received in device memory (`MergeGpuOneBuffer`), and
  the operations of `SSendRecvP_op` in the memory they are written for; a known sender has one object for a receiver;
- `RootOnlySends`, for `ListsTell`: the root of a scatter has no chunk for itself (`ScatterKeeps`).

That a gather or scatter has no options, adds, and asks for all properties, that in a gather everybody has one
object for the root, and that a scatter sends a vector as it lies, is in the signatures and bodies of `SGather` and
`SScatter`; the model's assumption says so (`AsDeclared`).

`NothingLost` is the invariant behind the first. `KeptInv` says of every rank that has sent: what `Outgoing`
lists is in flight or in exactly one buffer of its receiver (`Has`), and nothing else is; `ListsInv` that `tags` and
`prc_recv` are as long as the buffers they tell of. `SentToOwner` itself is not inductive: it says that
buffers with all properties of an object are somewhere, and would allow a message to be in two places, one of
which the sort, or a known receive filled in twice, might lose. Sorting is shown to be a permutation
(`SortingShuffles`), so it keeps `KeptInv`.

What the model computes from lists are folds, and induction over data is beyond the prover. The lemmas at the
beginning go around it. A fold is a function on sets of numbers that satisfies an equation
(`SetRecursion`); that this is so for all numbers follows from the smallest one for which it would not be
(`Smallest`, `Induction`), which uses only that Nat is well founded. So a sum has its partial sums, a
flattened sequence has each element at the place its part begins (`Flattened`), and the loop over the
buffers is a function `h` of the number of strides done (`Loop`), of which `Stays` says what is kept.

`WholeInv` is the invariant behind the last two. `ToldInv` says what the lists tell of the buffers while a rank
waits: `recv` is as the application gave it, a slot's `prc_recv` and `tags` are those of the message in it, and for
known senders the slots are in the caller's order. `LaterInv` is what a scatter needs, which sorts nothing: whatever
is still in flight has a larger tag than what arrived, because all comes from the root. `OverInv` is the conclusion,
for the ranks that are done. The step that ends a call has three parts:

1. The buffers are those of the objects addressed to the rank, each once (`Collected`, from `KeptInv`: no slot is
   without an object, no object without a slot, no two slots have one key), and processor and tag order them.
   Two lists of the same things in the same strict order are one list (`OneOrder`), so they are in the order of
   `Arrivals`, buffer j of object m at `Place(m, j)` (`CollectedLaid`, `Laid`).
2. The unpacking of stride m then gives the elements of object m (`Unpacking`): every buffer holds the property it is
   read as, in the memory it is read from.
3. After m objects `recv` has the elements of the first m and nothing else, in every memory that counts, the marker
   is behind them, and the lists tell of them (`Walked`). `WalkOn` is the step from m to m + 1, by operation
   (`ExecuteFilled`), and `ProcessWhole` the end.

Only model-checked: `Termination`, `QueueTermination`, `ClustersTermination` and `WireTermination`
(liveness under fairness is beyond the prover).

## 6. What is not modelled

- Serialization itself, and the containers and their memory: openfpm_data is not in the repository.
  Packing models them by what the code here relies on. Objects of several calls at once, and packed
  memory that is reused, are SSendRecv's; one property that is itself a vector is not there.
- Sizes beyond "zero or not" (NBX) and "which of a few" (NBXQueue); Wire has them.
- The number of messages in a list reaching 131072, where positions spill into the next tag; messages
  of 8 * 2^31 bytes or more; tags of `send` and `recv` from 4096 on, which are tags of exchanges
  (nothing checks them); a sender that runs `nbx_cycle` known calls ahead of a receiver.
- A fifth queued unknown call, or a semantic slot beyond the arrays: undefined behaviour, at which the
  models stop.
- The values that reductions compute, and reductions of types without an MPI type, which make no MPI
  call but leave a request. To the queue `allGather` and `Bcast` are reductions.
- PETSc's initialisation, signal handlers, temporary device memory and the check of the compilation
  mask in `openfpm_init` and `openfpm_finalize`; objects on different communicators, which share
  nothing but `n_vcluster`; queued exchanges of two objects at once.
- When the log's timer makes a report due, and the text of reports.
- GPU kernels and streams (`cuda/`); of the GPU paths Packing has which memory is used where.
- Errors of MPI other than those in Wire (`MPI_SAFE_CALL` ends the program), unit tests and build files.

## 7. Plan

In order; the first sixteen are done.

1. MPINet, NBX, SparseExchange, `nbx3`, `nbx2`.
2. `NBX_proofs`: types, invariant, safety, refinement.
3. NBXQueue with its passing runs and disagreements.
4. SSendRecv with its runs.
5. Reductions, `execute` and the blocking known exchanges in NBXQueue; gather and scatter in
   SSendRecv.
6. Wire with its runs, and `Wire_proofs`.
7. Packing with its runs.
8. Log over NBXQueue, in `queue3`.
9. Clusters over NBX: init, finalize, the two global clusters, `n_vcluster`, and exchanges of several
   objects with separate counters on one communicator.
10. `SSendRecv_proofs`: packed memory; `Wire_proofs`: slots, calls and whole messages.
11. `NBXQueue_proofs`: requests, collectives and completed calls under the discipline.
12. `Clusters_proofs`: objects, MPI and tags of several objects under the discipline.
13. `SSendRecv_proofs`: merged results under the discipline, types, slots.
14. `Log_proofs`: reports, over `NBXQueue_proofs`.
15. `NBXQueueOrder` and `NBXQueueMatch_proofs`: tags and delivery of the queue.
16. `Packing_proofs`: every object with its owner, the types, every element whole, what the lists tell.
17. A proof that remains: that NBXQueue restricted to blocking calls implements SparseExchange.
