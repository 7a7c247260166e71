---------------------------- MODULE Wire_proofs ----------------------------
(***************************************************************************)
(* Theorems about Wire, for every INT_MAX, every MPI_TAG_UB that the       *)
(* constructor accepts, every number of slots and every program: tags are  *)
(* legal, and exchanges lose nothing of a message.  Then, with what is     *)
(* asked of the application there: every message reaches the call it was   *)
(* sent for, in the slot it was sent for, although senders run ahead of the*)
(* receiver and the counter wraps; and what a receiver was told to expect  *)
(* arrives whole.                                                          *)
(***************************************************************************)
EXTENDS Wire, TLAPS

----------------------------------------------------------------------------
\* Sizes.

\* A count up to INT_MAX survives the conversion to int.
LEMMA AsIntSmall ==
    ASSUME NEW n \in Nat, n <= INT_MAX
    PROVE  AsInt(n) = n
BY DEF AsInt

\* What the receiver finds of a message of an exchange: as many bytes as were
\* given, or at most 8 more above INT_MAX; however it counts them.
LEMMA SparseBytes ==
    ASSUME NEW sz \in 1 .. 8 * INT_MAX - 1
    PROVE  /\ BytesOf(Sparse(sz)) = IF sz <= INT_MAX THEN sz ELSE (sz \div 8 + 1) * 8
           /\ BytesOf(Sparse(sz)) \in Nat
           /\ Sparse(sz) \in [type : DOMAIN MPISize, count : Int]
<1>1. INT_MAX \in Nat
  BY WireAssumption
<1>2. CASE sz <= INT_MAX
  <2>1. Sparse(sz) = [type |-> "MPI_BYTE", count |-> sz]
    BY <1>1, <1>2, AsIntSmall DEF Sparse, Part
  <2> QED
    BY <1>1, <1>2, <2>1 DEF BytesOf, MPISize
<1>3. CASE sz > INT_MAX
  <2>1. sz \div 8 + 1 \in Nat /\ sz \div 8 + 1 <= INT_MAX
    BY <1>1
  <2>2. Sparse(sz) = [type |-> "MPI_DOUBLE", count |-> sz \div 8 + 1]
    BY <1>1, <1>3, <2>1, AsIntSmall DEF Sparse, Part
  <2> QED
    BY <1>1, <1>3, <2>1, <2>2 DEF BytesOf, MPISize
<1> QED
  BY <1>1, <1>2, <1>3

\* MPI_Get_count in doubles or in bytes: the same number of bytes.
LEMMA MsgSizeIsBytes ==
    ASSUME NEW part, BytesOf(part) \in Nat
    PROVE  MsgSize(part) = BytesOf(part)
BY DEF MsgSize

\* Both ways of receiving keep the bound of SparseCovered.
LEMMA SizeRoundTrip ==
    ASSUME NEW sz \in 1 .. 8 * INT_MAX - 1
    PROVE  LET size == BytesOf(Sparse(sz)) IN
           /\ MsgSize(Sparse(sz)) = size
           /\ size \in Nat
           /\ IF sz <= INT_MAX THEN size = sz ELSE sz <= size /\ size <= sz + 8
<1>1. INT_MAX \in Nat
  BY WireAssumption
<1>2. sz <= INT_MAX \/ (sz <= (sz \div 8 + 1) * 8 /\ (sz \div 8 + 1) * 8 <= sz + 8)
  BY <1>1
<1> QED
  BY <1>1, <1>2, SparseBytes, MsgSizeIsBytes

----------------------------------------------------------------------------
\* Tags.

\* nbx_cycle leaves room for NQUEUE slots above the last value of NBX_cnt and
\* for every position in a list.
LEMMA CycleFits ==
    /\ nbx_cycle \in Nat /\ nbx_cycle >= 2
    /\ SEND_SPARSE + (nbx_cycle + NQUEUE + 1) * Stride <= tag_ub
<1>1. /\ tag_ub \in Nat /\ SEND_SPARSE \in Nat /\ NQUEUE \in Nat \ {0} /\ Stride \in Nat \ {0}
      /\ nbx_cycle >= 2 * NQUEUE
  BY WireAssumption
<1> DEFINE room == tag_ub - SEND_SPARSE - Stride - NQUEUE * Stride
<1>2. room \in Int
  <2>1. NQUEUE * Stride \in Nat
    BY <1>1
  <2> QED
    BY <1>1, <2>1
<1>3. nbx_cycle = room \div Stride
  BY DEF nbx_cycle
<1> HIDE DEF room
<1>4. nbx_cycle \in Int /\ nbx_cycle * Stride <= room
  BY <1>1, <1>2, <1>3
<1>5. nbx_cycle \in Nat /\ nbx_cycle >= 2
  BY <1>1, <1>4
<1>6. (nbx_cycle + NQUEUE + 1) * Stride = nbx_cycle * Stride + NQUEUE * Stride + Stride
  BY <1>1, <1>5
<1>7. nbx_cycle * Stride \in Nat /\ NQUEUE * Stride \in Nat
  BY <1>1, <1>5
<1> QED
  BY <1>1, <1>4, <1>5, <1>6, <1>7 DEF room

\* The tag of a message of an exchange is legal and maps back to its slot.
LEMMA TagRoundTrip ==
    ASSUME NEW cnt \in 0 .. nbx_cycle - 1, NEW slot \in 0 .. NQUEUE - 1,
           NEW i \in 0 .. Stride - 1
    PROVE  /\ SparseTag(cnt, slot, i) \in Nat
           /\ SparseTag(cnt, slot, i) <= tag_ub
           /\ SlotOf(SparseTag(cnt, slot, i), cnt) = slot
           /\ \A n \in 1 .. NQUEUE : InWindow(SparseTag(cnt, slot, i), cnt, n) <=> slot < n
<1>1. NQUEUE \in Nat /\ tag_ub \in Nat /\ Stride \in Nat \ {0} /\ SEND_SPARSE \in Nat
  BY WireAssumption
<1>2. /\ cnt \in Nat /\ slot \in Nat /\ i \in Nat /\ i < Stride
      /\ cnt + slot + 1 <= nbx_cycle + NQUEUE + 1
      /\ slot <= NQUEUE - 1 /\ nbx_cycle \in Nat
  BY <1>1, CycleFits
<1> DEFINE k == cnt + slot
<1>3. k \in Nat /\ k * Stride \in Nat /\ (k + 1) * Stride = k * Stride + Stride
  BY <1>1, <1>2
<1>4. SparseTag(cnt, slot, i) = SEND_SPARSE + k * Stride + i
  BY DEF SparseTag
<1>5. (k * Stride + i) \div Stride = k
  BY <1>1, <1>2
<1>6. (k + 1) * Stride <= (nbx_cycle + NQUEUE + 1) * Stride
  BY <1>1, <1>2, <1>3
<1>7. SparseTag(cnt, slot, i) \in Nat /\ SparseTag(cnt, slot, i) <= tag_ub
  <2>1. (nbx_cycle + NQUEUE + 1) * Stride \in Nat
    BY <1>1, <1>2
  <2> QED
    BY <1>1, <1>2, <1>3, <1>4, <1>6, <2>1, CycleFits
<1>8. SlotOf(SparseTag(cnt, slot, i), cnt) = slot
  <2>1. SparseTag(cnt, slot, i) - SEND_SPARSE = k * Stride + i /\ k * Stride + i >= 0
    BY <1>1, <1>2, <1>3, <1>4
  <2>2. CDiv(SparseTag(cnt, slot, i) - SEND_SPARSE, Stride) = k
    BY <1>5, <2>1 DEF CDiv
  <2> QED
    BY <1>2, <2>2 DEF SlotOf, k
<1>9. ASSUME NEW n \in 1 .. NQUEUE
       PROVE  InWindow(SparseTag(cnt, slot, i), cnt, n) <=> slot < n
  <2> DEFINE low == cnt * Stride
             high == (cnt + n) * Stride
             tag == SparseTag(cnt, slot, i)
  <2>1. /\ low \in Nat /\ high \in Nat /\ low <= k * Stride
        /\ slot < n => (k + 1) * Stride <= high
        /\ n <= slot => high <= k * Stride
    BY <1>1, <1>2
  <2>2. n \in Nat
    OBVIOUS
  <2>3. tag = SEND_SPARSE + k * Stride + i
    BY <1>4
  <2>4. InWindow(tag, cnt, n) <=> SEND_SPARSE + low <= tag /\ tag < SEND_SPARSE + high
    BY DEF InWindow
  <2> HIDE DEF low, high, tag, k
  <2>5. InWindow(tag, cnt, n) <=> slot < n
    BY <1>1, <1>2, <1>3, <2>1, <2>2, <2>3, <2>4
  <2> QED
    BY <2>5 DEF tag
<1> QED
  BY <1>7, <1>8, <1>9

\* So is the tag of every plain message.
LEMMA PlainTagLegal ==
    ASSUME NEW cnt \in 0 .. nbx_cycle - 1, NEW call, call.tag \in 0 .. SEND_RECV_BASE - 1
    PROVE  PlainTag(call, cnt) \in Nat /\ PlainTag(call, cnt) <= tag_ub
<1>1. /\ SEND_SPARSE \in Nat /\ SEND_RECV_BASE \in Nat /\ Stride \in Nat \ {0}
      /\ SEND_RECV_BASE + SEND_RECV_BASE <= SEND_SPARSE /\ SEND_RECV_BASE <= Stride
      /\ tag_ub \in Nat /\ NQUEUE \in Nat /\ call.tag \in Nat /\ call.tag < SEND_RECV_BASE
  BY WireAssumption
<1>2. cnt \in Nat /\ cnt + 1 <= nbx_cycle + NQUEUE + 1 /\ nbx_cycle \in Nat
  BY <1>1, CycleFits
<1>3. /\ (cnt + 1) * Stride <= (nbx_cycle + NQUEUE + 1) * Stride
      /\ (cnt + 1) * Stride = cnt * Stride + Stride
      /\ cnt * Stride \in Nat /\ (nbx_cycle + NQUEUE + 1) * Stride \in Nat
  BY <1>1, <1>2
<1> QED
  BY <1>1, <1>2, <1>3, CycleFits DEF PlainTag

----------------------------------------------------------------------------
\* Types of what the wrappers compute.

PartType == [type : DOMAIN MPISize, count : Int]

LEMMA NextCntType ==
    ASSUME NEW cnt \in 0 .. nbx_cycle - 1, NEW n \in Nat
    PROVE  NextCnt(cnt, n) \in 0 .. nbx_cycle - 1
<1>1. nbx_cycle \in Nat \ {0} /\ cnt + n \in Nat
  BY CycleFits
<1> QED
  BY <1>1 DEF NextCnt

LEMMA AsIntType ==
    ASSUME NEW n \in Nat
    PROVE  AsInt(n) \in Int
<1>1. INT_MAX \in Nat /\ 2 * (INT_MAX + 1) \in Nat \ {0} /\ n + INT_MAX + 1 \in Nat
  BY WireAssumption
<1>2. (n + INT_MAX + 1) % (2 * (INT_MAX + 1)) \in Int
  BY <1>1
<1> QED
  BY <1>1, <1>2 DEF AsInt

LEMMA PartTyped ==
    ASSUME NEW type \in DOMAIN MPISize, NEW n \in Nat
    PROVE  Part(type, n) \in PartType
BY AsIntType DEF Part, PartType

LEMMA BytesTyped ==
    ASSUME NEW part \in PartType
    PROVE  BytesOf(part) \in Int /\ MsgSize(part) \in Int
<1>1. part.count \in Int /\ MPISize[part.type] \in Nat
  BY DEF PartType, MPISize
<1>2. BytesOf(part) \in Int
  BY <1>1 DEF BytesOf
<1> QED
  BY <1>2 DEF MsgSize

LEMMA SizeofTyped ==
    ASSUME NEW T \in DOMAIN Sizeof
    PROVE  Sizeof[T] \in Nat
BY WireAssumption DEF Sizeof

LEMMA SpecialisedTyped ==
    ASSUME NEW T \in Primitive
    PROVE  Specialised[T] \in DOMAIN MPISize
BY DEF Primitive, Specialised, MPISize

LEMMA BufferTyped ==
    ASSUME NEW n \in Nat
    PROVE  MPI_IsendWB(n) \in PartType
<1>1. INT_MAX \in Nat /\ n \div 8 \in Nat
  BY WireAssumption
<1>2. "MPI_BYTE" \in DOMAIN MPISize /\ "MPI_DOUBLE" \in DOMAIN MPISize
  BY DEF MPISize
<1> QED
  BY <1>1, <1>2, PartTyped DEF MPI_IsendWB

LEMMA BytesOfVector ==
    ASSUME NEW T \in DOMAIN Sizeof, NEW n \in Nat
    PROVE  n * Sizeof[T] \in Nat
BY SizeofTyped

LEMMA SentTyped ==
    ASSUME NEW call, Legal(call)
    PROVE  SentPart(call) \in PartType /\ PlainSize(call) \in Nat
<1>1. call.T \in DOMAIN Sizeof /\ call.n \in Nat
  BY DEF Legal
<1>2. MPI_IsendW(call.T, call.n) \in PartType
  BY <1>1, SpecialisedTyped, PartTyped, BufferTyped, BytesOfVector DEF MPI_IsendW
<1> QED
  BY <1>1, <1>2, BufferTyped, BytesOfVector DEF SentPart, PlainSize

LEMMA PartsTyped ==
    ASSUME NEW call, Legal(call),
           call.op \in {"allGather", "Bcast", "BcastProps", "reduce"},
           NEW i \in DOMAIN Parts(call)
    PROVE  i \in Nat /\ Parts(call)[i].part \in PartType /\ Parts(call)[i].sz \in Nat
<1>1. call.T \in DOMAIN Sizeof /\ call.n \in Nat /\ call.props \in Seq(Nat)
  BY DEF Legal
<1>2. "MPI_BYTE" \in DOMAIN MPISize
  BY DEF MPISize
<1>3. /\ MPI_IAllGatherW(call.T, 1) \in PartType
      /\ MPI_IBcastW(call.T, call.n) \in PartType
  BY <1>1, <1>2, SpecialisedTyped, PartTyped, BytesOfVector DEF MPI_IAllGatherW, MPI_IBcastW
<1>4. CASE call.op = "allGather"
  BY <1>1, <1>3, <1>4, SizeofTyped DEF Parts
<1>5. CASE call.op = "Bcast"
  BY <1>1, <1>3, <1>5, BytesOfVector DEF Parts
<1>6. CASE call.op = "BcastProps"
  <2>1. Parts(call) = [j \in DOMAIN call.props |->
            [part |-> Part("MPI_BYTE", call.n * call.props[j]), sz |-> call.n * call.props[j]]]
    BY <1>6 DEF Parts
  <2>2. i \in Nat /\ call.props[i] \in Nat
    BY <1>1, <2>1
  <2>3. call.n * call.props[i] \in Nat
    BY <1>1, <2>2
  <2> QED
    BY <1>2, <2>1, <2>2, <2>3, PartTyped
<1>7. CASE call.op = "reduce"
  <2>1. call.T \in Primitive
    BY <1>7 DEF Legal
  <2>2. MPI_IallreduceW(call.T) \in PartType
    BY <2>1, SpecialisedTyped, PartTyped DEF MPI_IallreduceW
  <2> QED
    BY <1>1, <1>7, <2>2, SizeofTyped DEF Parts
<1> QED
  BY <1>4, <1>5, <1>6, <1>7

----------------------------------------------------------------------------
(* The invariant. *)

\* What is on the wire for an exchange was counted by queue_all_sends.
WireSizes == \A m \in wire : m.slot # NoSlot =>
    m.sz \in 1 .. 8 * INT_MAX - 1 /\ m.part = Sparse(m.sz)

IInv == TypeOK /\ TagsLegal /\ WireSizes /\ SparseCovered

\* The call a side is at is one that applications may make.
LEMMA LegalCall ==
    ASSUME TypeOK, NEW s \in Sides, NEW ops, AtCall(s, ops)
    PROVE  Legal(Call(s)) /\ Call(s).op \in ops
BY WireAssumption DEF TypeOK, AtCall, Call

\* The messages of an exchange.
LEMMA QueuedMessages ==
    ASSUME NEW cnt \in 0 .. nbx_cycle - 1, NEW k \in Nat, NEW call, Legal(call),
           call.op = "exchange", NEW m \in queue_all_sends(cnt, k, call.lists)
    PROVE  /\ m \in Messages /\ m.tag <= tag_ub
           /\ m.sz \in 1 .. 8 * INT_MAX - 1 /\ m.part = Sparse(m.sz)
<1>1. PICK q \in DOMAIN call.lists : \E i \in DOMAIN call.lists[q] :
        m = [tag |-> SparseTag(cnt, q - 1, i), part |-> Sparse(call.lists[q][i]), step |-> k,
             slot |-> q - 1, pos |-> i, sz |-> call.lists[q][i]]
  BY DEF queue_all_sends
<1>2. PICK i \in DOMAIN call.lists[q] :
        m = [tag |-> SparseTag(cnt, q - 1, i), part |-> Sparse(call.lists[q][i]), step |-> k,
             slot |-> q - 1, pos |-> i, sz |-> call.lists[q][i]]
  BY <1>1
<1>3. /\ q \in 1 .. Len(call.lists) /\ Len(call.lists) \in 1 .. NQUEUE
      /\ i \in 0 .. Stride - 1 /\ call.lists[q][i] \in 1 .. 8 * INT_MAX - 1
  BY DEF Legal
<1>4. NQUEUE \in Nat /\ Stride \in Nat /\ INT_MAX \in Nat
  BY WireAssumption
<1>5. q - 1 \in 0 .. NQUEUE - 1 /\ i \in Nat /\ call.lists[q][i] \in Nat
  BY <1>3, <1>4
<1>6. SparseTag(cnt, q - 1, i) \in Nat /\ SparseTag(cnt, q - 1, i) <= tag_ub
  BY <1>3, <1>5, TagRoundTrip
<1>7. Sparse(call.lists[q][i]) \in [type : DOMAIN MPISize, count : Int]
  BY <1>3, SparseBytes
<1> QED
  BY <1>2, <1>3, <1>5, <1>6, <1>7 DEF Messages

\* What a receive reports of a message that is on the wire.
LEMMA GivenRight ==
    ASSUME IInv, NEW m \in wire, NEW slot \in Int, NEW size,
           size \in {BytesOf(m.part), MsgSize(m.part)}
    PROVE  LET r == Given(m, slot, size) IN
           /\ r \in [msg : Messages, step : Nat, slot : Int, size : Int]
           /\ r.msg.slot # NoSlot =>
                IF r.msg.sz <= INT_MAX THEN r.size = r.msg.sz
                ELSE r.msg.sz <= r.size /\ r.size <= r.msg.sz + 8
<1>1. m \in Messages /\ at["receiver"] \in Nat
  BY DEF IInv, TypeOK, Sides
<1>2. size \in Int
  BY <1>1, BytesTyped DEF Messages, PartType
<1>3. m.slot # NoSlot => m.sz \in 1 .. 8 * INT_MAX - 1 /\ m.part = Sparse(m.sz)
  BY DEF IInv, WireSizes
<1>4. m.slot # NoSlot =>
        IF m.sz <= INT_MAX THEN size = m.sz ELSE m.sz <= size /\ size <= m.sz + 8
  BY <1>3, SizeRoundTrip
<1>5. Given(m, slot, size) = [msg |-> m, step |-> at["receiver"], slot |-> slot, size |-> size]
  BY DEF Given
<1> QED
  BY <1>1, <1>2, <1>4, <1>5

LEMMA InitInv == Init => IInv
<1> SUFFICES ASSUME Init PROVE IInv
  OBVIOUS
<1>1. TypeOK
  <2>1. /\ at \in [Sides -> Nat \ {0}] /\ inside \in [Sides -> BOOLEAN]
        /\ NBX_cnt \in [Sides -> 0 .. nbx_cycle - 1]
    BY DEF Init
  <2> QED
    BY <2>1 DEF Init, TypeOK
<1> QED
  BY <1>1 DEF Init, IInv, TagsLegal, WireSizes, SparseCovered

LEMMA ExchangeInv == ASSUME IInv, NEW s \in Sides, Exchange(s) PROVE IInv'
<1> DEFINE new == queue_all_sends(NBX_cnt[s], at[s], Call(s).lists)
<1>1. TypeOK /\ NBX_cnt[s] \in 0 .. nbx_cycle - 1 /\ at[s] \in Nat
  BY DEF IInv, TypeOK
<1>2. Legal(Call(s)) /\ Call(s).op = "exchange"
  BY <1>1, LegalCall DEF Exchange
<1>3. \A m \in new : /\ m \in Messages /\ m.tag <= tag_ub
                     /\ m.sz \in 1 .. 8 * INT_MAX - 1 /\ m.part = Sparse(m.sz)
  BY <1>1, <1>2, QueuedMessages
<1>4. wire' \subseteq wire \cup new
  BY DEF Exchange
<1> HIDE DEF new
<1>5. TypeOK'
  BY <1>1, <1>3, <1>4 DEF TypeOK, Exchange
<1>6. TagsLegal'
  BY <1>3, <1>4 DEF IInv, TagsLegal
<1>7. WireSizes'
  BY <1>3, <1>4 DEF IInv, WireSizes
<1>8. SparseCovered'
  BY DEF IInv, SparseCovered, Exchange
<1> QED
  BY <1>5, <1>6, <1>7, <1>8 DEF IInv

LEMMA ProgressInv == ASSUME IInv, progressCommunication PROVE IInv'
<1>1. PICK m \in wire : \E slot \in 0 .. Len(Call("receiver").lists) - 1 :
        /\ received' = received \cup {Given(m, slot, MsgSize(m.part))}
        /\ wire' = wire \ {m}
  BY DEF progressCommunication
<1>2. PICK slot \in Int : received' = received \cup {Given(m, slot, MsgSize(m.part))}
  BY <1>1
<1>3. TypeOK' /\ SparseCovered'
  BY <1>1, <1>2, GivenRight, SMTT(30) DEF IInv, TypeOK, SparseCovered, progressCommunication
<1>4. TagsLegal' /\ WireSizes'
  BY <1>1 DEF IInv, TagsLegal, WireSizes
<1> QED
  BY <1>3, <1>4 DEF IInv

LEMMA WaitInv == ASSUME IInv, NEW s \in Sides, Wait(s) PROVE IInv'
<1>1. TypeOK /\ Legal(Call(s)) /\ Call(s).op = "exchange"
  BY LegalCall DEF IInv, Wait
<1>2. Len(Call(s).lists) \in Nat
  BY <1>1, WireAssumption DEF Legal
<1>3. NextCnt(NBX_cnt[s], Len(Call(s).lists)) \in 0 .. nbx_cycle - 1
  BY <1>1, <1>2, NextCntType DEF TypeOK
<1>4. TypeOK'
  BY <1>1, <1>3 DEF TypeOK, Wait
<1> QED
  BY <1>4 DEF IInv, TagsLegal, WireSizes, SparseCovered, Wait

LEMMA ExecutedTyped ==
    ASSUME TypeOK, NEW s \in Sides, Executed(s)
    PROVE  /\ NBX_cnt' \in [Sides -> 0 .. nbx_cycle - 1]
           /\ at' \in [Sides -> Nat \ {0}]
<1>1. NextCnt(NBX_cnt[s], 1) \in 0 .. nbx_cycle - 1
  BY NextCntType DEF TypeOK
<1> QED
  BY <1>1 DEF TypeOK, Executed

LEMMA SendInv == ASSUME IInv, send PROVE IInv'
<1> DEFINE call == Call("senders")
           m == [tag |-> PlainTag(call, NBX_cnt["senders"]), part |-> SentPart(call),
                 step |-> at["senders"], slot |-> NoSlot, pos |-> 0, sz |-> PlainSize(call)]
<1>1. TypeOK /\ "senders" \in Sides /\ Legal(call)
  BY LegalCall DEF IInv, send, Sides
<1>2. call.tag \in 0 .. SEND_RECV_BASE - 1
  BY <1>1 DEF Legal
<1>3. PlainTag(call, NBX_cnt["senders"]) \in Nat /\ PlainTag(call, NBX_cnt["senders"]) <= tag_ub
  BY <1>1, <1>2, PlainTagLegal DEF TypeOK
<1>4. SentPart(call) \in PartType /\ PlainSize(call) \in Nat
  BY <1>1, SentTyped
<1>5. wire' = wire \cup {m} /\ Executed("senders")
  BY DEF send
<1> HIDE DEF call
<1>6. m \in Messages /\ m.tag <= tag_ub /\ m.slot = NoSlot
  BY <1>1, <1>3, <1>4 DEF Messages, PartType, NoSlot, TypeOK
<1> HIDE DEF m
<1>7. TypeOK'
  BY <1>1, <1>5, <1>6, ExecutedTyped DEF TypeOK, send
<1>8. TagsLegal' /\ WireSizes'
  BY <1>5, <1>6 DEF IInv, TagsLegal, WireSizes
<1>9. SparseCovered'
  BY DEF IInv, SparseCovered, send
<1> QED
  BY <1>7, <1>8, <1>9 DEF IInv

LEMMA RecvInv == ASSUME IInv, recv PROVE IInv'
<1>1. PICK m \in wire :
        \/ aborted' = TRUE /\ UNCHANGED <<at, NBX_cnt, wire, received>>
        \/ /\ received' = received \cup {Given(m, NoSlot, BytesOf(m.part))}
           /\ wire' = wire \ {m} /\ Executed("receiver") /\ UNCHANGED aborted
  BY DEF recv
<1>2. TypeOK /\ "receiver" \in Sides /\ NoSlot \in Int /\ UNCHANGED <<prog, inside>>
  BY DEF IInv, Sides, NoSlot, recv
<1>3. CASE aborted' = TRUE /\ UNCHANGED <<at, NBX_cnt, wire, received>>
  BY <1>2, <1>3 DEF IInv, TypeOK, TagsLegal, WireSizes, SparseCovered
<1>4. CASE /\ received' = received \cup {Given(m, NoSlot, BytesOf(m.part))}
           /\ wire' = wire \ {m} /\ Executed("receiver") /\ UNCHANGED aborted
  <2>1. TypeOK' /\ SparseCovered'
    BY <1>2, <1>4, GivenRight, ExecutedTyped DEF IInv, TypeOK, SparseCovered
  <2>2. TagsLegal' /\ WireSizes'
    BY <1>4 DEF IInv, TagsLegal, WireSizes
  <2> QED
    BY <2>1, <2>2 DEF IInv
<1> QED
  BY <1>1, <1>3, <1>4

LEMMA CollectiveInv == ASSUME IInv, Collective PROVE IInv'
<1> DEFINE parts == Parts(Call("senders"))
           Of(i) == [tag |-> 0, part |-> parts[i].part, step |-> at["senders"],
                     slot |-> NoSlot, pos |-> i, sz |-> parts[i].sz]
           new == {Given(Of(i), NoSlot, BytesOf(parts[i].part)) : i \in DOMAIN parts}
<1>1. TypeOK /\ "senders" \in Sides /\ "receiver" \in Sides /\ NoSlot \in Int
  BY DEF IInv, Sides, NoSlot
<1>2. /\ Legal(Call("senders"))
      /\ Call("senders").op \in {"allGather", "Bcast", "BcastProps", "reduce"}
  BY <1>1, LegalCall DEF Collective
<1>3. ASSUME NEW i \in DOMAIN parts
      PROVE  /\ Given(Of(i), NoSlot, BytesOf(parts[i].part))
                    \in [msg : Messages, step : Nat, slot : Int, size : Int]
             /\ Given(Of(i), NoSlot, BytesOf(parts[i].part)).msg.slot = NoSlot
  <2>1. i \in Nat /\ parts[i].part \in PartType /\ parts[i].sz \in Nat
    BY <1>2, PartsTyped
  <2>2. BytesOf(parts[i].part) \in Int /\ at["senders"] \in Nat /\ at["receiver"] \in Nat
    BY <1>1, <2>1, BytesTyped DEF TypeOK
  <2> HIDE DEF parts
  <2> QED
    BY <1>1, <2>1, <2>2 DEF Given, Messages, PartType
<1>4. /\ UNCHANGED <<prog, inside, NBX_cnt, wire>>
      /\ \/ aborted' = TRUE /\ UNCHANGED <<at, received>>
         \/ /\ received' = received \cup new
            /\ at' = [s \in Sides |-> at[s] + 1]
            /\ UNCHANGED aborted
  BY DEF Collective
<1>5. \A r \in new : r \in [msg : Messages, step : Nat, slot : Int, size : Int] /\ r.msg.slot = NoSlot
  BY <1>3
<1> HIDE DEF new
<1>6. TypeOK'
  <2>1. at' \in [Sides -> Nat \ {0}]
    BY <1>1, <1>4 DEF TypeOK
  <2>2. received' \subseteq [msg : Messages, step : Nat, slot : Int, size : Int]
    BY <1>1, <1>4, <1>5 DEF TypeOK
  <2>3. aborted' \in BOOLEAN
    BY <1>1, <1>4 DEF TypeOK
  <2> QED
    BY <1>1, <1>4, <2>1, <2>2, <2>3 DEF TypeOK
<1>7. SparseCovered'
  BY <1>4, <1>5 DEF IInv, SparseCovered
<1> QED
  BY <1>4, <1>6, <1>7 DEF IInv, TagsLegal, WireSizes

LEMMA StutterInv == ASSUME IInv, UNCHANGED vars PROVE IInv'
BY DEF IInv, TypeOK, TagsLegal, WireSizes, SparseCovered, vars

LEMMA NextInv == IInv /\ [Next]_vars => IInv'
<1> SUFFICES ASSUME IInv, [Next]_vars PROVE IInv'
  OBVIOUS
<1>1. CASE Next
  BY <1>1, ExchangeInv, WaitInv, ProgressInv, SendInv, RecvInv, CollectiveInv,
     StutterInv DEF Next, Idle
<1>2. CASE UNCHANGED vars
  BY <1>2, StutterInv
<1> QED
  BY <1>1, <1>2

----------------------------------------------------------------------------
\* The invariant holds of every program with any counts and slots.
THEOREM Invariance == Spec => []IInv
BY InitInv, NextInv, PTL DEF Spec

\* Types, and NBX_cnt below the cycle.
THEOREM TypeCorrect == Spec => []TypeOK
BY Invariance, PTL DEF IInv

\* Every tag is at most MPI_TAG_UB, for every MPI_TAG_UB that leaves room for
\* two exchanges per slot and every position below 131072.
THEOREM TagsAlwaysLegal == Spec => []TagsLegal
BY Invariance, PTL DEF IInv

\* An exchange loses nothing of any message, and adds at most 8 bytes.
THEOREM ExchangeLosesNothing == Spec => []SparseCovered
BY Invariance, PTL DEF IInv

----------------------------------------------------------------------------
\* c[k] is the value of NBX_cnt at call k, on either side.
Values == [Nat -> 0 .. nbx_cycle - 1]

After(k, cnt) ==
    IF prog[k].op = "exchange" THEN NextCnt(cnt, Len(prog[k].lists))
    ELSE IF prog[k].op = "known" THEN NextCnt(cnt, 1) ELSE cnt

Counted(c) ==
    /\ \A s \in Sides : NBX_cnt[s] = c[at[s]]
    /\ \A k \in Nat \ {0} : (\E s \in Sides : k < at[s]) => c[k + 1] = After(k, c[k])

\* How far the sides can be apart: no exchange lies between them but the one
\* that the receiver has not left yet.
Positions ==
    /\ \/ at["receiver"] <= at["senders"]
       \/ at["receiver"] = at["senders"] + 1 /\ inside["senders"]
    /\ \A s \in Sides : inside[s] => at[s] \in DOMAIN prog /\ prog[at[s]].op = "exchange"
    /\ \A k \in at["receiver"] .. at["senders"] - 1 :
          /\ k \in DOMAIN prog
          /\ prog[k].op = "exchange" => k = at["receiver"] /\ inside["receiver"]

PlainMsg(k, cnt) ==
    [tag |-> PlainTag(prog[k], cnt), part |-> SentPart(prog[k]), step |-> k,
     slot |-> NoSlot, pos |-> 0, sz |-> PlainSize(prog[k])]

Sent(c, m) ==
    /\ m.step \in at["receiver"] .. at["senders"] /\ m.step \in DOMAIN prog
    /\ \/ /\ prog[m.step].op = "exchange"
          /\ m \in queue_all_sends(c[m.step], m.step, prog[m.step].lists)
       \/ /\ prog[m.step].op \in Plain /\ m.step < at["senders"]
          /\ m = PlainMsg(m.step, c[m.step])

OnWire(c) ==
    /\ \A m \in wire : Sent(c, m)
    /\ \A k \in at["receiver"] .. at["senders"] - 1 :
          prog[k].op \in Plain => PlainMsg(k, c[k]) \in wire

\* Where the counters of senders ahead can stand, seen from an exchange with
\* n calls at b: u known calls later.
Later(a, b, n, u) == a \in {b + n + u, b + n + u - nbx_cycle}

Ahead(c) ==
    inside["receiver"] =>
        LET r == at["receiver"]  n == Len(prog[r].lists) IN
        \A j \in r + 1 .. at["senders"] :
            n + (j - r - 1) <= nbx_cycle => \E u \in 0 .. j - r - 1 : Later(c[j], c[r], n, u)

Matching(c) == Counted(c) /\ Positions /\ OnWire(c) /\ Ahead(c)

----------------------------------------------------------------------------
\* Arithmetic of the counter.

LEMMA Wraps ==
    ASSUME NEW x \in Nat, x < 2 * nbx_cycle
    PROVE  x % nbx_cycle \in {x, x - nbx_cycle}
<1>1. nbx_cycle \in Nat \ {0}
  BY CycleFits
<1>2. CASE x < nbx_cycle
  BY <1>1, <1>2
<1>3. CASE x >= nbx_cycle
  <2>1. x = nbx_cycle + (x - nbx_cycle) /\ x - nbx_cycle \in 0 .. nbx_cycle - 1
    BY <1>1, <1>3
  <2> QED
    BY <1>1, <2>1
<1> QED
  BY <1>1, <1>2, <1>3

\* The first call after an exchange, and one known call more.
LEMMA LaterFirst ==
    ASSUME NEW b \in 0 .. nbx_cycle - 1, NEW n \in Nat, n <= nbx_cycle
    PROVE  Later(NextCnt(b, n), b, n, 0)
<1>1. nbx_cycle \in Nat \ {0} /\ b \in Nat /\ b + n \in Nat /\ b + n < 2 * nbx_cycle
  BY CycleFits
<1>2. (b + n) % nbx_cycle \in {b + n, b + n - nbx_cycle}
  BY <1>1, Wraps
<1> QED
  BY <1>1, <1>2 DEF Later, NextCnt

LEMMA LaterNext ==
    ASSUME NEW a \in 0 .. nbx_cycle - 1, NEW b \in 0 .. nbx_cycle - 1, NEW n \in Nat,
           NEW u \in Nat, n + u + 1 <= nbx_cycle, Later(a, b, n, u)
    PROVE  Later(NextCnt(a, 1), b, n, u + 1)
<1>1. nbx_cycle \in Nat \ {0} /\ a \in Nat /\ a + 1 \in Nat /\ a + 1 <= nbx_cycle /\ b \in Nat
  BY CycleFits
<1>2. (a + 1) % nbx_cycle = IF a + 1 < nbx_cycle THEN a + 1 ELSE 0
  <2>1. CASE a + 1 < nbx_cycle
    BY <1>1, <2>1
  <2>2. CASE a + 1 = nbx_cycle
    BY <1>1, <2>2
  <2> QED
    BY <1>1, <2>1, <2>2
<1>3. CASE a + 1 < nbx_cycle
  BY <1>1, <1>2, <1>3 DEF Later, NextCnt
<1>4. CASE a + 1 = nbx_cycle
  BY <1>1, <1>2, <1>4 DEF Later, NextCnt
<1> QED
  BY <1>1, <1>3, <1>4

\* No tag of a later exchange is one of this batch, however the counter wraps.
LEMMA Apart ==
    ASSUME NEW b \in 0 .. nbx_cycle - 1, NEW n \in 1 .. NQUEUE, NEW u \in Nat,
           NEW a \in 0 .. nbx_cycle - 1, Later(a, b, n, u),
           NEW q \in 0 .. NQUEUE - 1, NEW i \in 0 .. Stride - 1,
           n + u + q + 1 <= nbx_cycle
    PROVE  ~InWindow(SparseTag(a, q, i), b, n)
<1>1. /\ NQUEUE \in Nat /\ Stride \in Nat \ {0} /\ SEND_SPARSE \in Nat /\ nbx_cycle \in Nat
      /\ a \in Nat /\ b \in Nat /\ n \in Nat /\ q \in Nat /\ i \in Nat /\ i < Stride
  BY WireAssumption, CycleFits
<1> DEFINE k == a + q
           low == b * Stride
           high == (b + n) * Stride
           tag == SparseTag(a, q, i)
<1>2. k \in Nat /\ (k >= b + n \/ k + 1 <= b)
  BY <1>1 DEF Later
<1>3. low \in Nat /\ high \in Nat /\ k * Stride \in Nat /\ (k + 1) * Stride = k * Stride + Stride
  BY <1>1, <1>2
<1>4. k * Stride >= high \/ (k + 1) * Stride <= low
  <2>1. CASE k >= b + n
    BY <1>1, <1>2, <2>1
  <2>2. CASE k + 1 <= b
    BY <1>1, <1>2, <2>2
  <2> QED
    BY <1>2, <2>1, <2>2
<1>5. tag = SEND_SPARSE + k * Stride + i
  BY DEF SparseTag
<1>6. InWindow(tag, b, n) <=> SEND_SPARSE + low <= tag /\ tag < SEND_SPARSE + high
  BY DEF InWindow
<1> HIDE DEF k, low, high, tag
<1>7. ~InWindow(tag, b, n)
  BY <1>1, <1>2, <1>3, <1>4, <1>5, <1>6
<1> QED
  BY <1>7 DEF tag

\* The tag of a known call lies where position 4096 of slot 0 would; those of
\* send and recv are below all exchanges.
LEMMA PlainApart ==
    ASSUME NEW b \in 0 .. nbx_cycle - 1, NEW n \in 1 .. NQUEUE, NEW u \in Nat,
           NEW a \in 0 .. nbx_cycle - 1, Later(a, b, n, u),
           n + u + 1 <= nbx_cycle, NEW call, call.tag \in 0 .. SEND_RECV_BASE - 1
    PROVE  ~InWindow(PlainTag(call, a), b, n)
<1>1. /\ NQUEUE \in Nat \ {0} /\ Stride \in Nat \ {0} /\ SEND_SPARSE \in Nat
      /\ SEND_RECV_BASE \in Nat /\ SEND_RECV_BASE + SEND_RECV_BASE <= SEND_SPARSE
      /\ SEND_RECV_BASE < Stride /\ nbx_cycle \in Nat /\ a \in Nat /\ b \in Nat
  BY WireAssumption, CycleFits
<1>2. CASE call.op = "known"
  <2>1. a * Stride \in Nat
    BY <1>1
  <2>2. PlainTag(call, a) = SparseTag(a, 0, SEND_RECV_BASE)
    BY <1>1, <1>2, <2>1 DEF PlainTag, SparseTag
  <2>3. 0 \in 0 .. NQUEUE - 1 /\ SEND_RECV_BASE \in 0 .. Stride - 1 /\ n + u + 0 + 1 <= nbx_cycle
    BY <1>1
  <2> QED
    BY <2>2, <2>3, Apart
<1>3. CASE call.op # "known"
  <2>1. PlainTag(call, a) = SEND_RECV_BASE + call.tag /\ PlainTag(call, a) \in Nat
    BY <1>1, <1>3 DEF PlainTag
  <2>2. PlainTag(call, a) < SEND_SPARSE
    BY <1>1, <2>1
  <2>3. b * Stride \in Nat
    BY <1>1
  <2> QED
    BY <1>1, <2>1, <2>2, <2>3 DEF InWindow
<1> QED
  BY <1>2, <1>3

----------------------------------------------------------------------------
\* What a receiver takes, under the invariant.

LEMMA CallFacts ==
    ASSUME TypeOK, NEW k \in DOMAIN prog
    PROVE  /\ Legal(prog[k]) /\ k \in Nat \ {0} /\ prog \in Programs
           /\ prog[k].tag \in 0 .. SEND_RECV_BASE - 1
           /\ prog[k].op = "exchange" => Len(prog[k].lists) \in 1 .. NQUEUE
BY WireAssumption DEF TypeOK, Legal

LEMMA QueuedTag ==
    ASSUME TypeOK, NEW cnt \in Nat, NEW k \in DOMAIN prog, prog[k].op = "exchange",
           NEW m \in queue_all_sends(cnt, k, prog[k].lists)
    PROVE  /\ m.step = k /\ m.pos \in 0 .. Stride - 1
           /\ m.slot \in 0 .. NQUEUE - 1 /\ m.slot < Width(prog[k])
           /\ m.tag = SparseTag(cnt, m.slot, m.pos)
<1> DEFINE lists == prog[k].lists
<1>1. PICK q \in DOMAIN lists : \E i \in DOMAIN lists[q] :
        m = [tag |-> SparseTag(cnt, q - 1, i), part |-> Sparse(lists[q][i]), step |-> k,
             slot |-> q - 1, pos |-> i, sz |-> lists[q][i]]
  BY DEF queue_all_sends
<1>2. PICK i \in DOMAIN lists[q] :
        m = [tag |-> SparseTag(cnt, q - 1, i), part |-> Sparse(lists[q][i]), step |-> k,
             slot |-> q - 1, pos |-> i, sz |-> lists[q][i]]
  BY <1>1
<1>3. /\ q \in 1 .. Len(lists) /\ Len(lists) \in 1 .. NQUEUE
      /\ i \in 0 .. Stride - 1 /\ NQUEUE \in Nat
  BY WireAssumption, CallFacts DEF Legal
<1> QED
  BY <1>2, <1>3 DEF Width

\* A probed message that passes the tests is of this batch.
LEMMA TakenRight ==
    ASSUME TypeOK, ShortRuns, NEW c \in Values, Matching(c),
           AtCall("receiver", {"exchange"}), inside["receiver"], NEW m \in wire,
           InWindow(m.tag, NBX_cnt["receiver"], Len(Call("receiver").lists))
    PROVE  /\ m.step = at["receiver"] /\ m.slot \in Nat
           /\ SlotOf(m.tag, NBX_cnt["receiver"]) = m.slot
<1> DEFINE r == at["receiver"]
           n == Len(prog[r].lists)
           k == m.step
<1>1. /\ r \in DOMAIN prog /\ prog[r].op = "exchange" /\ r \in Nat \ {0}
      /\ n \in 1 .. NQUEUE /\ Legal(prog[r]) /\ NBX_cnt["receiver"] = c[r]
      /\ c[r] \in 0 .. nbx_cycle - 1 /\ InWindow(m.tag, c[r], n)
  BY CallFacts DEF AtCall, Call, Matching, Counted, Sides, Values
<1>2. /\ k \in r .. at["senders"] /\ k \in DOMAIN prog /\ k \in Nat \ {0}
      /\ Legal(prog[k]) /\ at["senders"] \in Nat
      /\ prog[k].tag \in 0 .. SEND_RECV_BASE - 1 /\ c[k] \in 0 .. nbx_cycle - 1
  BY CallFacts DEF Matching, OnWire, Sent, Values, TypeOK, Sides
<1>3. CASE k = r
  <2>1. m \in queue_all_sends(c[r], r, prog[r].lists)
    BY <1>1, <1>3 DEF Matching, OnWire, Sent, Plain
  <2>2. /\ m.slot \in 0 .. NQUEUE - 1 /\ m.pos \in 0 .. Stride - 1
        /\ m.tag = SparseTag(c[r], m.slot, m.pos)
    BY <1>1, <2>1, QueuedTag
  <2>3. SlotOf(m.tag, c[r]) = m.slot
    BY <1>1, <2>2, TagRoundTrip
  <2> QED
    BY <1>1, <1>3, <2>2, <2>3
<1>4. CASE k # r
  <2>1. k \in r + 1 .. at["senders"] /\ k - r - 1 \in Nat /\ NQUEUE \in Nat
    BY <1>1, <1>2, <1>4, WireAssumption
  <2>2. ASSUME NEW i \in r + 1 .. k - 1
        PROVE  prog[i].op # "exchange"
    <3>1. i \in r .. at["senders"] - 1 /\ i # r
      <4>1. r \in Nat /\ at["senders"] \in Nat /\ k \in Nat /\ k <= at["senders"]
        BY <1>1, <1>2
      <4> HIDE DEF r, k
      <4> QED
        BY <2>2, <4>1
    <3>2. \A h \in r .. at["senders"] - 1 : prog[h].op = "exchange" => h = r
      BY DEF Matching, Positions
    <3> QED
      BY <3>1, <3>2
  <2> DEFINE w == Width(prog[k])
  <2>3. n + (k - r - 1) + w <= nbx_cycle
    <3>1. prog \in Programs /\ r < k
      BY <1>1, <1>2, <2>1, CallFacts
    <3>2. Width(prog[r]) = n
      BY <1>1 DEF Width
    <3> HIDE DEF k, r, n
    <3> QED
      BY <1>1, <1>2, <2>2, <3>1, <3>2 DEF ShortRuns
  <2>4. nbx_cycle \in Nat /\ n \in Nat /\ w \in Nat \ {0} /\ n + (k - r - 1) <= nbx_cycle
    <3>1. nbx_cycle \in Nat /\ n \in Nat
      BY <1>1, <2>1, CycleFits
    <3>2. w \in Nat \ {0}
      BY <1>2, <2>1, CallFacts DEF Width
    <3> HIDE DEF n, k, r, w
    <3> QED
      BY <2>1, <2>3, <3>1, <3>2
  <2>5. PICK u \in 0 .. k - r - 1 : Later(c[k], c[r], n, u)
    BY <2>1, <2>4 DEF Matching, Ahead
  <2>6. u \in Nat /\ n + u + w <= nbx_cycle
    <3>1. k - r - 1 \in Nat
      BY <2>1
    <3> HIDE DEF n, k, r, w
    <3> QED
      BY <2>3, <2>4, <2>5, <3>1
  <2>7. CASE prog[k].op = "exchange" /\ m \in queue_all_sends(c[k], k, prog[k].lists)
    <3>1. /\ m.slot \in 0 .. NQUEUE - 1 /\ m.pos \in 0 .. Stride - 1 /\ m.slot < w
          /\ m.tag = SparseTag(c[k], m.slot, m.pos)
      BY <1>2, <2>7, QueuedTag
    <3>2. n + u + m.slot + 1 <= nbx_cycle
      <4> HIDE DEF n, w
      <4> QED
        BY <2>1, <2>4, <2>6, <3>1
    <3>3. ~InWindow(m.tag, c[r], n)
      BY <1>1, <1>2, <2>5, <2>6, <3>1, <3>2, Apart
    <3> QED
      BY <1>1, <3>3
  <2>8. CASE m = PlainMsg(k, c[k])
    <3>1. m.tag = PlainTag(prog[k], c[k])
      BY <2>8 DEF PlainMsg
    <3>2. n + u + 1 <= nbx_cycle
      <4> HIDE DEF n, w
      <4> QED
        BY <2>4, <2>6
    <3>3. ~InWindow(m.tag, c[r], n)
      BY <1>1, <1>2, <2>5, <2>6, <3>1, <3>2, PlainApart
    <3> QED
      BY <1>1, <3>3
  <2> QED
    BY <2>7, <2>8 DEF Matching, OnWire, Sent
<1> QED
  BY <1>3, <1>4

\* The first message with the tag of a receive is the one sent for it, and
\* has been sent.
LEMMA MatchedRight ==
    ASSUME TypeOK, NEW c \in Values, Matching(c), AtCall("receiver", Plain),
           NEW m \in wire, Matches(m)
    PROVE  /\ m = PlainMsg(at["receiver"], c[at["receiver"]])
           /\ at["receiver"] < at["senders"]
<1> DEFINE r == at["receiver"]
<1>1. /\ r \in DOMAIN prog /\ prog[r].op \in Plain /\ r \in Nat /\ at["senders"] \in Nat
      /\ prog[r].op # "exchange" /\ NBX_cnt["receiver"] = c[r]
  BY DEF AtCall, TypeOK, Sides, Plain, Matching, Counted
<1>2. m.step \in r .. at["senders"] /\ Sent(c, m)
  BY DEF Matching, OnWire, Sent
<1>3. m.step = r
  <2> SUFFICES ASSUME m.step # r PROVE FALSE
    OBVIOUS
  <2>1. r \in r .. at["senders"] - 1 /\ m.step > r
    BY <1>1, <1>2
  <2>2. PlainMsg(r, c[r]) \in wire
    BY <1>1, <2>1 DEF Matching, OnWire
  <2>3. PlainMsg(r, c[r]).tag = m.tag /\ PlainMsg(r, c[r]).step = r
    BY <1>1 DEF Matches, Call, PlainMsg
  <2>4. m.step <= r
    BY <2>2, <2>3 DEF Matches
  <2> QED
    BY <1>1, <1>2, <2>1, <2>4
<1>4. m = PlainMsg(r, c[r]) /\ r < at["senders"]
  BY <1>1, <1>2, <1>3 DEF Sent
<1> QED
  BY <1>4

----------------------------------------------------------------------------
\* Steps of one side, and the counters.

LEMMA AfterType ==
    ASSUME TypeOK, NEW k \in DOMAIN prog, NEW cnt \in 0 .. nbx_cycle - 1
    PROVE  After(k, cnt) \in 0 .. nbx_cycle - 1
<1>1. prog[k].op = "exchange" => Len(prog[k].lists) \in Nat
  BY CallFacts, WireAssumption
<1> QED
  BY <1>1, NextCntType DEF After

LEMMA Advance ==
    ASSUME TypeOK, NEW c \in Values, Counted(c), NEW s \in Sides, at[s] \in DOMAIN prog,
           prog' = prog, at' = [at EXCEPT ![s] = at[s] + 1],
           NBX_cnt' = [NBX_cnt EXCEPT ![s] = After(at[s], NBX_cnt[s])]
    PROVE  \E d \in Values :
              /\ Counted(d)'
              /\ \A t \in Sides, k \in Nat : k <= at[t] => d[k] = c[k]
<1> DEFINE a == at[s]
           e == After(a, c[a])
<1>1. /\ a \in Nat \ {0} /\ a + 1 \in Nat /\ c[a] \in 0 .. nbx_cycle - 1
      /\ \A t \in Sides : at[t] \in Nat \ {0}
      /\ NBX_cnt \in [Sides -> 0 .. nbx_cycle - 1] /\ at \in [Sides -> Nat \ {0}]
  BY DEF TypeOK, Values
<1>2. e \in 0 .. nbx_cycle - 1
  BY <1>1, AfterType
<1>3. PICK d \in Values : d = [c EXCEPT ![a + 1] = e]
  BY <1>1, <1>2 DEF Values
<1>4. d[a + 1] = e /\ \A k \in Nat : k # a + 1 => d[k] = c[k]
  BY <1>1, <1>3 DEF Values
<1>5. ASSUME NEW t \in Sides, NEW k \in Nat, k <= at[t]
      PROVE  d[k] = c[k]
  <2>1. CASE k = a + 1
    <3>1. a < at[t]
      BY <1>1, <1>5, <2>1
    <3>2. c[a + 1] = e
      BY <1>1, <3>1 DEF Counted
    <3> QED
      BY <1>4, <2>1, <3>2
  <2> QED
    BY <1>4, <2>1
<1>6. Counted(d)'
  <2>1. ASSUME NEW t \in Sides
        PROVE  NBX_cnt'[t] = d[at'[t]]
    <3>1. CASE t = s
      BY <1>1, <1>4, <3>1 DEF Counted
    <3>2. CASE t # s
      <4>1. NBX_cnt'[t] = NBX_cnt[t] /\ at'[t] = at[t] /\ NBX_cnt[t] = c[at[t]]
        BY <1>1, <3>2 DEF Counted
      <4> QED
        BY <1>1, <1>5, <4>1
    <3> QED
      BY <3>1, <3>2
  <2>2. ASSUME NEW k \in Nat \ {0}, NEW t \in Sides, k < at'[t]
        PROVE  d[k + 1] = After(k, d[k])
    <3>1. CASE \E v \in Sides : k < at[v]
      <4>1. PICK v \in Sides : k < at[v]
        BY <3>1
      <4>2. k + 1 <= at[v] /\ k <= at[v] /\ k \in Nat /\ k + 1 \in Nat
        BY <1>1, <4>1
      <4>3. c[k + 1] = After(k, c[k])
        BY <4>1 DEF Counted
      <4>4. d[k + 1] = c[k + 1] /\ d[k] = c[k]
        BY <1>5, <4>2
      <4> QED
        BY <4>3, <4>4
    <3>2. CASE ~\E v \in Sides : k < at[v]
      <4>1. k = a
        BY <1>1, <2>2, <3>2
      <4>2. d[a] = c[a]
        BY <1>1, <1>5
      <4> QED
        BY <1>4, <4>1, <4>2
    <3> QED
      BY <3>1, <3>2
  <2>3. ASSUME NEW k \in Nat
        PROVE  After(k, d[k])' = After(k, d[k])
    BY DEF After
  <2> QED
    BY <2>1, <2>2, <2>3 DEF Counted
<1> QED
  BY <1>4, <1>5, <1>6

\* A step that moves no side.
LEMMA CountedStays ==
    ASSUME NEW c \in Values, Counted(c), UNCHANGED <<prog, at, NBX_cnt>>
    PROVE  Counted(c)'
BY DEF Counted, After

LEMMA InitMatching == Init => \E c \in Values : Matching(c)
<1> SUFFICES ASSUME Init PROVE \E c \in Values : Matching(c)
  OBVIOUS
<1>1. PICK cnt \in 0 .. nbx_cycle - 1 : NBX_cnt = [s \in Sides |-> cnt]
  BY DEF Init
<1>2. PICK c \in Values : c = [k \in Nat |-> cnt]
  BY DEF Values
<1>3. Counted(c)
  BY <1>1, <1>2 DEF Init, Counted
<1>4. Positions /\ OnWire(c) /\ Ahead(c)
  BY DEF Init, Positions, OnWire, Ahead, Sides
<1> QED
  BY <1>3, <1>4 DEF Matching

----------------------------------------------------------------------------
\* One lemma for each action.

LEMMA MatchingExchange ==
    ASSUME TypeOK, NEW c \in Values, Matching(c), NEW s \in Sides, Exchange(s)
    PROVE  Matching(c)'
<1>1. /\ at[s] \in DOMAIN prog /\ prog[at[s]].op = "exchange" /\ ~inside[s]
      /\ UNCHANGED <<prog, at, NBX_cnt>> /\ inside' = [inside EXCEPT ![s] = TRUE]
      /\ s = "senders" \/ s = "receiver"
  BY DEF Exchange, AtCall, Sides
<1>2. /\ at["senders"] \in Nat \ {0} /\ at["receiver"] \in Nat \ {0}
      /\ inside \in [Sides -> BOOLEAN] /\ "senders" \in Sides /\ "receiver" \in Sides
  BY DEF TypeOK, Sides
<1>3. Counted(c)'
  BY <1>1, CountedStays DEF Matching
<1>4. Positions'
  BY <1>1, <1>2 DEF Matching, Positions
<1>5. OnWire(c)'
  <2>1. CASE s = "receiver"
    <3>1. wire' = wire
      BY <2>1 DEF Exchange
    <3> QED
      BY <1>1, <3>1 DEF Matching, OnWire, Sent, PlainMsg
  <2>2. CASE s = "senders"
    <3> DEFINE a == at["senders"]
               new == queue_all_sends(c[a], a, prog[a].lists)
    <3>1. wire' = wire \cup new
      BY <1>1, <1>2, <2>2 DEF Exchange, Call, Matching, Counted
    <3>2. at["receiver"] <= a
      BY <1>1, <2>2 DEF Matching, Positions
    <3>3. c[a] \in Nat
      BY <1>2 DEF Values
    <3>4. \A m \in new : m.step = a
      BY <1>1, <2>2, <3>3, QueuedTag
    <3>5. ASSUME NEW m \in new
          PROVE  Sent(c, m)
      BY <1>1, <1>2, <2>2, <3>2, <3>4 DEF Sent
    <3> HIDE DEF new
    <3>6. \A m \in wire' : Sent(c, m)
      BY <3>1, <3>5 DEF Matching, OnWire
    <3>7. ASSUME NEW m PROVE Sent(c, m)' <=> Sent(c, m)
      BY <1>1 DEF Sent, PlainMsg
    <3> QED
      BY <1>1, <3>1, <3>6, <3>7 DEF Matching, OnWire, PlainMsg
  <2> QED
    BY <1>1, <2>1, <2>2
<1>6. Ahead(c)'
  <2>1. CASE s = "receiver"
    <3>1. at["senders"] <= at["receiver"]
      BY <1>1, <1>2, <2>1 DEF Matching, Positions
    <3> QED
      BY <1>1, <1>2, <3>1 DEF Ahead
  <2>2. CASE s = "senders"
    BY <1>1, <1>2, <2>2 DEF Matching, Ahead
  <2> QED
    BY <1>1, <2>1, <2>2
<1> QED
  BY <1>3, <1>4, <1>5, <1>6 DEF Matching

LEMMA MatchingProgress ==
    ASSUME TypeOK, ShortRuns, NEW c \in Values, Matching(c), progressCommunication
    PROVE  Matching(c)'
<1>1. PICK m \in wire :
        /\ InWindow(m.tag, NBX_cnt["receiver"], Len(Call("receiver").lists))
        /\ wire' = wire \ {m}
  BY DEF progressCommunication
<1>2. UNCHANGED <<prog, at, inside, NBX_cnt>>
  BY DEF progressCommunication
<1>3. m.slot \in Nat
  BY <1>1, TakenRight DEF progressCommunication
<1>4. \A k : PlainMsg(k, c[k]) # m
  BY <1>3 DEF PlainMsg, NoSlot
<1>5. Counted(c)'
  BY <1>2, CountedStays DEF Matching
<1>6. Positions' /\ Ahead(c)'
  BY <1>2 DEF Matching, Positions, Ahead
<1>7. OnWire(c)'
  BY <1>1, <1>2, <1>4 DEF Matching, OnWire, Sent, PlainMsg
<1> QED
  BY <1>5, <1>6, <1>7 DEF Matching

\* What the end of a side's call does to the messages: those on the wire
\* remain where the counters say.
LEMMA SentStays ==
    ASSUME TypeOK, NEW c \in Values, NEW d \in Values, NEW m, Sent(c, m),
           \A k \in Nat : k <= at["senders"] => d[k] = c[k],
           prog' = prog, at'["senders"] \in Nat, at["senders"] <= at'["senders"],
           at'["receiver"] \in Nat, at'["receiver"] <= m.step
    PROVE  Sent(d, m)'
<1>1. at["senders"] \in Nat /\ at["receiver"] \in Nat
  BY DEF TypeOK, Sides
<1>2. m.step \in Nat /\ m.step <= at["senders"] /\ d[m.step] = c[m.step]
  BY <1>1 DEF Sent
<1>3. m.step \in at'["receiver"] .. at'["senders"]
  BY <1>1, <1>2
<1> QED
  BY <1>1, <1>2, <1>3 DEF Sent, PlainMsg

LEMMA MatchingWaitReceiver ==
    ASSUME TypeOK, NEW c \in Values, Matching(c), Wait("receiver")
    PROVE  \E d \in Values : Matching(d)'
<1> DEFINE r == at["receiver"]
           n == at["senders"]
<1>1. /\ r \in DOMAIN prog /\ prog[r].op = "exchange" /\ inside["receiver"]
      /\ prog' = prog /\ wire' = wire
      /\ inside' = [inside EXCEPT !["receiver"] = FALSE]
      /\ at' = [at EXCEPT !["receiver"] = at["receiver"] + 1]
      /\ NBX_cnt' = [NBX_cnt EXCEPT !["receiver"] = After(at["receiver"], NBX_cnt["receiver"])]
      /\ \A m \in wire : m.step # r
      /\ n > r \/ (n = r /\ inside["senders"])
  BY DEF Wait, AtCall, Call, After, Sides
<1>2. /\ n \in Nat \ {0} /\ r \in Nat \ {0} /\ at \in [Sides -> Nat \ {0}]
      /\ inside \in [Sides -> BOOLEAN] /\ "senders" \in Sides /\ "receiver" \in Sides
  BY DEF TypeOK, Sides
<1>3. at'["receiver"] = r + 1 /\ at'["senders"] = n /\ ~inside'["receiver"]
      /\ inside'["senders"] = inside["senders"]
  BY <1>1, <1>2
<1>4. PICK d \in Values : Counted(d)' /\ \A t \in Sides, k \in Nat : k <= at[t] => d[k] = c[k]
  <2>1. Counted(c)
    BY DEF Matching
  <2> QED
    BY <1>1, <1>2, <2>1, Advance
<1>5. Positions'
  <2>1. at'["receiver"] <= at'["senders"] \/ (at'["receiver"] = at'["senders"] + 1 /\ inside'["senders"])
    BY <1>1, <1>2, <1>3
  <2>2. \A s \in Sides : inside'[s] => at'[s] \in DOMAIN prog /\ prog[at'[s]].op = "exchange"
    BY <1>3 DEF Matching, Positions, Sides
  <2>3. \A k \in r + 1 .. n - 1 : k \in DOMAIN prog /\ prog[k].op # "exchange"
    BY <1>2 DEF Matching, Positions
  <2> QED
    BY <1>1, <1>3, <2>1, <2>2, <2>3 DEF Positions
<1>6. OnWire(d)'
  <2>1. ASSUME NEW m \in wire
        PROVE  Sent(d, m)'
    <3>1. Sent(c, m) /\ m.step # r
      BY <1>1 DEF Matching, OnWire
    <3>2. m.step >= r + 1
      BY <1>2, <3>1 DEF Sent
    <3> QED
      BY <1>1, <1>2, <1>3, <1>4, <3>1, <3>2, SentStays
  <2>2. ASSUME NEW k \in r + 1 .. n - 1, prog[k].op \in Plain
        PROVE  PlainMsg(k, d[k])' \in wire
    <3>1. k \in r .. n - 1 /\ k \in Nat /\ k <= n
      BY <1>2
    <3>2. PlainMsg(k, c[k]) \in wire /\ d[k] = c[k]
      BY <1>2, <1>4, <2>2, <3>1 DEF Matching, OnWire
    <3> QED
      BY <1>1, <3>2 DEF PlainMsg
  <2> QED
    BY <1>1, <1>3, <2>1, <2>2 DEF OnWire
<1>7. Ahead(d)'
  BY <1>3 DEF Ahead
<1> QED
  BY <1>4, <1>5, <1>6, <1>7 DEF Matching

LEMMA MatchingWaitSenders ==
    ASSUME TypeOK, NEW c \in Values, Matching(c), Wait("senders")
    PROVE  \E d \in Values : Matching(d)'
<1> DEFINE r == at["receiver"]
           a == at["senders"]
<1>1. /\ a \in DOMAIN prog /\ prog[a].op = "exchange" /\ inside["senders"]
      /\ prog' = prog /\ wire' = wire
      /\ inside' = [inside EXCEPT !["senders"] = FALSE]
      /\ at' = [at EXCEPT !["senders"] = at["senders"] + 1]
      /\ NBX_cnt' = [NBX_cnt EXCEPT !["senders"] = After(at["senders"], NBX_cnt["senders"])]
      /\ r > a \/ (r = a /\ inside["receiver"])
  BY DEF Wait, AtCall, Call, After, Sides
<1>2. /\ a \in Nat \ {0} /\ r \in Nat \ {0} /\ at \in [Sides -> Nat \ {0}]
      /\ inside \in [Sides -> BOOLEAN] /\ "senders" \in Sides /\ "receiver" \in Sides
  BY DEF TypeOK, Sides
<1>3. at'["receiver"] = r /\ at'["senders"] = a + 1 /\ ~inside'["senders"]
      /\ inside'["receiver"] = inside["receiver"]
  BY <1>1, <1>2
<1>4. PICK d \in Values : Counted(d)' /\ \A t \in Sides, k \in Nat : k <= at[t] => d[k] = c[k]
  <2>1. Counted(c)
    BY DEF Matching
  <2> QED
    BY <1>1, <1>2, <2>1, Advance
<1>5. r = a \/ r = a + 1
  BY <1>1, <1>2 DEF Matching, Positions
<1>6. Positions'
  <2>1. \A s \in Sides : inside'[s] => at'[s] \in DOMAIN prog /\ prog[at'[s]].op = "exchange"
    BY <1>3 DEF Matching, Positions, Sides
  <2>2. \A k \in r .. a : k = r /\ r = a
    BY <1>2, <1>5
  <2> QED
    BY <1>1, <1>2, <1>3, <1>5, <2>1, <2>2 DEF Positions
<1>7. OnWire(d)'
  <2>1. ASSUME NEW m \in wire
        PROVE  Sent(d, m)'
    <3>1. Sent(c, m)
      BY DEF Matching, OnWire
    <3>2. m.step >= r
      BY <1>2, <3>1 DEF Sent
    <3> QED
      BY <1>1, <1>2, <1>3, <1>4, <3>1, <3>2, SentStays
  <2>2. \A k \in r .. a : prog[k].op \notin Plain
    BY <1>1, <1>2, <1>5 DEF Plain
  <2>3. at'["receiver"] = r /\ at'["senders"] - 1 = a /\ prog' = prog
    BY <1>1, <1>2, <1>3
  <2>4. \A k \in at'["receiver"] .. at'["senders"] - 1 : prog'[k].op \notin Plain
    BY <2>2, <2>3
  <2> QED
    BY <1>1, <2>1, <2>4 DEF OnWire
<1>8. Ahead(d)'
  <2> DEFINE n == Len(prog[r].lists)
  <2>1. CASE r = a + 1
    BY <1>2, <1>3, <2>1 DEF Ahead
  <2>2. CASE r = a
    <3>1. n \in Nat /\ n <= nbx_cycle
      BY <1>1, <2>2, CallFacts, CycleFits, WireAssumption
    <3>2. d[r] = c[r] /\ c[r] \in 0 .. nbx_cycle - 1
      BY <1>2, <1>4 DEF Values
    <3>3. d[r + 1] = NextCnt(d[r], n)
      BY <1>1, <1>2, <1>3, <1>4, <2>2 DEF Counted, After
    <3>4. Later(d[r + 1], d[r], n, 0)
      BY <3>1, <3>2, <3>3, LaterFirst
    <3>5. \A j \in r + 1 .. a + 1 : j = r + 1 /\ 0 \in 0 .. j - r - 1
      BY <1>2, <2>2
    <3> QED
      BY <1>1, <1>3, <3>4, <3>5 DEF Ahead, Later
  <2> QED
    BY <1>5, <2>1, <2>2
<1> QED
  BY <1>4, <1>6, <1>7, <1>8 DEF Matching

LEMMA ExecutedAdvances ==
    ASSUME TypeOK, NEW s \in Sides, AtCall(s, Plain), Executed(s)
    PROVE  NBX_cnt' = [NBX_cnt EXCEPT ![s] = After(at[s], NBX_cnt[s])]
<1>1. prog[at[s]].op # "exchange" /\ Call(s) = prog[at[s]]
  BY DEF AtCall, Plain, Call
<1>2. CASE prog[at[s]].op = "known"
  BY <1>1, <1>2 DEF Executed, After
<1>3. CASE prog[at[s]].op # "known"
  <2>1. NBX_cnt' = NBX_cnt /\ After(at[s], NBX_cnt[s]) = NBX_cnt[s]
    BY <1>1, <1>3 DEF Executed, After
  <2> QED
    BY <2>1 DEF TypeOK
<1> QED
  BY <1>2, <1>3

LEMMA MatchingSend ==
    ASSUME TypeOK, NEW c \in Values, Matching(c), send
    PROVE  \E d \in Values : Matching(d)'
<1> DEFINE r == at["receiver"]
           a == at["senders"]
           new == PlainMsg(a, c[a])
<1>1. /\ a \in DOMAIN prog /\ prog[a].op \in Plain /\ prog[a].op # "exchange"
      /\ prog' = prog /\ inside' = inside
      /\ at' = [at EXCEPT !["senders"] = at["senders"] + 1]
      /\ NBX_cnt' = [NBX_cnt EXCEPT !["senders"] = After(at["senders"], NBX_cnt["senders"])]
      /\ NBX_cnt["senders"] = c[a] /\ AtCall("senders", Plain)
  BY ExecutedAdvances DEF send, AtCall, Plain, Executed, Sides, Matching, Counted
<1>2. /\ a \in Nat \ {0} /\ r \in Nat \ {0} /\ at \in [Sides -> Nat \ {0}]
      /\ "senders" \in Sides /\ "receiver" \in Sides
  BY DEF TypeOK, Sides
<1>3. wire' = wire \cup {new}
  BY <1>1 DEF send, PlainMsg, Call
<1>4. at'["receiver"] = r /\ at'["senders"] = a + 1
  BY <1>1, <1>2
<1>5. PICK d \in Values : Counted(d)' /\ \A t \in Sides, k \in Nat : k <= at[t] => d[k] = c[k]
  <2>1. Counted(c)
    BY DEF Matching
  <2> QED
    BY <1>1, <1>2, <2>1, Advance
<1>6. ~inside["senders"] /\ r <= a
  BY <1>1, <1>2 DEF Matching, Positions
<1>7. Positions'
  <2>1. \A s \in Sides : inside[s] => at'[s] \in DOMAIN prog /\ prog[at'[s]].op = "exchange"
    BY <1>4, <1>6 DEF Matching, Positions, Sides
  <2>2. \A k \in r .. a : /\ k \in DOMAIN prog
                          /\ prog[k].op = "exchange" => k = r /\ inside["receiver"]
    <3>1. \A k \in r .. a : k = a \/ k \in r .. a - 1
      BY <1>2
    <3> QED
      BY <1>1, <3>1 DEF Matching, Positions
  <2>3. at'["receiver"] .. at'["senders"] - 1 = r .. a
    BY <1>2, <1>4
  <2> QED
    BY <1>1, <1>2, <1>4, <1>6, <2>1, <2>2, <2>3 DEF Positions
<1>8. OnWire(d)'
  <2>1. d[a] = c[a]
    BY <1>2, <1>5
  <2>2. ASSUME NEW m \in wire
        PROVE  Sent(d, m)'
    <3>1. Sent(c, m)
      BY DEF Matching, OnWire
    <3>2. m.step >= r
      BY <1>2, <3>1 DEF Sent
    <3> QED
      BY <1>1, <1>2, <1>4, <1>5, <3>1, <3>2, SentStays
  <2>3. ASSUME NEW m, m = new
        PROVE  Sent(d, m)'
    <3>1. m.step = a
      BY <2>3 DEF PlainMsg
    <3>2. m.step \in at'["receiver"] .. at'["senders"] /\ m.step < at'["senders"]
      BY <1>2, <1>4, <1>6, <3>1
    <3>3. m = PlainMsg(m.step, d[m.step])
      BY <2>1, <2>3, <3>1
    <3>4. PlainMsg(m.step, d[m.step])' = PlainMsg(m.step, d[m.step])
      BY <1>1 DEF PlainMsg
    <3>5. m.step \in DOMAIN prog' /\ prog'[m.step].op \in Plain
      BY <1>1, <3>1
    <3> HIDE DEF new
    <3> QED
      BY <3>2, <3>3, <3>4, <3>5 DEF Sent
  <2>4. ASSUME NEW k \in r .. a, prog[k].op \in Plain
        PROVE  PlainMsg(k, d[k])' \in wire'
    <3>1. PlainMsg(k, d[k])' = PlainMsg(k, c[k])
      BY <1>1, <1>2, <1>5 DEF PlainMsg
    <3>2. CASE k = a
      BY <1>3, <3>1, <3>2
    <3>3. CASE k # a
      <4>1. k \in r .. a - 1
        BY <1>2, <3>3
      <4> QED
        BY <1>3, <2>4, <3>1, <4>1 DEF Matching, OnWire
    <3> QED
      BY <3>2, <3>3
  <2>5. at'["receiver"] .. at'["senders"] - 1 = r .. a
    BY <1>2, <1>4
  <2> HIDE DEF new
  <2>6. \A m \in wire' : Sent(d, m)'
    BY <1>3, <2>2, <2>3
  <2> QED
    BY <1>1, <2>4, <2>5, <2>6 DEF OnWire
<1>9. Ahead(d)'
  <2> DEFINE n == Len(prog[r].lists)
  <2> SUFFICES ASSUME inside["receiver"], NEW j \in r + 1 .. a + 1, n + (j - r - 1) <= nbx_cycle
               PROVE  \E u \in 0 .. j - r - 1 : Later(d[j], d[r], n, u)
    BY <1>1, <1>4 DEF Ahead, Later
  <2>1. prog[r].op = "exchange" /\ r \in DOMAIN prog /\ r < a
    BY <1>1, <1>2, <1>6 DEF Matching, Positions
  <2>2. /\ n \in Nat /\ nbx_cycle \in Nat /\ d[r] = c[r] /\ c[r] \in 0 .. nbx_cycle - 1
        /\ d[a] = c[a] /\ c[a] \in 0 .. nbx_cycle - 1
    <3>1. n \in Nat /\ nbx_cycle \in Nat
      BY <2>1, CallFacts, CycleFits, WireAssumption
    <3>2. d[r] = c[r] /\ d[a] = c[a]
      BY <1>2, <1>5
    <3>3. c[r] \in 0 .. nbx_cycle - 1 /\ c[a] \in 0 .. nbx_cycle - 1
      BY <1>2 DEF Values
    <3> QED
      BY <3>1, <3>2, <3>3
  <2> HIDE DEF n
  <2>3. CASE j # a + 1
    <3>1. j \in r + 1 .. a /\ j \in Nat /\ j <= a
      BY <1>2, <2>3
    <3>2. d[j] = c[j]
      BY <1>2, <1>5, <3>1
    <3> QED
      BY <2>2, <3>1, <3>2 DEF Matching, Ahead, n
  <2>4. CASE j = a + 1
    <3>1. a \in r + 1 .. a /\ n + (a - r - 1) <= nbx_cycle
      BY <1>2, <2>1, <2>2, <2>4
    <3>2. PICK u \in 0 .. a - r - 1 : Later(c[a], c[r], n, u)
      BY <3>1 DEF Matching, Ahead, n
    <3>3. /\ u \in Nat /\ u \in 0 .. j - r - 1 /\ u + 1 \in 0 .. j - r - 1
          /\ n + u + 1 <= nbx_cycle
      BY <1>2, <2>2, <2>4, <3>2
    <3>4. d[j] = c[a] \/ d[j] = NextCnt(c[a], 1)
      <4>1. \A k \in Nat \ {0} : k < at'["senders"] => d[k + 1] = After(k, d[k])
        BY <1>1, <1>2, <1>5 DEF Counted, After
      <4>2. d[a + 1] = After(a, c[a])
        BY <1>2, <1>4, <2>2, <4>1
      <4> QED
        BY <1>1, <2>4, <4>2 DEF After
    <3>5. Later(NextCnt(c[a], 1), c[r], n, u + 1)
      BY <2>2, <3>2, <3>3, LaterNext
    <3> QED
      BY <2>2, <3>2, <3>3, <3>4, <3>5
  <2> QED
    BY <2>3, <2>4
<1> QED
  BY <1>5, <1>7, <1>8, <1>9 DEF Matching

\* What the receiver's own end does, once it has the message of its call.
LEMMA MatchingReceived ==
    ASSUME TypeOK, NEW c \in Values, Matching(c), AtCall("receiver", Plain),
           NEW m \in wire, Matches(m), Executed("receiver"), wire' = wire \ {m},
           prog' = prog, inside' = inside
    PROVE  \E d \in Values : Matching(d)'
<1> DEFINE r == at["receiver"]
           n == at["senders"]
<1>1. /\ r \in DOMAIN prog /\ prog[r].op \in Plain /\ prog[r].op # "exchange"
      /\ at' = [at EXCEPT !["receiver"] = at["receiver"] + 1]
      /\ NBX_cnt' = [NBX_cnt EXCEPT !["receiver"] = After(at["receiver"], NBX_cnt["receiver"])]
  BY ExecutedAdvances DEF AtCall, Plain, Executed, Sides
<1>2. /\ n \in Nat \ {0} /\ r \in Nat \ {0} /\ at \in [Sides -> Nat \ {0}]
      /\ "senders" \in Sides /\ "receiver" \in Sides
  BY DEF TypeOK, Sides
<1>3. m = PlainMsg(r, c[r]) /\ r < n
  BY MatchedRight
<1>4. at'["receiver"] = r + 1 /\ at'["senders"] = n /\ ~inside["receiver"]
  BY <1>1, <1>2 DEF Matching, Positions
<1>5. PICK d \in Values : Counted(d)' /\ \A t \in Sides, k \in Nat : k <= at[t] => d[k] = c[k]
  <2>1. Counted(c)
    BY DEF Matching
  <2> QED
    BY <1>1, <1>2, <2>1, Advance
<1>6. at'["receiver"] .. at'["senders"] - 1 = r + 1 .. n - 1
  BY <1>4
<1>7. Positions'
  <2>1. \A s \in Sides : inside[s] => at'[s] \in DOMAIN prog /\ prog[at'[s]].op = "exchange"
    BY <1>4 DEF Matching, Positions, Sides
  <2>2. \A k \in r + 1 .. n - 1 : k \in DOMAIN prog /\ prog[k].op # "exchange"
    BY <1>2 DEF Matching, Positions
  <2>3. at'["receiver"] <= at'["senders"]
    BY <1>2, <1>3, <1>4
  <2> QED
    BY <1>6, <2>1, <2>2, <2>3 DEF Positions
<1>8. OnWire(d)'
  <2>1. ASSUME NEW o \in wire'
        PROVE  Sent(d, o)'
    <3>1. Sent(c, o) /\ o # m
      BY DEF Matching, OnWire
    <3>2. o.step # r
      BY <1>1, <1>3, <3>1 DEF Sent
    <3>3. o.step >= r + 1
      BY <1>2, <3>1, <3>2 DEF Sent
    <3> QED
      BY <1>1, <1>2, <1>4, <1>5, <3>1, <3>3, SentStays
  <2>2. ASSUME NEW k \in r + 1 .. n - 1, prog[k].op \in Plain
        PROVE  PlainMsg(k, d[k])' \in wire'
    <3>1. k \in r .. n - 1 /\ k \in Nat /\ k <= n /\ k # r
      BY <1>2
    <3>2. d[k] = c[k]
      BY <1>2, <1>5, <3>1
    <3>3. PlainMsg(k, c[k]) \in wire
      BY <2>2, <3>1 DEF Matching, OnWire
    <3>4. PlainMsg(k, c[k]) # m
      BY <1>3, <3>1 DEF PlainMsg
    <3>5. PlainMsg(k, d[k])' = PlainMsg(k, c[k])
      BY <3>2 DEF PlainMsg
    <3> QED
      BY <3>3, <3>4, <3>5
  <2> QED
    BY <1>6, <2>1, <2>2 DEF OnWire
<1>9. Ahead(d)'
  BY <1>4 DEF Ahead
<1> QED
  BY <1>5, <1>7, <1>8, <1>9 DEF Matching

LEMMA MatchingUnchanged ==
    ASSUME NEW c \in Values, Matching(c), UNCHANGED <<prog, at, inside, NBX_cnt, wire>>
    PROVE  Matching(c)'
<1>1. Counted(c)'
  BY CountedStays DEF Matching
<1>2. Positions' /\ Ahead(c)'
  BY DEF Matching, Positions, Ahead
<1>3. OnWire(c)'
  BY DEF Matching, OnWire, Sent, PlainMsg
<1> QED
  BY <1>1, <1>2, <1>3 DEF Matching

LEMMA MatchingCollective ==
    ASSUME TypeOK, NEW c \in Values, Matching(c), Collective
    PROVE  \E d \in Values : Matching(d)'
<1>1. CASE at' = at
  BY <1>1, MatchingUnchanged DEF Collective
<1>2. CASE at' # at
  <2>1. PICK a \in Nat \ {0} : a = at["senders"] /\ a = at["receiver"]
    BY DEF TypeOK, Sides, Collective
  <2>2. /\ a \in DOMAIN prog /\ prog[a].op \notin Plain
        /\ prog[a].op \notin {"exchange", "known"}
        /\ prog' = prog /\ inside' = inside /\ NBX_cnt' = NBX_cnt /\ wire' = wire
        /\ at' = [s \in Sides |-> at[s] + 1]
    BY <1>2, <2>1 DEF Collective, AtCall, Plain
  <2>3. \A s \in Sides : at[s] = a /\ at'[s] = a + 1 /\ ~inside[s]
    BY <2>1, <2>2 DEF Matching, Positions, Sides
  <2>4. c[a] \in 0 .. nbx_cycle - 1 /\ a + 1 \in Nat
    BY DEF Values
  <2>5. PICK d \in Values : d = [c EXCEPT ![a + 1] = c[a]]
    BY <2>4 DEF Values
  <2>6. d[a + 1] = c[a] /\ \A k \in Nat : k # a + 1 => d[k] = c[k]
    BY <2>4, <2>5 DEF Values
  <2>7. Counted(d)'
    <3>1. \A s \in Sides : NBX_cnt'[s] = d[at'[s]]
      BY <2>2, <2>3, <2>6 DEF Matching, Counted
    <3>2. ASSUME NEW k \in Nat \ {0}, k < a + 1
          PROVE  d[k + 1] = After(k, d[k])
      <4>1. CASE k = a
        BY <2>2, <2>6, <4>1 DEF After
      <4>2. CASE k # a
        <5>1. k < a /\ k + 1 \in Nat /\ k + 1 # a + 1 /\ k # a + 1
          BY <3>2, <4>2
        <5>2. c[k + 1] = After(k, c[k])
          BY <2>1, <5>1 DEF Matching, Counted, Sides
        <5> QED
          BY <2>6, <5>1, <5>2
      <4> QED
        BY <4>1, <4>2
    <3> QED
      BY <2>2, <2>3, <3>1, <3>2 DEF Counted, After
  <2>8. Positions'
    BY <2>2, <2>3 DEF Positions, Sides
  <2>9. wire = {}
    <3> SUFFICES ASSUME NEW m \in wire PROVE FALSE
      OBVIOUS
    <3>1. Sent(c, m) /\ m.step = a
      BY <2>1 DEF Matching, OnWire, Sent
    <3> QED
      BY <2>2, <3>1 DEF Sent
  <2>10. OnWire(d)' /\ Ahead(d)'
    BY <2>2, <2>3, <2>9 DEF OnWire, Ahead, Sides
  <2> QED
    BY <2>7, <2>8, <2>10 DEF Matching
<1> QED
  BY <1>1, <1>2

----------------------------------------------------------------------------
\* Matching holds throughout, and with it RightSlot.

SlotInv == ShortRuns /\ (\E c \in Values : Matching(c)) /\ RightSlot

LEMMA SlotInit == ShortRuns /\ Init => SlotInv
BY InitMatching DEF SlotInv, RightSlot, Init

LEMMA SlotNext == TypeOK /\ SlotInv /\ [Next]_vars => SlotInv'
<1> SUFFICES ASSUME TypeOK, SlotInv, [Next]_vars
             PROVE  (\E d \in Values : Matching(d)') /\ RightSlot'
  BY DEF SlotInv
<1>1. PICK c \in Values : Matching(c)
  BY DEF SlotInv
<1>2. ASSUME NEW s \in Sides, Exchange(s)
      PROVE  Matching(c)' /\ RightSlot'
  BY <1>1, <1>2, MatchingExchange DEF SlotInv, RightSlot, Exchange
<1>3. ASSUME NEW s \in Sides, Wait(s)
      PROVE  (\E d \in Values : Matching(d)') /\ RightSlot'
  <2>1. RightSlot'
    BY <1>3 DEF SlotInv, RightSlot, Wait
  <2>2. CASE s = "receiver"
    BY <1>1, <1>3, <2>1, <2>2, MatchingWaitReceiver
  <2>3. CASE s = "senders"
    BY <1>1, <1>3, <2>1, <2>3, MatchingWaitSenders
  <2> QED
    BY <2>2, <2>3 DEF Sides
<1>4. CASE progressCommunication
  <2>1. Matching(c)'
    BY <1>1, <1>4, MatchingProgress DEF SlotInv
  <2>2. PICK m \in wire : \E slot \in Int :
          /\ slot = SlotOf(m.tag, NBX_cnt["receiver"])
          /\ InWindow(m.tag, NBX_cnt["receiver"], Len(Call("receiver").lists))
          /\ received' = received \cup {Given(m, slot, MsgSize(m.part))}
    BY <1>4 DEF progressCommunication
  <2>3. /\ m.step = at["receiver"] /\ m.slot = SlotOf(m.tag, NBX_cnt["receiver"])
        /\ AtCall("receiver", {"exchange"}) /\ inside["receiver"]
    BY <1>1, <1>4, <2>2, TakenRight DEF SlotInv, progressCommunication
  <2>4. received' = received \cup {Given(m, m.slot, MsgSize(m.part))}
    BY <2>2, <2>3
  <2> QED
    BY <2>1, <2>3, <2>4 DEF SlotInv, RightSlot, Given
<1>5. CASE send
  BY <1>1, <1>5, MatchingSend DEF SlotInv, RightSlot, send
<1>6. CASE recv
  <2>1. PICK m \in wire :
          /\ Matches(m)
          /\ \/ UNCHANGED <<at, NBX_cnt, wire, received>>
             \/ /\ received' = received \cup {Given(m, NoSlot, BytesOf(m.part))}
                /\ wire' = wire \ {m} /\ Executed("receiver")
    BY <1>6 DEF recv
  <2>2. AtCall("receiver", Plain) /\ prog' = prog /\ inside' = inside
    BY <1>6 DEF recv
  <2>3. CASE UNCHANGED <<at, NBX_cnt, wire, received>>
    <3>1. Matching(c)'
      BY <1>1, <2>2, <2>3, MatchingUnchanged
    <3> QED
      BY <2>3, <3>1 DEF SlotInv, RightSlot
  <2>4. CASE /\ received' = received \cup {Given(m, NoSlot, BytesOf(m.part))}
             /\ wire' = wire \ {m} /\ Executed("receiver")
    <3>1. m.step = at["receiver"] /\ m.slot = NoSlot
      BY <1>1, <2>1, <2>2, MatchedRight DEF PlainMsg
    <3>2. RightSlot'
      BY <2>4, <3>1 DEF SlotInv, RightSlot, Given
    <3> QED
      BY <1>1, <2>1, <2>2, <2>4, <3>2, MatchingReceived
  <2> QED
    BY <2>1, <2>3, <2>4
<1>7. CASE Collective
  <2>1. \E d \in Values : Matching(d)'
    BY <1>1, <1>7, MatchingCollective
  <2>2. RightSlot'
    BY <1>7 DEF SlotInv, RightSlot, Collective, Given
  <2> QED
    BY <2>1, <2>2
<1>8. CASE UNCHANGED vars
  BY <1>1, <1>8, MatchingUnchanged DEF SlotInv, RightSlot, vars
<1> QED
  BY <1>1, <1>2, <1>3, <1>4, <1>5, <1>6, <1>7, <1>8 DEF Next, Idle

\* What progressCommunication takes belongs to its batch and slot, and what
\* recv takes to its call, for every MPI_TAG_UB and any number of exchanges,
\* if the counter does not come round between two of them.
THEOREM SlotsRight == ShortRuns /\ Spec => []RightSlot
<1>1. TypeOK /\ SlotInv /\ [Next]_vars => SlotInv'
  BY SlotNext
<1>2. SlotInv => RightSlot
  BY DEF SlotInv
<1> QED
  BY <1>1, <1>2, SlotInit, TypeCorrect, PTL DEF Spec

----------------------------------------------------------------------------
\* Both ends of a known message come to the same bytes.

LEMMA PrimitiveSizes ==
    ASSUME NEW T \in Primitive
    PROVE  /\ T \in DOMAIN Sizeof /\ Sizeof[T] \in Nat
           /\ MPISize[Specialised[T]] = Sizeof[T]
BY DEF Primitive, Specialised, Sizeof, MPISize

LEMMA PartWhole ==
    ASSUME NEW type \in DOMAIN MPISize, NEW n \in Nat, n <= INT_MAX
    PROVE  /\ Part(type, n).count = n /\ Part(type, n).count >= 0
           /\ BytesOf(Part(type, n)) = n * MPISize[type]
BY AsIntSmall DEF Part, BytesOf

LEMMA BytesWhole ==
    ASSUME NEW n \in Nat, n <= INT_MAX
    PROVE  Part("MPI_BYTE", n).count >= 0 /\ BytesOf(Part("MPI_BYTE", n)) = n
<1>1. "MPI_BYTE" \in DOMAIN MPISize /\ MPISize["MPI_BYTE"] = 1
  BY DEF MPISize
<1> QED
  BY <1>1, PartWhole

LEMMA PlainWhole ==
    ASSUME NEW call, Legal(call), Small(call), call.op \in Plain
    PROVE  /\ PostedPart(call) = SentPart(call) /\ SentPart(call).count >= 0
           /\ BytesOf(SentPart(call)) = PlainSize(call)
<1>1. call.T \in DOMAIN Sizeof /\ call.n \in Nat /\ INT_MAX \in Nat
  BY WireAssumption DEF Legal
<1>2. CASE call.op # "vector"
  <2>1. call.n < INT_MAX
    BY <1>2 DEF Small, Plain
  <2>2. SentPart(call) = Part("MPI_BYTE", call.n) /\ PostedPart(call) = Part("MPI_BYTE", call.n)
    BY <1>1, <1>2, <2>1 DEF SentPart, PostedPart, MPI_IsendWB, MPI_IrecvWB
  <2>3. PlainSize(call) = call.n
    BY <1>2 DEF PlainSize
  <2> QED
    BY <1>1, <2>1, <2>2, <2>3, BytesWhole
<1>3. CASE call.op = "vector" /\ call.T \in Primitive
  <2>1. call.n <= INT_MAX
    BY <1>3 DEF Small
  <2>2. /\ SentPart(call) = Part(Specialised[call.T], call.n)
        /\ PostedPart(call) = Part(Specialised[call.T], call.n)
    BY <1>3 DEF SentPart, PostedPart, MPI_IsendW, MPI_IrecvW
  <2>3. PlainSize(call) = call.n * MPISize[Specialised[call.T]]
    BY <1>3, PrimitiveSizes DEF PlainSize
  <2> QED
    BY <1>1, <1>3, <2>1, <2>2, <2>3, SpecialisedTyped, PartWhole
<1>4. CASE call.op = "vector" /\ call.T \notin Primitive
  <2> DEFINE bytes == call.n * Sizeof[call.T]
  <2>1. bytes < INT_MAX /\ bytes \in Nat
    BY <1>1, <1>4, BytesOfVector DEF Small
  <2>2. PlainSize(call) = bytes
    BY <1>4 DEF PlainSize
  <2>3. SentPart(call) = MPI_IsendWB(bytes) /\ PostedPart(call) = MPI_IrecvWB(bytes)
    BY <1>4 DEF SentPart, PostedPart, MPI_IsendW, MPI_IrecvW
  <2> HIDE DEF bytes
  <2>4. SentPart(call) = Part("MPI_BYTE", bytes) /\ PostedPart(call) = Part("MPI_BYTE", bytes)
    BY <1>1, <2>1, <2>3 DEF MPI_IsendWB, MPI_IrecvWB
  <2> QED
    BY <1>1, <2>1, <2>2, <2>4, BytesWhole
<1> QED
  BY <1>2, <1>3, <1>4

LEMMA PartsWhole ==
    ASSUME NEW call, Legal(call), Small(call),
           call.op \in {"allGather", "Bcast", "BcastProps", "reduce"},
           NEW i \in DOMAIN Parts(call)
    PROVE  /\ Parts(call)[i].part.count >= 0
           /\ BytesOf(Parts(call)[i].part) = Parts(call)[i].sz
<1>1. /\ call.T \in DOMAIN Sizeof /\ call.n \in Nat /\ Sizeof[call.T] \in Nat
      /\ INT_MAX \in Nat \ {0} /\ call.props \in Seq(Nat)
  BY WireAssumption, SizeofTyped DEF Legal
<1>2. CASE call.op = "allGather"
  <2>1. Parts(call)[i] = [part |-> MPI_IAllGatherW(call.T, 1), sz |-> Sizeof[call.T]]
    BY <1>2 DEF Parts
  <2>2. CASE call.T \in Primitive
    BY <1>1, <2>1, <2>2, SpecialisedTyped, PartWhole, PrimitiveSizes DEF MPI_IAllGatherW
  <2>3. CASE call.T \notin Primitive
    <3>1. Sizeof[call.T] <= INT_MAX /\ 1 * Sizeof[call.T] = Sizeof[call.T]
      BY <1>1, <1>2 DEF Small
    <3> QED
      BY <1>1, <2>1, <2>3, <3>1, BytesWhole DEF MPI_IAllGatherW
  <2> QED
    BY <2>2, <2>3
<1>3. CASE call.op = "Bcast"
  <2>1. Parts(call)[i] = [part |-> MPI_IBcastW(call.T, call.n), sz |-> call.n * Sizeof[call.T]]
    BY <1>3 DEF Parts
  <2>2. CASE call.T \in Primitive
    <3>1. call.n <= INT_MAX
      BY <1>3, <2>2 DEF Small
    <3> QED
      BY <1>1, <2>1, <2>2, <3>1, SpecialisedTyped, PartWhole, PrimitiveSizes DEF MPI_IBcastW
  <2>3. CASE call.T \notin Primitive
    <3> DEFINE bytes == call.n * Sizeof[call.T]
    <3>1. bytes \in Nat /\ bytes < INT_MAX
      <4>1. bytes \in Nat
        BY <1>1, BytesOfVector
      <4>2. bytes < INT_MAX
        BY <1>3, <2>3 DEF Small
      <4> QED
        BY <4>1, <4>2
    <3>2. Parts(call)[i] = [part |-> Part("MPI_BYTE", bytes), sz |-> bytes]
      BY <2>1, <2>3 DEF MPI_IBcastW
    <3> HIDE DEF bytes
    <3> QED
      BY <1>1, <3>1, <3>2, BytesWhole
  <2> QED
    BY <2>2, <2>3
<1>4. CASE call.op = "BcastProps"
  <2>1. Parts(call) = [j \in DOMAIN call.props |->
            [part |-> Part("MPI_BYTE", call.n * call.props[j]), sz |-> call.n * call.props[j]]]
    BY <1>4 DEF Parts
  <2> DEFINE bytes == call.n * call.props[i]
  <2>2. i \in DOMAIN call.props /\ call.props[i] \in Nat
    BY <1>1, <2>1
  <2>3. bytes \in Nat /\ bytes <= INT_MAX
    BY <1>1, <1>4, <2>2 DEF Small
  <2>4. Parts(call)[i] = [part |-> Part("MPI_BYTE", bytes), sz |-> bytes]
    BY <2>1, <2>2
  <2> HIDE DEF bytes
  <2> QED
    BY <2>3, <2>4, BytesWhole
<1>5. CASE call.op = "reduce"
  <2>1. call.T \in Primitive
    BY <1>5 DEF Legal
  <2>2. Parts(call)[i] = [part |-> Part(Specialised[call.T], 1), sz |-> Sizeof[call.T]]
    BY <1>5 DEF Parts, MPI_IallreduceW
  <2> QED
    BY <1>1, <2>1, <2>2, SpecialisedTyped, PartWhole, PrimitiveSizes
<1> QED
  BY <1>2, <1>3, <1>4, <1>5

LEMMA WholeNext ==
    TypeOK /\ SlotInv /\ SmallCalls /\ KnownWhole /\ [Next]_vars => KnownWhole'
<1> SUFFICES ASSUME TypeOK, SlotInv, SmallCalls, KnownWhole, [Next]_vars
             PROVE  KnownWhole'
  OBVIOUS
<1>1. PICK c \in Values : Matching(c)
  BY DEF SlotInv
<1>2. \A k \in DOMAIN prog : Legal(prog[k]) /\ Small(prog[k])
  BY CallFacts DEF TypeOK, SmallCalls
<1>3. ASSUME NEW s \in Sides, Exchange(s) \/ Wait(s)
      PROVE  KnownWhole'
  BY <1>3 DEF KnownWhole, Exchange, Wait
<1>4. CASE progressCommunication
  <2>1. PICK m \in wire :
          /\ InWindow(m.tag, NBX_cnt["receiver"], Len(Call("receiver").lists))
          /\ \E slot \in Int : received' = received \cup {Given(m, slot, MsgSize(m.part))}
    BY <1>4 DEF progressCommunication
  <2>2. m.slot \in Nat
    BY <1>1, <1>4, <2>1, TakenRight DEF SlotInv, progressCommunication
  <2>3. m.slot # NoSlot
    BY <2>2 DEF NoSlot
  <2> QED
    BY <1>4, <2>1, <2>3 DEF KnownWhole, Given, progressCommunication
<1>5. CASE send
  BY <1>5 DEF KnownWhole, send
<1>6. CASE recv
  <2>1. AtCall("receiver", Plain) /\ ~aborted
    BY <1>6 DEF recv, AtCall
  <2> DEFINE call == Call("receiver")
             room == PostedPart(call)
  <2>2. PICK m \in wire :
          /\ Matches(m)
          /\ IF BytesOf(m.part) > BytesOf(room) \/ m.part.count < 0 \/ room.count < 0
             THEN aborted' = TRUE
             ELSE /\ received' = received \cup {Given(m, NoSlot, BytesOf(m.part))}
                  /\ UNCHANGED aborted
    BY <1>6 DEF recv
  <2>3. Legal(call) /\ Small(call) /\ call.op \in Plain
    BY <1>2, <2>1 DEF AtCall, Call
  <2>4. m.part = SentPart(call) /\ m.sz = PlainSize(call)
    BY <1>1, <2>1, <2>2, MatchedRight DEF PlainMsg, Call
  <2>5. /\ room = m.part /\ m.part.count >= 0 /\ BytesOf(m.part) = m.sz
    BY <2>3, <2>4, PlainWhole
  <2>6. m.part.count \in Int /\ BytesOf(m.part) \in Int
    <3>1. m.part \in PartType
      BY <2>3, <2>4, SentTyped
    <3> QED
      BY <3>1, BytesTyped DEF PartType
  <2> HIDE DEF room, call
  <2>7. received' = received \cup {Given(m, NoSlot, BytesOf(m.part))} /\ UNCHANGED aborted
    BY <2>2, <2>5, <2>6
  <2> QED
    BY <2>5, <2>7 DEF KnownWhole, Given
<1>7. CASE Collective
  <2> DEFINE call == Call("senders")
             parts == Parts(call)
  <2>1. /\ Legal(call) /\ Small(call)
        /\ call.op \in {"allGather", "Bcast", "BcastProps", "reduce"} /\ ~aborted
    BY <1>2, <1>7 DEF Collective, AtCall, Call
  <2>2. \A i \in DOMAIN parts : parts[i].part.count >= 0 /\ BytesOf(parts[i].part) = parts[i].sz
    BY <2>1, PartsWhole
  <2>3. \A i \in DOMAIN parts : ~(parts[i].part.count < 0)
    <3>1. ASSUME NEW i \in DOMAIN parts PROVE parts[i].part.count \in Int
      BY <2>1, PartsTyped DEF PartType
    <3> QED
      BY <2>2, <3>1
  <2>4. /\ received' = received \cup
              {Given([tag |-> 0, part |-> parts[i].part, step |-> at["senders"],
                      slot |-> NoSlot, pos |-> i, sz |-> parts[i].sz],
                     NoSlot, BytesOf(parts[i].part)) : i \in DOMAIN parts}
        /\ UNCHANGED aborted
    BY <1>7, <2>3 DEF Collective
  <2> HIDE DEF parts
  <2> QED
    BY <2>2, <2>4 DEF KnownWhole, Given
<1>8. CASE UNCHANGED vars
  BY <1>8 DEF KnownWhole, vars
<1> QED
  BY <1>3, <1>4, <1>5, <1>6, <1>7, <1>8 DEF Next, Idle

\* Below INT_MAX bytes (elements, for the types MPI knows) both ends of send
\* and recv and of the collectives agree: everything arrives, and MPI never
\* reports an error.
THEOREM KnownArrivesWhole == ShortRuns /\ SmallCalls /\ Spec => []KnownWhole
<1>1. TypeOK /\ SlotInv /\ [Next]_vars => SlotInv'
  BY SlotNext
<1>2. Init => KnownWhole
  BY DEF Init, KnownWhole
<1>3. TypeOK /\ SlotInv /\ SmallCalls /\ KnownWhole /\ [Next]_vars => (SmallCalls /\ KnownWhole)'
  BY WholeNext
<1> QED
  BY <1>1, <1>2, <1>3, SlotInit, TypeCorrect, PTL DEF Spec

============================================================================
