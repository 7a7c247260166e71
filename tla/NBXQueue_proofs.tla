--------------------------- MODULE NBXQueue_proofs ---------------------------
(***************************************************************************)
(* Theorems about NBXQueue: requests, collectives and completed calls, for *)
(* every number of ranks and slots and every program that is Disciplined.  *)
(*                                                                         *)
(* The argument.  The n-th collective call of a rank belongs to the n-th   *)
(* call of the program that makes one, and a rank has made one for each    *)
(* call it has begun but for the slots whose barrier is to come.  A rank   *)
(* enters a barrier only when all its requests are complete, so a send or  *)
(* a receive under way means a barrier not entered.  A rank that completes *)
(* a call has seen as many collective calls of every rank as it has begun  *)
(* itself: all of them entered the barrier of that call.                   *)
(***************************************************************************)
EXTENDS NBXQueue, TLAPS, FiniteSetTheorems, SequenceTheorems, WellFoundedInduction

----------------------------------------------------------------------------
(* Where a rank is.                                                        *)

Waiting(p) == pc[p] \in {"wait", "test"}
InSync(p) == Waiting(p) /\ Call(p).op = "sync"
InKnown(p) == pc[p] \in {"sizes", "data"}

\* The calls before this one have been begun.
Behind(p) == IF InSync(p) THEN ip[p] + 1 ELSE ip[p]

\* Calls that make a collective call of the communicator, and how many there
\* are before call c.
Collective(pr, i) ==
    \/ pr[i].op \in {"unknown", "reduce"}
    \/ pr[i].op = "sync" /\ ~Pending(pr, i, Queues)
CollectivesBefore(pr, c) == {i \in 1..(c - 1) : Collective(pr, i)}
Count(pr, c) == Cardinality(CollectivesBefore(pr, c))

\* Slots whose barrier is still to be entered.
Unreached(p) == {i \in Slots : NBX_active[p][i] = "unknown" /\ ~reached[p][i]}

\* Slots in use, but for slot 0 as a blocking call left it.
Live(p, i) == i <= qcnt[p] /\ NBX_active[p][i] # "unactive"

\* A queued call whose barrier was entered.
Entered(p) == \E i \in Slots : Live(p, i) /\ NBX_active[p][i] = "unknown" /\ reached[p][i]

----------------------------------------------------------------------------
(* The invariant: the control of one rank.                                 *)

\* The rank is at a call of the kind that its pc says.
AtCall(p) ==
    /\ pc[p] # "app" => ip[p] <= Len(prog)
    /\ Waiting(p) => Call(p).op \in {"sync", "wait"} /\ NBX_active[p][at[p]] # "unactive"
    /\ InKnown(p) => Call(p).op \in {"known_sync", "known_prc_sync"}
    /\ pc[p] = "test" => NBX_active[p][at[p]] = "unknown"
    /\ Waiting(p) => \A i \in Slots : i < at[p] => NBX_active[p][i] = "unactive"
    /\ InSync(p) => qcnt[p] = 0 /\ at[p] = 0 /\ ~Pending(prog, ip[p], Queues)
    /\ ~InSync(p) => (qcnt[p] = -1 <=> ~Pending(prog, ip[p], Queues))
    /\ qcnt[p] < ip[p]

KindOf(op) ==
    CASE op = "unknown" -> {"unknown"}
      [] op = "known" -> {"known"}
      [] op = "known_prc" -> {"known_prc", "known"}
      [] OTHER -> {}

\* What a slot holds: a call of this batch, the blocking call the rank is in,
\* or what a blocking call left behind in slot 0.
SlotHolds(p, i) ==
    /\ slotCall[p][i] < Behind(p)
    /\ NBX_active[p][i] # "unactive" => slotCall[p][i] # 0
    /\ Live(p, i) /\ ~InSync(p) =>
          /\ SameBatch(prog, slotCall[p][i], ip[p])
          /\ NBX_active[p][i] \in KindOf(prog[slotCall[p][i]].op)
    /\ Live(p, i) /\ InSync(p) =>
          slotCall[p][i] = ip[p] /\ NBX_active[p][i] = "unknown" /\ i = 0
    /\ i > qcnt[p] /\ NBX_active[p][i] # "unactive" =>
          /\ i = 0 /\ qcnt[p] = -1
          /\ NBX_active[p][i] = "unknown" /\ reached[p][i]
          /\ slotCall[p][i] \in finished[p] /\ prog[slotCall[p][i]].op = "sync"

\* The slots are given out in the order of the calls.
SlotOrder(p) ==
    \A i, j \in Slots : i < j /\ Live(p, i) /\ Live(p, j) => slotCall[p][i] < slotCall[p][j]

\* Barriers are entered from the last slot on, after progressCommunication.
BarrierOrder(p) ==
    /\ \A i, j \in Slots :
          i < j /\ NBX_active[p][i] = "unknown" /\ NBX_active[p][j] = "unknown" /\ reached[p][i]
          => reached[p][j]
    /\ \A i \in Slots :
          ~Waiting(p) /\ Live(p, i) /\ NBX_active[p][i] = "unknown" /\ reached[p][i] =>
            \E g \in (slotCall[p][i] + 1)..(ip[p] - 1) : prog[g].op = "progress"

\* One collective call for each call begun, but for the barriers to come, and
\* of the kind of that call.  No reduction is to come.
Counted(p) ==
    /\ Len(colls[p]) + Cardinality(Unreached(p)) = Count(prog, Behind(p))
    /\ \A c \in 1..(Behind(p) - 1) : prog[c].op = "reduce" => Count(prog, c) < Len(colls[p])
    /\ \A n \in DOMAIN colls[p] : \A c \in DOMAIN prog :
          Collective(prog, c) /\ Count(prog, c) + 1 = n =>
            colls[p][n] = IF prog[c].op = "reduce" THEN "reduce" ELSE "barrier"

Control(p) ==
    /\ AtCall(p)
    /\ \A i \in Slots : SlotHolds(p, i)
    /\ SlotOrder(p)
    /\ BarrierOrder(p)
    /\ Counted(p)

----------------------------------------------------------------------------
(* The invariant: what is under way.                                       *)

\* Nothing of rank p is under way.
Quiet(p) ==
    /\ \A m \in flight : m.cls = "sparse" => m.src # p
    /\ \A w \in posted : w.dst # p
    /\ \A x \in reducing : x.by # p

\* A synchronous send that was not received: its slot is before the barrier.
SendsHeld(p) ==
    \A m \in flight : m.cls = "sparse" /\ m.src = p =>
        /\ [op |-> "issend", of |-> m] \in req[p]
        /\ \E i \in Unreached(p) : slotCall[p][i] = m.call

ReceivesHeld(p) ==
    \A w \in posted : w.dst = p =>
        /\ [op |-> "irecv", of |-> w] \in req[p]
        /\ \/ InKnown(p)
           \/ \E i \in Slots : Live(p, i) /\ NBX_active[p][i] # "unknown"

ReductionsHeld(p) ==
    \A x \in reducing : x.by = p =>
        /\ [op |-> "reduce", of |-> x] \in req[p]
        /\ x.call \in 1..(ip[p] - 1) /\ prog[x.call].op = "reduce"
        /\ \A e \in (x.call + 1)..(ip[p] - 1) : prog[e].op \notin Executes
        /\ ~Waiting(p)

\* Once a barrier was entered, nothing of the rank is under way.
QuietBehind(p) == Entered(p) => Quiet(p)

UnderWay(p) == SendsHeld(p) /\ ReceivesHeld(p) /\ ReductionsHeld(p) /\ QuietBehind(p)

----------------------------------------------------------------------------
(* The invariant: between ranks.                                           *)

\* bar_req stands for the latest barrier, or one slot's Wait saw it complete.
BarrierSeen(p) ==
    Entered(p) =>
        \/ bar_req[p] = Len(colls[p])
        \/ Waiting(p) /\ \A q \in Proc : Len(colls[q]) >= Count(prog, Behind(p))

\* Every rank entered the barrier of call c.
Passed(c) ==
    \A q \in Proc :
        /\ c < Behind(q)
        /\ \A i \in Slots :
              slotCall[q][i] = c /\ NBX_active[q][i] = "unknown" => reached[q][i]

Completed ==
    \A p \in Proc : \A c \in finished[p] : prog[c].op \in {"unknown", "sync"} => Passed(c)

RankInv(p) == Control(p) /\ UnderWay(p) /\ BarrierSeen(p)

(* The inductive invariant. *)
IInv ==
    /\ TypeOK
    /\ prog \in Programs
    /\ DOMAIN req = Proc
    /\ \A x \in reducing : x.by \in Proc
    /\ \A p \in Proc : RankInv(p)
    /\ Completed

----------------------------------------------------------------------------
(* Numbers, programs, slots.                                               *)

\* A nonempty set of natural numbers has a smallest element; so Min of a set
\* of slots is one of them.
LEMMA Smallest ==
    ASSUME NEW T, T \subseteq Nat, T # {}
    PROVE  \E m \in T : \A n \in T : m <= n
<1> DEFINE R == OpToRel(<, Nat)
<1>1. IsWellFoundedOn(R, Nat)
  BY NatLessThanWellFounded, Zenon
<1> HIDE DEF R
<1>2. IsWellFoundedOn(R, T)
  BY <1>1, IsWellFoundedOnSubset, Zenon
<1>3. PICK m \in T : \A y \in T : <<y, m>> \notin R
  BY <1>2, WFMin, Zenon
<1>4. ASSUME NEW n \in T
      PROVE  m <= n
  <2>1. m \in Nat /\ n \in Nat
    OBVIOUS
  <2>2. ~(n < m)
    BY <1>3, <2>1, Zenon DEF R, OpToRel
  <2> QED
    BY <2>1, <2>2
<1> QED
  BY <1>4

LEMMA SlotsAreNat == Slots \subseteq Nat /\ 0 \in Slots /\ IsFiniteSet(Slots)
<1>1. NQUEUE \in Nat \ {0}
  BY QueueAssumption
<1>2. IsFiniteSet(0..(NQUEUE - 1))
  BY <1>1, FS_Interval
<1> QED
  BY <1>1, <1>2 DEF Slots

LEMMA MinOfSlots ==
    ASSUME NEW S, S \subseteq Slots, S # {}
    PROVE  Min(S) \in S /\ \A i \in S : Min(S) <= i
<1>1. \E m \in S : \A n \in S : m <= n
  BY SlotsAreNat, Smallest
<1> QED
  BY <1>1, Zenon DEF Min

LEMMA ProgramType ==
    ASSUME prog \in Programs
    PROVE  /\ Len(prog) \in Nat
           /\ DOMAIN prog = 1..Len(prog)
           /\ \A c \in 1..Len(prog) :
                /\ prog[c].op \in Ops
                /\ prog[c].sends \subseteq [src : Proc, dst : Proc, sz : Nat \ {0}]
<1> DEFINE Calling == [op : Ops, sends : SUBSET [src : Proc, dst : Proc, sz : Nat \ {0}]]
<1>1. prog \in Seq(Calling)
  BY QueueAssumption
<1>2. \A x \in Calling : /\ x.op \in Ops
                         /\ x.sends \subseteq [src : Proc, dst : Proc, sz : Nat \ {0}]
  OBVIOUS
<1> HIDE DEF Calling
<1>3. Len(prog) \in Nat /\ DOMAIN prog = 1..Len(prog)
  BY <1>1, LenProperties, Zenon
<1>4. \A c \in 1..Len(prog) : prog[c] \in Calling
  BY <1>1, ElementOfSeq, Zenon
<1> QED
  BY <1>2, <1>3, <1>4

LEMMA ProgramDisciplined ==
    ASSUME Disciplined, prog \in Programs
    PROVE  ProgressLast(prog) /\ UnknownFirst(prog) /\ ReduceAlone(prog) /\ ReduceExecuted(prog)
BY DEF Disciplined

\* SetToSeq lists a finite set.
LEMMA SetToSeqLists ==
    ASSUME NEW S, IsFiniteSet(S)
    PROVE  /\ Cardinality(S) \in Nat
           /\ SetToSeq(S) \in [1..Cardinality(S) -> S]
           /\ IsInjective(SetToSeq(S))
<1>1. Cardinality(S) \in Nat /\ ExistsBijection(1..Cardinality(S), S)
  BY FS_CardinalityType, Zenon
<1>2. \E f \in [1..Cardinality(S) -> S] : IsInjective(f)
  BY <1>1, Zenon DEF ExistsBijection, Bijection, Injection
<1> QED
  BY <1>1, <1>2, Zenon DEF SetToSeq

\* prc_recv names ranks.
LEMMA SendersAreRanks ==
    ASSUME prog \in Programs, NEW p \in Proc, NEW c \in 1..Len(prog),
           NEW i \in DOMAIN Senders(p, c)
    PROVE  Senders(p, c)[i] \in Proc
<1> DEFINE S == {s.src : s \in {t \in prog[c].sends : t.dst = p}}
<1>1. S \subseteq Proc
  BY ProgramType
<1>2. IsFiniteSet(S)
  BY <1>1, QueueAssumption, FS_Subset, Zenon
<1>3. Senders(p, c) = SetToSeq(S)
  BY DEF Senders
<1> HIDE DEF S
<1>4. SetToSeq(S) \in [1..Cardinality(S) -> S]
  BY <1>2, SetToSeqLists, Zenon
<1> QED
  BY <1>1, <1>3, <1>4

----------------------------------------------------------------------------
(* Batches and counts.                                                     *)

\* Which calls are queued, one call later.
LEMMA PendingNext ==
    ASSUME NEW pr, NEW c \in Nat \ {0}, NEW ops
    PROVE  /\ pr[c].op \in ops => Pending(pr, c + 1, ops)
           /\ pr[c].op = "wait" /\ "wait" \notin ops => ~Pending(pr, c + 1, ops)
           /\ pr[c].op # "wait" /\ pr[c].op \notin ops =>
                (Pending(pr, c + 1, ops) <=> Pending(pr, c, ops))
           /\ pr[c].op # "wait" /\ Pending(pr, c, ops) => Pending(pr, c + 1, ops)
<1>1. c \in 1..((c + 1) - 1) /\ SameBatch(pr, c, c + 1)
  BY DEF SameBatch
<1>2. ASSUME NEW a \in 1..(c - 1), pr[c].op # "wait"
      PROVE  SameBatch(pr, a, c + 1) <=> SameBatch(pr, a, c)
  BY <1>2 DEF SameBatch
<1>3. ASSUME NEW a \in 1..(c - 1), pr[c].op = "wait"
      PROVE  ~SameBatch(pr, a, c + 1)
  BY <1>3 DEF SameBatch
<1>4. 1..((c + 1) - 1) = 1..(c - 1) \cup {c}
  OBVIOUS
<1> QED
  BY <1>1, <1>2, <1>3, <1>4 DEF Pending

\* Calls of one batch, between them.
LEMMA SameBatchWithin ==
    ASSUME NEW pr, NEW a \in Nat, NEW b \in Nat, NEW c \in Nat, a < b, b < c,
           SameBatch(pr, a, c)
    PROVE  SameBatch(pr, a, b) /\ SameBatch(pr, b, c) /\ pr[b].op # "wait"
BY DEF SameBatch

LEMMA SameBatchNext ==
    ASSUME NEW pr, NEW a \in Nat, NEW c \in Nat, SameBatch(pr, a, c), pr[c].op # "wait"
    PROVE  SameBatch(pr, a, c + 1)
BY DEF SameBatch

LEMMA CountType ==
    ASSUME NEW pr, NEW c \in Nat \ {0}
    PROVE  IsFiniteSet(CollectivesBefore(pr, c)) /\ Count(pr, c) \in Nat
<1>1. IsFiniteSet(1..(c - 1))
  BY FS_Interval
<1>2. CollectivesBefore(pr, c) \in SUBSET (1..(c - 1))
  BY DEF CollectivesBefore
<1>3. IsFiniteSet(CollectivesBefore(pr, c))
  BY <1>1, <1>2, FS_Subset, Zenon
<1> QED
  BY <1>3, FS_CardinalityType, Zenon DEF Count

LEMMA CountNext ==
    ASSUME NEW pr, NEW c \in Nat \ {0}
    PROVE  Count(pr, c + 1) = IF Collective(pr, c) THEN Count(pr, c) + 1 ELSE Count(pr, c)
<1>1. IsFiniteSet(CollectivesBefore(pr, c))
  BY CountType
<1>2. c \notin CollectivesBefore(pr, c)
  BY DEF CollectivesBefore
<1>3. CASE Collective(pr, c)
  <2>1. CollectivesBefore(pr, c + 1) = CollectivesBefore(pr, c) \cup {c}
    BY <1>3 DEF CollectivesBefore
  <2> QED
    BY <1>1, <1>2, <1>3, <2>1, FS_AddElement, Zenon DEF Count
<1>4. CASE ~Collective(pr, c)
  <2>1. CollectivesBefore(pr, c + 1) = CollectivesBefore(pr, c)
    BY <1>4 DEF CollectivesBefore
  <2> QED
    BY <1>4, <2>1 DEF Count
<1> QED
  BY <1>3, <1>4

LEMMA CountGrows ==
    ASSUME NEW pr, NEW a \in Nat \ {0}, NEW c \in Nat \ {0}, a <= c
    PROVE  Count(pr, a) <= Count(pr, c)
<1>1. CollectivesBefore(pr, a) \in SUBSET CollectivesBefore(pr, c)
  BY DEF CollectivesBefore
<1> QED
  BY <1>1, CountType, FS_Subset, Zenon DEF Count

\* Fewer collective calls before one call than before another: it comes first.
LEMMA CountOrders ==
    ASSUME NEW pr, NEW a \in Nat \ {0}, NEW c \in Nat \ {0}, Collective(pr, a)
    PROVE  /\ a < c => Count(pr, a) + 1 <= Count(pr, c)
           /\ c <= a => Count(pr, c) <= Count(pr, a)
<1>1. Count(pr, a + 1) = Count(pr, a) + 1
  BY CountNext
<1>2. ASSUME a < c
      PROVE  Count(pr, a + 1) <= Count(pr, c)
  BY <1>2, CountGrows
<1>3. ASSUME c <= a
      PROVE  Count(pr, c) <= Count(pr, a)
  BY <1>3, CountGrows
<1> QED
  BY <1>1, <1>2, <1>3

\* Every collective call belongs to a call of the program.
LEMMA CountReaches ==
    ASSUME NEW pr, NEW b \in Nat \ {0}, NEW n \in 1..Count(pr, b)
    PROVE  \E c \in 1..(b - 1) : Collective(pr, c) /\ Count(pr, c) + 1 = n
<1> DEFINE T == {c \in Nat \ {0} : Count(pr, c) >= n}
<1>1. b \in T
  BY CountType
<1>2. PICK m \in T : \A c \in T : m <= c
  <2>1. T \subseteq Nat /\ T # {}
    BY <1>1
  <2> HIDE DEF T
  <2> QED
    BY <2>1, Smallest
<1>3. m # 1
  <2>1. CollectivesBefore(pr, 1) = {}
    BY DEF CollectivesBefore
  <2>2. Count(pr, 1) = 0
    BY <2>1, FS_EmptySet DEF Count
  <2> QED
    BY <2>2
<1>4. m - 1 \in Nat \ {0} /\ m - 1 \notin T /\ (m - 1) + 1 = m /\ m <= b
  BY <1>1, <1>2, <1>3
<1>5. Count(pr, m - 1) < n /\ Count(pr, m) >= n
  BY <1>4, CountType
<1>6. Count(pr, m) = IF Collective(pr, m - 1) THEN Count(pr, m - 1) + 1 ELSE Count(pr, m - 1)
  BY <1>4, CountNext
<1>7. Collective(pr, m - 1) /\ Count(pr, m - 1) + 1 = n
  BY <1>4, <1>5, <1>6, CountType
<1> QED
  BY <1>4, <1>7

----------------------------------------------------------------------------
(* One rank at a time.                                                     *)

\* What the invariant says of rank q looks at.
SameRank(q) ==
    /\ ip'[q] = ip[q] /\ pc'[q] = pc[q] /\ at'[q] = at[q] /\ qcnt'[q] = qcnt[q]
    /\ NBX_active'[q] = NBX_active[q] /\ reached'[q] = reached[q]
    /\ slotCall'[q] = slotCall[q] /\ finished'[q] = finished[q]
    /\ bar_req'[q] = bar_req[q] /\ req'[q] = req[q] /\ colls'[q] = colls[q]

\* A step of rank p: nothing of the others is added to what is under way.
StepOf(p) ==
    /\ prog' = prog
    /\ DOMAIN req' = DOMAIN req
    /\ \A q \in Proc \ {p} : SameRank(q)
    /\ \A m \in flight' : m.src # p => m \in flight
    /\ \A w \in posted' : w.dst # p => w \in posted
    /\ \A x \in reducing' : x.by # p => x \in reducing
    /\ Len(colls'[p]) >= Len(colls[p])

\* The barriers that p has entered stay entered.
KeepsBarriers(p) ==
    /\ Behind(p) <= Behind(p)'
    /\ \A i \in Slots : NBX_active'[p][i] = "unknown" =>
          \/ slotCall'[p][i] >= Behind(p)
          \/ /\ slotCall'[p][i] = slotCall[p][i] /\ NBX_active[p][i] = "unknown"
             /\ reached[p][i] => reached'[p][i]

LEMMA RankTypes ==
    ASSUME TypeOK, prog \in Programs, NEW p \in Proc
    PROVE  /\ Len(prog) \in Nat
           /\ ip[p] \in Nat \ {0} /\ ip[p] <= Len(prog) + 1
           /\ pc[p] \in {"app", "wait", "test", "sizes", "data"}
           /\ at[p] \in Slots
           /\ at[p] \in Nat
           /\ NBX_cnt[p] \in 0..(nbx_cycle - 1)
           /\ qcnt[p] \in Int /\ qcnt[p] >= -1 /\ qcnt[p] <= Len(prog)
           /\ Behind(p) \in Nat \ {0}
           /\ \A i \in Slots : /\ NBX_active[p][i] \in Kinds
                               /\ reached[p][i] \in BOOLEAN
                               /\ slotCall[p][i] \in 0..Len(prog)
                               /\ i \in Nat
           /\ finished[p] \in SUBSET (1..Len(prog))
           /\ bar_req[p] \in Nat
           /\ colls[p] \in Seq({"barrier", "reduce"})
           /\ Len(colls[p]) \in Nat
<1>1. Len(prog) \in Nat
  BY ProgramType
<1>2. colls[p] \in Seq({"barrier", "reduce"})
  BY DEF TypeOK
<1>3. Len(colls[p]) \in Nat
  BY <1>2, LenProperties, Zenon
<1>4. ip[p] \in Nat \ {0} /\ ip[p] <= Len(prog) + 1
  BY <1>1 DEF TypeOK
<1>5. qcnt[p] \in Int /\ qcnt[p] >= -1 /\ qcnt[p] <= Len(prog)
  BY <1>1 DEF TypeOK
<1>6. Behind(p) \in Nat \ {0}
  BY <1>4 DEF Behind
<1>7. \A i \in Slots : /\ NBX_active[p][i] \in Kinds
                       /\ reached[p][i] \in BOOLEAN
                       /\ slotCall[p][i] \in 0..Len(prog)
  BY DEF TypeOK
<1>8. /\ pc[p] \in {"app", "wait", "test", "sizes", "data"}
      /\ at[p] \in Slots
      /\ NBX_cnt[p] \in 0..(nbx_cycle - 1)
      /\ finished[p] \in SUBSET (1..Len(prog))
      /\ bar_req[p] \in Nat
  BY DEF TypeOK
<1> QED
  BY <1>1, <1>2, <1>3, <1>4, <1>5, <1>6, <1>7, <1>8, SlotsAreNat

LEMMA NextCallType ==
    ASSUME TypeOK, prog \in Programs, NEW p \in Proc, ip[p] <= Len(prog),
           ip' = [ip EXCEPT ![p] = ip[p] + 1]
    PROVE  ip' \in [Proc -> 1..(Len(prog) + 1)]
<1>1. ip \in [Proc -> 1..(Len(prog) + 1)]
  BY DEF TypeOK
<1>2. Len(prog) \in Nat
  BY ProgramType
<1>3. ip[p] + 1 \in 1..(Len(prog) + 1)
  BY <1>1, <1>2
<1> QED
  BY <1>1, <1>3

LEMMA Domains ==
    ASSUME IInv
    PROVE  /\ DOMAIN ip = Proc /\ DOMAIN pc = Proc /\ DOMAIN at = Proc /\ DOMAIN qcnt = Proc
           /\ DOMAIN NBX_active = Proc /\ DOMAIN reached = Proc /\ DOMAIN slotCall = Proc
           /\ DOMAIN finished = Proc /\ DOMAIN bar_req = Proc /\ DOMAIN req = Proc
           /\ DOMAIN colls = Proc
           /\ \A p \in Proc : /\ DOMAIN NBX_active[p] = Slots /\ DOMAIN reached[p] = Slots
                             /\ DOMAIN slotCall[p] = Slots
<1>1. TypeOK /\ DOMAIN req = Proc
  BY DEF IInv
<1> QED
  BY <1>1 DEF TypeOK

LEMMA NextTypes ==
    ASSUME TypeOK', prog' \in Programs, NEW p \in Proc
    PROVE  /\ Behind(p)' \in Nat \ {0}
           /\ colls'[p] \in Seq({"barrier", "reduce"})
           /\ Len(colls'[p]) \in Nat
<1>2. ip'[p] \in Nat \ {0}
  BY DEF TypeOK
<1>3. colls'[p] \in Seq({"barrier", "reduce"})
  BY DEF TypeOK
<1>4. Len(colls'[p]) \in Nat
  BY <1>3, LenProperties, Zenon
<1>5. Behind(p)' \in Nat \ {0}
  BY <1>2 DEF Behind
<1> QED
  BY <1>3, <1>4, <1>5

LEMMA SameWhereabouts ==
    ASSUME NEW q, prog' = prog, SameRank(q)
    PROVE  /\ Waiting(q)' = Waiting(q) /\ InSync(q)' = InSync(q) /\ InKnown(q)' = InKnown(q)
           /\ Behind(q)' = Behind(q)
           /\ Unreached(q)' = Unreached(q)
           /\ Entered(q)' = Entered(q)
           /\ \A i \in Slots : Live(q, i)' = Live(q, i)
<1> USE DEF SameRank
<1>1. Waiting(q)' = Waiting(q) /\ InSync(q)' = InSync(q) /\ InKnown(q)' = InKnown(q)
  BY Zenon DEF Waiting, InSync, InKnown, Call
<1>2. Behind(q)' = Behind(q)
  BY <1>1, Zenon DEF Behind
<1>3. Unreached(q)' = Unreached(q)
  BY DEF Unreached
<1>4. \A i \in Slots : Live(q, i)' = Live(q, i)
  BY DEF Live
<1>5. Entered(q)' = Entered(q)
  BY DEF Live, Entered
<1> QED
  BY <1>1, <1>2, <1>3, <1>4, <1>5

LEMMA SameControl ==
    ASSUME NEW q, prog' = prog, SameRank(q), Control(q)
    PROVE  Control(q)'
<1>1. /\ Waiting(q)' = Waiting(q) /\ InSync(q)' = InSync(q) /\ InKnown(q)' = InKnown(q)
      /\ Behind(q)' = Behind(q)
      /\ Unreached(q)' = Unreached(q)
      /\ \A i \in Slots : Live(q, i)' = Live(q, i)
  BY SameWhereabouts
<1>2. AtCall(q)'
  BY <1>1, Zenon DEF SameRank, Control, AtCall, Call
<1>3. \A i \in Slots : SlotHolds(q, i)'
  <2> SUFFICES ASSUME NEW i \in Slots
               PROVE  SlotHolds(q, i)'
    OBVIOUS
  <2>1. SlotHolds(q, i)
    BY DEF Control
  <2> QED
    BY <1>1, <2>1, ZenonT(30) DEF SameRank, SlotHolds
<1>4. SlotOrder(q)'
  BY <1>1, Zenon DEF SameRank, Control, SlotOrder
<1>5. BarrierOrder(q)'
  BY <1>1, Zenon DEF SameRank, Control, BarrierOrder
<1>6. Counted(q)'
  BY <1>1, Zenon DEF SameRank, Control, Counted
<1> QED
  BY <1>2, <1>3, <1>4, <1>5, <1>6 DEF Control

LEMMA OtherRanks ==
    ASSUME NEW p \in Proc, NEW q \in Proc \ {p}, StepOf(p), RankInv(q),
           \A r \in Proc : Len(colls[r]) \in Nat /\ Len(colls'[r]) \in Nat,
           Count(prog, Behind(q)) \in Nat
    PROVE  RankInv(q)'
<1>1. prog' = prog /\ SameRank(q)
  BY DEF StepOf
<1>2. /\ Waiting(q)' = Waiting(q) /\ InKnown(q)' = InKnown(q)
      /\ Behind(q)' = Behind(q)
      /\ Unreached(q)' = Unreached(q)
      /\ Entered(q)' = Entered(q)
      /\ \A i \in Slots : Live(q, i)' = Live(q, i)
  BY <1>1, SameWhereabouts
<1>3. Control(q)'
  BY <1>1, SameControl DEF RankInv
<1>4. SendsHeld(q)'
  <2> SUFFICES ASSUME NEW m \in flight', m.cls = "sparse", m.src = q
               PROVE  /\ [op |-> "issend", of |-> m] \in req'[q]
                      /\ \E i \in Unreached(q)' : slotCall'[q][i] = m.call
    BY Zenon DEF SendsHeld
  <2>1. m \in flight
    BY DEF StepOf
  <2>2. SendsHeld(q)
    BY DEF RankInv, UnderWay
  <2>3. /\ [op |-> "issend", of |-> m] \in req[q]
        /\ \E i \in Unreached(q) : slotCall[q][i] = m.call
    BY <2>1, <2>2 DEF SendsHeld
  <2> QED
    BY <1>1, <1>2, <2>3 DEF SameRank
<1>5. ReceivesHeld(q)'
  BY <1>1, <1>2, Zenon DEF RankInv, UnderWay, ReceivesHeld, StepOf, SameRank
<1>6. ReductionsHeld(q)'
  BY <1>1, <1>2, Zenon DEF RankInv, UnderWay, ReductionsHeld, StepOf, SameRank
<1>7. QuietBehind(q)'
  BY <1>1, <1>2, Zenon DEF RankInv, UnderWay, QuietBehind, Quiet, StepOf, SameRank
<1>8. \A r \in Proc : Len(colls'[r]) >= Len(colls[r])
  BY DEF StepOf, SameRank
<1>9. BarrierSeen(q)'
  <2> SUFFICES ASSUME Entered(q)', bar_req'[q] # Len(colls'[q])
               PROVE  Waiting(q)' /\ \A r \in Proc : Len(colls'[r]) >= Count(prog', Behind(q)')
    BY Zenon DEF BarrierSeen
  <2>1. Waiting(q) /\ \A r \in Proc : Len(colls[r]) >= Count(prog, Behind(q))
    BY <1>1, <1>2, Zenon DEF RankInv, BarrierSeen, SameRank
  <2>2. Count(prog', Behind(q)') = Count(prog, Behind(q))
    BY <1>1, <1>2
  <2> QED
    BY <1>2, <1>8, <2>1, <2>2
<1> QED
  BY <1>3, <1>4, <1>5, <1>6, <1>7, <1>9 DEF RankInv, UnderWay

\* A barrier that every rank entered stays so.
LEMMA PassedStays ==
    ASSUME NEW p \in Proc, TypeOK, TypeOK', prog \in Programs, StepOf(p), KeepsBarriers(p),
           NEW c \in Nat, Passed(c)
    PROVE  Passed(c)'
<1> SUFFICES ASSUME NEW q \in Proc
             PROVE  /\ c < Behind(q)'
                    /\ \A i \in Slots :
                         slotCall'[q][i] = c /\ NBX_active'[q][i] = "unknown" => reached'[q][i]
  BY Zenon DEF Passed
<1>1. prog' \in Programs
  BY DEF StepOf
<1>2. CASE q # p
  <2>1. SameRank(q) /\ prog' = prog
    BY <1>2 DEF StepOf
  <2>2. Behind(q)' = Behind(q)
    BY <2>1, SameWhereabouts
  <2> QED
    BY <2>1, <2>2, Zenon DEF Passed, SameRank
<1>3. CASE q = p
  <2>1. c < Behind(p)
    BY DEF Passed
  <2>2. Behind(p) \in Nat /\ Behind(p)' \in Nat
    BY <1>1, RankTypes, NextTypes
  <2>3. c < Behind(p)'
    BY <2>1, <2>2 DEF KeepsBarriers
  <2>4. ASSUME NEW i \in Slots, slotCall'[p][i] = c, NBX_active'[p][i] = "unknown"
        PROVE  reached'[p][i]
    <3>1. ~(c >= Behind(p))
      BY <2>1, <2>2
    <3> QED
      BY <2>4, <3>1, Zenon DEF KeepsBarriers, Passed
  <2> QED
    BY <1>3, <2>3, <2>4
<1> QED
  BY <1>2, <1>3

\* A step of rank p preserves the invariant, if it does so for rank p.
LEMMA StepOfRank ==
    ASSUME IInv, NEW p \in Proc, StepOf(p), TypeOK', RankInv(p)', KeepsBarriers(p),
           \A c \in finished'[p] \ finished[p] : prog[c].op \in {"unknown", "sync"} => Passed(c)'
    PROVE  IInv'
<1>1. prog' = prog /\ prog' \in Programs
  BY DEF StepOf, IInv
<1>2. \A x \in reducing' : x.by \in Proc
  BY DEF StepOf, IInv
<1>3. \A r \in Proc : Len(colls[r]) \in Nat /\ Len(colls'[r]) \in Nat
  BY <1>1, RankTypes, NextTypes DEF IInv
<1>4. ASSUME NEW q \in Proc
      PROVE  RankInv(q)'
  <2>1. Behind(q) \in Nat \ {0}
    BY RankTypes DEF IInv
  <2>2. Count(prog, Behind(q)) \in Nat
    BY <2>1, CountType
  <2>3. ASSUME q # p
        PROVE  RankInv(q)'
    BY <1>3, <2>2, <2>3, OtherRanks DEF IInv
  <2> QED
    BY <2>3
<1>5. Completed'
  <2> SUFFICES ASSUME NEW q \in Proc, NEW c \in finished'[q],
                      prog'[c].op \in {"unknown", "sync"}
               PROVE  Passed(c)'
    BY DEF Completed
  <2>1. CASE c \in finished[q]
    <3>1. Passed(c)
      BY <1>1, <2>1, Zenon DEF IInv, Completed
    <3>2. c \in Nat
      BY <2>1, RankTypes DEF IInv
    <3> QED
      BY <3>1, <3>2, PassedStays DEF IInv
  <2>2. CASE c \notin finished[q]
    <3>1. q = p
      BY <2>2 DEF StepOf, SameRank
    <3> QED
      BY <1>1, <2>2, <3>1
  <2> QED
    BY <2>1, <2>2
<1>6. DOMAIN req' = Proc
  BY DEF StepOf, IInv
<1> QED
  BY <1>1, <1>2, <1>4, <1>5, <1>6 DEF IInv

----------------------------------------------------------------------------
(* What the invariant says of a rank at a call.                            *)

LEMMA KindsOf ==
    ASSUME NEW o
    PROVE  /\ "unknown" \in KindOf(o) => o = "unknown"
           /\ "known_prc" \in KindOf(o) => o = "known_prc"
           /\ "known" \in KindOf(o) => o \in {"known", "known_prc"}
           /\ "unactive" \notin KindOf(o)
           /\ o \in Queues => o \in KindOf(o)
<1>1. CASE o = "unknown"
  BY <1>1 DEF KindOf, Queues
<1>2. CASE o = "known"
  BY <1>2 DEF KindOf, Queues
<1>3. CASE o = "known_prc"
  BY <1>3 DEF KindOf, Queues
<1>4. CASE o \notin {"unknown", "known", "known_prc"}
  BY <1>4 DEF KindOf, Queues
<1> QED
  BY <1>1, <1>2, <1>3, <1>4

LEMMA QueuedBefore ==
    ASSUME IInv, NEW p \in Proc
    PROVE  qcnt[p] < ip[p]
<1>1. AtCall(p)
  BY DEF IInv, RankInv, Control
<1> QED
  BY <1>1 DEF AtCall

LEMMA QueuedOrNot ==
    ASSUME IInv, NEW p \in Proc, ~InSync(p)
    PROVE  qcnt[p] = -1 <=> ~Pending(prog, ip[p], Queues)
<1>1. AtCall(p)
  BY DEF IInv, RankInv, Control
<1> QED
  BY <1>1 DEF AtCall

\* A slot whose barrier is to come is in use; none is when nothing is queued.
LEMMA UnreachedLive ==
    ASSUME IInv, NEW p \in Proc
    PROVE  /\ \A i \in Unreached(p) : i \in Slots /\ Live(p, i)
           /\ IsFiniteSet(Unreached(p)) /\ Cardinality(Unreached(p)) \in Nat
           /\ qcnt[p] = -1 => Unreached(p) = {} /\ ~Entered(p) /\ \A i \in Slots : ~Live(p, i)
<1>1. \A i \in Slots : SlotHolds(p, i)
  BY DEF IInv, RankInv, Control
<1>2. qcnt[p] \in Int /\ \A i \in Slots : i \in Nat
  BY RankTypes DEF IInv
<1>3. \A i \in Unreached(p) : i \in Slots /\ Live(p, i)
  BY <1>1, <1>2 DEF Unreached, Live, SlotHolds
<1>4. IsFiniteSet(Unreached(p)) /\ Cardinality(Unreached(p)) \in Nat
  BY SlotsAreNat, FS_Subset, FS_CardinalityType DEF Unreached
<1>5. ASSUME qcnt[p] = -1
      PROVE  \A i \in Slots : ~Live(p, i)
  BY <1>2, <1>5 DEF Live
<1> QED
  BY <1>3, <1>4, <1>5 DEF Entered

\* A live slot of the barrier protocol.
LEMMA LiveUnknown ==
    ASSUME IInv, NEW p \in Proc, NEW i \in Slots, Live(p, i), NBX_active[p][i] = "unknown"
    PROVE  /\ slotCall[p][i] \in DOMAIN prog
           /\ slotCall[p][i] < Behind(p)
           /\ ~InSync(p) => /\ prog[slotCall[p][i]].op = "unknown"
                            /\ slotCall[p][i] < ip[p]
                            /\ SameBatch(prog, slotCall[p][i], ip[p])
           /\ InSync(p) => slotCall[p][i] = ip[p] /\ i = 0
<1>1. SlotHolds(p, i)
  BY DEF IInv, RankInv, Control
<1>2. slotCall[p][i] \in 0..Len(prog) /\ slotCall[p][i] # 0
  BY <1>1, RankTypes DEF IInv, SlotHolds
<1>3. slotCall[p][i] \in DOMAIN prog
  BY <1>2, ProgramType DEF IInv
<1>4. ASSUME ~InSync(p)
      PROVE  /\ prog[slotCall[p][i]].op = "unknown"
             /\ slotCall[p][i] < ip[p]
             /\ SameBatch(prog, slotCall[p][i], ip[p])
  BY <1>1, <1>4, KindsOf DEF SlotHolds, Behind
<1> QED
  BY <1>1, <1>3, <1>4 DEF SlotHolds

\* A call that comes too late after progressCommunication finds no barrier
\* entered.
LEMMA NoneEntered ==
    ASSUME IInv, Disciplined, NEW p \in Proc, ~Waiting(p), ip[p] <= Len(prog),
           Call(p).op \in Queues \cup {"reduce", "known_sync", "known_prc_sync"}
    PROVE  ~Entered(p)
<1> SUFFICES ASSUME NEW i \in Slots, Live(p, i), NBX_active[p][i] = "unknown", reached[p][i]
             PROVE  FALSE
  BY DEF Entered
<1>1. ~InSync(p)
  BY DEF InSync
<1>2. /\ slotCall[p][i] \in DOMAIN prog /\ prog[slotCall[p][i]].op = "unknown"
      /\ slotCall[p][i] < ip[p] /\ SameBatch(prog, slotCall[p][i], ip[p])
  BY <1>1, LiveUnknown
<1>3. PICK g \in (slotCall[p][i] + 1)..(ip[p] - 1) : prog[g].op = "progress"
  BY DEF IInv, RankInv, Control, BarrierOrder
<1>4. ip[p] \in DOMAIN prog /\ g \in DOMAIN prog /\ slotCall[p][i] < g /\ g < ip[p]
  BY <1>2, <1>3, RankTypes, ProgramType DEF IInv
<1>5. ProgressLast(prog)
  BY ProgramDisciplined DEF IInv
<1> QED
  BY <1>2, <1>3, <1>4, <1>5 DEF ProgressLast, Call

\* No reduction is under way where an exchange begins or ends.
LEMMA NoReduction ==
    ASSUME IInv, Disciplined, NEW p \in Proc, ip[p] <= Len(prog),
           Call(p).op \in {"unknown", "sync", "wait"}
    PROVE  \A x \in reducing : x.by # p
<1> SUFFICES ASSUME NEW x \in reducing, x.by = p
             PROVE  FALSE
  OBVIOUS
<1>1. /\ x.call \in 1..(ip[p] - 1) /\ prog[x.call].op = "reduce"
      /\ \A e \in (x.call + 1)..(ip[p] - 1) : prog[e].op \notin Executes
  BY DEF IInv, RankInv, UnderWay, ReductionsHeld
<1>2. ip[p] \in DOMAIN prog /\ x.call \in DOMAIN prog /\ x.call < ip[p]
  BY <1>1, RankTypes, ProgramType DEF IInv
<1>3. ReduceExecuted(prog)
  BY ProgramDisciplined DEF IInv
<1> QED
  BY <1>1, <1>2, <1>3 DEF ReduceExecuted, Call

\* Where no slot is in use, and the rank is not in a blocking call with known
\* receivers, no send and no receive is under way.
LEMMA NothingQueued ==
    ASSUME IInv, NEW p \in Proc, \A i \in Slots : ~Live(p, i), ~InKnown(p)
    PROVE  /\ \A m \in flight : m.cls = "sparse" => m.src # p
           /\ \A w \in posted : w.dst # p
<1>1. Unreached(p) = {}
  BY UnreachedLive
<1>2. SendsHeld(p) /\ ReceivesHeld(p)
  BY DEF IInv, RankInv, UnderWay
<1> QED
  BY <1>1, <1>2 DEF SendsHeld, ReceivesHeld

\* execute and MPI_Testall: when all requests are complete, nothing of the
\* rank is under way.
LEMMA AllDone ==
    ASSUME NEW p \in Proc, UnderWay(p), NEW F \in SUBSET flight, NEW W \in SUBSET posted,
           AllComplete(p, F, W)
    PROVE  /\ \A m \in F : m.cls = "sparse" => m.src # p
           /\ \A w \in W : w.dst # p
           /\ \A x \in reducing : x.by # p
<1>1. ASSUME NEW m \in F, m.cls = "sparse", m.src = p
      PROVE  FALSE
  <2> DEFINE r == [op |-> "issend", of |-> m]
  <2>1. r \in req[p]
    BY <1>1 DEF UnderWay, SendsHeld
  <2>2. Complete(r, F, W)
    BY <2>1 DEF AllComplete
  <2> QED
    BY <2>2 DEF Complete
<1>2. ASSUME NEW w \in W, w.dst = p
      PROVE  FALSE
  <2> DEFINE r == [op |-> "irecv", of |-> w]
  <2>1. r \in req[p]
    BY <1>2 DEF UnderWay, ReceivesHeld
  <2>2. Complete(r, F, W)
    BY <2>1 DEF AllComplete
  <2> QED
    BY <2>2 DEF Complete
<1>3. ASSUME NEW x \in reducing, x.by = p
      PROVE  FALSE
  <2> DEFINE r == [op |-> "reduce", of |-> x]
  <2>1. r \in req[p]
    BY <1>3 DEF UnderWay, ReductionsHeld
  <2>2. Complete(r, F, W)
    BY <2>1 DEF AllComplete
  <2> QED
    BY <2>2 DEF Complete
<1> QED
  BY <1>1, <1>2, <1>3

LEMMA ExecuteQuiet ==
    ASSUME IInv, NEW p \in Proc, execute(p)
    PROVE  Quiet(p)
<1>1. UnderWay(p)
  BY DEF IInv, RankInv
<1> QED
  BY <1>1, AllDone DEF execute, Quiet

LEMMA QuietUnderWay ==
    ASSUME NEW p \in Proc, Quiet(p)'
    PROVE  UnderWay(p)'
<1>1. SendsHeld(p)'
  BY DEF Quiet, SendsHeld
<1>2. ReceivesHeld(p)'
  BY DEF Quiet, ReceivesHeld
<1>3. ReductionsHeld(p)'
  BY DEF Quiet, ReductionsHeld
<1> QED
  BY <1>1, <1>2, <1>3 DEF UnderWay, QuietBehind

\* A rank of which nothing is under way, and nothing is added.
LEMMA StaysQuiet ==
    ASSUME NEW p \in Proc, Quiet(p), flight' \subseteq flight, posted' \subseteq posted,
           reducing' \subseteq reducing
    PROVE  Quiet(p)' /\ UnderWay(p)'
<1>1. Quiet(p)'
  BY DEF Quiet
<1> QED
  BY <1>1, QuietUnderWay

----------------------------------------------------------------------------
(* Queueing.                                                               *)

LEMMA SlotSet ==
    ASSUME NEW f, DOMAIN f = Proc, NEW p \in Proc, DOMAIN f[p] = Slots, NEW i \in Slots, NEW v
    PROVE  \A j \in Slots : [f EXCEPT ![p][i] = v][p][j] = IF j = i THEN v ELSE f[p][j]
OBVIOUS

LEMMA OutgoingTypes ==
    ASSUME prog \in Programs, NEW p \in Proc, NEW c \in 1..Len(prog), NEW cls, NEW part, NEW cnt,
           NEW m \in Outgoing(p, c, cls, part, cnt)
    PROVE  m.dst \in Proc /\ m.src = p /\ m.cls = cls /\ m.call = c
<1>1. PICK s \in {t \in prog[c].sends : t.src = p} :
         m = [cls |-> cls, src |-> p, dst |-> s.dst, sz |-> s.sz, part |-> part, call |-> c,
              cnt |-> cnt, round |-> posts[p], idx |-> 0]
  BY DEF Outgoing
<1>2. s.dst \in Proc
  BY ProgramType
<1> QED
  BY <1>1, <1>2

\* What a queued call leaves of the slots before it.
LEMMA FreshSlot ==
    ASSUME IInv, NEW p \in Proc, ~Waiting(p)
    PROVE  LET slot == qcnt[p] + 1 IN
           /\ slot \in Nat
           /\ slot \notin Unreached(p)
           /\ \A i \in Slots : i # slot /\ NBX_active[p][i] # "unactive" => i < slot /\ Live(p, i)
<1>1. \A i \in Slots : SlotHolds(p, i)
  BY DEF IInv, RankInv, Control
<1>2. qcnt[p] \in Int /\ qcnt[p] >= -1 /\ \A i \in Slots : i \in Nat
  BY RankTypes DEF IInv
<1> QED
  BY <1>1, <1>2 DEF SlotHolds, Unreached, Live

LEMMA QueueUnknownEffect ==
    ASSUME NEW p \in Proc, QueueUnknown(p)
    PROVE  LET slot == qcnt[p] + 1
               out == Outgoing(p, ip[p], "sparse", "data", NBX_cnt[p] + slot)
           IN
           /\ pc[p] = "app" /\ ip[p] <= Len(prog)
           /\ Call(p).op \in {"unknown", "sync"}
           /\ Call(p).op = "sync" => slot = 0
           /\ slot \in Slots
           /\ UNCHANGED <<prog, NBX_cnt, finished, bar_req, colls, posted, reducing>>
           /\ ip' = IF Call(p).op = "sync" THEN ip ELSE [ip EXCEPT ![p] = ip[p] + 1]
           /\ pc' = IF Call(p).op = "sync" THEN [pc EXCEPT ![p] = "wait"] ELSE pc
           /\ at' = [at EXCEPT ![p] = 0]
           /\ qcnt' = [qcnt EXCEPT ![p] = slot]
           /\ NBX_active' = [NBX_active EXCEPT ![p][slot] = "unknown"]
           /\ slotCall' = [slotCall EXCEPT ![p][slot] = ip[p]]
           /\ cnt_base' = [cnt_base EXCEPT ![p] = IF slot = 0 THEN NBX_cnt[p] ELSE cnt_base[p]]
           /\ rid' = [rid EXCEPT ![p][slot] = 0]
           /\ reached' = [reached EXCEPT ![p][slot] = FALSE]
           /\ flight' = flight \cup out
           /\ req' = [req EXCEPT ![p] = (IF slot = 0 THEN {} ELSE req[p]) \cup Requests("issend", out)]
BY DEF QueueUnknown, Running, Occupy, queue_all_sends, NextCall

LEMMA QueueUnknownTypes ==
    ASSUME IInv, NEW p \in Proc, QueueUnknown(p)
    PROVE  TypeOK'
<1> DEFINE slot == qcnt[p] + 1
<1>1. TypeOK /\ prog \in Programs /\ AtCall(p)
  BY DEF IInv, RankInv, Control
<1>3. /\ prog' = prog /\ UNCHANGED <<NBX_cnt, finished, bar_req, colls, posted>>
      /\ slot \in Slots /\ ip[p] <= Len(prog)
      /\ ip' = ip \/ ip' = [ip EXCEPT ![p] = ip[p] + 1]
      /\ pc' = pc \/ pc' = [pc EXCEPT ![p] = "wait"]
      /\ at' = [at EXCEPT ![p] = 0]
      /\ qcnt' = [qcnt EXCEPT ![p] = slot]
      /\ NBX_active' = [NBX_active EXCEPT ![p][slot] = "unknown"]
      /\ slotCall' = [slotCall EXCEPT ![p][slot] = ip[p]]
      /\ cnt_base' = [cnt_base EXCEPT ![p] = IF slot = 0 THEN NBX_cnt[p] ELSE cnt_base[p]]
      /\ rid' = [rid EXCEPT ![p][slot] = 0]
      /\ reached' = [reached EXCEPT ![p][slot] = FALSE]
      /\ flight' = flight \cup Outgoing(p, ip[p], "sparse", "data", NBX_cnt[p] + slot)
  BY QueueUnknownEffect
<1>2. /\ slot \in Nat
      /\ ip[p] \in 1..Len(prog) /\ ip[p] + 1 \in 1..(Len(prog) + 1)
      /\ Len(prog) \in Nat
      /\ qcnt[p] < ip[p]
  BY <1>1, <1>3, RankTypes, SlotsAreNat DEF AtCall
<1> HIDE DEF slot
<1>4. ip' \in [Proc -> 1..(Len(prog) + 1)]
  <2>1. ip \in [Proc -> 1..(Len(prog) + 1)]
    BY <1>1 DEF TypeOK
  <2> QED
    BY <1>2, <1>3, <2>1
<1>5. pc' \in [Proc -> {"app", "wait", "test", "sizes", "data"}]
  BY <1>1, <1>3 DEF TypeOK
<1>6. at' \in [Proc -> Slots]
  BY <1>1, <1>3, SlotsAreNat DEF TypeOK
<1>7. cnt_base' \in [Proc -> 0..(nbx_cycle - 1)]
  BY <1>1, <1>3 DEF TypeOK
<1>8. qcnt' \in [Proc -> -1..Len(prog)]
  <2>1. slot <= Len(prog) /\ slot >= -1
    BY <1>1, <1>2, RankTypes DEF slot
  <2> QED
    BY <1>1, <1>2, <1>3, <2>1 DEF TypeOK
<1>9. NBX_active' \in [Proc -> [Slots -> Kinds]]
  BY <1>1, <1>2, <1>3 DEF TypeOK, Kinds
<1>10. reached' \in [Proc -> [Slots -> BOOLEAN]] /\ rid' \in [Proc -> [Slots -> Nat]]
  BY <1>1, <1>2, <1>3 DEF TypeOK
<1>11. slotCall' \in [Proc -> [Slots -> 0..Len(prog)]]
  BY <1>1, <1>2, <1>3 DEF TypeOK
<1>12. \A m \in flight' : m.dst \in Proc /\ m.src \in Proc
  <2>1. \A m \in flight : m.dst \in Proc /\ m.src \in Proc
    BY <1>1 DEF TypeOK
  <2>2. \A m \in Outgoing(p, ip[p], "sparse", "data", NBX_cnt[p] + slot) : m.dst \in Proc /\ m.src = p
    BY <1>1, <1>2, OutgoingTypes
  <2> QED
    BY <1>3, <2>1, <2>2
<1> QED
  BY <1>1, <1>3, <1>4, <1>5, <1>6, <1>7, <1>8, <1>9, <1>10, <1>11, <1>12 DEF TypeOK

LEMMA QueueUnknownStep ==
    ASSUME IInv, Disciplined, NEW p \in Proc, QueueUnknown(p)
    PROVE  IInv'
<1>0. PICK slot : slot = qcnt[p] + 1
  OBVIOUS
<1> DEFINE op == Call(p).op
           out == Outgoing(p, ip[p], "sparse", "data", NBX_cnt[p] + slot)
<1>1. /\ pc[p] = "app" /\ ip[p] <= Len(prog)
      /\ op \in {"unknown", "sync"}
      /\ op = "sync" => slot = 0
      /\ slot \in Slots /\ slot \in Nat
      /\ ~Waiting(p) /\ ~InSync(p) /\ ~InKnown(p)
      /\ Behind(p) = ip[p]
  BY <1>0, QueueUnknownEffect, SlotsAreNat DEF Waiting, InSync, InKnown, Behind
<1>2. TypeOK'
  BY QueueUnknownTypes
<1>3. /\ prog' = prog /\ flight' = flight \cup out /\ posted' = posted /\ reducing' = reducing
      /\ pc'[p] = IF op = "sync" THEN "wait" ELSE "app"
      /\ ip'[p] = IF op = "sync" THEN ip[p] ELSE ip[p] + 1
      /\ at'[p] = 0 /\ qcnt'[p] = slot /\ finished'[p] = finished[p]
      /\ colls'[p] = colls[p] /\ bar_req'[p] = bar_req[p]
      /\ req'[p] = (IF slot = 0 THEN {} ELSE req[p]) \cup Requests("issend", out)
  BY <1>0, QueueUnknownEffect, Domains
<1>4. \A i \in Slots : /\ NBX_active'[p][i] = IF i = slot THEN "unknown" ELSE NBX_active[p][i]
                       /\ reached'[p][i] <=> i # slot /\ reached[p][i]
                       /\ slotCall'[p][i] = IF i = slot THEN ip[p] ELSE slotCall[p][i]
    <2>1. /\ NBX_active' = [NBX_active EXCEPT ![p][slot] = "unknown"]
        /\ slotCall' = [slotCall EXCEPT ![p][slot] = ip[p]]
        /\ reached' = [reached EXCEPT ![p][slot] = FALSE]
    BY <1>0, QueueUnknownEffect
  <2>2. /\ DOMAIN NBX_active = Proc /\ DOMAIN reached = Proc /\ DOMAIN slotCall = Proc
        /\ DOMAIN NBX_active[p] = Slots /\ DOMAIN reached[p] = Slots /\ DOMAIN slotCall[p] = Slots
    BY Domains
  <2>3. \A i \in Slots : NBX_active'[p][i] = IF i = slot THEN "unknown" ELSE NBX_active[p][i]
    BY <1>1, <2>1, <2>2
  <2>4. \A i \in Slots : reached'[p][i] <=> i # slot /\ reached[p][i]
    BY <1>1, <2>1, <2>2
  <2>5. \A i \in Slots : slotCall'[p][i] = IF i = slot THEN ip[p] ELSE slotCall[p][i]
    BY <1>1, <2>1, <2>2
  <2> QED
    BY <2>3, <2>4, <2>5
<1>5. \A m \in out : m.cls = "sparse" /\ m.src = p /\ m.call = ip[p]
  BY DEF Outgoing
<1>6. StepOf(p)
  <2>1. ASSUME NEW q \in Proc \ {p}
        PROVE  SameRank(q)
    BY <1>0, QueueUnknownEffect, Domains DEF SameRank
  <2>2. Len(colls'[p]) >= Len(colls[p])
    BY <1>3, RankTypes DEF IInv
  <2>3. DOMAIN req' = DOMAIN req
    BY <1>0, QueueUnknownEffect
  <2> HIDE DEF out
  <2> QED
    BY <1>3, <1>5, <2>1, <2>2, <2>3 DEF StepOf
<1> HIDE DEF out, op
<1>7. /\ ip[p] \in Nat \ {0} /\ Len(prog) \in Nat /\ qcnt[p] \in Int /\ slot = qcnt[p] + 1
      /\ qcnt[p] >= -1 /\ qcnt[p] < ip[p]
      /\ \A i \in Slots : i \in Nat /\ slotCall[p][i] \in Nat
  BY <1>0, RankTypes, QueuedBefore DEF IInv
<1>8. /\ (Waiting(p)' <=> op = "sync") /\ (InSync(p)' <=> op = "sync") /\ ~InKnown(p)'
      /\ Behind(p)' = ip[p] + 1
  BY <1>1, <1>3 DEF Waiting, InSync, InKnown, Behind, Call, op
<1>9. \A i \in Slots : SlotHolds(p, i) /\ (i # slot /\ NBX_active[p][i] # "unactive" => i < slot /\ Live(p, i))
  BY <1>1, <1>0, FreshSlot DEF IInv, RankInv, Control
<1>10. /\ \A i \in Slots : i # slot => (Live(p, i)' <=> Live(p, i))
       /\ Live(p, slot)'
  BY <1>1, <1>3, <1>4, <1>7, <1>9 DEF Live
<1>11. ~Entered(p)
  <2>1. CASE op # "sync"
    <3>1. Call(p).op \in Queues
      BY <1>1, <2>1 DEF op, Queues
    <3> QED
      BY <1>1, <3>1, NoneEntered
  <2>2. CASE op = "sync"
    BY <1>1, <1>7, <2>2, UnreachedLive
  <2> QED
    BY <2>1, <2>2
<1>12. ~Entered(p)'
  BY <1>4, <1>10, <1>11 DEF Entered
<1>13. AtCall(p)'
  <2>1. op = "sync" => ~Pending(prog, ip[p], Queues)
    BY <1>1, <1>7, QueuedOrNot
  <2>2. op # "sync" => Pending(prog, ip'[p], Queues)
    BY <1>1, <1>3, <1>7, PendingNext DEF op, Call, Queues
  <2> QED
    BY <1>1, <1>3, <1>4, <1>7, <1>8, <2>1, <2>2 DEF AtCall, Call, op
<1>14. ASSUME NEW i \in Slots
       PROVE  SlotHolds(p, i)'
  <2>1. CASE i = slot
    <3>1. op # "sync" => SameBatch(prog, ip[p], ip[p] + 1)
      BY <1>7 DEF SameBatch
    <3>2. op # "sync" => "unknown" \in KindOf(prog[ip[p]].op)
      BY <1>1, KindsOf DEF op, Call, Queues
    <3>3. ~(i > qcnt'[p])
      BY <1>3, <1>7, <2>1
    <3>4. slotCall'[p][i] = ip[p] /\ NBX_active'[p][i] = "unknown" /\ ip[p] < Behind(p)' /\ ip[p] # 0
      BY <1>4, <1>7, <1>8, <2>1
    <3>5. CASE op = "sync"
      <4>1. InSync(p)' /\ i = 0 /\ ip'[p] = ip[p]
        BY <1>1, <1>3, <1>8, <2>1, <3>5
      <4> QED
        BY <3>3, <3>4, <4>1 DEF SlotHolds
    <3>6. CASE op # "sync"
      <4>1. ~InSync(p)' /\ ip'[p] = ip[p] + 1 /\ prog' = prog
        BY <1>3, <1>8, <3>6
      <4> QED
        BY <3>1, <3>2, <3>3, <3>4, <3>6, <4>1 DEF SlotHolds
    <3> QED
      BY <3>5, <3>6
  <2>2. CASE i # slot
    <3>1. slotCall'[p][i] = slotCall[p][i] /\ NBX_active'[p][i] = NBX_active[p][i]
      BY <1>4, <2>2
    <3>2. slotCall[p][i] < ip[p] + 1
      BY <1>1, <1>7, <1>9 DEF SlotHolds
    <3>3. NBX_active[p][i] # "unactive" => op # "sync" /\ i <= qcnt'[p]
      BY <1>1, <1>3, <1>7, <1>9, <2>2
    <3>4. Live(p, i) /\ op # "sync" => SameBatch(prog, slotCall[p][i], ip[p] + 1)
      BY <1>1, <1>7, <1>9, SameBatchNext DEF SlotHolds, op, Call
    <3>5. Live(p, i) => NBX_active[p][i] \in KindOf(prog[slotCall[p][i]].op)
      BY <1>1, <1>9 DEF SlotHolds
    <3>6. Live(p, i)' <=> Live(p, i)
      BY <1>10, <2>2
    <3>7. Live(p, i) => op # "sync"
      BY <3>3 DEF Live
    <3>8. NBX_active[p][i] # "unactive" => slotCall[p][i] # 0
      BY <1>9 DEF SlotHolds
    <3>9. ~(i > qcnt'[p] /\ NBX_active[p][i] # "unactive")
      BY <1>3, <1>7, <3>3
    <3> QED
      BY <1>3, <1>8, <3>1, <3>2, <3>4, <3>5, <3>6, <3>7, <3>8, <3>9 DEF SlotHolds
  <2> QED
    BY <2>1, <2>2
<1>15. SlotOrder(p)'
  <2>1. \A i \in Slots : Live(p, i) => i = slot \/ (i < slot /\ slotCall[p][i] < ip[p])
    BY <1>1, <1>9 DEF SlotHolds, Live
  <2>2. SlotOrder(p)
    BY DEF IInv, RankInv, Control
  <2> QED
    BY <1>1, <1>4, <1>7, <1>10, <2>1, <2>2 DEF SlotOrder
<1>16. BarrierOrder(p)'
  <2>1. \A i \in Slots : i # slot /\ NBX_active[p][i] = "unknown" => i < slot /\ ~reached[p][i]
    BY <1>9, <1>11 DEF Entered
  <2> QED
    BY <1>4, <1>12, <2>1 DEF BarrierOrder, Entered
<1>17. Counted(p)'
  <2>1. Unreached(p)' = Unreached(p) \cup {slot}
    BY <1>1, <1>4 DEF Unreached
  <2>2. slot \notin Unreached(p)
    BY <1>1, <1>0, FreshSlot
  <2>3. Cardinality(Unreached(p)') = Cardinality(Unreached(p)) + 1
    BY <2>1, <2>2, UnreachedLive, FS_AddElement
  <2>4. Collective(prog, ip[p])
    <3>1. op = "sync" => ~Pending(prog, ip[p], Queues)
      BY <1>1, <1>7, QueuedOrNot
    <3> QED
      BY <1>1, <3>1 DEF Collective, Call, op
  <2>5. Count(prog, ip[p] + 1) = Count(prog, ip[p]) + 1
    BY <1>7, <2>4, CountNext
  <2>6. Counted(p)
    BY DEF IInv, RankInv, Control
  <2>7. Len(colls[p]) \in Nat /\ Cardinality(Unreached(p)) \in Nat
    BY RankTypes, UnreachedLive DEF IInv
  <2>8. Len(colls'[p]) + Cardinality(Unreached(p)') = Count(prog', Behind(p)')
    <3>1. Len(colls[p]) + Cardinality(Unreached(p)) = Count(prog, ip[p])
      BY <1>1, <2>6 DEF Counted
    <3>2. Count(prog', Behind(p)') = Count(prog, ip[p] + 1)
      BY <1>3, <1>8
    <3> QED
      BY <1>3, <2>3, <2>5, <2>7, <3>1, <3>2
  <2>9. \A c \in 1..(Behind(p)' - 1) : prog'[c].op = "reduce" => Count(prog', c) < Len(colls'[p])
    BY <1>1, <1>3, <1>7, <1>8, <2>6 DEF Counted, Call, op
  <2> QED
    BY <1>3, <2>6, <2>8, <2>9 DEF Counted
<1>18. UnderWay(p)'
  <2>1. SendsHeld(p)'
    <3> SUFFICES ASSUME NEW m \in flight', m.cls = "sparse", m.src = p
                 PROVE  /\ [op |-> "issend", of |-> m] \in req'[p]
                        /\ \E i \in Unreached(p)' : slotCall'[p][i] = m.call
      BY DEF SendsHeld
    <3>1. Unreached(p)' = Unreached(p) \cup {slot} /\ slot \notin Unreached(p)
      BY <1>1, <1>4, <1>0, FreshSlot DEF Unreached
    <3>2. CASE m \in out
      BY <1>1, <1>3, <1>4, <1>5, <3>1, <3>2 DEF Requests
    <3>3. CASE m \notin out
      <4>1. m \in flight
        BY <1>3, <3>3
      <4>2. [op |-> "issend", of |-> m] \in req[p] /\ \E i \in Unreached(p) : slotCall[p][i] = m.call
        BY <4>1 DEF IInv, RankInv, UnderWay, SendsHeld
      <4>3. slot # 0
        BY <1>7, <4>2, UnreachedLive
      <4> QED
        BY <1>3, <1>4, <3>1, <4>2, <4>3 DEF Unreached
    <3> QED
      BY <3>2, <3>3
  <2>2. ReceivesHeld(p)'
    <3> SUFFICES ASSUME NEW w \in posted, w.dst = p
                 PROVE  /\ [op |-> "irecv", of |-> w] \in req'[p]
                        /\ \E i \in Slots : Live(p, i)' /\ NBX_active'[p][i] # "unknown"
      BY <1>3 DEF ReceivesHeld
    <3>1. /\ [op |-> "irecv", of |-> w] \in req[p]
          /\ \E i \in Slots : Live(p, i) /\ NBX_active[p][i] # "unknown"
      BY <1>1 DEF IInv, RankInv, UnderWay, ReceivesHeld
    <3>2. PICK i \in Slots : Live(p, i) /\ NBX_active[p][i] # "unknown"
      BY <3>1
    <3>3. slot # 0 /\ i # slot
      BY <1>7, <3>2 DEF Live
    <3> QED
      BY <1>3, <1>4, <1>10, <3>1, <3>2, <3>3
  <2>3. ReductionsHeld(p)'
    BY <1>1, <1>3, NoReduction DEF ReductionsHeld, op
  <2> QED
    BY <1>12, <2>1, <2>2, <2>3 DEF UnderWay, QuietBehind
<1>19. RankInv(p)'
  BY <1>12, <1>13, <1>14, <1>15, <1>16, <1>17, <1>18 DEF RankInv, Control, BarrierSeen
<1>20. KeepsBarriers(p)
  <2>1. ip[p] <= ip[p] + 1
    BY <1>7
  <2>2. ASSUME NEW i \in Slots
        PROVE  \/ slotCall'[p][i] = ip[p]
               \/ /\ slotCall'[p][i] = slotCall[p][i] /\ NBX_active'[p][i] = NBX_active[p][i]
                  /\ reached[p][i] => reached'[p][i]
    BY <1>4
  <2>3. ip[p] >= ip[p]
    BY <1>7
  <2> QED
    BY <1>1, <1>8, <2>1, <2>2, <2>3 DEF KeepsBarriers
<1> QED
  BY <1>2, <1>3, <1>6, <1>19, <1>20, StepOfRank

\* send() and recv(): plain messages of p, and receives of p that it holds.
Posts(p, held) ==
    /\ \A m \in flight' : m \in flight \/ (m.cls = "known" /\ m.src = p /\ m.dst \in Proc)
    /\ \A w \in posted' :
          \/ w \in posted
          \/ w.dst = p /\ w.src \in Proc /\ [op |-> "irecv", of |-> w] \in req'[p]
    /\ held \subseteq req'[p]
    /\ DOMAIN req' = DOMAIN req
    /\ \A q \in Proc \ {p} : req'[q] = req[q]

LEMMA PostKnownEffect ==
    ASSUME IInv, NEW p \in Proc, NEW held, NEW c \in 1..Len(prog), NEW part, NEW cnt, NEW sizes,
           PostKnown(p, held, c, part, cnt, sizes)
    PROVE  Posts(p, held)
<1> DEFINE out == Outgoing(p, c, "known", part, cnt)
           in == Incoming(p, c, part, cnt, sizes)
<1>1. /\ flight' = flight \cup out
      /\ posted' = posted \cup in
      /\ req' = [req EXCEPT ![p] = held \cup Requests("isend", out) \cup Requests("irecv", in)]
  BY DEF PostKnown
<1>2. \A m \in out : m.cls = "known" /\ m.src = p /\ m.dst \in Proc
  BY OutgoingTypes DEF IInv
<1>3. \A w \in in : w.dst = p /\ w.src \in Proc
  <2> SUFFICES ASSUME NEW i \in DOMAIN Senders(p, c)
               PROVE  Senders(p, c)[i] \in Proc
    BY DEF Incoming
  <2> QED
    BY SendersAreRanks DEF IInv
<1> HIDE DEF out, in
<1>4. req'[p] = held \cup Requests("isend", out) \cup Requests("irecv", in)
  BY <1>1, Domains
<1>5. \A w \in in : [op |-> "irecv", of |-> w] \in req'[p]
  BY <1>4 DEF Requests
<1>6. DOMAIN req' = DOMAIN req /\ \A q \in Proc \ {p} : req'[q] = req[q]
  BY <1>1, Domains
<1> QED
  BY <1>1, <1>2, <1>3, <1>4, <1>5, <1>6 DEF Posts

LEMMA PostsUnderWay ==
    ASSUME IInv, NEW p \in Proc, NEW held, Posts(p, held), held = req[p] \/ Quiet(p),
           prog' = prog, reducing' = reducing,
           Quiet(p) \/ \A i \in Unreached(p) : i \in Unreached(p)' /\ slotCall'[p][i] = slotCall[p][i],
           InKnown(p)' \/ \E i \in Slots : Live(p, i)' /\ NBX_active'[p][i] # "unknown",
           ~Entered(p)', Quiet(p) \/ ~Waiting(p)',
           \/ ip'[p] = ip[p]
           \/ ip'[p] = ip[p] + 1 /\ Call(p).op \notin Executes
    PROVE  UnderWay(p)'
<1>1. UnderWay(p) /\ ip[p] \in Nat
  BY RankTypes DEF IInv, RankInv
<1>2. SendsHeld(p)'
  <2> SUFFICES ASSUME NEW m \in flight', m.cls = "sparse", m.src = p
               PROVE  /\ [op |-> "issend", of |-> m] \in req'[p]
                      /\ \E i \in Unreached(p)' : slotCall'[p][i] = m.call
    BY DEF SendsHeld
  <2>1. m \in flight
    BY DEF Posts
  <2>2. ~Quiet(p)
    BY <2>1 DEF Quiet
  <2>3. [op |-> "issend", of |-> m] \in req[p] /\ \E i \in Unreached(p) : slotCall[p][i] = m.call
    BY <1>1, <2>1 DEF UnderWay, SendsHeld
  <2> QED
    BY <2>2, <2>3 DEF Posts
<1>3. ReceivesHeld(p)'
  <2> SUFFICES ASSUME NEW w \in posted', w.dst = p
               PROVE  [op |-> "irecv", of |-> w] \in req'[p]
    BY DEF ReceivesHeld
  <2>1. CASE w \in posted
    <3>1. ~Quiet(p) /\ [op |-> "irecv", of |-> w] \in req[p]
      BY <1>1, <2>1 DEF UnderWay, ReceivesHeld, Quiet
    <3> QED
      BY <3>1 DEF Posts
  <2>2. CASE w \notin posted
    BY <2>2 DEF Posts
  <2> QED
    BY <2>1, <2>2
<1>4. ReductionsHeld(p)'
  <2> SUFFICES ASSUME NEW x \in reducing, x.by = p
               PROVE  /\ [op |-> "reduce", of |-> x] \in req'[p]
                      /\ x.call \in 1..(ip'[p] - 1) /\ prog[x.call].op = "reduce"
                      /\ \A e \in (x.call + 1)..(ip'[p] - 1) : prog[e].op \notin Executes
                      /\ ~Waiting(p)'
    BY DEF ReductionsHeld
  <2>1. ~Quiet(p)
    BY DEF Quiet
  <2>2. /\ [op |-> "reduce", of |-> x] \in req[p]
        /\ x.call \in 1..(ip[p] - 1) /\ prog[x.call].op = "reduce"
        /\ \A e \in (x.call + 1)..(ip[p] - 1) : prog[e].op \notin Executes
    BY <1>1 DEF UnderWay, ReductionsHeld
  <2>3. [op |-> "reduce", of |-> x] \in req'[p]
    BY <2>1, <2>2 DEF Posts
  <2> QED
    BY <1>1, <2>1, <2>2, <2>3 DEF Call
<1> QED
  BY <1>2, <1>3, <1>4 DEF UnderWay, QuietBehind

\* Nothing is counted, and nothing is entered.
LEMMA CountedStays ==
    ASSUME IInv, NEW p \in Proc, prog' = prog, colls'[p] = colls[p],
           Unreached(p)' = Unreached(p),
           \/ Behind(p)' = Behind(p)
           \/ Behind(p)' = Behind(p) + 1 /\ ~Collective(prog, Behind(p))
    PROVE  Counted(p)'
<1>1. Counted(p) /\ Behind(p) \in Nat \ {0}
  BY RankTypes DEF IInv, RankInv, Control
<1>2. Count(prog, Behind(p)') = Count(prog, Behind(p))
  BY <1>1, CountNext
<1>3. \A c \in 1..(Behind(p)' - 1) : prog[c].op = "reduce" => c \in 1..(Behind(p) - 1)
  BY <1>1 DEF Collective
<1> QED
  BY <1>1, <1>2, <1>3 DEF Counted

LEMMA QueueKnownEffect ==
    ASSUME IInv, NEW p \in Proc, QueueKnown(p)
    PROVE  LET slot == qcnt[p] + 1 IN
           /\ pc[p] = "app" /\ ip[p] <= Len(prog) /\ ip[p] \in 1..Len(prog)
           /\ Call(p).op \in {"known", "known_prc"}
           /\ slot \in Slots
           /\ UNCHANGED <<prog, pc, at, NBX_cnt, reached, rid, bar_req, finished, colls, reducing>>
           /\ ip' = [ip EXCEPT ![p] = ip[p] + 1]
           /\ qcnt' = [qcnt EXCEPT ![p] = slot]
           /\ NBX_active' = [NBX_active EXCEPT ![p][slot] = Call(p).op]
           /\ slotCall' = [slotCall EXCEPT ![p][slot] = ip[p]]
           /\ cnt_base' = [cnt_base EXCEPT ![p] = IF slot = 0 THEN NBX_cnt[p] ELSE cnt_base[p]]
           /\ Posts(p, req[p])
<1>1. pc[p] = "app" /\ ip[p] <= Len(prog) /\ Call(p).op \in {"known", "known_prc"}
  BY DEF QueueKnown, Running
<1>2. ip[p] \in 1..Len(prog)
  BY <1>1, RankTypes DEF IInv
<1>3. \E part, sizes : PostKnown(p, req[p], ip[p], part, NBX_cnt[p], sizes)
  BY DEF QueueKnown
<1>4. Posts(p, req[p])
  BY <1>2, <1>3, PostKnownEffect
<1> QED
  BY <1>1, <1>2, <1>4 DEF QueueKnown, Occupy, NextCall

LEMMA QueueKnownTypes ==
    ASSUME IInv, NEW p \in Proc, QueueKnown(p)
    PROVE  TypeOK'
<1>0. PICK slot : slot = qcnt[p] + 1
  OBVIOUS
<1>1. TypeOK /\ prog \in Programs
  BY DEF IInv
<1>2. /\ UNCHANGED <<prog, pc, at, NBX_cnt, reached, rid, bar_req, finished, colls>>
      /\ Call(p).op \in {"known", "known_prc"} /\ ip[p] \in 1..Len(prog)
      /\ slot \in Slots
      /\ ip' = [ip EXCEPT ![p] = ip[p] + 1]
      /\ qcnt' = [qcnt EXCEPT ![p] = slot]
      /\ NBX_active' = [NBX_active EXCEPT ![p][slot] = Call(p).op]
      /\ slotCall' = [slotCall EXCEPT ![p][slot] = ip[p]]
      /\ cnt_base' = [cnt_base EXCEPT ![p] = IF slot = 0 THEN NBX_cnt[p] ELSE cnt_base[p]]
      /\ Posts(p, req[p])
  BY <1>0, QueueKnownEffect
<1>3. slot \in -1..Len(prog) /\ ip[p] + 1 \in 1..(Len(prog) + 1) /\ Len(prog) \in Nat
  BY <1>0, <1>1, <1>2, RankTypes, QueuedBefore
<1>4. ip' \in [Proc -> 1..(Len(prog) + 1)]
  <2>1. ip[p] <= Len(prog)
    BY QueueKnownEffect
  <2> QED
    BY <1>1, <1>2, <2>1, NextCallType
<1>5. cnt_base' \in [Proc -> 0..(nbx_cycle - 1)]
  BY <1>1, <1>2 DEF TypeOK
<1>6. qcnt' \in [Proc -> -1..Len(prog)]
  BY <1>1, <1>2, <1>3 DEF TypeOK
<1>7. NBX_active' \in [Proc -> [Slots -> Kinds]]
  BY <1>1, <1>2 DEF TypeOK, Kinds
<1>8. slotCall' \in [Proc -> [Slots -> 0..Len(prog)]]
  <2>1. slotCall \in [Proc -> [Slots -> 0..Len(prog)]]
    BY <1>1 DEF TypeOK
  <2>2. ip[p] \in 0..Len(prog)
    BY <1>2, <1>3
  <2> QED
    BY <1>2, <2>1, <2>2
<1>9. /\ \A m \in flight' : m.dst \in Proc /\ m.src \in Proc
      /\ \A w \in posted' : w.dst \in Proc /\ w.src \in Proc
  BY <1>1, <1>2 DEF TypeOK, Posts
<1> QED
  BY <1>1, <1>2, <1>4, <1>5, <1>6, <1>7, <1>8, <1>9 DEF TypeOK

LEMMA QueueKnownStep ==
    ASSUME IInv, Disciplined, NEW p \in Proc, QueueKnown(p)
    PROVE  IInv'
<1>0. PICK slot : slot = qcnt[p] + 1
  OBVIOUS
<1> DEFINE op == Call(p).op
<1>1. /\ pc[p] = "app" /\ ip[p] <= Len(prog)
      /\ op \in {"known", "known_prc"} /\ prog[ip[p]].op = op
      /\ slot \in Slots /\ slot \in Nat
      /\ ~Waiting(p) /\ ~InSync(p) /\ ~InKnown(p)
      /\ Behind(p) = ip[p]
  BY <1>0, QueueKnownEffect, SlotsAreNat DEF Waiting, InSync, InKnown, Behind, Call
<1>2. TypeOK'
  BY QueueKnownTypes
<1>3. /\ prog' = prog /\ reducing' = reducing
      /\ pc'[p] = "app" /\ ip'[p] = ip[p] + 1 /\ qcnt'[p] = slot /\ finished'[p] = finished[p]
      /\ colls'[p] = colls[p] /\ bar_req'[p] = bar_req[p]
      /\ Posts(p, req[p])
  BY <1>0, <1>1, QueueKnownEffect, Domains
<1>4. \A i \in Slots : /\ NBX_active'[p][i] = IF i = slot THEN op ELSE NBX_active[p][i]
                       /\ reached'[p][i] <=> reached[p][i]
                       /\ slotCall'[p][i] = IF i = slot THEN ip[p] ELSE slotCall[p][i]
  <2>1. /\ NBX_active' = [NBX_active EXCEPT ![p][slot] = op]
        /\ slotCall' = [slotCall EXCEPT ![p][slot] = ip[p]]
        /\ reached' = reached
    BY <1>0, QueueKnownEffect
  <2>2. /\ DOMAIN NBX_active = Proc /\ DOMAIN slotCall = Proc
        /\ DOMAIN NBX_active[p] = Slots /\ DOMAIN slotCall[p] = Slots
    BY Domains
  <2> HIDE DEF op
  <2>3. \A i \in Slots : NBX_active'[p][i] = IF i = slot THEN op ELSE NBX_active[p][i]
    BY <1>1, <2>1, <2>2
  <2>4. \A i \in Slots : slotCall'[p][i] = IF i = slot THEN ip[p] ELSE slotCall[p][i]
    BY <1>1, <2>1, <2>2
  <2> QED
    BY <2>1, <2>3, <2>4
<1>5. StepOf(p)
  <2>1. ASSUME NEW q \in Proc \ {p}
        PROVE  SameRank(q)
    <3>1. req'[q] = req[q]
      BY <1>3 DEF Posts
    <3> QED
      BY <1>0, <3>1, QueueKnownEffect, Domains DEF SameRank
  <2>2. Len(colls'[p]) >= Len(colls[p])
    BY <1>3, RankTypes DEF IInv
  <2> QED
    BY <1>3, <2>1, <2>2 DEF StepOf, Posts
<1>6. op \in Queues /\ op # "wait" /\ op \in KindOf(op) /\ op # "unknown" /\ op # "unactive"
  BY <1>1, KindsOf DEF Queues
<1>7. ~Entered(p)
  BY <1>1, <1>6, NoneEntered
<1> HIDE DEF op
<1>8. /\ ip[p] \in Nat \ {0} /\ Len(prog) \in Nat /\ qcnt[p] \in Int /\ slot = qcnt[p] + 1
      /\ qcnt[p] >= -1 /\ qcnt[p] < ip[p]
      /\ \A i \in Slots : i \in Nat /\ slotCall[p][i] \in Nat
  BY <1>0, RankTypes, QueuedBefore DEF IInv
<1>9. ~Waiting(p)' /\ ~InSync(p)' /\ ~InKnown(p)' /\ Behind(p)' = ip[p] + 1
  BY <1>3 DEF Waiting, InSync, InKnown, Behind
<1>10. \A i \in Slots : SlotHolds(p, i) /\ (i # slot /\ NBX_active[p][i] # "unactive" => i < slot /\ Live(p, i))
  BY <1>0, <1>1, FreshSlot DEF IInv, RankInv, Control
<1>11. /\ \A i \in Slots : i # slot => (Live(p, i)' <=> Live(p, i))
       /\ Live(p, slot)'
  BY <1>1, <1>3, <1>4, <1>6, <1>8, <1>10 DEF Live
<1>12. ~Entered(p)'
  BY <1>4, <1>6, <1>7, <1>11 DEF Entered
<1>13. AtCall(p)'
  <2>1. Pending(prog, ip[p] + 1, Queues)
    BY <1>1, <1>6, <1>8, PendingNext
  <2> QED
    BY <1>3, <1>8, <1>9, <2>1 DEF AtCall
<1>14. ASSUME NEW i \in Slots
       PROVE  SlotHolds(p, i)'
  <2>1. CASE i = slot
    <3>1. SameBatch(prog, ip[p], ip[p] + 1)
      BY <1>8 DEF SameBatch
    <3>2. ~(i > qcnt'[p])
      BY <1>3, <1>8, <2>1
    <3>3. slotCall'[p][i] = ip[p] /\ NBX_active'[p][i] \in KindOf(prog[ip[p]].op)
      BY <1>1, <1>4, <1>6, <2>1
    <3> QED
      BY <1>3, <1>8, <1>9, <3>1, <3>2, <3>3 DEF SlotHolds
  <2>2. CASE i # slot
    <3>1. slotCall'[p][i] = slotCall[p][i] /\ NBX_active'[p][i] = NBX_active[p][i]
      BY <1>4, <2>2
    <3>2. slotCall[p][i] < ip[p] + 1
      BY <1>1, <1>8, <1>10 DEF SlotHolds
    <3>3. NBX_active[p][i] # "unactive" => ~(i > qcnt'[p]) /\ slotCall[p][i] # 0
      BY <1>3, <1>8, <1>10, <2>2 DEF SlotHolds
    <3>4. Live(p, i) => SameBatch(prog, slotCall[p][i], ip[p] + 1)
      BY <1>1, <1>6, <1>8, <1>10, SameBatchNext DEF SlotHolds
    <3>5. Live(p, i) => NBX_active[p][i] \in KindOf(prog[slotCall[p][i]].op)
      BY <1>1, <1>10 DEF SlotHolds
    <3> QED
      BY <1>3, <1>9, <1>11, <2>2, <3>1, <3>2, <3>3, <3>4, <3>5 DEF SlotHolds
  <2> QED
    BY <2>1, <2>2
<1>15. SlotOrder(p)'
  <2>1. \A i \in Slots : Live(p, i) => i = slot \/ (i < slot /\ slotCall[p][i] < ip[p])
    BY <1>1, <1>10 DEF SlotHolds, Live
  <2>2. SlotOrder(p)
    BY DEF IInv, RankInv, Control
  <2> QED
    BY <1>1, <1>4, <1>8, <1>11, <2>1, <2>2 DEF SlotOrder
<1>16. BarrierOrder(p)'
  <2>1. BarrierOrder(p)
    BY DEF IInv, RankInv, Control
  <2> QED
    BY <1>4, <1>6, <1>12, <2>1 DEF BarrierOrder, Entered
<1>17. Unreached(p)' = Unreached(p)
  <2>1. slot \notin Unreached(p)
    BY <1>0, <1>1, FreshSlot
  <2> QED
    BY <1>4, <1>6, <2>1 DEF Unreached
<1>18. Counted(p)'
  <2>1. ~Collective(prog, ip[p])
    BY <1>1 DEF Collective
  <2> QED
    BY <1>1, <1>3, <1>9, <1>17, <2>1, CountedStays
<1>19. UnderWay(p)'
  <2>1. \A i \in Unreached(p) : i \in Unreached(p)' /\ slotCall'[p][i] = slotCall[p][i]
    BY <1>0, <1>1, <1>4, <1>17, FreshSlot DEF Unreached
  <2>2. op \notin Executes
    BY <1>1 DEF Executes
  <2>3. NBX_active'[p][slot] # "unknown"
    BY <1>1, <1>4, <1>6
  <2> QED
    BY <1>1, <1>3, <1>9, <1>11, <1>12, <2>1, <2>2, <2>3, PostsUnderWay DEF op
<1>20. RankInv(p)'
  BY <1>12, <1>13, <1>14, <1>15, <1>16, <1>18, <1>19 DEF RankInv, Control, BarrierSeen
<1>21. KeepsBarriers(p)
  BY <1>1, <1>4, <1>6, <1>8, <1>9 DEF KeepsBarriers
<1> QED
  BY <1>2, <1>3, <1>5, <1>20, <1>21, StepOfRank

----------------------------------------------------------------------------
(* Going on to the next call, with the slots as they are.                  *)
LEMMA UnderWayStays ==
    ASSUME IInv, NEW p \in Proc, prog' = prog, req'[p] = req[p],
           flight' \subseteq flight, posted' \subseteq posted, reducing' \subseteq reducing,
           \A i \in Unreached(p) : i \in Unreached(p)' /\ slotCall'[p][i] = slotCall[p][i],
           \/ InKnown(p)'
           \/ /\ ~InKnown(p)
              /\ \A i \in Slots : Live(p, i) /\ NBX_active[p][i] # "unknown"
                                    => Live(p, i)' /\ NBX_active'[p][i] # "unknown",
           Entered(p)' => Entered(p),
           ~Waiting(p)' \/ \A x \in reducing : x.by # p,
           \/ ip'[p] = ip[p]
           \/ ip'[p] = ip[p] + 1 /\ prog[ip[p]].op \notin Executes
    PROVE  UnderWay(p)'
<1>1. UnderWay(p) /\ ip[p] \in Nat
  BY RankTypes DEF IInv, RankInv
<1>2. SendsHeld(p)'
  <2> SUFFICES ASSUME NEW m \in flight', m.cls = "sparse", m.src = p
               PROVE  /\ [op |-> "issend", of |-> m] \in req'[p]
                      /\ \E i \in Unreached(p)' : slotCall'[p][i] = m.call
    BY DEF SendsHeld
  <2>1. [op |-> "issend", of |-> m] \in req[p] /\ \E i \in Unreached(p) : slotCall[p][i] = m.call
    BY <1>1 DEF UnderWay, SendsHeld
  <2> QED
    BY <2>1
<1>3. ReceivesHeld(p)'
  <2> SUFFICES ASSUME NEW w \in posted', w.dst = p
               PROVE  /\ [op |-> "irecv", of |-> w] \in req'[p]
                      /\ InKnown(p)' \/ \E i \in Slots : Live(p, i)' /\ NBX_active'[p][i] # "unknown"
    BY DEF ReceivesHeld
  <2>1. /\ [op |-> "irecv", of |-> w] \in req[p]
        /\ InKnown(p) \/ \E i \in Slots : Live(p, i) /\ NBX_active[p][i] # "unknown"
    BY <1>1 DEF UnderWay, ReceivesHeld
  <2> QED
    BY <2>1
<1>4. ReductionsHeld(p)'
  <2> SUFFICES ASSUME NEW x \in reducing', x.by = p
               PROVE  /\ [op |-> "reduce", of |-> x] \in req[p]
                      /\ x.call \in 1..(ip'[p] - 1) /\ prog[x.call].op = "reduce"
                      /\ \A e \in (x.call + 1)..(ip'[p] - 1) : prog[e].op \notin Executes
    BY DEF ReductionsHeld
  <2>1. /\ [op |-> "reduce", of |-> x] \in req[p]
        /\ x.call \in 1..(ip[p] - 1) /\ prog[x.call].op = "reduce"
        /\ \A e \in (x.call + 1)..(ip[p] - 1) : prog[e].op \notin Executes
    BY <1>1 DEF UnderWay, ReductionsHeld
  <2> QED
    BY <1>1, <2>1
<1>5. QuietBehind(p)'
  BY <1>1 DEF UnderWay, QuietBehind, Quiet
<1> QED
  BY <1>2, <1>3, <1>4, <1>5 DEF UnderWay

LEMMA ControlMovesOn ==
    ASSUME IInv, NEW p \in Proc, ~Waiting(p), ip[p] <= Len(prog), prog[ip[p]].op # "wait",
           prog' = prog, ip'[p] = ip[p] + 1, pc'[p] = "app",
           qcnt'[p] \in Int, qcnt'[p] < ip[p] + 1, qcnt[p] = -1 => qcnt'[p] = -1,
           qcnt'[p] = -1 <=> ~Pending(prog, ip[p] + 1, Queues),
           NBX_active'[p] = NBX_active[p], slotCall'[p] = slotCall[p],
           \A i \in Slots : NBX_active[p][i] # "unactive" => (i <= qcnt'[p] <=> i <= qcnt[p]),
           \A i \in Slots : reached[p][i] => reached'[p][i],
           finished[p] \subseteq finished'[p]
    PROVE  /\ AtCall(p)' /\ SlotOrder(p)'
           /\ \A i \in Slots : SlotHolds(p, i)'
           /\ ~Waiting(p)' /\ ~InSync(p)' /\ ~InKnown(p)'
           /\ Behind(p) = ip[p] /\ Behind(p)' = ip[p] + 1
           /\ \A i \in Slots : Live(p, i)' <=> Live(p, i)
<1>1. /\ ~Waiting(p)' /\ ~InSync(p)' /\ ~InKnown(p)' /\ ~InSync(p)
      /\ Behind(p) = ip[p] /\ Behind(p)' = ip[p] + 1
  BY DEF Waiting, InSync, InKnown, Behind
<1>2. \A i \in Slots : Live(p, i)' <=> Live(p, i)
  BY DEF Live
<1>3. AtCall(p)'
  BY <1>1 DEF AtCall
<1>4. SlotOrder(p)'
  <2>1. SlotOrder(p)
    BY DEF IInv, RankInv, Control
  <2> QED
    BY <1>2, <2>1 DEF SlotOrder
<1>5. ASSUME NEW i \in Slots
      PROVE  SlotHolds(p, i)'
  <2>1. SlotHolds(p, i)
    BY DEF IInv, RankInv, Control
  <2>2. ip[p] \in Nat /\ slotCall[p][i] \in Nat /\ qcnt[p] \in Int /\ i \in Nat
    BY RankTypes DEF IInv
  <2>3. slotCall[p][i] < ip[p] + 1
    BY <1>1, <2>1, <2>2 DEF SlotHolds
  <2>4. Live(p, i) => /\ SameBatch(prog, slotCall[p][i], ip[p] + 1)
                      /\ NBX_active[p][i] \in KindOf(prog[slotCall[p][i]].op)
    BY <1>1, <2>1, <2>2, SameBatchNext DEF SlotHolds
  <2>5. NBX_active[p][i] # "unactive" => slotCall[p][i] # 0
    BY <2>1 DEF SlotHolds
  <2>6. i > qcnt'[p] /\ NBX_active[p][i] # "unactive" =>
          /\ i = 0 /\ qcnt'[p] = -1
          /\ NBX_active[p][i] = "unknown" /\ reached'[p][i]
          /\ slotCall[p][i] \in finished'[p] /\ prog[slotCall[p][i]].op = "sync"
    BY <2>1, <2>2 DEF SlotHolds
  <2> QED
    BY <1>1, <1>2, <2>3, <2>4, <2>5, <2>6 DEF SlotHolds
<1> QED
  BY <1>1, <1>2, <1>3, <1>4, <1>5

LEMMA OrderMovesOn ==
    ASSUME IInv, NEW p \in Proc, ~Waiting(p), prog' = prog, ip'[p] = ip[p] + 1,
           NBX_active'[p] = NBX_active[p], slotCall'[p] = slotCall[p], reached'[p] = reached[p],
           \A i \in Slots : Live(p, i)' <=> Live(p, i)
    PROVE  BarrierOrder(p)' /\ Unreached(p)' = Unreached(p) /\ (Entered(p)' => Entered(p))
<1>1. BarrierOrder(p) /\ ip[p] \in Nat
  BY RankTypes DEF IInv, RankInv, Control
<1>2. ASSUME NEW i \in Slots, Live(p, i), NBX_active[p][i] = "unknown", reached[p][i]
      PROVE  \E g \in (slotCall[p][i] + 1)..(ip'[p] - 1) : prog[g].op = "progress"
  <2>1. PICK g \in (slotCall[p][i] + 1)..(ip[p] - 1) : prog[g].op = "progress"
    BY <1>1, <1>2 DEF BarrierOrder
  <2>2. slotCall[p][i] \in Nat
    BY RankTypes DEF IInv
  <2> QED
    BY <1>1, <2>1, <2>2
<1>3. BarrierOrder(p)'
  BY <1>1, <1>2 DEF BarrierOrder
<1>4. Unreached(p)' = Unreached(p)
  BY DEF Unreached
<1>5. Entered(p)' => Entered(p)
  BY DEF Entered
<1> QED
  BY <1>3, <1>4, <1>5

LEMMA RefusedStep ==
    ASSUME IInv, NEW p \in Proc, Refused(p)
    PROVE  IInv'
<1>1. TypeOK /\ prog \in Programs
  BY DEF IInv
<1>2. /\ pc[p] = "app" /\ ip[p] <= Len(prog)
      /\ \/ prog[ip[p]].op \in {"known", "known_prc"} /\ qcnt[p] + 1 >= NQUEUE
         \/ prog[ip[p]].op = "sync" /\ qcnt[p] + 1 # 0
      /\ qcnt' = [qcnt EXCEPT ![p] = qcnt[p] + 1]
      /\ ip' = [ip EXCEPT ![p] = ip[p] + 1]
      /\ UNCHANGED <<prog, pc, at, NBX_cnt, cnt_base, NBX_active, reached, rid, bar_req, req, slotCall,
                     finished, flight, posted, colls, reducing>>
  BY DEF Refused, Running, Call, NextCall
<1>3. ip'[p] = ip[p] + 1 /\ pc'[p] = "app" /\ qcnt'[p] = qcnt[p] + 1
  BY <1>2, Domains
<1>4. /\ ip[p] \in Nat \ {0} /\ Len(prog) \in Nat /\ qcnt[p] \in Int /\ qcnt[p] >= -1
      /\ qcnt[p] < ip[p] /\ \A i \in Slots : i \in Nat
  BY <1>1, RankTypes, QueuedBefore
<1>5. qcnt[p] # -1
  BY <1>2, <1>4, QueueAssumption
<1>6. ~Waiting(p) /\ ~InSync(p) /\ ~InKnown(p)
  BY <1>2 DEF Waiting, InSync, InKnown
<1>7. TypeOK'
  <2>1. ip' \in [Proc -> 1..(Len(prog) + 1)]
    BY <1>1, <1>2, NextCallType
  <2>2. qcnt' \in [Proc -> -1..Len(prog)]
    <3>1. qcnt \in [Proc -> -1..Len(prog)]
      BY <1>1 DEF TypeOK
    <3>2. qcnt[p] + 1 \in -1..Len(prog)
      BY <1>2, <1>4
    <3> QED
      BY <1>2, <3>1, <3>2
  <2> QED
    BY <1>1, <1>2, <2>1, <2>2 DEF TypeOK
<1>8. StepOf(p)
  <2>1. \A q \in Proc \ {p} : SameRank(q)
    BY <1>2, Domains DEF SameRank
  <2>2. Len(colls'[p]) >= Len(colls[p])
    BY <1>1, <1>2, RankTypes
  <2> QED
    BY <1>2, <2>1, <2>2 DEF StepOf
<1>9. Pending(prog, ip[p] + 1, Queues)
  <2>1. CASE prog[ip[p]].op = "sync"
    BY <1>4, <1>5, <1>6, <2>1, QueuedOrNot, PendingNext
  <2>2. CASE prog[ip[p]].op \in {"known", "known_prc"}
    BY <1>4, <2>2, PendingNext DEF Queues
  <2> QED
    BY <1>2, <2>1, <2>2
<1>10. \A i \in Slots : NBX_active[p][i] # "unactive" => i <= qcnt[p]
  <2>1. \A i \in Slots : SlotHolds(p, i)
    BY DEF IInv, RankInv, Control
  <2> QED
    BY <1>4, <1>5, <2>1 DEF SlotHolds
<1>11. \A i \in Slots : NBX_active[p][i] # "unactive" => (i <= qcnt'[p] <=> i <= qcnt[p])
  BY <1>3, <1>4, <1>10
<1>12. /\ AtCall(p)' /\ SlotOrder(p)'
       /\ \A i \in Slots : SlotHolds(p, i)'
       /\ ~Waiting(p)' /\ ~InSync(p)' /\ ~InKnown(p)'
       /\ Behind(p) = ip[p] /\ Behind(p)' = ip[p] + 1
       /\ \A i \in Slots : Live(p, i)' <=> Live(p, i)
  <2>1. prog[ip[p]].op # "wait"
    BY <1>2
  <2>2. qcnt'[p] \in Int /\ qcnt'[p] < ip[p] + 1 /\ qcnt'[p] # -1
    BY <1>3, <1>4
  <2> QED
    BY <1>2, <1>3, <1>5, <1>6, <1>9, <1>11, <2>1, <2>2, ControlMovesOn
<1>13. BarrierOrder(p)' /\ Unreached(p)' = Unreached(p) /\ (Entered(p)' => Entered(p))
  BY <1>2, <1>3, <1>6, <1>12, OrderMovesOn
<1>14. Counted(p)'
  <2>1. ~Collective(prog, ip[p])
    <3>1. prog[ip[p]].op = "sync" => Pending(prog, ip[p], Queues)
      BY <1>5, <1>6, QueuedOrNot
    <3> QED
      BY <1>2, <3>1 DEF Collective
  <2> QED
    BY <1>2, <1>12, <1>13, <2>1, CountedStays
<1>15. UnderWay(p)'
  <2>1. prog[ip[p]].op \notin Executes
    BY <1>2 DEF Executes
  <2>2. \A i \in Unreached(p) : i \in Unreached(p)' /\ slotCall'[p][i] = slotCall[p][i]
    BY <1>2, <1>13
  <2>3. \A i \in Slots : Live(p, i) /\ NBX_active[p][i] # "unknown"
                           => Live(p, i)' /\ NBX_active'[p][i] # "unknown"
    BY <1>2, <1>12
  <2> QED
    BY <1>2, <1>3, <1>6, <1>12, <1>13, <2>1, <2>2, <2>3, UnderWayStays
<1>16. BarrierSeen(p)'
  BY <1>2, <1>6, <1>13 DEF IInv, RankInv, BarrierSeen
<1>17. KeepsBarriers(p)
  BY <1>2, <1>4, <1>12 DEF KeepsBarriers
<1>18. RankInv(p)'
  BY <1>12, <1>13, <1>14, <1>15, <1>16 DEF RankInv, Control
<1> QED
  BY <1>2, <1>7, <1>8, <1>17, <1>18, StepOfRank

----------------------------------------------------------------------------
(* progressCommunication.                                                  *)
LEMMA Barriers ==
    ASSUME NEW n \in Nat
    PROVE  LET s == [i \in 1..n |-> "barrier"] IN
           s \in Seq({"barrier", "reduce"}) /\ Len(s) = n /\ \A i \in 1..n : s[i] = "barrier"
<1> DEFINE s == [i \in 1..n |-> "barrier"]
<1>1. s \in Seq({"barrier", "reduce"})
  <2>1. s \in [1..n -> {"barrier", "reduce"}]
    OBVIOUS
  <2> QED
    BY <2>1, SeqDef
<1>2. Len(s) \in Nat /\ DOMAIN s = 1..Len(s)
  BY <1>1, LenProperties, Zenon
<1>3. DOMAIN s = 1..n
  OBVIOUS
<1>4. Len(s) = n
  BY <1>2, <1>3
<1> QED
  BY <1>1, <1>4

\* Rank p enters the barriers of the slots now.
Enters(p, now) ==
    /\ now \in SUBSET Unreached(p)
    /\ \A i \in now : \A j \in Unreached(p) : i < j => j \in now
    /\ DOMAIN reached' = Proc /\ DOMAIN reached'[p] = Slots
    /\ \A i \in Slots : reached'[p][i] \in BOOLEAN /\ (reached'[p][i] <=> i \in now \/ reached[p][i])
    /\ \A q \in Proc \ {p} : /\ reached'[q] = reached[q] /\ colls'[q] = colls[q]
                             /\ bar_req'[q] = bar_req[q]
    /\ Len(colls'[p]) = Len(colls[p]) + Cardinality(now)
    /\ \A n \in 1..Len(colls'[p]) :
          colls'[p][n] = IF n <= Len(colls[p]) THEN colls[p][n] ELSE "barrier"
    /\ now = {} => bar_req'[p] = bar_req[p] /\ colls'[p] = colls[p]
    /\ now # {} => bar_req'[p] = Len(colls'[p]) /\ Quiet(p)'
    /\ reached' \in [Proc -> [Slots -> BOOLEAN]]
    /\ bar_req' \in [Proc -> Nat]
    /\ colls' \in [Proc -> Seq({"barrier", "reduce"})]

LEMMA EntersNone ==
    ASSUME IInv, NEW p \in Proc, UNCHANGED <<reached, colls, bar_req>>
    PROVE  Enters(p, {})
<1>1. TypeOK /\ Len(colls[p]) \in Nat
  BY RankTypes DEF IInv
<1>2. /\ reached \in [Proc -> [Slots -> BOOLEAN]]
      /\ bar_req \in [Proc -> Nat]
      /\ colls \in [Proc -> Seq({"barrier", "reduce"})]
  BY <1>1 DEF TypeOK
<1> QED
  BY <1>1, <1>2, FS_EmptySet DEF Enters

LEMMA EnterBarriersEffect ==
    ASSUME IInv, NEW p \in Proc, EnterBarriers(p), flight' \subseteq flight, posted' = posted,
           reducing' = reducing
    PROVE  \E now : Enters(p, now)
<1>1. PICK late \in 0..NQUEUE :
        LET now == {i \in Slots : i >= late /\ Polling(p, i) /\ ~reached[p][i]} IN
        /\ now # {} => AllComplete(p, flight', posted')
        /\ reached' = [reached EXCEPT ![p] = [i \in Slots |-> i \in now \/ reached[p][i]]]
        /\ colls' = [colls EXCEPT ![p] = colls[p] \o [i \in 1..Cardinality(now) |-> "barrier"]]
        /\ bar_req' = [bar_req EXCEPT ![p] = IF now = {} THEN bar_req[p] ELSE Len(colls'[p])]
  BY DEF EnterBarriers
<1>2. PICK now : now = {i \in Slots : i >= late /\ Polling(p, i) /\ ~reached[p][i]}
  OBVIOUS
<1>3. /\ now # {} => AllComplete(p, flight', posted')
      /\ reached' = [reached EXCEPT ![p] = [i \in Slots |-> i \in now \/ reached[p][i]]]
      /\ colls' = [colls EXCEPT ![p] = colls[p] \o [i \in 1..Cardinality(now) |-> "barrier"]]
      /\ bar_req' = [bar_req EXCEPT ![p] = IF now = {} THEN bar_req[p] ELSE Len(colls'[p])]
  BY <1>1, <1>2
<1>4. now \in SUBSET Unreached(p) /\ \A i \in now : \A j \in Unreached(p) : i < j => j \in now
  <2>1. late \in Nat /\ \A i \in Slots : i \in Nat
    BY SlotsAreNat
  <2> QED
    BY <1>2, <2>1 DEF Unreached, Polling
<1>5. TypeOK /\ Len(colls[p]) \in Nat /\ colls[p] \in Seq({"barrier", "reduce"}) /\ UnderWay(p)
  BY RankTypes DEF IInv, RankInv
<1>6. /\ reached \in [Proc -> [Slots -> BOOLEAN]]
      /\ bar_req \in [Proc -> Nat]
      /\ colls \in [Proc -> Seq({"barrier", "reduce"})]
  BY <1>5 DEF TypeOK
<1>7. Cardinality(now) \in Nat
  <2>1. IsFiniteSet(now)
    BY <1>4, UnreachedLive, FS_Subset
  <2> QED
    BY <2>1, FS_CardinalityType
<1>8. PICK bars : bars = [i \in 1..Cardinality(now) |-> "barrier"]
  OBVIOUS
<1>9. /\ bars \in Seq({"barrier", "reduce"}) /\ Len(bars) = Cardinality(now)
      /\ \A i \in 1..Cardinality(now) : bars[i] = "barrier"
  BY <1>7, <1>8, Barriers
<1>10. colls' = [colls EXCEPT ![p] = colls[p] \o bars] /\ colls'[p] = colls[p] \o bars
  BY <1>3, <1>6, <1>8
<1>11. /\ colls'[p] \in Seq({"barrier", "reduce"})
       /\ Len(colls'[p]) = Len(colls[p]) + Cardinality(now)
       /\ \A n \in 1..(Len(colls[p]) + Cardinality(now)) :
            colls'[p][n] = IF n <= Len(colls[p]) THEN colls[p][n] ELSE bars[n - Len(colls[p])]
  <2> DEFINE S == {"barrier", "reduce"}
  <2>1. colls[p] \in Seq(S) /\ bars \in Seq(S)
    BY <1>5, <1>9
  <2> HIDE DEF S
  <2>2. /\ colls[p] \o bars \in Seq(S)
        /\ Len(colls[p] \o bars) = Len(colls[p]) + Len(bars)
        /\ \A n \in 1..(Len(colls[p]) + Len(bars)) :
             (colls[p] \o bars)[n] = IF n <= Len(colls[p]) THEN colls[p][n] ELSE bars[n - Len(colls[p])]
    BY <2>1, ConcatProperties, Zenon
  <2> QED
    BY <1>9, <1>10, <2>2, Zenon DEF S
<1>12. \A n \in 1..Len(colls'[p]) :
          colls'[p][n] = IF n <= Len(colls[p]) THEN colls[p][n] ELSE "barrier"
  <2> SUFFICES ASSUME NEW n \in 1..Len(colls'[p])
               PROVE  colls'[p][n] = IF n <= Len(colls[p]) THEN colls[p][n] ELSE "barrier"
    OBVIOUS
  <2>1. n \in 1..(Len(colls[p]) + Cardinality(now))
    BY <1>11
  <2>2. n > Len(colls[p]) => n - Len(colls[p]) \in 1..Cardinality(now)
    BY <1>5, <1>7, <2>1
  <2> QED
    BY <1>5, <1>9, <1>11, <2>1, <2>2
<1>13. colls' \in [Proc -> Seq({"barrier", "reduce"})] /\ \A q \in Proc \ {p} : colls'[q] = colls[q]
  BY <1>6, <1>10, <1>11
<1>14. now = {} => colls'[p] = colls[p]
  <2>1. now = {} => Len(bars) = 0
    BY <1>9, FS_EmptySet
  <2>2. now = {} => bars = <<>>
    BY <1>9, <2>1, EmptySeq
  <2> QED
    BY <1>5, <1>10, <2>2, ConcatEmptySeq
<1>15. /\ \A i \in Slots : reached'[p][i] \in BOOLEAN /\ (reached'[p][i] <=> i \in now \/ reached[p][i])
       /\ \A q \in Proc \ {p} : reached'[q] = reached[q]
       /\ reached' \in [Proc -> [Slots -> BOOLEAN]]
  BY <1>3, <1>6
<1>16. /\ bar_req' \in [Proc -> Nat]
       /\ \A q \in Proc \ {p} : bar_req'[q] = bar_req[q]
       /\ bar_req'[p] = IF now = {} THEN bar_req[p] ELSE Len(colls'[p])
  <2>1. Len(colls'[p]) \in Nat
    BY <1>5, <1>7, <1>11
  <2> QED
    BY <1>3, <1>6, <2>1
<1>17. now # {} => Quiet(p)'
  <2> SUFFICES ASSUME AllComplete(p, flight', posted')
               PROVE  Quiet(p)'
    BY <1>3
  <2>1. flight' \in SUBSET flight /\ posted' \in SUBSET posted
    OBVIOUS
  <2>2. /\ \A m \in flight' : m.cls = "sparse" => m.src # p
        /\ \A w \in posted' : w.dst # p
        /\ \A x \in reducing : x.by # p
    BY <1>5, <2>1, AllDone
  <2> QED
    BY <2>2 DEF Quiet
<1>18. DOMAIN reached' = Proc /\ DOMAIN reached'[p] = Slots
  BY <1>15
<1> QED
  BY <1>4, <1>11, <1>12, <1>13, <1>14, <1>15, <1>16, <1>17, <1>18 DEF Enters

Progressed(p, now) ==
    /\ Enters(p, now)
    /\ flight' \subseteq flight
    /\ UNCHANGED <<prog, at, NBX_cnt, cnt_base, qcnt, NBX_active, req, slotCall, finished, posted,
                   reducing>>
    /\ rid' \in [Proc -> [Slots -> Nat]]

LEMMA ProgressEffect ==
    ASSUME IInv, NEW p \in Proc, progressCommunication(p)
    PROVE  \E now : Progressed(p, now)
<1>1. UNCHANGED <<prog, at, NBX_cnt, cnt_base, qcnt, NBX_active, req, slotCall, finished, reducing>>
  BY DEF progressCommunication
<1>2. rid \in [Proc -> [Slots -> Nat]]
  BY DEF IInv, TypeOK
<1>3. ASSUME NEW m \in flight, ProgressReceive(p, m)
      PROVE  \E now : Progressed(p, now)
  <2>1. /\ flight' \subseteq flight /\ posted' = posted /\ EnterBarriers(p)
        /\ SlotOf(p, m) \in Slots
        /\ rid' = [rid EXCEPT ![p][SlotOf(p, m)] = @ + 1]
    BY <1>3 DEF ProgressReceive, Polling
  <2>2. PICK now : Enters(p, now)
    BY <1>1, <2>1, EnterBarriersEffect
  <2>3. rid' \in [Proc -> [Slots -> Nat]]
    BY <1>2, <2>1
  <2> QED
    BY <1>1, <2>1, <2>2, <2>3 DEF Progressed
<1>4. ASSUME NEW m \in flight, ProgressForeign(p, m)
      PROVE  \E now : Progressed(p, now)
  <2>1. UNCHANGED <<flight, posted, rid, reached, colls, bar_req>>
    BY <1>4 DEF ProgressForeign
  <2>2. Enters(p, {})
    BY <2>1, EntersNone
  <2> QED
    BY <1>1, <1>2, <2>1, <2>2 DEF Progressed
<1>5. ASSUME ProgressNothing(p)
      PROVE  \E now : Progressed(p, now)
  <2>1. UNCHANGED <<flight, posted, rid>> /\ EnterBarriers(p)
    BY <1>5 DEF ProgressNothing
  <2>2. PICK now : Enters(p, now)
    BY <1>1, <2>1, EnterBarriersEffect
  <2> QED
    BY <1>1, <1>2, <2>1, <2>2 DEF Progressed
<1> QED
  BY <1>3, <1>4, <1>5 DEF progressCommunication

\* Entering barriers, in Wait or in a call of progressCommunication.
LEMMA ProgressRank ==
    ASSUME IInv, NEW p \in Proc, NEW now, Progressed(p, now), ~InKnown(p),
           \/ ip'[p] = ip[p] /\ Waiting(p) /\ Waiting(p)'
           \/ ip'[p] = ip[p] + 1 /\ ~Waiting(p) /\ ~Waiting(p)' /\ prog[ip[p]].op = "progress",
           \A x \in reducing : x.by = p => ~Waiting(p)'
    PROVE  Counted(p)' /\ UnderWay(p)' /\ BarrierSeen(p)'
<1>1. /\ prog' = prog /\ flight' \subseteq flight /\ posted' = posted /\ reducing' = reducing
      /\ req'[p] = req[p] /\ qcnt'[p] = qcnt[p] /\ NBX_active'[p] = NBX_active[p]
      /\ slotCall'[p] = slotCall[p]
      /\ \A i \in Slots : reached'[p][i] <=> i \in now \/ reached[p][i]
      /\ now \in SUBSET Unreached(p)
      /\ Len(colls'[p]) = Len(colls[p]) + Cardinality(now)
      /\ \A n \in 1..Len(colls'[p]) :
            colls'[p][n] = IF n <= Len(colls[p]) THEN colls[p][n] ELSE "barrier"
      /\ colls' \in [Proc -> Seq({"barrier", "reduce"})]
      /\ \A q \in Proc \ {p} : colls'[q] = colls[q]
  BY DEF Progressed, Enters
<1>2. /\ InSync(p)' <=> InSync(p)
      /\ \/ Behind(p)' = Behind(p)
         \/ Behind(p)' = Behind(p) + 1 /\ ~Waiting(p) /\ Behind(p) = ip[p]
  BY <1>1 DEF InSync, Behind, Call
<1>3. Behind(p) \in Nat \ {0} /\ Len(colls[p]) \in Nat /\ ip[p] \in Nat \ {0}
  BY RankTypes DEF IInv
<1>4. Count(prog, Behind(p)') = Count(prog, Behind(p)) /\ Count(prog, Behind(p)) \in Nat
  <2>1. ~Waiting(p) => ~Collective(prog, ip[p])
    BY DEF Collective
  <2> QED
    BY <1>2, <1>3, <2>1, CountNext, CountType
<1>5. Unreached(p)' = Unreached(p) \ now
  BY <1>1 DEF Unreached
<1>6. /\ IsFiniteSet(Unreached(p)) /\ Cardinality(Unreached(p)) \in Nat
      /\ Cardinality(now) \in Nat /\ Cardinality(now) <= Cardinality(Unreached(p))
      /\ Cardinality(Unreached(p)') = Cardinality(Unreached(p)) - Cardinality(now)
  <2>1. IsFiniteSet(Unreached(p)) /\ Cardinality(Unreached(p)) \in Nat
    BY UnreachedLive
  <2>2. IsFiniteSet(now) /\ Cardinality(now) <= Cardinality(Unreached(p))
    BY <1>1, <2>1, FS_Subset
  <2>3. Cardinality(now) \in Nat
    BY <2>2, FS_CardinalityType
  <2>4. Cardinality(Unreached(p) \ now) = Cardinality(Unreached(p)) - Cardinality(Unreached(p) \cap now)
    BY <2>1, FS_Difference
  <2>5. Unreached(p) \cap now = now
    BY <1>1
  <2> QED
    BY <1>5, <2>1, <2>2, <2>3, <2>4, <2>5
<1>7. Counted(p)'
  <2>1. Counted(p)
    BY DEF IInv, RankInv, Control
  <2>2. Len(colls'[p]) + Cardinality(Unreached(p)') = Count(prog', Behind(p)')
    BY <1>1, <1>3, <1>4, <1>6, <2>1 DEF Counted
  <2>3. Len(colls'[p]) <= Count(prog, Behind(p)) /\ Len(colls'[p]) \in Nat
    BY <1>1, <1>3, <1>6, <2>1 DEF Counted
  <2>4. ASSUME NEW c \in Nat \ {0}, c < Behind(p)', prog[c].op = "reduce"
        PROVE  Count(prog, c) < Len(colls[p])
    <3>1. c < Behind(p)
      BY <1>2, <1>3, <2>4
    <3> QED
      BY <1>3, <2>1, <2>4, <3>1 DEF Counted
  <2>5. \A c \in 1..(Behind(p)' - 1) : prog[c].op = "reduce" => Count(prog, c) < Len(colls'[p])
    <3> SUFFICES ASSUME NEW c \in 1..(Behind(p)' - 1), prog[c].op = "reduce"
                 PROVE  Count(prog, c) < Len(colls'[p])
      OBVIOUS
    <3>1. c \in Nat \ {0} /\ c < Behind(p)'
      BY <1>2, <1>3
    <3> QED
      BY <1>1, <1>3, <1>6, <2>4, <3>1, CountType
  <2>6. ASSUME NEW n \in 1..Len(colls'[p]), NEW c \in DOMAIN prog, Collective(prog, c),
               Count(prog, c) + 1 = n
        PROVE  colls'[p][n] = IF prog[c].op = "reduce" THEN "reduce" ELSE "barrier"
    <3>1. c \in Nat \ {0} /\ Count(prog, c) \in Nat
      BY ProgramType, CountType DEF IInv
    <3>2. CASE n <= Len(colls[p])
      <4>1. n \in DOMAIN colls[p]
        BY <1>3, <3>2, RankTypes, LenProperties DEF IInv
      <4> QED
        BY <1>1, <2>1, <2>6, <3>2, <4>1 DEF Counted
    <3>3. CASE ~(n <= Len(colls[p]))
      <4>1. c < Behind(p)
        BY <1>3, <1>4, <2>3, <2>6, <3>1, CountOrders
      <4>2. c < Behind(p)'
        BY <1>2, <1>3, <3>1, <4>1
      <4>3. prog[c].op # "reduce"
        BY <1>3, <2>4, <2>6, <3>1, <3>3, <4>2
      <4> QED
        BY <1>1, <3>3, <4>3
    <3> QED
      BY <3>2, <3>3
  <2>7. DOMAIN colls'[p] = 1..Len(colls'[p])
    BY <1>1, LenProperties
  <2> QED
    BY <1>1, <2>2, <2>5, <2>6, <2>7 DEF Counted
<1>8. UnderWay(p)'
  <2>1. CASE now = {}
    <3>1. \A i \in Unreached(p) : i \in Unreached(p)' /\ slotCall'[p][i] = slotCall[p][i]
      BY <1>1, <1>5, <2>1
    <3>2. \A i \in Slots : Live(p, i)' <=> Live(p, i)
      BY <1>1 DEF Live
    <3>3. Entered(p)' => Entered(p)
      BY <1>1, <2>1, <3>2 DEF Entered
    <3>4. \A i \in Slots : Live(p, i) /\ NBX_active[p][i] # "unknown"
                             => Live(p, i)' /\ NBX_active'[p][i] # "unknown"
      BY <1>1, <3>2
    <3>5. prog[ip[p]].op = "progress" => prog[ip[p]].op \notin Executes
      BY DEF Executes
    <3> QED
      BY <1>1, <3>1, <3>3, <3>4, <3>5, UnderWayStays
  <2>2. CASE now # {}
    BY <2>2, QuietUnderWay DEF Progressed, Enters
  <2> QED
    BY <2>1, <2>2
<1>9. BarrierSeen(p)'
  <2>1. CASE now = {}
    <3>1. Entered(p)' => Entered(p)
      BY <1>1, <2>1 DEF Entered, Live
    <3>2. bar_req'[p] = bar_req[p] /\ colls'[p] = colls[p]
      BY <2>1 DEF Progressed, Enters
    <3>3. BarrierSeen(p)
      BY DEF IInv, RankInv
    <3>4. colls' = colls
      BY <1>1, <3>2 DEF IInv, TypeOK
    <3> QED
      BY <1>1, <1>2, <1>4, <3>1, <3>2, <3>3, <3>4 DEF BarrierSeen
  <2>2. CASE now # {}
    BY <2>2 DEF Progressed, Enters, BarrierSeen
  <2> QED
    BY <2>1, <2>2
<1> QED
  BY <1>7, <1>8, <1>9

LEMMA ProgressStepOf ==
    ASSUME IInv, NEW p \in Proc, NEW now, Progressed(p, now),
           DOMAIN ip' = Proc, DOMAIN pc' = Proc,
           \A q \in Proc \ {p} : ip'[q] = ip[q] /\ pc'[q] = pc[q]
    PROVE  StepOf(p) /\ \A i \in Slots : reached[p][i] => reached'[p][i]
<1>1. \A q \in Proc \ {p} : SameRank(q)
  BY DEF Progressed, Enters, SameRank
<1>2. Len(colls'[p]) >= Len(colls[p])
  <2>1. IsFiniteSet(now)
    BY UnreachedLive, FS_Subset DEF Progressed, Enters
  <2>2. Cardinality(now) \in Nat
    BY <2>1, FS_CardinalityType
  <2> QED
    BY <2>2, RankTypes DEF Progressed, Enters, IInv
<1>3. /\ prog' = prog /\ DOMAIN req' = DOMAIN req /\ flight' \subseteq flight /\ posted' = posted
      /\ reducing' = reducing
  BY DEF Progressed
<1>4. \A i \in Slots : reached[p][i] => reached'[p][i]
  BY DEF Progressed, Enters
<1> QED
  BY <1>1, <1>2, <1>3, <1>4 DEF StepOf

LEMMA ProgressTypes ==
    ASSUME IInv, NEW p \in Proc, NEW now, Progressed(p, now),
           ip' \in [Proc -> 1..(Len(prog) + 1)],
           pc' \in [Proc -> {"app", "wait", "test", "sizes", "data"}]
    PROVE  TypeOK'
<1>1. TypeOK
  BY DEF IInv
<1>2. /\ UNCHANGED <<prog, at, NBX_cnt, cnt_base, qcnt, NBX_active, slotCall, finished, posted>>
      /\ flight' \subseteq flight
      /\ rid' \in [Proc -> [Slots -> Nat]]
      /\ reached' \in [Proc -> [Slots -> BOOLEAN]]
      /\ bar_req' \in [Proc -> Nat]
      /\ colls' \in [Proc -> Seq({"barrier", "reduce"})]
  BY DEF Progressed, Enters
<1> QED
  BY <1>1, <1>2 DEF TypeOK

LEMMA UserProgressStep ==
    ASSUME IInv, NEW p \in Proc, UserProgress(p)
    PROVE  IInv'
<1>1. /\ pc[p] = "app" /\ ip[p] <= Len(prog) /\ prog[ip[p]].op = "progress"
      /\ progressCommunication(p)
      /\ ip' = [ip EXCEPT ![p] = ip[p] + 1] /\ pc' = pc
  BY DEF UserProgress, Running, Call, NextCall
<1>2. PICK now : Progressed(p, now)
  BY <1>1, ProgressEffect
<1>3. /\ prog' = prog /\ qcnt'[p] = qcnt[p] /\ NBX_active'[p] = NBX_active[p]
      /\ slotCall'[p] = slotCall[p] /\ finished'[p] = finished[p]
      /\ ip'[p] = ip[p] + 1 /\ pc'[p] = "app"
      /\ \A i \in Slots : reached'[p][i] <=> i \in now \/ reached[p][i]
      /\ \A i \in now : \A j \in Unreached(p) : i < j => j \in now
      /\ now \in SUBSET Unreached(p)
  BY <1>1, <1>2, Domains DEF Progressed, Enters
<1>4. /\ ip[p] \in Nat \ {0} /\ Len(prog) \in Nat /\ qcnt[p] \in Int /\ qcnt[p] < ip[p]
      /\ ip[p] + 1 \in 1..(Len(prog) + 1)
      /\ \A i \in Slots : i \in Nat /\ slotCall[p][i] \in Nat
  BY <1>1, RankTypes, QueuedBefore DEF IInv
<1>5. ~Waiting(p) /\ ~InSync(p) /\ ~InKnown(p)
  BY <1>1 DEF Waiting, InSync, InKnown
<1>6. TypeOK'
  <2>1. /\ ip \in [Proc -> 1..(Len(prog) + 1)]
        /\ pc \in [Proc -> {"app", "wait", "test", "sizes", "data"}]
    BY DEF IInv, TypeOK
  <2>2. ip' \in [Proc -> 1..(Len(prog) + 1)]
    BY <1>1, <1>4, <2>1
  <2> QED
    BY <1>1, <1>2, <2>1, <2>2, ProgressTypes
<1>7. StepOf(p) /\ \A i \in Slots : reached[p][i] => reached'[p][i]
  BY <1>1, <1>2, Domains, ProgressStepOf
<1>8. /\ AtCall(p)' /\ SlotOrder(p)'
      /\ \A i \in Slots : SlotHolds(p, i)'
      /\ ~Waiting(p)' /\ ~InSync(p)' /\ ~InKnown(p)'
      /\ Behind(p) = ip[p] /\ Behind(p)' = ip[p] + 1
      /\ \A i \in Slots : Live(p, i)' <=> Live(p, i)
  <2>1. prog[ip[p]].op # "wait" /\ prog[ip[p]].op \notin Queues
    BY <1>1 DEF Queues
  <2>2. qcnt[p] = -1 <=> ~Pending(prog, ip[p] + 1, Queues)
    BY <1>4, <1>5, <2>1, QueuedOrNot, PendingNext
  <2> QED
    BY <1>1, <1>3, <1>4, <1>5, <1>7, <2>1, <2>2, ControlMovesOn
<1>9. BarrierOrder(p)'
  <2>1. BarrierOrder(p)
    BY DEF IInv, RankInv, Control
  <2>2. ASSUME NEW i \in Slots, NEW j \in Slots, i < j, NBX_active[p][i] = "unknown",
               NBX_active[p][j] = "unknown", reached'[p][i]
        PROVE  reached'[p][j]
    <3>1. CASE reached[p][i]
      BY <1>3, <2>1, <2>2, <3>1 DEF BarrierOrder
    <3>2. CASE i \in now
      BY <1>3, <2>2, <3>2 DEF Unreached
    <3> QED
      BY <1>3, <2>2, <3>1, <3>2
  <2>3. ASSUME NEW i \in Slots, Live(p, i), NBX_active[p][i] = "unknown", reached'[p][i]
        PROVE  \E g \in (slotCall[p][i] + 1)..(ip'[p] - 1) : prog[g].op = "progress"
    <3>1. slotCall[p][i] < ip[p]
      BY <1>5, <2>3, LiveUnknown
    <3>2. slotCall[p][i] \in Nat /\ ip[p] \in Nat /\ ip'[p] = ip[p] + 1
      BY <1>3, <1>4
    <3>3. ip[p] \in (slotCall[p][i] + 1)..(ip'[p] - 1)
      BY <3>1, <3>2
    <3> QED
      BY <1>1, <3>3, Zenon
  <2> QED
    BY <1>3, <1>8, <2>2, <2>3 DEF BarrierOrder
<1>10. Counted(p)' /\ UnderWay(p)' /\ BarrierSeen(p)'
  BY <1>1, <1>2, <1>3, <1>5, <1>8, ProgressRank
<1>11. KeepsBarriers(p)
  BY <1>3, <1>4, <1>7, <1>8 DEF KeepsBarriers
<1>12. RankInv(p)'
  BY <1>8, <1>9, <1>10 DEF RankInv, Control
<1> QED
  BY <1>3, <1>6, <1>7, <1>11, <1>12, StepOfRank

----------------------------------------------------------------------------
(* The Wait.                                                               *)
LEMMA ControlInPlace ==
    ASSUME IInv, NEW p \in Proc, prog' = prog, ip'[p] = ip[p], qcnt'[p] = qcnt[p],
           NBX_active'[p] = NBX_active[p], slotCall'[p] = slotCall[p], at'[p] = at[p],
           Waiting(p), Waiting(p)', pc'[p] = "test" => NBX_active[p][at[p]] = "unknown",
           \A i \in Slots : reached[p][i] => reached'[p][i],
           finished[p] \subseteq finished'[p]
    PROVE  /\ AtCall(p)' /\ SlotOrder(p)'
           /\ \A i \in Slots : SlotHolds(p, i)'
           /\ InSync(p)' <=> InSync(p)
           /\ ~InKnown(p) /\ ~InKnown(p)'
           /\ Behind(p)' = Behind(p)
           /\ \A i \in Slots : Live(p, i)' <=> Live(p, i)
<1>1. /\ InSync(p)' <=> InSync(p)
      /\ ~InKnown(p) /\ ~InKnown(p)'
      /\ Behind(p)' = Behind(p)
  BY DEF InSync, InKnown, Waiting, Behind, Call
<1>2. \A i \in Slots : Live(p, i)' <=> Live(p, i)
  BY DEF Live
<1>3. Control(p)
  BY DEF IInv, RankInv
<1>4. AtCall(p)'
  BY <1>1, <1>3 DEF Control, AtCall, Waiting, Call
<1>5. SlotOrder(p)'
  BY <1>2, <1>3 DEF Control, SlotOrder
<1>6. ASSUME NEW i \in Slots
      PROVE  SlotHolds(p, i)'
  <2>1. SlotHolds(p, i)
    BY <1>3 DEF Control
  <2> QED
    BY <1>1, <1>2, <2>1 DEF SlotHolds
<1> QED
  BY <1>1, <1>2, <1>4, <1>5, <1>6

LEMMA WaitProgressStep ==
    ASSUME IInv, Disciplined, NEW p \in Proc, WaitProgress(p)
    PROVE  IInv'
<1>1. /\ pc[p] = "wait" /\ NBX_active[p][at[p]] = "unknown"
      /\ progressCommunication(p)
      /\ ip' = ip /\ pc' = [pc EXCEPT ![p] = "test"]
  BY DEF WaitProgress, InSlot
<1>2. PICK now : Progressed(p, now)
  BY <1>1, ProgressEffect
<1>3. /\ prog' = prog /\ qcnt'[p] = qcnt[p] /\ NBX_active'[p] = NBX_active[p]
      /\ slotCall'[p] = slotCall[p] /\ finished'[p] = finished[p] /\ reducing' = reducing
      /\ ip'[p] = ip[p] /\ pc'[p] = "test" /\ at'[p] = at[p]
      /\ \A i \in Slots : reached'[p][i] <=> i \in now \/ reached[p][i]
      /\ \A i \in now : \A j \in Unreached(p) : i < j => j \in now
      /\ now \in SUBSET Unreached(p)
  BY <1>1, <1>2, Domains DEF Progressed, Enters
<1>4. Waiting(p) /\ Waiting(p)'
  BY <1>1, <1>3 DEF Waiting
<1>5. TypeOK'
  <2>1. /\ ip \in [Proc -> 1..(Len(prog) + 1)]
        /\ pc \in [Proc -> {"app", "wait", "test", "sizes", "data"}]
    BY DEF IInv, TypeOK
  <2>2. pc' \in [Proc -> {"app", "wait", "test", "sizes", "data"}]
    BY <1>1, <2>1
  <2> QED
    BY <1>1, <1>2, <2>1, <2>2, ProgressTypes
<1>6. StepOf(p) /\ \A i \in Slots : reached[p][i] => reached'[p][i]
  BY <1>1, <1>2, Domains, ProgressStepOf
<1>7. /\ AtCall(p)' /\ SlotOrder(p)'
      /\ \A i \in Slots : SlotHolds(p, i)'
      /\ ~InKnown(p) /\ ~InKnown(p)'
      /\ Behind(p)' = Behind(p)
  BY <1>1, <1>3, <1>4, <1>6, ControlInPlace
<1>8. BarrierOrder(p)'
  <2>1. BarrierOrder(p)
    BY DEF IInv, RankInv, Control
  <2>2. ASSUME NEW i \in Slots, NEW j \in Slots, i < j, NBX_active[p][i] = "unknown",
               NBX_active[p][j] = "unknown", reached'[p][i]
        PROVE  reached'[p][j]
    <3>1. CASE reached[p][i]
      BY <1>3, <2>1, <2>2, <3>1 DEF BarrierOrder
    <3>2. CASE i \in now
      BY <1>3, <2>2, <3>2 DEF Unreached
    <3> QED
      BY <1>3, <2>2, <3>1, <3>2
  <2> QED
    BY <1>3, <1>4, <2>2 DEF BarrierOrder
<1>9. Counted(p)' /\ UnderWay(p)' /\ BarrierSeen(p)'
  <2>1. \A x \in reducing : x.by # p
    BY <1>4 DEF IInv, RankInv, UnderWay, ReductionsHeld
  <2> QED
    BY <1>2, <1>3, <1>4, <1>7, <2>1, ProgressRank
<1>10. KeepsBarriers(p)
  BY <1>3, <1>6, <1>7, RankTypes DEF KeepsBarriers, IInv
<1>11. RankInv(p)'
  BY <1>7, <1>8, <1>9 DEF RankInv, Control
<1> QED
  BY <1>3, <1>5, <1>6, <1>10, <1>11, StepOfRank

\* The Wait goes on with slot s, or returns.
GoesOn(p, s) ==
    /\ ip'[p] = ip[p] /\ qcnt'[p] = qcnt[p] /\ pc'[p] = "wait" /\ at'[p] = s
    /\ s \in Slots /\ NBX_active'[p][s] # "unactive"

Returns(p) ==
    /\ ip'[p] = ip[p] + 1 /\ qcnt'[p] = -1 /\ pc'[p] = "app" /\ at'[p] = 0

LEMMA GoOnEffect ==
    ASSUME IInv, NEW p \in Proc, ip[p] <= Len(prog), NEW j \in Nat, GoOn(p, j)
    PROVE  /\ \/ Returns(p) /\ \A i \in Slots : i >= j => NBX_active'[p][i] = "unactive"
              \/ \E s \in Slots : /\ GoesOn(p, s)
                                  /\ \A i \in Slots : i >= j /\ i < s => NBX_active'[p][i] = "unactive"
           /\ \A q \in Proc \ {p} : ip'[q] = ip[q] /\ pc'[q] = pc[q] /\ at'[q] = at[q] /\ qcnt'[q] = qcnt[q]
           /\ ip' \in [Proc -> 1..(Len(prog) + 1)]
           /\ pc' \in [Proc -> {"app", "wait", "test", "sizes", "data"}]
           /\ at' \in [Proc -> Slots]
           /\ qcnt' \in [Proc -> -1..Len(prog)]
<1>1. PICK rest : rest = {i \in Slots : i >= j /\ NBX_active'[p][i] # "unactive"}
  OBVIOUS
<1>2. IF rest = {}
      THEN /\ pc' = [pc EXCEPT ![p] = "app"]
           /\ at' = [at EXCEPT ![p] = 0]
           /\ qcnt' = [qcnt EXCEPT ![p] = -1]
           /\ ip' = [ip EXCEPT ![p] = ip[p] + 1]
      ELSE /\ pc' = [pc EXCEPT ![p] = "wait"]
           /\ at' = [at EXCEPT ![p] = Min(rest)]
           /\ ip' = ip /\ qcnt' = qcnt
  BY <1>1 DEF GoOn, NextCall
<1>3. /\ ip \in [Proc -> 1..(Len(prog) + 1)]
      /\ pc \in [Proc -> {"app", "wait", "test", "sizes", "data"}]
      /\ at \in [Proc -> Slots]
      /\ qcnt \in [Proc -> -1..Len(prog)]
  BY DEF IInv, TypeOK
<1>4. Len(prog) \in Nat /\ ip[p] + 1 \in 1..(Len(prog) + 1) /\ -1 \in -1..Len(prog)
  BY RankTypes DEF IInv
<1>5. 0 \in Slots /\ \A i \in Slots : i \in Nat
  BY SlotsAreNat
<1>6. CASE rest = {}
  <2>1. Returns(p)
    BY <1>2, <1>3, <1>6 DEF Returns
  <2>2. \A i \in Slots : i >= j => NBX_active'[p][i] = "unactive"
    BY <1>1, <1>6
  <2> QED
    BY <1>2, <1>3, <1>4, <1>5, <1>6, <2>1, <2>2
<1>7. CASE rest # {}
  <2>1. PICK s : s = Min(rest)
    OBVIOUS
  <2>2. s \in rest /\ \A i \in rest : s <= i
    BY <1>1, <1>7, <2>1, MinOfSlots
  <2>3. s \in Slots /\ GoesOn(p, s)
    BY <1>1, <1>2, <1>3, <1>7, <2>1, <2>2 DEF GoesOn
  <2>4. \A i \in Slots : i >= j /\ i < s => NBX_active'[p][i] = "unactive"
    BY <1>1, <1>5, <2>2
  <2> QED
    BY <1>2, <1>3, <1>7, <2>1, <2>2, <2>3, <2>4
<1> QED
  BY <1>6, <1>7

LEMMA WaitReturns ==
    ASSUME IInv, NEW p \in Proc, prog[ip[p]].op = "wait", prog' = prog, Returns(p),
           Unreached(p) = {}, \A i \in Slots : NBX_active'[p][i] = "unactive",
           colls'[p] = colls[p], slotCall'[p] = slotCall[p],
           Quiet(p), flight' \subseteq flight, posted' = posted, reducing' = reducing
    PROVE  RankInv(p)' /\ KeepsBarriers(p)
<1>1. ip[p] \in Nat \ {0} /\ ~InSync(p) /\ Behind(p) = ip[p]
  BY RankTypes DEF IInv, InSync, Behind, Call
<1>2. ~Waiting(p)' /\ ~InSync(p)' /\ ~InKnown(p)' /\ Behind(p)' = ip[p] + 1
  BY DEF Waiting, InSync, InKnown, Behind, Returns
<1>3. ~Entered(p)' /\ Unreached(p)' = {} /\ \A i \in Slots : ~Live(p, i)'
  BY DEF Live, Entered, Unreached
<1>4. AtCall(p)'
  <2>1. ~Pending(prog, ip[p] + 1, Queues)
    BY <1>1, PendingNext DEF Queues
  <2> QED
    BY <1>1, <1>2, <2>1 DEF AtCall, Returns
<1>5. \A i \in Slots : SlotHolds(p, i)'
  <2> SUFFICES ASSUME NEW i \in Slots
               PROVE  SlotHolds(p, i)'
    OBVIOUS
  <2>1. SlotHolds(p, i) /\ slotCall[p][i] \in Nat
    BY RankTypes DEF IInv, RankInv, Control
  <2>2. slotCall[p][i] < ip[p] + 1
    BY <1>1, <2>1 DEF SlotHolds
  <2> QED
    BY <1>2, <1>3, <2>2 DEF SlotHolds
<1>6. SlotOrder(p)' /\ BarrierOrder(p)'
  BY <1>3 DEF SlotOrder, BarrierOrder
<1>7. Counted(p)'
  <2>1. ~Collective(prog, ip[p])
    BY DEF Collective
  <2> QED
    BY <1>1, <1>2, <1>3, <2>1, CountedStays
<1>8. UnderWay(p)' /\ BarrierSeen(p)'
  BY <1>3, StaysQuiet DEF BarrierSeen
<1>9. KeepsBarriers(p)
  BY <1>1, <1>2 DEF KeepsBarriers
<1> QED
  BY <1>4, <1>5, <1>6, <1>7, <1>8, <1>9 DEF RankInv, Control

LEMMA WaitGoesOn ==
    ASSUME IInv, NEW p \in Proc, prog[ip[p]].op = "wait", ip[p] <= Len(prog), prog' = prog,
           NEW s, GoesOn(p, s), \A i \in Slots : i < s => NBX_active'[p][i] = "unactive",
           \A i \in Slots : \/ NBX_active'[p][i] = NBX_active[p][i]
                            \/ NBX_active'[p][i] = "unactive" /\ i \notin Unreached(p)
                            \/ NBX_active'[p][i] = "known" /\ NBX_active[p][i] = "known_prc",
           colls'[p] = colls[p], slotCall'[p] = slotCall[p], reached'[p] = reached[p],
           finished[p] \subseteq finished'[p]
    PROVE  /\ Control(p)' /\ KeepsBarriers(p) /\ (Entered(p)' => Entered(p))
           /\ Unreached(p)' = Unreached(p) /\ Waiting(p)' /\ ~InKnown(p)' /\ Behind(p)' = Behind(p)
           /\ \A i \in Slots : Live(p, i)' <=> i <= qcnt[p] /\ NBX_active'[p][i] # "unactive"
<1>1. ip[p] \in Nat \ {0} /\ ~InSync(p) /\ Behind(p) = ip[p]
  BY RankTypes DEF IInv, InSync, Behind, Call
<1>2. Waiting(p)' /\ ~InSync(p)' /\ ~InKnown(p)' /\ Behind(p)' = ip[p]
  BY DEF Waiting, InSync, InKnown, Behind, GoesOn, Call
<1>3. Control(p)
  BY DEF IInv, RankInv
<1>4. \A i \in Slots : /\ Live(p, i)' <=> i <= qcnt[p] /\ NBX_active'[p][i] # "unactive"
                       /\ Live(p, i)' => Live(p, i)
  BY DEF Live, GoesOn
<1>5. AtCall(p)'
  <2>1. qcnt[p] < ip[p] /\ (qcnt[p] = -1 <=> ~Pending(prog, ip[p], Queues))
    BY <1>1, QueuedBefore, QueuedOrNot
  <2> QED
    BY <1>2, <2>1 DEF AtCall, GoesOn, Call
<1>6. \A i \in Slots : SlotHolds(p, i)'
  <2> SUFFICES ASSUME NEW i \in Slots
               PROVE  SlotHolds(p, i)'
    OBVIOUS
  <2>1. SlotHolds(p, i)
    BY <1>3 DEF Control
  <2>2. slotCall'[p][i] < ip[p]
    BY <1>1, <2>1 DEF SlotHolds
  <2>3. CASE NBX_active'[p][i] = "known" /\ NBX_active[p][i] = "known_prc"
    <3>1. Live(p, i) /\ SameBatch(prog, slotCall[p][i], ip[p])
      <4>1. i \in Nat /\ qcnt[p] \in Int
        BY RankTypes DEF IInv
      <4> QED
        BY <1>1, <2>1, <2>3, <4>1 DEF SlotHolds, Live
    <3>2. "known" \in KindOf(prog[slotCall[p][i]].op)
      <4>1. prog[slotCall[p][i]].op = "known_prc"
        BY <1>1, <2>1, <2>3, <3>1, KindsOf DEF SlotHolds
      <4> QED
        BY <4>1 DEF KindOf
    <3>3. i <= qcnt'[p] /\ slotCall'[p][i] # 0 /\ ~(i > qcnt'[p])
      BY <2>1, <2>3, <3>1, RankTypes DEF IInv, SlotHolds, Live, GoesOn
    <3> QED
      BY <1>1, <1>2, <2>2, <2>3, <3>1, <3>2, <3>3 DEF SlotHolds, GoesOn
  <2>4. CASE NBX_active'[p][i] \in {NBX_active[p][i], "unactive"}
    BY <1>1, <1>2, <1>4, <2>1, <2>2, <2>4 DEF SlotHolds, GoesOn
  <2> QED
    BY <2>3, <2>4
<1>7. SlotOrder(p)'
  BY <1>3, <1>4 DEF Control, SlotOrder
<1>8. BarrierOrder(p)'
  BY <1>2, <1>3 DEF Control, BarrierOrder
<1>9. Unreached(p)' = Unreached(p)
  BY DEF Unreached
<1>10. Counted(p)'
  BY <1>1, <1>2, <1>9, CountedStays
<1>11. KeepsBarriers(p)
  BY <1>1, <1>2 DEF KeepsBarriers
<1>12. Entered(p)' => Entered(p)
  BY <1>4 DEF Entered
<1> QED
  BY <1>1, <1>2, <1>4, <1>5, <1>6, <1>7, <1>8, <1>9, <1>10, <1>11, <1>12 DEF Control

LEMMA WaitStep ==
    ASSUME IInv, Disciplined, NEW p \in Proc, Wait(p)
    PROVE  IInv'
<1>1. /\ pc[p] = "app" /\ ip[p] <= Len(prog) /\ prog[ip[p]].op = "wait"
      /\ GoOn(p, 0)
      /\ UNCHANGED <<prog, NBX_active, NBX_cnt, cnt_base, reached, rid, bar_req, req, slotCall,
                     finished, flight, posted, colls, reducing>>
  BY DEF Wait, Running, Call
<1>2. /\ \/ Returns(p) /\ \A i \in Slots : i >= 0 => NBX_active'[p][i] = "unactive"
         \/ \E s \in Slots : /\ GoesOn(p, s)
                             /\ \A i \in Slots : i >= 0 /\ i < s => NBX_active'[p][i] = "unactive"
      /\ \A q \in Proc \ {p} : ip'[q] = ip[q] /\ pc'[q] = pc[q] /\ at'[q] = at[q] /\ qcnt'[q] = qcnt[q]
      /\ ip' \in [Proc -> 1..(Len(prog) + 1)]
      /\ pc' \in [Proc -> {"app", "wait", "test", "sizes", "data"}]
      /\ at' \in [Proc -> Slots]
      /\ qcnt' \in [Proc -> -1..Len(prog)]
  BY <1>1, GoOnEffect
<1>3. TypeOK'
  BY <1>1, <1>2 DEF IInv, TypeOK
<1>4. StepOf(p)
  <2>1. \A q \in Proc \ {p} : SameRank(q)
    BY <1>1, <1>2 DEF SameRank
  <2>2. Len(colls'[p]) >= Len(colls[p])
    BY <1>1, RankTypes DEF IInv
  <2> QED
    BY <1>1, <2>1, <2>2 DEF StepOf
<1>5. ~Waiting(p) /\ ~InKnown(p) /\ \A x \in reducing : x.by # p
  <2>1. \A x \in reducing : x.by # p
    BY <1>1, NoReduction DEF Call
  <2> QED
    BY <1>1, <2>1 DEF Waiting, InKnown
<1>6. \A i \in Slots : i >= 0
  BY SlotsAreNat
<1>7. ASSUME Returns(p), \A i \in Slots : i >= 0 => NBX_active'[p][i] = "unactive"
      PROVE  RankInv(p)' /\ KeepsBarriers(p)
  <2>1. \A i \in Slots : NBX_active[p][i] = "unactive"
    BY <1>1, <1>6, <1>7
  <2>2. Unreached(p) = {} /\ \A i \in Slots : ~Live(p, i)
    BY <2>1 DEF Unreached, Live
  <2>3. Quiet(p)
    BY <1>5, <2>2, NothingQueued DEF Quiet
  <2> QED
    BY <1>1, <1>7, <2>1, <2>2, <2>3, WaitReturns
<1>8. ASSUME NEW s \in Slots, GoesOn(p, s),
             \A i \in Slots : i >= 0 /\ i < s => NBX_active'[p][i] = "unactive"
      PROVE  RankInv(p)' /\ KeepsBarriers(p)
  <2>1. \A i \in Slots : i < s => NBX_active'[p][i] = "unactive"
    BY <1>6, <1>8
  <2>2. /\ Control(p)' /\ KeepsBarriers(p) /\ (Entered(p)' => Entered(p))
        /\ Unreached(p)' = Unreached(p) /\ Waiting(p)' /\ ~InKnown(p)'
        /\ \A i \in Slots : Live(p, i)' <=> i <= qcnt[p] /\ NBX_active'[p][i] # "unactive"
    BY <1>1, <1>8, <2>1, WaitGoesOn
  <2>3. \A i \in Slots : Live(p, i)' <=> Live(p, i)
    BY <1>1, <2>2 DEF Live
  <2>4. \A i \in Unreached(p) : i \in Unreached(p)' /\ slotCall'[p][i] = slotCall[p][i]
    BY <1>1, <2>2
  <2>5. \A i \in Slots : Live(p, i) /\ NBX_active[p][i] # "unknown"
                           => Live(p, i)' /\ NBX_active'[p][i] # "unknown"
    BY <1>1, <2>3
  <2>6. ip'[p] = ip[p]
    BY <1>8 DEF GoesOn
  <2>7. UnderWay(p)'
    BY <1>1, <1>5, <2>2, <2>4, <2>5, <2>6, UnderWayStays
  <2>8. BarrierSeen(p)'
    BY <1>1, <1>5, <2>2 DEF IInv, RankInv, BarrierSeen
  <2> QED
    BY <2>2, <2>7, <2>8 DEF RankInv
<1> QED
  BY <1>1, <1>2, <1>3, <1>4, <1>7, <1>8, StepOfRank

LEMMA WaitAgainStep ==
    ASSUME IInv, NEW p \in Proc, WaitAgain(p)
    PROVE  IInv'
<1>1. /\ pc[p] = "test" /\ pc' = [pc EXCEPT ![p] = "wait"]
      /\ UNCHANGED <<prog, ip, at, NBX_cnt, cnt_base, qcnt, NBX_active, reached, rid, bar_req,
                     req, slotCall, finished, flight, posted, colls, reducing>>
  BY DEF WaitAgain
<1>2. TypeOK'
  BY <1>1 DEF IInv, TypeOK
<1>3. pc'[p] = "wait" /\ Waiting(p) /\ Waiting(p)'
  BY <1>1, Domains DEF Waiting
<1>4. StepOf(p)
  <2>1. \A q \in Proc \ {p} : SameRank(q)
    BY <1>1, Domains DEF SameRank
  <2>2. Len(colls'[p]) >= Len(colls[p])
    BY <1>1, RankTypes DEF IInv
  <2> QED
    BY <1>1, <2>1, <2>2 DEF StepOf
<1>5. /\ AtCall(p)' /\ SlotOrder(p)'
      /\ \A i \in Slots : SlotHolds(p, i)'
      /\ ~InKnown(p) /\ ~InKnown(p)'
      /\ Behind(p)' = Behind(p)
      /\ \A i \in Slots : Live(p, i)' <=> Live(p, i)
  BY <1>1, <1>3, ControlInPlace
<1>6. BarrierOrder(p)'
  BY <1>1, <1>3 DEF IInv, RankInv, Control, BarrierOrder
<1>7. Unreached(p)' = Unreached(p)
  BY <1>1 DEF Unreached
<1>8. Entered(p)' => Entered(p)
  BY <1>1, <1>5 DEF Entered
<1>9. Counted(p)'
  BY <1>1, <1>5, <1>7, CountedStays
<1>10. UnderWay(p)'
  <2>1. \A i \in Unreached(p) : i \in Unreached(p)' /\ slotCall'[p][i] = slotCall[p][i]
    BY <1>1, <1>7
  <2>2. \A i \in Slots : Live(p, i) /\ NBX_active[p][i] # "unknown"
                           => Live(p, i)' /\ NBX_active'[p][i] # "unknown"
    BY <1>1, <1>5
  <2>3. \A x \in reducing : x.by # p
    BY <1>3 DEF IInv, RankInv, UnderWay, ReductionsHeld
  <2> QED
    BY <1>1, <1>5, <1>8, <2>1, <2>2, <2>3, UnderWayStays
<1>11. BarrierSeen(p)'
  <2>1. BarrierSeen(p)
    BY DEF IInv, RankInv
  <2> QED
    BY <1>1, <1>3, <1>5, <1>8, <2>1 DEF BarrierSeen
<1>12. KeepsBarriers(p)
  BY <1>1, <1>5, RankTypes DEF KeepsBarriers, IInv
<1>13. RankInv(p)'
  BY <1>5, <1>6, <1>9, <1>10, <1>11 DEF RankInv, Control
<1> QED
  BY <1>1, <1>2, <1>4, <1>12, <1>13, StepOfRank


\* The Wait at a slot of a call with known receivers.
LEMMA AtKnown ==
    ASSUME IInv, Disciplined, NEW p \in Proc, pc[p] = "wait",
           NBX_active[p][at[p]] \in {"known", "known_prc"}
    PROVE  /\ Waiting(p) /\ ~InSync(p) /\ ~InKnown(p)
           /\ at[p] \in Slots /\ at[p] \in Nat /\ Live(p, at[p])
           /\ ip[p] <= Len(prog) /\ prog[ip[p]].op = "wait"
           /\ Held(p) \in 1..Len(prog) /\ prog[Held(p)].op \in {"known", "known_prc"}
           /\ \A i \in Slots : i < at[p] => NBX_active[p][i] = "unactive"
           /\ Unreached(p) = {} /\ ~Entered(p)
<1>1. /\ AtCall(p) /\ SlotOrder(p) /\ \A i \in Slots : SlotHolds(p, i)
      /\ at[p] \in Slots /\ at[p] \in Nat /\ \A i \in Slots : i \in Nat
      /\ qcnt[p] \in Int /\ Len(prog) \in Nat /\ ip[p] \in Nat
  BY RankTypes DEF IInv, RankInv, Control
<1>2. Waiting(p) /\ ~InKnown(p) /\ ip[p] <= Len(prog)
  BY <1>1 DEF Waiting, InKnown, AtCall
<1>3. Live(p, at[p]) /\ ~InSync(p)
  BY <1>1 DEF SlotHolds, Live
<1>4. prog[ip[p]].op = "wait"
  BY <1>1, <1>2, <1>3 DEF AtCall, InSync, Call
<1>5. /\ Held(p) \in 1..Len(prog) /\ prog[Held(p)].op \in {"known", "known_prc"}
      /\ SameBatch(prog, Held(p), ip[p])
  <2>1. slotCall[p][at[p]] \in 0..Len(prog) /\ slotCall[p][at[p]] # 0
    BY <1>1, RankTypes DEF IInv, SlotHolds
  <2> QED
    BY <1>1, <1>3, <2>1, KindsOf DEF Held, SlotHolds
<1>6. \A i \in Slots : i < at[p] => NBX_active[p][i] = "unactive"
  BY <1>1, <1>2 DEF AtCall
<1>7. ASSUME NEW i \in Slots, Live(p, i), NBX_active[p][i] = "unknown"
      PROVE  FALSE
  <2>1. at[p] < i
    BY <1>1, <1>6, <1>7
  <2>2. Held(p) < slotCall[p][i]
    BY <1>1, <1>3, <1>7, <2>1 DEF SlotOrder, Held
  <2>3. /\ slotCall[p][i] \in DOMAIN prog /\ prog[slotCall[p][i]].op = "unknown"
        /\ slotCall[p][i] < ip[p]
    BY <1>3, <1>7, LiveUnknown
  <2>4. Held(p) \in DOMAIN prog /\ Held(p) \in Nat /\ slotCall[p][i] \in Nat
    BY <1>5, <2>3, ProgramType DEF IInv
  <2>5. SameBatch(prog, Held(p), slotCall[p][i])
    BY <1>1, <1>5, <2>2, <2>3, <2>4, SameBatchWithin
  <2>6. UnknownFirst(prog)
    BY ProgramDisciplined DEF IInv
  <2> QED
    BY <1>5, <2>3, <2>4, <2>5, <2>6 DEF UnknownFirst
<1>8. Unreached(p) = {}
  BY <1>7, UnreachedLive DEF Unreached
<1>9. ~Entered(p)
  BY <1>7 DEF Entered
<1> QED
  BY <1>1, <1>2, <1>3, <1>4, <1>5, <1>6, <1>8, <1>9

LEMMA NextCntType ==
    ASSUME TypeOK, NEW p \in Proc, NBX_cnt' = [NBX_cnt EXCEPT ![p] = NextCnt(NBX_cnt[p])]
    PROVE  NBX_cnt' \in [Proc -> 0..(nbx_cycle - 1)]
<1>1. nbx_cycle \in Nat \ {0}
  BY QueueAssumption
<1>2. NBX_cnt \in [Proc -> 0..(nbx_cycle - 1)]
  BY DEF TypeOK
<1>3. NextCnt(NBX_cnt[p]) \in 0..(nbx_cycle - 1)
  <2>1. NBX_cnt[p] \in 0..(nbx_cycle - 1)
    BY <1>2
  <2> QED
    BY <1>1, <2>1 DEF NextCnt
<1> QED
  BY <1>2, <1>3

LEMMA WaitSizesStep ==
    ASSUME IInv, Disciplined, NEW p \in Proc, WaitSizes(p)
    PROVE  IInv'
<1>1. /\ pc[p] = "wait" /\ NBX_active[p][at[p]] = "known_prc" /\ execute(p)
      /\ NBX_cnt' = [NBX_cnt EXCEPT ![p] = NextCnt(NBX_cnt[p])]
      /\ PostKnown(p, {}, Held(p), "data", NBX_cnt'[p], sz_recv_tmp[p].val)
      /\ NBX_active' = [NBX_active EXCEPT ![p][at[p]] = "known"]
      /\ UNCHANGED <<prog, ip, pc, at, cnt_base, qcnt, reached, rid, bar_req, slotCall,
                     finished, colls, reducing>>
  BY DEF WaitSizes, InSlot
<1>2. PICK slot : slot = at[p]
  OBVIOUS
<1>3. /\ Waiting(p) /\ ~InSync(p) /\ ~InKnown(p)
      /\ slot \in Slots /\ slot \in Nat /\ Live(p, slot)
      /\ ip[p] <= Len(prog) /\ prog[ip[p]].op = "wait"
      /\ Held(p) \in 1..Len(prog)
      /\ \A i \in Slots : i < slot => NBX_active[p][i] = "unactive"
      /\ Unreached(p) = {} /\ ~Entered(p)
  BY <1>1, <1>2, AtKnown
<1>4. Quiet(p) /\ Posts(p, {})
  BY <1>1, <1>3, ExecuteQuiet, PostKnownEffect
<1>5. /\ \A i \in Slots : NBX_active'[p][i] = IF i = slot THEN "known" ELSE NBX_active[p][i]
      /\ \A q \in Proc \ {p} : NBX_active'[q] = NBX_active[q]
  <2>1. NBX_active' = [NBX_active EXCEPT ![p][slot] = "known"]
    BY <1>1, <1>2
  <2> QED
    BY <1>3, <2>1, Domains
<1>6. TypeOK'
  <2>1. TypeOK
    BY DEF IInv
  <2>2. NBX_cnt' \in [Proc -> 0..(nbx_cycle - 1)]
    BY <1>1, <2>1, NextCntType
  <2>3. NBX_active' \in [Proc -> [Slots -> Kinds]]
    BY <1>1, <2>1 DEF TypeOK, Kinds
  <2>4. /\ \A m \in flight' : m.dst \in Proc /\ m.src \in Proc
        /\ \A w \in posted' : w.dst \in Proc /\ w.src \in Proc
    BY <1>4, <2>1 DEF TypeOK, Posts
  <2> QED
    BY <1>1, <2>1, <2>2, <2>3, <2>4 DEF TypeOK
<1>7. StepOf(p)
  <2>1. ASSUME NEW q \in Proc \ {p}
        PROVE  SameRank(q)
    BY <1>1, <1>4, <1>5 DEF SameRank, Posts
  <2>2. Len(colls'[p]) >= Len(colls[p])
    BY <1>1, RankTypes DEF IInv
  <2> QED
    BY <1>1, <1>4, <2>1, <2>2 DEF StepOf, Posts
<1>8. GoesOn(p, slot)
  BY <1>1, <1>2, <1>3, <1>5 DEF GoesOn
<1>9. /\ Control(p)' /\ KeepsBarriers(p) /\ (Entered(p)' => Entered(p))
      /\ Waiting(p)' /\ ~InKnown(p)'
      /\ \A i \in Slots : Live(p, i)' <=> i <= qcnt[p] /\ NBX_active'[p][i] # "unactive"
  <2>1. \A i \in Slots : i < slot => NBX_active'[p][i] = "unactive"
    BY <1>3, <1>5, SlotsAreNat
  <2>2. \A i \in Slots : \/ NBX_active'[p][i] = NBX_active[p][i]
                         \/ NBX_active'[p][i] = "known" /\ NBX_active[p][i] = "known_prc"
    BY <1>1, <1>2, <1>5
  <2> QED
    BY <1>1, <1>3, <1>8, <2>1, <2>2, WaitGoesOn
<1>10. UnderWay(p)'
  <2>1. Live(p, slot)' /\ NBX_active'[p][slot] # "unknown"
    BY <1>3, <1>5, <1>9 DEF Live
  <2>2. ip'[p] = ip[p]
    BY <1>1
  <2> QED
    BY <1>1, <1>3, <1>4, <1>9, <2>1, <2>2, PostsUnderWay
<1>11. RankInv(p)'
  BY <1>3, <1>9, <1>10 DEF RankInv, BarrierSeen
<1> QED
  BY <1>1, <1>6, <1>7, <1>9, <1>11, StepOfRank

\* The rank goes on, or returns, after a slot that is complete.
LEMMA SlotDone ==
    ASSUME IInv, NEW p \in Proc, NEW slot \in Slots, slot = at[p],
           ip[p] <= Len(prog), prog[ip[p]].op = "wait", Waiting(p),
           Free(p), NBX_active' = [NBX_active EXCEPT ![p][slot] = "unactive"],
           GoOn(p, slot + 1), bar_req' \in [Proc -> Nat],
           \A q \in Proc \ {p} : bar_req'[q] = bar_req[q],
           \A i \in Slots : i < slot => NBX_active[p][i] = "unactive",
           Unreached(p) = {}, Quiet(p),
           Entered(p) => \A q \in Proc : Len(colls[q]) >= Count(prog, Behind(p)),
           Held(p) \in 1..Len(prog)
    PROVE  /\ TypeOK' /\ StepOf(p) /\ RankInv(p)' /\ KeepsBarriers(p)
           /\ finished'[p] = finished[p] \cup {Held(p)}
<1>1. /\ req' = [req EXCEPT ![p] = {}]
      /\ NBX_cnt' = [NBX_cnt EXCEPT ![p] = NextCnt(NBX_cnt[p])]
      /\ finished' = [finished EXCEPT ![p] = finished[p] \cup {Held(p)}]
      /\ UNCHANGED <<prog, cnt_base, reached, rid, slotCall, flight, posted, colls, reducing>>
  BY DEF Free
<1>2. slot \in Nat /\ slot + 1 \in Nat /\ \A i \in Slots : i \in Nat
  BY SlotsAreNat
<1>3. /\ \/ Returns(p) /\ \A i \in Slots : i >= slot + 1 => NBX_active'[p][i] = "unactive"
         \/ \E s \in Slots :
              /\ GoesOn(p, s)
              /\ \A i \in Slots : i >= slot + 1 /\ i < s => NBX_active'[p][i] = "unactive"
      /\ \A q \in Proc \ {p} : ip'[q] = ip[q] /\ pc'[q] = pc[q] /\ at'[q] = at[q] /\ qcnt'[q] = qcnt[q]
      /\ ip' \in [Proc -> 1..(Len(prog) + 1)]
      /\ pc' \in [Proc -> {"app", "wait", "test", "sizes", "data"}]
      /\ at' \in [Proc -> Slots]
      /\ qcnt' \in [Proc -> -1..Len(prog)]
  BY <1>2, GoOnEffect
<1>4. /\ \A i \in Slots : NBX_active'[p][i] = IF i = slot THEN "unactive" ELSE NBX_active[p][i]
      /\ \A q \in Proc \ {p} : NBX_active'[q] = NBX_active[q]
  BY Domains
<1>5. TypeOK'
  <2>1. TypeOK
    BY DEF IInv
  <2>2. NBX_cnt' \in [Proc -> 0..(nbx_cycle - 1)]
    BY <1>1, <2>1, NextCntType
  <2>3. NBX_active' \in [Proc -> [Slots -> Kinds]]
    BY <2>1 DEF TypeOK, Kinds
  <2>4. finished' \in [Proc -> SUBSET (1..Len(prog))]
    BY <1>1, <2>1 DEF TypeOK
  <2> QED
    BY <1>1, <1>3, <2>1, <2>2, <2>3, <2>4 DEF TypeOK
<1>6. finished'[p] = finished[p] \cup {Held(p)} /\ colls'[p] = colls[p]
  BY <1>1, Domains
<1>7. StepOf(p)
  <2>1. ASSUME NEW q \in Proc \ {p}
        PROVE  SameRank(q)
    BY <1>1, <1>3, <1>4, Domains DEF SameRank
  <2>2. Len(colls'[p]) >= Len(colls[p])
    BY <1>1, RankTypes DEF IInv
  <2>3. DOMAIN req' = DOMAIN req
    BY <1>1
  <2> QED
    BY <1>1, <2>1, <2>2, <2>3 DEF StepOf
<1>8. \A i \in Slots : i <= slot => NBX_active'[p][i] = "unactive"
  BY <1>2, <1>4
<1>9. ASSUME Returns(p), \A i \in Slots : i >= slot + 1 => NBX_active'[p][i] = "unactive"
      PROVE  RankInv(p)' /\ KeepsBarriers(p)
  <2>1. \A i \in Slots : NBX_active'[p][i] = "unactive"
    BY <1>2, <1>8, <1>9
  <2> QED
    BY <1>1, <1>9, <2>1, WaitReturns
<1>10. ASSUME NEW s \in Slots, GoesOn(p, s),
              \A i \in Slots : i >= slot + 1 /\ i < s => NBX_active'[p][i] = "unactive"
       PROVE  RankInv(p)' /\ KeepsBarriers(p)
  <2>1. \A i \in Slots : i < s => NBX_active'[p][i] = "unactive"
    BY <1>2, <1>8, <1>10
  <2>2. \A i \in Slots : \/ NBX_active'[p][i] = NBX_active[p][i]
                         \/ NBX_active'[p][i] = "unactive" /\ i \notin Unreached(p)
    BY <1>4
  <2>3. /\ Control(p)' /\ KeepsBarriers(p) /\ (Entered(p)' => Entered(p))
        /\ Waiting(p)' /\ Behind(p)' = Behind(p)
    BY <1>1, <1>6, <1>10, <2>1, <2>2, WaitGoesOn
  <2>4. UnderWay(p)'
    BY <1>1, StaysQuiet
  <2>5. BarrierSeen(p)'
    BY <1>1, <2>3 DEF BarrierSeen
  <2> QED
    BY <2>3, <2>4, <2>5 DEF RankInv
<1> QED
  BY <1>3, <1>5, <1>6, <1>7, <1>9, <1>10

LEMMA WaitKnownStep ==
    ASSUME IInv, Disciplined, NEW p \in Proc, WaitKnown(p)
    PROVE  IInv'
<1>1. /\ pc[p] = "wait" /\ NBX_active[p][at[p]] = "known" /\ execute(p) /\ Free(p)
      /\ NBX_active' = [NBX_active EXCEPT ![p][at[p]] = "unactive"]
      /\ GoOn(p, at[p] + 1)
      /\ bar_req' = bar_req
  BY DEF WaitKnown, InSlot
<1>2. PICK slot : slot = at[p]
  OBVIOUS
<1>3. /\ Waiting(p) /\ slot \in Slots
      /\ ip[p] <= Len(prog) /\ prog[ip[p]].op = "wait"
      /\ Held(p) \in 1..Len(prog) /\ prog[Held(p)].op \in {"known", "known_prc"}
      /\ \A i \in Slots : i < slot => NBX_active[p][i] = "unactive"
      /\ Unreached(p) = {} /\ ~Entered(p)
  BY <1>1, <1>2, AtKnown
<1>4. Quiet(p)
  BY <1>1, ExecuteQuiet
<1>5. bar_req' \in [Proc -> Nat]
  BY <1>1 DEF IInv, TypeOK
<1>6. /\ TypeOK' /\ StepOf(p) /\ RankInv(p)' /\ KeepsBarriers(p)
      /\ finished'[p] = finished[p] \cup {Held(p)}
  BY <1>1, <1>2, <1>3, <1>4, <1>5, SlotDone
<1> QED
  BY <1>3, <1>6, StepOfRank

\* Every rank has entered as many barriers and reductions as rank p has begun.
LEMMA SeenByAll ==
    ASSUME IInv, NEW p \in Proc, Entered(p), Unreached(p) = {}, BarrierComplete(Calls, bar_req[p])
    PROVE  \A q \in Proc : Len(colls[q]) >= Count(prog, Behind(p))
<1>1. BarrierSeen(p) /\ Counted(p)
  BY DEF IInv, RankInv, Control
<1>2. CASE bar_req[p] = Len(colls[p])
  <2>1. \A q \in Proc : Len(colls[q]) >= Len(colls[p])
    BY <1>2 DEF BarrierComplete, Calls
  <2>2. Cardinality(Unreached(p)) = 0
    BY FS_EmptySet
  <2>3. Len(colls[p]) \in Nat
    BY RankTypes DEF IInv
  <2>4. Len(colls[p]) = Count(prog, Behind(p))
    BY <1>1, <2>2, <2>3 DEF Counted
  <2> QED
    BY <2>1, <2>4
<1>3. CASE \A q \in Proc : Len(colls[q]) >= Count(prog, Behind(p))
  BY <1>3
<1> QED
  BY <1>1, <1>2, <1>3 DEF BarrierSeen

\* ... so all of them entered the barrier of a call that p has begun.
LEMMA AllPassed ==
    ASSUME IInv, NEW p \in Proc, \A q \in Proc : Len(colls[q]) >= Count(prog, Behind(p)),
           NEW c \in DOMAIN prog, c < Behind(p), Collective(prog, c),
           \A q \in Proc : \A i \in Unreached(q) : slotCall[q][i] = c => Behind(q) <= Behind(p)
    PROVE  Passed(c)
<1>1. c \in Nat \ {0} /\ Behind(p) \in Nat \ {0}
  BY ProgramType, RankTypes DEF IInv
<1>2. Count(prog, c) \in Nat /\ Count(prog, c) + 1 <= Count(prog, Behind(p)) /\ Count(prog, Behind(p)) \in Nat
  BY <1>1, CountType, CountOrders
<1>3. ASSUME NEW q \in Proc
      PROVE  /\ Len(colls[q]) + Cardinality(Unreached(q)) = Count(prog, Behind(q))
             /\ Len(colls[q]) \in Nat /\ Cardinality(Unreached(q)) \in Nat
             /\ IsFiniteSet(Unreached(q))
             /\ Behind(q) \in Nat \ {0} /\ Count(prog, Behind(q)) \in Nat
             /\ Len(colls[q]) >= Count(prog, Behind(p))
  <2>1. Counted(q)
    BY DEF IInv, RankInv, Control
  <2>2. Behind(q) \in Nat \ {0} /\ Len(colls[q]) \in Nat
    BY RankTypes DEF IInv
  <2>3. Count(prog, Behind(q)) \in Nat
    BY <2>2, CountType
  <2> QED
    BY <2>1, <2>2, <2>3, UnreachedLive DEF Counted
<1>4. ASSUME NEW q \in Proc
      PROVE  c < Behind(q)
  <2>1. Behind(q) <= c => Count(prog, Behind(q)) <= Count(prog, c)
    BY <1>1, <1>3, CountOrders
  <2>2. ~(Count(prog, Behind(q)) <= Count(prog, c))
    BY <1>2, <1>3
  <2> QED
    BY <1>1, <1>3, <2>1, <2>2
<1>5. ASSUME NEW q \in Proc, NEW i \in Unreached(q), slotCall[q][i] = c
      PROVE  FALSE
  <2>1. Behind(q) <= Behind(p)
    BY <1>5
  <2>2. Count(prog, Behind(q)) <= Count(prog, Behind(p))
    BY <1>1, <1>3, <2>1, CountGrows
  <2>3. Cardinality(Unreached(q)) = 0
    BY <1>2, <1>3, <2>2
  <2>4. Unreached(q) = {}
    BY <1>3, <2>3, FS_EmptySet
  <2> QED
    BY <1>5, <2>4
<1> QED
  BY <1>4, <1>5 DEF Passed, Unreached

\* The Wait at a slot whose barrier was entered.
LEMMA AtUnknown ==
    ASSUME IInv, NEW p \in Proc, pc[p] = "test", reached[p][at[p]]
    PROVE  /\ Waiting(p) /\ ~InKnown(p) /\ ip[p] <= Len(prog)
           /\ at[p] \in Slots /\ NBX_active[p][at[p]] = "unknown"
           /\ Held(p) \in 1..Len(prog)
           /\ \A i \in Slots : i < at[p] => NBX_active[p][i] = "unactive"
           /\ Unreached(p) = {}
           /\ Live(p, at[p]) => Entered(p)
           /\ ~Live(p, at[p]) => /\ ~InSync(p) /\ Held(p) \in finished[p]
                                 /\ \A i \in Slots : ~Live(p, i)
           /\ Quiet(p)
<1>1. /\ AtCall(p) /\ BarrierOrder(p) /\ \A i \in Slots : SlotHolds(p, i)
      /\ at[p] \in Slots /\ \A i \in Slots : i \in Nat
      /\ qcnt[p] \in Int
  BY RankTypes DEF IInv, RankInv, Control
<1>2. Waiting(p) /\ ~InKnown(p) /\ ip[p] <= Len(prog) /\ NBX_active[p][at[p]] = "unknown"
  BY <1>1 DEF Waiting, InKnown, AtCall
<1>3. \A i \in Slots : i < at[p] => NBX_active[p][i] = "unactive"
  BY <1>1, <1>2 DEF AtCall
<1>4. Unreached(p) = {}
  BY <1>1, <1>2, <1>3 DEF BarrierOrder, Unreached
<1>5. Held(p) \in 1..Len(prog)
  <2>1. slotCall[p][at[p]] \in 0..Len(prog) /\ slotCall[p][at[p]] # 0
    BY <1>1, <1>2, RankTypes DEF IInv, SlotHolds
  <2> QED
    BY <2>1, RankTypes DEF IInv, Held
<1>6. CASE Live(p, at[p])
  <2>1. Entered(p)
    BY <1>1, <1>2, <1>6 DEF Entered
  <2>2. Quiet(p)
    BY <2>1 DEF IInv, RankInv, UnderWay, QuietBehind
  <2> QED
    BY <1>1, <1>2, <1>3, <1>4, <1>5, <1>6, <2>1, <2>2
<1>7. CASE ~Live(p, at[p])
  <2>1. /\ at[p] > qcnt[p]
    BY <1>1, <1>2, <1>7 DEF Live
  <2>2. qcnt[p] = -1 /\ Held(p) \in finished[p]
    BY <1>1, <1>2, <2>1 DEF SlotHolds, Held
  <2>3. ~InSync(p)
    BY <1>1, <2>2 DEF AtCall
  <2>4. \A i \in Slots : ~Live(p, i)
    BY <2>2, UnreachedLive
  <2>5. \A x \in reducing : x.by # p
    BY <1>2 DEF IInv, RankInv, UnderWay, ReductionsHeld
  <2>6. Quiet(p)
    BY <1>2, <2>4, <2>5, NothingQueued DEF Quiet
  <2> QED
    BY <1>1, <1>2, <1>3, <1>4, <1>5, <1>7, <2>2, <2>3, <2>4, <2>6
<1> QED
  BY <1>6, <1>7

LEMMA WaitUnknownStep ==
    ASSUME IInv, Disciplined, NEW p \in Proc, WaitUnknown(p), prog[ip[p]].op # "sync"
    PROVE  IInv'
<1>1. /\ pc[p] = "test" /\ reached[p][at[p]] /\ BarrierComplete(Calls, bar_req[p])
      /\ Free(p)
      /\ bar_req' = [bar_req EXCEPT ![p] = 0]
      /\ NBX_active' = [NBX_active EXCEPT ![p][at[p]] = "unactive"]
      /\ GoOn(p, at[p] + 1)
  BY DEF WaitUnknown, BarrierPassed, Call
<1>2. PICK slot : slot = at[p]
  OBVIOUS
<1>3. PICK c : c = Held(p)
  OBVIOUS
<1>4. /\ Waiting(p) /\ slot \in Slots /\ NBX_active[p][slot] = "unknown"
      /\ ip[p] <= Len(prog)
      /\ c \in 1..Len(prog) /\ c = slotCall[p][slot]
      /\ \A i \in Slots : i < slot => NBX_active[p][i] = "unactive"
      /\ Unreached(p) = {}
      /\ Live(p, slot) => Entered(p)
      /\ ~Live(p, slot) => c \in finished[p] /\ \A i \in Slots : ~Live(p, i)
      /\ Quiet(p)
  BY <1>1, <1>2, <1>3, AtUnknown DEF Held
<1>5. prog[ip[p]].op = "wait" /\ ~InSync(p) /\ Behind(p) = ip[p]
  <2>1. ~InSync(p)
    BY DEF InSync, Call
  <2>2. AtCall(p)
    BY DEF IInv, RankInv, Control
  <2> QED
    BY <1>4, <2>1, <2>2 DEF AtCall, Behind, Call
<1>6. Entered(p) => \A q \in Proc : Len(colls[q]) >= Count(prog, Behind(p))
  BY <1>1, <1>4, SeenByAll
<1>7. bar_req' \in [Proc -> Nat] /\ \A q \in Proc \ {p} : bar_req'[q] = bar_req[q]
  BY <1>1 DEF IInv, TypeOK
<1>8. /\ TypeOK' /\ StepOf(p) /\ RankInv(p)' /\ KeepsBarriers(p)
      /\ finished'[p] = finished[p] \cup {c}
  <2>1. /\ NBX_active' = [NBX_active EXCEPT ![p][slot] = "unactive"]
        /\ GoOn(p, slot + 1) /\ Held(p) \in 1..Len(prog)
    BY <1>1, <1>2, <1>3, <1>4
  <2>2. /\ TypeOK' /\ StepOf(p) /\ RankInv(p)' /\ KeepsBarriers(p)
        /\ finished'[p] = finished[p] \cup {Held(p)}
    BY <1>1, <1>2, <1>4, <1>5, <1>6, <1>7, <2>1, SlotDone
  <2> QED
    BY <1>3, <2>2
<1>9. ASSUME Live(p, slot)
      PROVE  Passed(c)'
  <2>1. /\ c \in DOMAIN prog /\ c < ip[p] /\ prog[c].op = "unknown"
        /\ c \in Nat /\ ip[p] \in Nat
    BY <1>4, <1>5, <1>9, LiveUnknown, RankTypes DEF IInv
  <2>2. ASSUME NEW q \in Proc, NEW i \in Unreached(q), slotCall[q][i] = c
        PROVE  Behind(q) <= Behind(p)
    <3>1. i \in Slots /\ Live(q, i) /\ NBX_active[q][i] = "unknown"
      BY UnreachedLive DEF Unreached
    <3>2. ~InSync(q)
      <4>1. InSync(q) => slotCall[q][i] = ip[q] /\ prog[ip[q]].op = "sync"
        BY <3>1, LiveUnknown DEF InSync, Call
      <4> QED
        BY <2>1, <2>2, <4>1
    <3>3. SameBatch(prog, c, ip[q]) /\ Behind(q) = ip[q] /\ ip[q] \in Nat
      BY <2>2, <3>1, <3>2, LiveUnknown, RankTypes DEF Behind, IInv
    <3>4. ~(ip[p] < ip[q])
      BY <1>5, <2>1, <3>3 DEF SameBatch
    <3> QED
      BY <1>5, <2>1, <3>3, <3>4
  <2>3. Passed(c)
    BY <1>4, <1>5, <1>6, <1>9, <2>1, <2>2, AllPassed DEF Collective
  <2> QED
    BY <1>8, <2>1, <2>3, PassedStays DEF IInv
<1> QED
  BY <1>4, <1>8, <1>9, StepOfRank

LEMMA SyncDoneEffect ==
    ASSUME IInv, NEW p \in Proc, WaitUnknown(p), prog[ip[p]].op = "sync"
    PROVE  /\ pc[p] = "test" /\ reached[p][at[p]] /\ BarrierComplete(Calls, bar_req[p])
           /\ Waiting(p) /\ InSync(p)
           /\ prog' = prog /\ flight' = flight /\ posted' = posted /\ reducing' = reducing
           /\ ip'[p] = ip[p] + 1 /\ pc'[p] = "app" /\ qcnt'[p] = -1
           /\ NBX_active' = NBX_active /\ reached' = reached /\ slotCall' = slotCall
           /\ finished'[p] = finished[p] \cup {Held(p)} /\ colls' = colls
           /\ TypeOK' /\ StepOf(p)
<1>1. /\ pc[p] = "test" /\ reached[p][at[p]] /\ BarrierComplete(Calls, bar_req[p])
      /\ bar_req' = [bar_req EXCEPT ![p] = 0]
      /\ pc' = [pc EXCEPT ![p] = "app"]
      /\ qcnt' = [qcnt EXCEPT ![p] = -1]
      /\ ip' = [ip EXCEPT ![p] = ip[p] + 1]
      /\ UNCHANGED <<at, NBX_active>>
      /\ req' = [req EXCEPT ![p] = {}]
      /\ NBX_cnt' = [NBX_cnt EXCEPT ![p] = NextCnt(NBX_cnt[p])]
      /\ finished' = [finished EXCEPT ![p] = finished[p] \cup {Held(p)}]
      /\ UNCHANGED <<prog, cnt_base, reached, rid, slotCall, flight, posted, colls, reducing>>
  BY DEF WaitUnknown, BarrierPassed, Call, Free, NextCall
<1>2. Waiting(p) /\ InSync(p)
  BY <1>1 DEF Waiting, InSync, Call
<1>3. TypeOK'
  <2>1. TypeOK /\ Held(p) \in 1..Len(prog) /\ ip[p] <= Len(prog)
    BY <1>1, AtUnknown DEF IInv
  <2>2. NBX_cnt' \in [Proc -> 0..(nbx_cycle - 1)]
    BY <1>1, <2>1, NextCntType
  <2>3. finished' \in [Proc -> SUBSET (1..Len(prog))]
    BY <1>1, <2>1 DEF TypeOK
  <2>4. ip[p] \in Nat \ {0} /\ Len(prog) \in Nat
    BY RankTypes DEF IInv
  <2>5. ip' \in [Proc -> 1..(Len(prog) + 1)]
    BY <1>1, <2>1, NextCallType DEF IInv
  <2>6. qcnt' \in [Proc -> -1..Len(prog)]
    BY <1>1, <2>1, <2>4 DEF TypeOK
  <2>7. bar_req' \in [Proc -> Nat] /\ pc' \in [Proc -> {"app", "wait", "test", "sizes", "data"}]
    BY <1>1, <2>1 DEF TypeOK
  <2> QED
    BY <1>1, <2>1, <2>2, <2>3, <2>5, <2>6, <2>7 DEF TypeOK
<1>4. StepOf(p)
  <2>1. ASSUME NEW q \in Proc \ {p}
        PROVE  SameRank(q)
    BY <1>1, Domains DEF SameRank
  <2>2. Len(colls'[p]) >= Len(colls[p])
    BY <1>1, RankTypes DEF IInv
  <2>3. DOMAIN req' = DOMAIN req
    BY <1>1
  <2> QED
    BY <1>1, <2>1, <2>2, <2>3 DEF StepOf
<1> QED
  BY <1>1, <1>2, <1>3, <1>4, Domains

LEMMA SyncDoneStep ==
    ASSUME IInv, Disciplined, NEW p \in Proc, WaitUnknown(p), prog[ip[p]].op = "sync"
    PROVE  IInv'
<1>1. /\ pc[p] = "test" /\ reached[p][at[p]] /\ BarrierComplete(Calls, bar_req[p])
      /\ Waiting(p) /\ InSync(p)
      /\ prog' = prog /\ flight' = flight /\ posted' = posted /\ reducing' = reducing
      /\ ip'[p] = ip[p] + 1 /\ pc'[p] = "app" /\ qcnt'[p] = -1
      /\ NBX_active' = NBX_active /\ reached' = reached /\ slotCall' = slotCall
      /\ finished'[p] = finished[p] \cup {Held(p)} /\ colls' = colls
      /\ TypeOK' /\ StepOf(p)
  BY SyncDoneEffect
<1>2. /\ ip[p] <= Len(prog) /\ at[p] \in Slots /\ NBX_active[p][at[p]] = "unknown"
      /\ Unreached(p) = {} /\ Live(p, at[p]) /\ Entered(p) /\ Quiet(p)
  BY <1>1, AtUnknown
<1>3. /\ AtCall(p) /\ BarrierOrder(p) /\ \A i \in Slots : SlotHolds(p, i)
      /\ ip[p] \in Nat \ {0} /\ \A i \in Slots : i \in Nat /\ slotCall[p][i] \in Nat
      /\ qcnt[p] \in Int
  BY RankTypes DEF IInv, RankInv, Control
<1>4. /\ Held(p) = ip[p] /\ at[p] = 0 /\ qcnt[p] = 0 /\ ~Pending(prog, ip[p], Queues)
      /\ Behind(p) = ip[p] + 1
  BY <1>1, <1>2, <1>3, LiveUnknown DEF AtCall, Held, Behind
<1>5. ~Waiting(p)' /\ ~InSync(p)' /\ ~InKnown(p)' /\ Behind(p)' = ip[p] + 1
  BY <1>1 DEF Waiting, InSync, InKnown, Behind
<1>6. /\ \A i \in Slots : ~Live(p, i)'
      /\ ~Entered(p)' /\ Unreached(p)' = Unreached(p)
  BY <1>1, <1>3 DEF Live, Entered, Unreached
<1>7. AtCall(p)'
  <2>1. ~Pending(prog, ip[p] + 1, Queues)
    BY <1>3, <1>4, PendingNext DEF Queues
  <2> QED
    BY <1>1, <1>3, <1>5, <2>1 DEF AtCall
<1>8. ASSUME NEW i \in Slots
      PROVE  SlotHolds(p, i)'
  <2>1. SlotHolds(p, i)
    BY <1>3
  <2>2. i # 0 => NBX_active[p][i] = "unactive"
    BY <1>1, <1>3, <1>4, <2>1 DEF SlotHolds, Live
  <2>3. slotCall'[p][i] < ip[p] + 1
    BY <1>1, <1>4, <2>1 DEF SlotHolds
  <2>4. i = 0 => /\ slotCall'[p][i] = ip[p] /\ ip[p] \in finished'[p]
                 /\ NBX_active'[p][i] = "unknown" /\ reached'[p][i]
    BY <1>1, <1>2, <1>4 DEF Held
  <2> QED
    BY <1>1, <1>3, <1>5, <1>6, <2>2, <2>3, <2>4 DEF SlotHolds
<1>9. SlotOrder(p)' /\ BarrierOrder(p)'
  BY <1>1, <1>3, <1>6 DEF SlotOrder, BarrierOrder
<1>10. Counted(p)'
  BY <1>1, <1>4, <1>5, <1>6, CountedStays
<1>11. UnderWay(p)'
  BY <1>1, <1>2, StaysQuiet
<1>12. RankInv(p)'
  BY <1>6, <1>7, <1>8, <1>9, <1>10, <1>11 DEF RankInv, Control, BarrierSeen
<1>13. KeepsBarriers(p)
  BY <1>1, <1>3, <1>4, <1>5 DEF KeepsBarriers
<1>14. PICK c : c = ip[p]
  OBVIOUS
<1>15. Passed(c)'
  <2>1. \A q \in Proc : Len(colls[q]) >= Count(prog, Behind(p))
    BY <1>1, <1>2, SeenByAll
  <2>2. ip[p] \in DOMAIN prog /\ Collective(prog, ip[p])
    BY <1>2, <1>3, <1>4, ProgramType, RankTypes DEF IInv, Collective
  <2>3. ASSUME NEW q \in Proc, NEW i \in Unreached(q), slotCall[q][i] = ip[p]
        PROVE  Behind(q) <= Behind(p)
    <3>1. i \in Slots /\ Live(q, i) /\ NBX_active[q][i] = "unknown"
      BY UnreachedLive DEF Unreached
    <3>2. InSync(q) /\ ip[q] = ip[p]
      BY <2>3, <3>1, LiveUnknown
    <3> QED
      BY <1>3, <1>4, <3>2 DEF Behind
  <2>4. Passed(ip[p])
    BY <1>3, <1>4, <2>1, <2>2, <2>3, AllPassed
  <2> QED
    BY <1>1, <1>3, <1>13, <1>14, <2>4, PassedStays DEF IInv
<1> QED
  <2>1. \A d \in finished'[p] \ finished[p] : d = c
    BY <1>1, <1>4, <1>14
  <2> QED
    BY <1>1, <1>12, <1>13, <1>15, <2>1, StepOfRank

----------------------------------------------------------------------------
(* The blocking calls with known receivers, the reductions and execute.    *)
LEMMA KnownInPlace ==
    ASSUME IInv, NEW p \in Proc, ~Waiting(p), ip[p] <= Len(prog),
           Call(p).op \in {"known_sync", "known_prc_sync"},
           UNCHANGED <<prog, ip, qcnt, NBX_active, reached, slotCall, finished, colls>>,
           pc'[p] \in {"sizes", "data"}
    PROVE  /\ Control(p)' /\ KeepsBarriers(p)
           /\ ~Waiting(p)' /\ InKnown(p)'
           /\ Unreached(p)' = Unreached(p) /\ (Entered(p)' => Entered(p))
<1>1. Control(p) /\ ip[p] \in Nat
  BY RankTypes DEF IInv, RankInv
<1>2. /\ ~Waiting(p)' /\ InKnown(p)' /\ ~InSync(p)' /\ ~InSync(p)
      /\ Behind(p) = ip[p] /\ Behind(p)' = ip[p]
  BY DEF Waiting, InKnown, InSync, Behind
<1>3. \A i \in Slots : Live(p, i)' <=> Live(p, i)
  BY DEF Live
<1>4. AtCall(p)'
  BY <1>1, <1>2 DEF Control, AtCall, Call
<1>5. \A i \in Slots : SlotHolds(p, i)'
  <2> SUFFICES ASSUME NEW i \in Slots
               PROVE  SlotHolds(p, i)'
    OBVIOUS
  <2>1. SlotHolds(p, i)
    BY <1>1 DEF Control
  <2> QED
    BY <1>2, <1>3, <2>1 DEF SlotHolds
<1>6. SlotOrder(p)' /\ BarrierOrder(p)'
  BY <1>1, <1>3 DEF Control, SlotOrder, BarrierOrder
<1>7. Unreached(p)' = Unreached(p) /\ (Entered(p)' => Entered(p))
  BY <1>3 DEF Unreached, Entered
<1>8. Counted(p)'
  BY <1>2, <1>7, CountedStays
<1>9. KeepsBarriers(p)
  BY <1>1, <1>2 DEF KeepsBarriers
<1> QED
  BY <1>2, <1>4, <1>5, <1>6, <1>7, <1>8, <1>9 DEF Control

\* Posting the messages of such a call, for its sizes or its data.
LEMMA KnownPosts ==
    ASSUME IInv, Disciplined, NEW p \in Proc, ~Waiting(p), ip[p] <= Len(prog),
           Call(p).op \in {"known_sync", "known_prc_sync"},
           NEW held, Posts(p, held), held = req[p] \/ Quiet(p),
           UNCHANGED <<prog, ip, at, cnt_base, qcnt, NBX_active, reached, rid, bar_req, slotCall,
                       finished, colls, reducing>>,
           NBX_cnt' \in [Proc -> 0..(nbx_cycle - 1)],
           NEW s \in {"sizes", "data"}, pc' = [pc EXCEPT ![p] = s]
    PROVE  IInv'
<1>1. pc'[p] \in {"sizes", "data"} /\ \A q \in Proc \ {p} : pc'[q] = pc[q]
  BY Domains
<1>2. /\ Control(p)' /\ KeepsBarriers(p)
      /\ ~Waiting(p)' /\ InKnown(p)'
      /\ Unreached(p)' = Unreached(p) /\ (Entered(p)' => Entered(p))
  BY <1>1, KnownInPlace
<1>3. ~Entered(p)
  BY NoneEntered
<1>4. TypeOK'
  <2>1. TypeOK
    BY DEF IInv
  <2>2. /\ \A m \in flight' : m.dst \in Proc /\ m.src \in Proc
        /\ \A w \in posted' : w.dst \in Proc /\ w.src \in Proc
    BY <2>1 DEF TypeOK, Posts
  <2>3. pc' \in [Proc -> {"app", "wait", "test", "sizes", "data"}]
    BY <2>1 DEF TypeOK
  <2> QED
    BY <2>1, <2>2, <2>3 DEF TypeOK
<1>5. StepOf(p)
  <2>1. ASSUME NEW q \in Proc \ {p}
        PROVE  SameRank(q)
    BY <1>1 DEF SameRank, Posts
  <2>2. Len(colls'[p]) >= Len(colls[p])
    BY RankTypes DEF IInv
  <2> QED
    BY <2>1, <2>2 DEF StepOf, Posts
<1>6. UnderWay(p)'
  <2>1. \A i \in Unreached(p) : i \in Unreached(p)' /\ slotCall'[p][i] = slotCall[p][i]
    BY <1>2
  <2> QED
    BY <1>2, <1>3, <2>1, PostsUnderWay
<1>7. RankInv(p)'
  BY <1>2, <1>3, <1>6 DEF RankInv, BarrierSeen
<1> QED
  BY <1>2, <1>4, <1>5, <1>7, StepOfRank

LEMMA StartKnownSyncStep ==
    ASSUME IInv, Disciplined, NEW p \in Proc, StartKnownSync(p)
    PROVE  IInv'
<1>1. /\ pc[p] = "app" /\ ip[p] <= Len(prog)
      /\ Call(p).op \in {"known_sync", "known_prc_sync"}
      /\ \E part, sizes : PostKnown(p, req[p], ip[p], part, NBX_cnt[p], sizes)
      /\ \E s \in {"sizes", "data"} : pc' = [pc EXCEPT ![p] = s]
      /\ UNCHANGED <<prog, ip, at, NBX_cnt, cnt_base, qcnt, NBX_active, reached, rid, bar_req,
                     slotCall, finished, colls, reducing>>
  BY DEF StartKnownSync, Running
<1>2. ~Waiting(p) /\ ip[p] \in 1..Len(prog)
  BY <1>1, RankTypes DEF Waiting, IInv
<1>3. Posts(p, req[p])
  BY <1>1, <1>2, PostKnownEffect
<1>4. NBX_cnt' \in [Proc -> 0..(nbx_cycle - 1)]
  BY <1>1 DEF IInv, TypeOK
<1> QED
  BY <1>1, <1>2, <1>3, <1>4, KnownPosts

LEMMA KnownSyncDataStep ==
    ASSUME IInv, Disciplined, NEW p \in Proc, KnownSyncData(p)
    PROVE  IInv'
<1>1. /\ pc[p] = "sizes" /\ execute(p)
      /\ NBX_cnt' = [NBX_cnt EXCEPT ![p] = NextCnt(NBX_cnt[p])]
      /\ PostKnown(p, {}, ip[p], "data", NBX_cnt'[p], sz_recv_tmp[p].val)
      /\ pc' = [pc EXCEPT ![p] = "data"]
      /\ UNCHANGED <<prog, ip, at, cnt_base, qcnt, NBX_active, reached, rid, bar_req, slotCall,
                     finished, colls, reducing>>
  BY DEF KnownSyncData
<1>2. /\ ~Waiting(p) /\ ip[p] \in 1..Len(prog) /\ ip[p] <= Len(prog)
      /\ Call(p).op \in {"known_sync", "known_prc_sync"}
  <2>1. AtCall(p)
    BY DEF IInv, RankInv, Control
  <2>2. ip[p] <= Len(prog)
    BY <1>1, <2>1 DEF AtCall
  <2>3. Call(p).op \in {"known_sync", "known_prc_sync"}
    BY <1>1, <2>1 DEF AtCall, InKnown
  <2> QED
    BY <1>1, <2>2, <2>3, RankTypes DEF Waiting, IInv
<1>3. Quiet(p) /\ Posts(p, {})
  BY <1>1, <1>2, ExecuteQuiet, PostKnownEffect
<1>4. NBX_cnt' \in [Proc -> 0..(nbx_cycle - 1)]
  BY <1>1, NextCntType DEF IInv
<1> QED
  BY <1>1, <1>2, <1>3, <1>4, KnownPosts

\* After execute the rank goes on with nothing under way.
LEMMA ExecutedMovesOn ==
    ASSUME IInv, NEW p \in Proc, ~Waiting(p), ip[p] <= Len(prog), prog[ip[p]].op \in Executes,
           execute(p), NextCall(p), pc'[p] = "app", \A q \in Proc \ {p} : pc'[q] = pc[q],
           pc' \in [Proc -> {"app", "wait", "test", "sizes", "data"}],
           req' = [req EXCEPT ![p] = {}],
           NBX_cnt' \in [Proc -> 0..(nbx_cycle - 1)],
           finished' \in [Proc -> SUBSET (1..Len(prog))],
           \A q \in Proc \ {p} : finished'[q] = finished[q],
           finished'[p] \in {finished[p], finished[p] \cup {ip[p]}},
           UNCHANGED <<prog, at, cnt_base, qcnt, NBX_active, reached, rid, bar_req, slotCall,
                       flight, posted, colls, reducing>>
    PROVE  IInv'
<1>1. /\ prog[ip[p]].op \notin Queues /\ prog[ip[p]].op # "wait"
      /\ ~Collective(prog, ip[p]) /\ prog[ip[p]].op \notin {"unknown", "sync"}
  BY DEF Executes, Queues, Collective
<1>2. ip' = [ip EXCEPT ![p] = ip[p] + 1] /\ ip'[p] = ip[p] + 1
  BY Domains DEF NextCall
<1>3. /\ ip[p] \in Nat \ {0} /\ Len(prog) \in Nat /\ qcnt[p] \in Int
      /\ ~InSync(p) /\ Behind(p) = ip[p] /\ qcnt[p] < ip[p]
  BY RankTypes, QueuedBefore DEF IInv, InSync, Behind
<1>4. TypeOK'
  <2>1. TypeOK
    BY DEF IInv
  <2>2. ip' \in [Proc -> 1..(Len(prog) + 1)]
    BY <1>2, NextCallType DEF IInv
  <2> QED
    BY <2>1, <2>2 DEF TypeOK
<1>5. StepOf(p)
  <2>1. ASSUME NEW q \in Proc \ {p}
        PROVE  SameRank(q)
    BY <1>2, Domains DEF SameRank
  <2>2. Len(colls'[p]) >= Len(colls[p])
    BY RankTypes DEF IInv
  <2> QED
    BY <2>1, <2>2 DEF StepOf
<1>6. Quiet(p)
  BY ExecuteQuiet
<1>7. qcnt'[p] = -1 <=> ~Pending(prog, ip[p] + 1, Queues)
  BY <1>1, <1>3, QueuedOrNot, PendingNext
<1>8. /\ AtCall(p)' /\ SlotOrder(p)'
      /\ \A i \in Slots : SlotHolds(p, i)'
      /\ ~Waiting(p)'
      /\ Behind(p)' = ip[p] + 1
      /\ \A i \in Slots : Live(p, i)' <=> Live(p, i)
  <2>1. qcnt'[p] \in Int /\ qcnt'[p] < ip[p] + 1 /\ (qcnt[p] = -1 => qcnt'[p] = -1)
    BY <1>3
  <2>2. finished[p] \subseteq finished'[p]
    OBVIOUS
  <2> QED
    BY <1>1, <1>2, <1>7, <2>1, <2>2, ControlMovesOn
<1>9. BarrierOrder(p)' /\ Unreached(p)' = Unreached(p) /\ (Entered(p)' => Entered(p))
  BY <1>2, <1>8, OrderMovesOn
<1>10. Counted(p)'
  BY <1>1, <1>3, <1>8, <1>9, CountedStays
<1>11. UnderWay(p)'
  BY <1>6, StaysQuiet
<1>12. BarrierSeen(p)'
  BY <1>9 DEF IInv, RankInv, BarrierSeen
<1>13. RankInv(p)'
  BY <1>8, <1>9, <1>10, <1>11, <1>12 DEF RankInv, Control
<1>14. KeepsBarriers(p)
  BY <1>3, <1>8 DEF KeepsBarriers
<1> QED
  BY <1>1, <1>4, <1>5, <1>13, <1>14, StepOfRank

LEMMA EndKnownSyncStep ==
    ASSUME IInv, NEW p \in Proc, EndKnownSync(p)
    PROVE  IInv'
<1>1. /\ pc[p] = "data" /\ execute(p)
      /\ NBX_cnt' = [NBX_cnt EXCEPT ![p] = NextCnt(NBX_cnt[p])]
      /\ req' = [req EXCEPT ![p] = {}]
      /\ finished' = [finished EXCEPT ![p] = finished[p] \cup {ip[p]}]
      /\ pc' = [pc EXCEPT ![p] = "app"]
      /\ NextCall(p)
      /\ UNCHANGED <<prog, at, cnt_base, qcnt, NBX_active, reached, rid, bar_req, slotCall,
                     flight, posted, colls, reducing>>
  BY DEF EndKnownSync, mpi
<1>2. ~Waiting(p) /\ ip[p] <= Len(prog) /\ prog[ip[p]].op \in Executes
  <2>1. AtCall(p)
    BY DEF IInv, RankInv, Control
  <2>2. ip[p] <= Len(prog)
    BY <1>1, <2>1 DEF AtCall
  <2>3. Call(p).op \in {"known_sync", "known_prc_sync"}
    BY <1>1, <2>1 DEF AtCall, InKnown
  <2> QED
    BY <1>1, <2>2, <2>3 DEF Waiting, Executes, Call
<1>3. NBX_cnt' \in [Proc -> 0..(nbx_cycle - 1)]
  BY <1>1, NextCntType DEF IInv
<1>4. /\ finished' \in [Proc -> SUBSET (1..Len(prog))]
      /\ \A q \in Proc \ {p} : finished'[q] = finished[q]
      /\ finished'[p] = finished[p] \cup {ip[p]}
  <2>1. ip[p] \in 1..Len(prog)
    BY <1>2, RankTypes DEF IInv
  <2>2. finished \in [Proc -> SUBSET (1..Len(prog))]
    BY DEF IInv, TypeOK
  <2> QED
    BY <1>1, <2>1, <2>2
<1>5. /\ pc'[p] = "app" /\ \A q \in Proc \ {p} : pc'[q] = pc[q]
      /\ pc' \in [Proc -> {"app", "wait", "test", "sizes", "data"}]
  <2>1. pc \in [Proc -> {"app", "wait", "test", "sizes", "data"}]
    BY DEF IInv, TypeOK
  <2> QED
    BY <1>1, <2>1
<1> QED
  BY <1>1, <1>2, <1>3, <1>4, <1>5, ExecutedMovesOn

LEMMA ExecuteStep ==
    ASSUME IInv, NEW p \in Proc, Execute(p)
    PROVE  IInv'
<1>1. /\ pc[p] = "app" /\ ip[p] <= Len(prog) /\ prog[ip[p]].op = "execute"
      /\ execute(p)
      /\ req' = [req EXCEPT ![p] = {}]
      /\ NextCall(p)
      /\ UNCHANGED <<prog, pc, at, NBX_cnt, cnt_base, qcnt, NBX_active, reached, rid, bar_req,
                     slotCall, finished, flight, posted, colls, reducing>>
  BY DEF Execute, Running, Call, mpi
<1>2. ~Waiting(p) /\ prog[ip[p]].op \in Executes
  BY <1>1 DEF Waiting, Executes
<1>3. /\ NBX_cnt' \in [Proc -> 0..(nbx_cycle - 1)]
      /\ finished' \in [Proc -> SUBSET (1..Len(prog))]
      /\ pc' \in [Proc -> {"app", "wait", "test", "sizes", "data"}]
      /\ pc'[p] = "app" /\ \A q \in Proc \ {p} : pc'[q] = pc[q] /\ finished'[q] = finished[q]
      /\ finished'[p] = finished[p]
  BY <1>1 DEF IInv, TypeOK
<1> QED
  BY <1>1, <1>2, <1>3, ExecutedMovesOn

LEMMA ReduceEffect ==
    ASSUME IInv, NEW p \in Proc, Reduce(p)
    PROVE  LET r == [by |-> p, call |-> ip[p], nth |-> Len(colls[p]) + 1] IN
           /\ pc[p] = "app" /\ ip[p] <= Len(prog) /\ prog[ip[p]].op = "reduce"
           /\ UNCHANGED <<prog, pc, at, qcnt, NBX_active, reached, bar_req, slotCall, finished,
                          flight, posted>>
           /\ ip'[p] = ip[p] + 1
           /\ colls'[p] \in Seq({"barrier", "reduce"}) /\ Len(colls'[p]) = Len(colls[p]) + 1
           /\ \A n \in 1..Len(colls[p]) : colls'[p][n] = colls[p][n]
           /\ colls'[p][Len(colls[p]) + 1] = "reduce"
           /\ reducing' = reducing \cup {r}
           /\ req'[p] = req[p] \cup Requests("reduce", {r})
           /\ TypeOK' /\ StepOf(p)
<1> DEFINE r == [by |-> p, call |-> ip[p], nth |-> Len(colls[p]) + 1]
<1>1. /\ pc[p] = "app" /\ ip[p] <= Len(prog) /\ prog[ip[p]].op = "reduce"
      /\ colls' = [colls EXCEPT ![p] = Append(colls[p], "reduce")]
      /\ reducing' = reducing \cup {r}
      /\ req' = [req EXCEPT ![p] = req[p] \cup Requests("reduce", {r})]
      /\ ip' = [ip EXCEPT ![p] = ip[p] + 1]
      /\ UNCHANGED <<prog, pc, at, NBX_cnt, cnt_base, qcnt, NBX_active, reached, rid, bar_req,
                     slotCall, finished, flight, posted>>
  BY DEF Reduce, Running, Call, NextCall
<1>2. r.by = p
  OBVIOUS
<1> HIDE DEF r
<1>3. /\ TypeOK /\ colls[p] \in Seq({"barrier", "reduce"}) /\ Len(colls[p]) \in Nat
      /\ ip[p] \in Nat \ {0} /\ Len(prog) \in Nat
  BY RankTypes DEF IInv
<1>4. PICK s : s = Append(colls[p], "reduce")
  OBVIOUS
<1>5. /\ s \in Seq({"barrier", "reduce"}) /\ Len(s) = Len(colls[p]) + 1
      /\ \A n \in 1..Len(colls[p]) : s[n] = colls[p][n]
      /\ s[Len(colls[p]) + 1] = "reduce"
  <2>1. "reduce" \in {"barrier", "reduce"}
    OBVIOUS
  <2> QED
    BY <1>3, <1>4, <2>1, AppendProperties
<1>6. colls' = [colls EXCEPT ![p] = s] /\ colls'[p] = s
  BY <1>1, <1>4, Domains
<1>7. ip'[p] = ip[p] + 1 /\ req'[p] = req[p] \cup Requests("reduce", {r})
  BY <1>1, Domains
<1>8. TypeOK'
  <2>1. colls' \in [Proc -> Seq({"barrier", "reduce"})]
    BY <1>3, <1>5, <1>6 DEF TypeOK
  <2>2. ip' \in [Proc -> 1..(Len(prog) + 1)]
    BY <1>1, NextCallType DEF IInv
  <2> QED
    BY <1>1, <1>3, <2>1, <2>2 DEF TypeOK
<1>9. StepOf(p)
  <2>1. ASSUME NEW q \in Proc \ {p}
        PROVE  SameRank(q)
    BY <1>1, <1>6, Domains DEF SameRank
  <2>2. Len(colls'[p]) >= Len(colls[p])
    BY <1>3, <1>5, <1>6
  <2>3. DOMAIN req' = DOMAIN req /\ \A x \in reducing' : x.by # p => x \in reducing
    BY <1>1, <1>2
  <2> QED
    BY <1>1, <2>1, <2>2, <2>3 DEF StepOf
<1> QED
  BY <1>1, <1>5, <1>6, <1>7, <1>8, <1>9 DEF r

LEMMA ReduceStep ==
    ASSUME IInv, Disciplined, NEW p \in Proc, Reduce(p)
    PROVE  IInv'
<1>0. PICK r : r = [by |-> p, call |-> ip[p], nth |-> Len(colls[p]) + 1]
  OBVIOUS
<1>1. /\ pc[p] = "app" /\ ip[p] <= Len(prog) /\ prog[ip[p]].op = "reduce"
      /\ UNCHANGED <<prog, pc, at, qcnt, NBX_active, reached, bar_req, slotCall, finished,
                     flight, posted>>
      /\ ip'[p] = ip[p] + 1
      /\ colls'[p] \in Seq({"barrier", "reduce"}) /\ Len(colls'[p]) = Len(colls[p]) + 1
      /\ \A n \in 1..Len(colls[p]) : colls'[p][n] = colls[p][n]
      /\ colls'[p][Len(colls[p]) + 1] = "reduce"
      /\ reducing' = reducing \cup {r}
      /\ req'[p] = req[p] \cup Requests("reduce", {r})
      /\ TypeOK' /\ StepOf(p)
  BY <1>0, ReduceEffect
<1>2. r.by = p /\ r.call = ip[p]
  BY <1>0
<1>3. ~Waiting(p) /\ ~InSync(p) /\ ~InKnown(p) /\ Behind(p) = ip[p]
  BY <1>1 DEF Waiting, InSync, InKnown, Behind
<1>4. /\ ip[p] \in Nat \ {0} /\ Len(prog) \in Nat /\ qcnt[p] \in Int /\ qcnt[p] < ip[p]
      /\ colls[p] \in Seq({"barrier", "reduce"}) /\ Len(colls[p]) \in Nat
      /\ ip[p] \in DOMAIN prog
  BY <1>1, RankTypes, QueuedBefore, ProgramType DEF IInv
<1>5. /\ AtCall(p)' /\ SlotOrder(p)'
      /\ \A i \in Slots : SlotHolds(p, i)'
      /\ ~Waiting(p)' /\ ~InKnown(p)'
      /\ Behind(p)' = ip[p] + 1
      /\ \A i \in Slots : Live(p, i)' <=> Live(p, i)
  <2>1. qcnt'[p] = -1 <=> ~Pending(prog, ip[p] + 1, Queues)
    <3>1. prog[ip[p]].op \notin Queues /\ prog[ip[p]].op # "wait"
      BY <1>1 DEF Queues
    <3> QED
      BY <1>1, <1>3, <1>4, <3>1, QueuedOrNot, PendingNext
  <2>2. qcnt'[p] \in Int /\ qcnt'[p] < ip[p] + 1 /\ (qcnt[p] = -1 => qcnt'[p] = -1)
    BY <1>1, <1>4
  <2>3. prog[ip[p]].op # "wait" /\ pc'[p] = "app"
    BY <1>1
  <2> QED
    BY <1>1, <1>3, <2>1, <2>2, <2>3, ControlMovesOn
<1>6. BarrierOrder(p)' /\ Unreached(p)' = Unreached(p) /\ (Entered(p)' => Entered(p))
  BY <1>1, <1>3, <1>5, OrderMovesOn
<1>7. ~Entered(p)
  BY <1>1, <1>3, NoneEntered DEF Call
<1>8. Unreached(p) = {}
  <2> SUFFICES ASSUME NEW i \in Unreached(p)
               PROVE  FALSE
    OBVIOUS
  <2>1. i \in Slots /\ Live(p, i) /\ NBX_active[p][i] = "unknown"
    BY UnreachedLive DEF Unreached
  <2>2. /\ slotCall[p][i] \in DOMAIN prog /\ prog[slotCall[p][i]].op = "unknown"
        /\ slotCall[p][i] < ip[p] /\ SameBatch(prog, slotCall[p][i], ip[p])
    BY <1>3, <2>1, LiveUnknown
  <2>3. slotCall[p][i] \in 1..(ip[p] - 1)
    BY <1>4, <2>2, ProgramType DEF IInv
  <2>4. Pending(prog, ip[p], {"unknown"})
    BY <2>2, <2>3 DEF Pending
  <2>5. ReduceAlone(prog)
    BY ProgramDisciplined DEF IInv
  <2> QED
    BY <1>1, <1>4, <2>4, <2>5 DEF ReduceAlone
<1>9. Counted(p)'
  <2>1. Counted(p)
    BY DEF IInv, RankInv, Control
  <2>2. Cardinality(Unreached(p)) = 0
    BY <1>8, FS_EmptySet
  <2>3. Collective(prog, ip[p])
    BY <1>1 DEF Collective
  <2>4. Len(colls[p]) = Count(prog, ip[p]) /\ Count(prog, ip[p] + 1) = Count(prog, ip[p]) + 1
    BY <1>3, <1>4, <2>1, <2>2, <2>3, CountNext DEF Counted
  <2>5. Len(colls'[p]) + Cardinality(Unreached(p)') = Count(prog', Behind(p)')
    BY <1>1, <1>4, <1>5, <1>6, <2>2, <2>4
  <2>6. ASSUME NEW c \in 1..(Behind(p)' - 1), prog[c].op = "reduce"
        PROVE  Count(prog, c) < Len(colls'[p])
    <3>1. c \in Nat \ {0} /\ c <= ip[p]
      BY <1>4, <1>5
    <3>2. Count(prog, c) <= Count(prog, ip[p]) /\ Count(prog, c) \in Nat
      BY <1>4, <3>1, CountGrows, CountType
    <3> QED
      BY <1>1, <1>4, <2>4, <3>2
  <2>7. ASSUME NEW n \in DOMAIN colls'[p], NEW c \in DOMAIN prog, Collective(prog, c),
               Count(prog, c) + 1 = n
        PROVE  colls'[p][n] = IF prog[c].op = "reduce" THEN "reduce" ELSE "barrier"
    <3>1. n \in 1..(Len(colls[p]) + 1)
      BY <1>1, LenProperties
    <3>2. CASE n \in 1..Len(colls[p])
      <4>1. n \in DOMAIN colls[p]
        BY <1>4, <3>2, LenProperties
      <4> QED
        BY <1>1, <2>1, <2>7, <3>2, <4>1 DEF Counted
    <3>3. CASE n = Len(colls[p]) + 1
      <4>1. c \in Nat \ {0}
        BY ProgramType DEF IInv
      <4>2. Count(prog, c) = Count(prog, ip[p]) /\ Count(prog, c) \in Nat
        BY <1>4, <2>4, <2>7, <3>3, <4>1, CountType
      <4>3. ~(c < ip[p]) /\ ~(ip[p] < c)
        BY <1>4, <2>3, <2>7, <4>1, <4>2, CountOrders
      <4>4. c = ip[p]
        BY <1>4, <4>1, <4>3
      <4> QED
        BY <1>1, <3>3, <4>4
    <3> QED
      BY <1>4, <3>1, <3>2, <3>3
  <2> QED
    BY <1>1, <2>5, <2>6, <2>7 DEF Counted
<1>10. UnderWay(p)'
  <2>1. UnderWay(p)
    BY DEF IInv, RankInv
  <2>2. SendsHeld(p)'
    BY <1>1, <1>8, <2>1 DEF UnderWay, SendsHeld
  <2>3. ReceivesHeld(p)'
    <3> SUFFICES ASSUME NEW w \in posted, w.dst = p
                 PROVE  /\ [op |-> "irecv", of |-> w] \in req'[p]
                        /\ \E i \in Slots : Live(p, i)' /\ NBX_active'[p][i] # "unknown"
      BY <1>1 DEF ReceivesHeld
    <3>1. /\ [op |-> "irecv", of |-> w] \in req[p]
          /\ \E i \in Slots : Live(p, i) /\ NBX_active[p][i] # "unknown"
      BY <1>3, <2>1 DEF UnderWay, ReceivesHeld
    <3> QED
      BY <1>1, <1>5, <3>1
  <2>4. ReductionsHeld(p)'
    <3> SUFFICES ASSUME NEW x \in reducing', x.by = p
                 PROVE  /\ [op |-> "reduce", of |-> x] \in req'[p]
                        /\ x.call \in 1..(ip'[p] - 1) /\ prog[x.call].op = "reduce"
                        /\ \A e \in (x.call + 1)..(ip'[p] - 1) : prog[e].op \notin Executes
      BY <1>1, <1>5 DEF ReductionsHeld
    <3>1. CASE x = r
      <4>1. [op |-> "reduce", of |-> x] \in req'[p]
        BY <1>1, <3>1 DEF Requests
      <4> QED
        BY <1>1, <1>2, <1>4, <3>1, <4>1
    <3>2. CASE x \in reducing
      <4>1. /\ [op |-> "reduce", of |-> x] \in req[p]
            /\ x.call \in 1..(ip[p] - 1) /\ prog[x.call].op = "reduce"
            /\ \A e \in (x.call + 1)..(ip[p] - 1) : prog[e].op \notin Executes
        BY <2>1, <3>2 DEF UnderWay, ReductionsHeld
      <4>2. prog[ip[p]].op \notin Executes
        BY <1>1 DEF Executes
      <4> QED
        BY <1>1, <1>4, <4>1, <4>2
    <3> QED
      BY <1>1, <3>1, <3>2
  <2> QED
    BY <1>6, <1>7, <2>2, <2>3, <2>4 DEF UnderWay, QuietBehind
<1>11. RankInv(p)'
  BY <1>5, <1>6, <1>7, <1>9, <1>10 DEF RankInv, Control, BarrierSeen
<1>12. KeepsBarriers(p)
  BY <1>1, <1>3, <1>4, <1>5 DEF KeepsBarriers
<1> QED
  BY <1>1, <1>11, <1>12, StepOfRank

----------------------------------------------------------------------------
(* The steps of MPI, and the beginning.                                    *)
LEMMA Shrinks ==
    ASSUME IInv, TypeOK', prog' = prog, \A q \in Proc : SameRank(q), DOMAIN req' = DOMAIN req,
           flight' \subseteq flight, posted' \subseteq posted, reducing' \subseteq reducing
    PROVE  IInv'
<1>1. ASSUME NEW q \in Proc
      PROVE  /\ Waiting(q)' = Waiting(q) /\ InKnown(q)' = InKnown(q)
             /\ Behind(q)' = Behind(q) /\ Unreached(q)' = Unreached(q)
             /\ Entered(q)' = Entered(q)
             /\ \A i \in Slots : Live(q, i)' = Live(q, i)
  BY SameWhereabouts
<1>2. ASSUME NEW q \in Proc
      PROVE  RankInv(q)'
  <2>1. Control(q)'
    BY SameControl DEF IInv, RankInv
  <2>2. /\ ip'[q] = ip[q] /\ req'[q] = req[q] /\ slotCall'[q] = slotCall[q]
        /\ NBX_active'[q] = NBX_active[q] /\ bar_req'[q] = bar_req[q]
        /\ \A r \in Proc : colls'[r] = colls[r]
    BY DEF SameRank
  <2>3. ~Waiting(q)' \/ \A x \in reducing : x.by # q
    BY <1>1 DEF IInv, RankInv, UnderWay, ReductionsHeld
  <2>4. \/ InKnown(q)'
        \/ /\ ~InKnown(q)
           /\ \A i \in Slots : Live(q, i) /\ NBX_active[q][i] # "unknown"
                                 => Live(q, i)' /\ NBX_active'[q][i] # "unknown"
    BY <1>1, <2>2
  <2>5. \A i \in Unreached(q) : i \in Unreached(q)' /\ slotCall'[q][i] = slotCall[q][i]
    BY <1>1, <2>2
  <2>6. Entered(q)' => Entered(q)
    BY <1>1
  <2>7. UnderWay(q)'
    BY <2>2, <2>3, <2>4, <2>5, <2>6, UnderWayStays
  <2>8. BarrierSeen(q)'
    <3>1. BarrierSeen(q)
      BY DEF IInv, RankInv
    <3> QED
      BY <1>1, <2>2, <3>1, Zenon DEF BarrierSeen
  <2> QED
    BY <2>1, <2>7, <2>8 DEF RankInv
<1>3. Completed'
  <2> SUFFICES ASSUME NEW p \in Proc, NEW c \in finished'[p],
                      prog'[c].op \in {"unknown", "sync"}, NEW q \in Proc
               PROVE  /\ c < Behind(q)'
                      /\ \A i \in Slots :
                           slotCall'[q][i] = c /\ NBX_active'[q][i] = "unknown" => reached'[q][i]
    BY Zenon DEF Completed, Passed
  <2>1. finished'[p] = finished[p] /\ SameRank(q)
    BY DEF SameRank
  <2>2. Passed(c)
    BY <2>1 DEF IInv, Completed
  <2>3. c < Behind(q) /\ Behind(q)' = Behind(q)
    BY <1>1, <2>2 DEF Passed
  <2>4. \A i \in Slots : slotCall[q][i] = c /\ NBX_active[q][i] = "unknown" => reached[q][i]
    BY <2>2 DEF Passed
  <2>5. /\ slotCall'[q] = slotCall[q] /\ NBX_active'[q] = NBX_active[q]
        /\ reached'[q] = reached[q]
    BY <2>1 DEF SameRank
  <2> QED
    BY <2>3, <2>4, <2>5
<1> QED
  BY <1>2, <1>3 DEF IInv

LEMMA MatchStep ==
    ASSUME IInv, NEW r \in posted, NEW m \in flight, Match(r, m)
    PROVE  IInv'
<1>1. /\ flight' \subseteq flight /\ posted' \subseteq posted
      /\ UNCHANGED <<prog, ip, pc, at, NBX_cnt, cnt_base, qcnt, NBX_active, reached,
                     rid, bar_req, req, slotCall, finished, colls, reducing>>
  BY DEF Match
<1>2. TypeOK'
  BY <1>1 DEF IInv, TypeOK
<1>3. \A q \in Proc : SameRank(q)
  BY <1>1 DEF SameRank
<1> QED
  BY <1>1, <1>2, <1>3, Shrinks

LEMMA DeliverStep ==
    ASSUME IInv, NEW r \in reducing, Deliver(r)
    PROVE  IInv'
<1>1. /\ reducing' \subseteq reducing
      /\ UNCHANGED <<prog, ip, pc, at, NBX_cnt, cnt_base, qcnt, NBX_active, reached,
                     rid, bar_req, req, slotCall, finished, colls, flight, posted>>
  BY DEF Deliver, rank
<1>2. TypeOK'
  BY <1>1 DEF IInv, TypeOK
<1>3. \A q \in Proc : SameRank(q)
  BY <1>1 DEF SameRank
<1> QED
  BY <1>1, <1>2, <1>3, Shrinks

LEMMA StutterStep ==
    ASSUME IInv, UNCHANGED vars
    PROVE  IInv'
<1>1. UNCHANGED <<prog, ip, pc, at, NBX_cnt, cnt_base, qcnt, NBX_active, reached,
                  rid, bar_req, req, slotCall, finished, colls, flight, posted, reducing>>
  BY DEF vars, rank, mpi
<1>2. TypeOK'
  BY <1>1 DEF IInv, TypeOK
<1>3. \A q \in Proc : SameRank(q)
  BY <1>1 DEF SameRank
<1> QED
  BY <1>1, <1>2, <1>3, Shrinks

LEMMA InitTypes ==
    ASSUME Init
    PROVE  TypeOK
<1>1. prog \in Programs
  BY DEF Init
<1>2. Len(prog) \in Nat /\ 0 \in Slots /\ nbx_cycle \in Nat \ {0}
  BY <1>1, ProgramType, SlotsAreNat, QueueAssumption
<1>3. 1 \in 1..(Len(prog) + 1) /\ -1 \in -1..Len(prog) /\ 0 \in 0..(nbx_cycle - 1)
      /\ 0 \in 0..Len(prog)
  BY <1>2
<1>4. <<>> \in Seq({"barrier", "reduce"})
  OBVIOUS
<1>5. /\ ip \in [Proc -> 1..(Len(prog) + 1)]
      /\ pc \in [Proc -> {"app", "wait", "test", "sizes", "data"}]
      /\ at \in [Proc -> Slots]
      /\ NBX_cnt \in [Proc -> 0..(nbx_cycle - 1)]
      /\ cnt_base \in [Proc -> 0..(nbx_cycle - 1)]
      /\ qcnt \in [Proc -> -1..Len(prog)]
  BY <1>2, <1>3 DEF Init
<1>6. /\ NBX_active \in [Proc -> [Slots -> Kinds]]
      /\ reached \in [Proc -> [Slots -> BOOLEAN]]
      /\ rid \in [Proc -> [Slots -> Nat]]
      /\ slotCall \in [Proc -> [Slots -> 0..Len(prog)]]
  BY <1>3 DEF Init, Kinds
<1>7. /\ finished \in [Proc -> SUBSET (1..Len(prog))]
      /\ bar_req \in [Proc -> Nat]
      /\ colls \in [Proc -> Seq({"barrier", "reduce"})]
      /\ flight = {} /\ posted = {}
  BY <1>4 DEF Init
<1> QED
  BY <1>5, <1>6, <1>7 DEF TypeOK

LEMMA InitInv ==
    ASSUME Init
    PROVE  IInv
<1>1. TypeOK /\ prog \in Programs /\ DOMAIN req = Proc
  BY InitTypes DEF Init
<1>2. Len(prog) \in Nat /\ \A i \in Slots : i \in Nat
  BY <1>1, ProgramType, SlotsAreNat
<1>3. ASSUME NEW p \in Proc
      PROVE  RankInv(p)
  <2>1. /\ ip[p] = 1 /\ pc[p] = "app" /\ qcnt[p] = -1 /\ finished[p] = {}
        /\ colls[p] = <<>> /\ flight = {} /\ posted = {} /\ reducing = {}
    BY DEF Init
  <2>2. \A i \in Slots : /\ NBX_active[p][i] = "unactive" /\ slotCall[p][i] = 0
    BY DEF Init
  <2>3. ~Waiting(p) /\ ~InSync(p) /\ ~InKnown(p) /\ Behind(p) = 1
    BY <2>1 DEF Waiting, InSync, InKnown, Behind
  <2>4. /\ \A i \in Slots : ~Live(p, i)
        /\ ~Entered(p) /\ Unreached(p) = {}
    BY <2>2 DEF Live, Entered, Unreached
  <2>5. AtCall(p)
    <3>1. ~Pending(prog, 1, Queues)
      BY DEF Pending
    <3> QED
      BY <2>1, <2>3, <3>1 DEF AtCall
  <2>6. \A i \in Slots : SlotHolds(p, i)
    BY <2>2, <2>3, <2>4 DEF SlotHolds
  <2>7. SlotOrder(p) /\ BarrierOrder(p)
    BY <2>2, <2>4 DEF SlotOrder, BarrierOrder
  <2>8. Counted(p)
    <3>1. CollectivesBefore(prog, 1) = {}
      BY DEF CollectivesBefore
    <3>2. Count(prog, 1) = 0 /\ Cardinality(Unreached(p)) = 0
      BY <2>4, <3>1, FS_EmptySet DEF Count
    <3>3. Len(colls[p]) = 0 /\ DOMAIN colls[p] = {}
      BY <2>1
    <3> QED
      BY <2>3, <3>2, <3>3 DEF Counted
  <2>9. UnderWay(p)
    BY <2>1, <2>4 DEF UnderWay, SendsHeld, ReceivesHeld, ReductionsHeld, QuietBehind
  <2> QED
    BY <2>4, <2>5, <2>6, <2>7, <2>8, <2>9 DEF RankInv, Control, BarrierSeen
<1>4. Completed
  BY DEF Init, Completed
<1>5. reducing = {}
  BY DEF Init
<1> QED
  BY <1>1, <1>3, <1>4, <1>5 DEF IInv

----------------------------------------------------------------------------
(* The theorems.                                                           *)

LEMMA StepInv ==
    ASSUME IInv, Disciplined, NEW p \in Proc, Step(p)
    PROVE  IInv'
<1>1. CASE QueueUnknown(p) \/ QueueKnown(p) \/ Refused(p) \/ UserProgress(p)
  BY <1>1, QueueUnknownStep, QueueKnownStep, RefusedStep, UserProgressStep
<1>2. CASE Wait(p) \/ WaitSizes(p) \/ WaitKnown(p)
  BY <1>2, WaitStep, WaitSizesStep, WaitKnownStep
<1>3. CASE WaitProgress(p) \/ WaitUnknown(p) \/ WaitAgain(p)
  BY <1>3, WaitProgressStep, WaitUnknownStep, SyncDoneStep, WaitAgainStep
<1>4. CASE StartKnownSync(p) \/ KnownSyncData(p) \/ EndKnownSync(p)
  BY <1>4, StartKnownSyncStep, KnownSyncDataStep, EndKnownSyncStep
<1>5. CASE Reduce(p) \/ Execute(p)
  BY <1>5, ReduceStep, ExecuteStep
<1> QED
  BY <1>1, <1>2, <1>3, <1>4, <1>5 DEF Step

LEMMA NextInv ==
    ASSUME IInv, Disciplined, [Next]_vars
    PROVE  IInv'
<1>1. ASSUME NEW p \in Proc, Step(p)
      PROVE  IInv'
  BY <1>1, StepInv
<1>2. ASSUME NEW r \in posted, NEW m \in flight, Match(r, m)
      PROVE  IInv'
  BY <1>2, MatchStep
<1>3. ASSUME NEW r \in reducing, Deliver(r)
      PROVE  IInv'
  BY <1>3, DeliverStep
<1>4. CASE Finished \/ UNCHANGED vars
  BY <1>4, StutterStep DEF Finished
<1> QED
  BY <1>1, <1>2, <1>3, <1>4 DEF Next

(* The inductive invariant holds, whatever the number of ranks and slots   *)
(* and whatever the disciplined program: where a rank is, what its slots   *)
(* and requests hold and how many collective calls it made agree in every  *)
(* state of the queue of VCluster_base.                                    *)
THEOREM Invariant ==
    ASSUME Disciplined
    PROVE  Spec => []IInv
<1>1. Init => IInv
  BY InitInv
<1>2. IInv /\ [Next]_vars => IInv'
  BY NextInv
<1> QED
  BY <1>1, <1>2, PTL DEF Spec

(* The state keeps its types: NBX_prc_qcnt, the slots, the counters of     *)
(* exchanges and the positions in the program stay in their ranges.        *)
THEOREM TypeCorrect ==
    ASSUME Disciplined
    PROVE  Spec => []TypeOK
<1>1. IInv => TypeOK
  BY DEF IInv
<1> QED
  BY <1>1, Invariant, PTL

(* "when all the processor call MPI_Ibarrier all send has been received":  *)
(* once a rank has completed a call of the barrier protocol, no message of *)
(* that call is in flight anywhere, with several calls queued on one       *)
(* request vector and one barrier request.                                 *)
THEOREM SendsReceived ==
    ASSUME Disciplined
    PROVE  Spec => []QueueSendsReceived
<1>1. IInv => QueueSendsReceived
  <2> SUFFICES ASSUME IInv, NEW m \in flight, m.cls = "sparse", NEW p \in Proc, m.call \in finished[p]
               PROVE  FALSE
    BY DEF QueueSendsReceived
  <2>1. PICK q \in Proc : q = m.src
    BY DEF IInv, TypeOK
  <2>2. PICK i \in Unreached(q) : slotCall[q][i] = m.call
    BY <2>1 DEF IInv, RankInv, UnderWay, SendsHeld
  <2>3. i \in Slots /\ Live(q, i) /\ NBX_active[q][i] = "unknown" /\ ~reached[q][i]
    BY UnreachedLive DEF Unreached
  <2>4. prog[m.call].op \in {"unknown", "sync"}
    BY <2>2, <2>3, LiveUnknown DEF InSync, Call
  <2>5. Passed(m.call)
    BY <2>4 DEF IInv, Completed
  <2> QED
    BY <2>2, <2>3, <2>5 DEF Passed
<1> QED
  BY <1>1, Invariant, PTL

(* Every synchronous send not yet received, every posted receive and every *)
(* reduction under way has its request in the vector that the Wait empties *)
(* after each slot, and that queue_all_sends empties for the first slot.   *)
THEOREM RequestsKept ==
    ASSUME Disciplined
    PROVE  Spec => []NoRequestForgotten
<1>1. IInv => NoRequestForgotten
  <2> SUFFICES ASSUME IInv
               PROVE  NoRequestForgotten
    OBVIOUS
  <2>1. ASSUME NEW m \in flight, m.cls = "sparse"
        PROVE  \E r \in req[m.src] : r.op = "issend" /\ r.of = m
    <3>1. m.src \in Proc
      BY DEF IInv, TypeOK
    <3>2. [op |-> "issend", of |-> m] \in req[m.src]
      BY <2>1, <3>1 DEF IInv, RankInv, UnderWay, SendsHeld
    <3> QED
      BY <3>2
  <2>2. ASSUME NEW w \in posted
        PROVE  \E r \in req[w.dst] : r.op = "irecv" /\ r.of = w
    <3>1. w.dst \in Proc
      BY DEF IInv, TypeOK
    <3>2. [op |-> "irecv", of |-> w] \in req[w.dst]
      BY <3>1 DEF IInv, RankInv, UnderWay, ReceivesHeld
    <3> QED
      BY <3>2
  <2>3. ASSUME NEW x \in reducing
        PROVE  \E r \in req[x.by] : r.op = "reduce" /\ r.of = x
    <3>1. x.by \in Proc
      BY DEF IInv
    <3>2. [op |-> "reduce", of |-> x] \in req[x.by]
      BY <3>1 DEF IInv, RankInv, UnderWay, ReductionsHeld
    <3> QED
      BY <3>2
  <2> QED
    BY <2>1, <2>2, <2>3 DEF NoRequestForgotten
<1> QED
  BY <1>1, Invariant, PTL

(* All ranks make their collective calls in one order, although a barrier  *)
(* is entered inside progressCommunication, some time after its call: the  *)
(* n-th of a rank belongs to the n-th call of the program that makes one.  *)
THEOREM CollectivesInOrder ==
    ASSUME Disciplined
    PROVE  Spec => []CollectivesMatch
<1>1. IInv => CollectivesMatch
  <2> SUFFICES ASSUME IInv, NEW p \in Proc, NEW q \in Proc,
                      NEW n \in DOMAIN colls[p] \cap DOMAIN colls[q]
               PROVE  colls[p][n] = colls[q][n]
    BY DEF CollectivesMatch
  <2>1. Counted(p) /\ Counted(q) /\ AtCall(p)
    BY DEF IInv, RankInv, Control
  <2>2. /\ Len(prog) \in Nat /\ ip[p] \in Nat \ {0} /\ ip[p] <= Len(prog) + 1
        /\ Behind(p) \in Nat \ {0}
        /\ colls[p] \in Seq({"barrier", "reduce"}) /\ Len(colls[p]) \in Nat
        /\ Cardinality(Unreached(p)) \in Nat
    BY RankTypes, UnreachedLive DEF IInv
  <2>3. Behind(p) - 1 <= Len(prog)
    BY <2>1, <2>2 DEF AtCall, Behind, InSync, Waiting
  <2>4. n \in 1..Len(colls[p])
    BY <2>2, LenProperties
  <2>5. n \in 1..Count(prog, Behind(p))
    BY <2>1, <2>2, <2>4, CountType DEF Counted
  <2>6. PICK c \in 1..(Behind(p) - 1) : Collective(prog, c) /\ Count(prog, c) + 1 = n
    BY <2>2, <2>5, CountReaches
  <2>7. c \in DOMAIN prog
    BY <2>2, <2>3, ProgramType DEF IInv
  <2> QED
    BY <2>1, <2>6, <2>7 DEF Counted
<1> QED
  BY <1>1, Invariant, PTL

(* Whoever is past execute has the results of the reductions before it.    *)
THEOREM ReductionsDone ==
    ASSUME Disciplined
    PROVE  Spec => []ReductionsExecuted
<1>1. IInv => ReductionsExecuted
  <2> SUFFICES ASSUME IInv, NEW r \in reducing, NEW e \in DOMAIN prog,
                      prog[e].op = "execute", e > r.call
               PROVE  ip[r.by] <= e
    BY DEF ReductionsExecuted
  <2>1. r.by \in Proc
    BY DEF IInv
  <2>2. /\ r.call \in 1..(ip[r.by] - 1)
        /\ \A d \in (r.call + 1)..(ip[r.by] - 1) : prog[d].op \notin Executes
    BY <2>1 DEF IInv, RankInv, UnderWay, ReductionsHeld
  <2>3. ip[r.by] \in Nat /\ e \in Nat
    BY <2>1, RankTypes, ProgramType DEF IInv
  <2> QED
    BY <2>2, <2>3 DEF Executes
<1> QED
  BY <1>1, Invariant, PTL
=============================================================================
