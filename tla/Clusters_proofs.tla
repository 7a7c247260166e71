--------------------------- MODULE Clusters_proofs ---------------------------
(***************************************************************************)
(* Theorems about Clusters: several objects on one communicator, for every *)
(* number of ranks, every nbx_cycle of at least two and every program that *)
(* is Disciplined.                                                         *)
(*                                                                         *)
(* The argument.  What a rank has made, used and destroyed, the counter of *)
(* each object and the number of its collective calls are functions of the *)
(* step of the program it is at.  A rank passes a collective call when all *)
(* ranks have made it, so a rank that receives is at the sender's step, or *)
(* at an earlier exchange with no collective call between; then objects    *)
(* differ, and with the discipline counters do.                            *)
(***************************************************************************)
EXTENDS Clusters, NBX_proofs

----------------------------------------------------------------------------
(* Counts of steps.                                                        *)

\* Elements of T before step i.
Upto(T, i) == Cardinality(T \cap (1..(i - 1)))

\* Collective calls, and exchanges, before step i.
Before(pr, i) ==
    Upto({a \in DOMAIN pr.steps : Collectives(pr, a) >= 1}, i)
    + Upto({a \in DOMAIN pr.steps : Collectives(pr, a) >= 2}, i)
Exchanges(pr, i) == Upto({a \in DOMAIN pr.steps : pr.steps[a].op = "exchange"}, i)

----------------------------------------------------------------------------
(* The invariant: one rank.                                                *)

Steps == DOMAIN prog.steps
AtOp(p, op) == ip[p] \in Steps /\ Step(p).op = op

\* In openfpm_init, before it set ofp_initialized; objects it has made.
Initialising(p) == AtOp(p, "init") /\ ~ofp_initialized[p]
Made(p) == IF Initialising(p) THEN Cardinality(pointers[p]) ELSE 0

\* Where the rank is in its step.
AtStep(p) ==
    /\ Inside(p) => waiting[p] = "no" /\ AtOp(p, "exchange") /\ cur[p] = Step(p).obj
    /\ waiting[p] = "barrier" => AtOp(p, "barrier")
    /\ waiting[p] \in Object =>
          /\ waiting[p] \notin alive[p]
          /\ \/ AtOp(p, "create") /\ Step(p).obj = waiting[p]
             \/ /\ Initialising(p) /\ waiting[p] \in Global \ pointers[p]
                /\ waiting[p] = "cuda" => "heap" \in pointers[p]

\* openfpm_finalize was called.
Finalized(pr, i) == \E a \in 1..(i - 1) : pr.steps[a].op = "finalize"

\* The objects are those of the program's step.
ObjectsThere(p) ==
    /\ "own" \in alive[p] <=> Exists(prog, "own", ip[p])
    /\ ofp_initialized[p] <=> Exists(prog, "heap", ip[p])
    /\ ofp_initialized[p] => Global \subseteq alive[p] /\ pointers[p] = Global
    /\ ~ofp_initialized[p] /\ Finalized(prog, ip[p]) => alive[p] \cap Global = {}
    /\ ~ofp_initialized[p] /\ ~Finalized(prog, ip[p]) =>
          /\ pointers[p] = alive[p] \cap Global
          /\ "cuda" \in pointers[p] => "heap" \in pointers[p]
          /\ pointers[p] # {} => Initialising(p)

\* n_vcluster counts them and the one under construction.
Held(p) == alive[p] \cup ({waiting[p]} \cap Object)
ObjectsCounted(p) == n_vcluster[p] = Cardinality(Held(p))

\* MPI is there from the first object to the last.
LibraryState(p) ==
    /\ mpi[p] = "none" => n_vcluster[p] = 0
    /\ mpi[p] = "finalized" => n_vcluster[p] = 0 /\ Over(prog, ip[p])
    /\ ~prog.world => mpi[p] = "up"
    /\ prog.world /\ mpi[p] = "up" => n_vcluster[p] > 0

\* Every object's counter is that of the program's step.
CounterOf(p, o) == IF cur[p] = o THEN NBX_cnt[p] ELSE cnt[p][o]
Counters(p) == \A o \in alive[p] : CounterOf(p, o) = CounterAt(prog, o, ip[p])

\* In a collective call; those the rank has seen complete.
Open(p) == waiting[p] # "no" \/ (Inside(p) /\ reached_bar_req[p])
Seen(p) == IF Open(p) THEN barriers[p] - 1 ELSE barriers[p]

CallsCounted(p) ==
    /\ done[p] = Exchanges(prog, ip[p])
    /\ Seen(p) = Before(prog, ip[p]) + Made(p)
    /\ Inside(p) /\ reached_bar_req[p] => bar_req[p] = barriers[p]

RankInv(p) ==
    /\ AtStep(p)
    /\ ObjectsThere(p)
    /\ ObjectsCounted(p)
    /\ LibraryState(p)
    /\ Counters(p)
    /\ CallsCounted(p)

\* A collective call completes when every rank has made it.
SeenByAll == \A p, q \in Proc : Seen(p) <= barriers[q]

(* The inductive invariant. *)
ClustersInv ==
    /\ ClustersTypeOK
    /\ prog \in Programs
    /\ Messages
    /\ \A p \in Proc : RankInv(p)
    /\ SeenByAll

----------------------------------------------------------------------------
(* Programs.                                                               *)

LEMMA ProgramType ==
    ASSUME prog \in Programs
    PROVE  /\ Len(prog.steps) \in Nat
           /\ Steps = 1..Len(prog.steps)
           /\ \A i \in Steps :
                /\ prog.steps[i].op \in {"init", "finalize", "barrier", "create", "delete", "exchange"}
                /\ prog.steps[i].obj \in Object
           /\ prog.world \in BOOLEAN
<1>1. prog.steps \in Seq(Ops) /\ prog.world \in BOOLEAN
  BY ClustersAssumption
<1>2. \A x \in Ops :
        /\ x.op \in {"init", "finalize", "barrier", "create", "delete", "exchange"}
        /\ x.obj \in Object
  BY DEF Ops, Object, Global
<1>3. Len(prog.steps) \in Nat /\ Steps = 1..Len(prog.steps)
  BY <1>1, LenProperties, Zenon DEF Steps
<1>4. \A i \in 1..Len(prog.steps) : prog.steps[i] \in Ops
  BY <1>1, ElementOfSeq, Zenon
<1> QED
  BY <1>1, <1>2, <1>3, <1>4

LEMMA ProgramDisciplined ==
    ASSUME Disciplined, prog \in Programs
    PROVE  ObjectsExist(prog) /\ InitOnce(prog) /\ NothingAfter(prog) /\ CountersDiffer(prog)
BY DEF Disciplined

\* What the discipline says of one step.
LEMMA StepDiscipline ==
    ASSUME Disciplined, prog \in Programs, NEW i \in Steps
    PROVE  LET s == prog.steps[i] IN
           /\ s.op \in {"exchange", "delete"} => Exists(prog, s.obj, i)
           /\ s.op = "finalize" => Exists(prog, "heap", i)
           /\ s.op = "barrier" => ~None(prog, i)
           /\ s.op \in {"create", "delete"} => s.obj = "own"
           /\ s.op = "create" => ~Exists(prog, "own", i)
           /\ s.op \in {"create", "init"} => ~Over(prog, i)
           /\ s.op = "init" => ~Finalized(prog, i)
<1>1. i \in DOMAIN prog.steps
  BY DEF Steps
<1>2. prog.steps[i].op = "init" => ~Finalized(prog, i)
  <2> SUFFICES ASSUME prog.steps[i].op = "init", NEW a \in 1..(i - 1),
                      prog.steps[a].op = "finalize"
               PROVE  FALSE
    BY DEF Finalized
  <2>1. a \in DOMAIN prog.steps /\ a < i
    BY ProgramType DEF Steps
  <2> QED
    BY <1>1, <2>1, ProgramDisciplined DEF InitOnce
<1> QED
  BY <1>1, <1>2, ProgramDisciplined DEF ObjectsExist, NothingAfter

\* Which objects there are, one step later.
LEMMA SinceNext ==
    ASSUME NEW pr, NEW i \in Nat \ {0}, NEW made, NEW ended, made # ended
    PROVE  Since(pr, i + 1, made, ended) <=>
             \/ pr.steps[i].op = made
             \/ Since(pr, i, made, ended) /\ pr.steps[i].op # ended
<1>1. 1..((i + 1) - 1) = 1..(i - 1) \cup {i}
  OBVIOUS
<1>2. \A k \in (i + 1)..((i + 1) - 1) : FALSE
  OBVIOUS
<1>3. ASSUME NEW a \in 1..(i - 1)
      PROVE  (a + 1)..((i + 1) - 1) = (a + 1)..(i - 1) \cup {i}
  OBVIOUS
<1>4. ASSUME NEW a \in 1..(i - 1)
      PROVE  (\A k \in (a + 1)..((i + 1) - 1) : pr.steps[k].op # ended) <=>
               (\A k \in (a + 1)..(i - 1) : pr.steps[k].op # ended) /\ pr.steps[i].op # ended
  BY <1>3
<1> QED
  BY <1>1, <1>2, <1>4 DEF Since

LEMMA ExistsNext ==
    ASSUME NEW pr, NEW i \in Nat \ {0}
    PROVE  /\ Exists(pr, "own", i + 1) <=>
                \/ pr.steps[i].op = "create"
                \/ Exists(pr, "own", i) /\ pr.steps[i].op # "delete"
           /\ Exists(pr, "heap", i + 1) <=>
                \/ pr.steps[i].op = "init"
                \/ Exists(pr, "heap", i) /\ pr.steps[i].op # "finalize"
           /\ Exists(pr, "cuda", i) <=> Exists(pr, "heap", i)
           /\ Finalized(pr, i + 1) <=> Finalized(pr, i) \/ pr.steps[i].op = "finalize"
<1>1. Finalized(pr, i + 1) <=> Finalized(pr, i) \/ pr.steps[i].op = "finalize"
  BY DEF Finalized
<1>2. Since(pr, i + 1, "create", "delete") <=>
        \/ pr.steps[i].op = "create"
        \/ Since(pr, i, "create", "delete") /\ pr.steps[i].op # "delete"
  BY SinceNext
<1>3. Since(pr, i + 1, "init", "finalize") <=>
        \/ pr.steps[i].op = "init"
        \/ Since(pr, i, "init", "finalize") /\ pr.steps[i].op # "finalize"
  BY SinceNext
<1> QED
  BY <1>1, <1>2, <1>3 DEF Exists

\* Nothing exists at the first step.
LEMMA ExistsFirst ==
    ASSUME NEW pr
    PROVE  /\ \A o : ~Exists(pr, o, 1)
           /\ ~Finalized(pr, 1) /\ ~Over(pr, 1)
BY DEF Exists, Since, Finalized, Over

LEMMA OverNext ==
    ASSUME NEW pr, NEW i \in Nat \ {0}
    PROVE  /\ Over(pr, i) => Over(pr, i + 1)
           /\ pr.world /\ pr.steps[i].op \in {"delete", "finalize"} /\ None(pr, i + 1) =>
                Over(pr, i + 1)
BY DEF Over

\* Once it is over nothing exists.
LEMMA OverForGood ==
    ASSUME Disciplined, prog \in Programs, NEW i \in Nat, NEW j \in Nat, i <= j,
           j <= Len(prog.steps) + 1, Over(prog, i), NEW o \in Object
    PROVE  ~Exists(prog, o, j)
<1>1. PICK made \in {"create", "init"}, ended \in {"delete", "finalize"} :
        \A k : Exists(prog, o, k) <=> Since(prog, k, made, ended)
  BY DEF Exists
<1>2. PICK a \in 1..(i - 1) :
        /\ prog.steps[a].op \in {"delete", "finalize"} /\ ~Exists(prog, o, a + 1) /\ prog.world
        /\ None(prog, a + 1)
  BY DEF Over, None
<1> SUFFICES ASSUME Exists(prog, o, j)
             PROVE  FALSE
  OBVIOUS
<1>3. PICK b \in 1..(j - 1) :
        prog.steps[b].op = made /\ \A k \in (b + 1)..(j - 1) : prog.steps[k].op # ended
  BY <1>1 DEF Since
<1>4. CASE b > a
  <2>1. Over(prog, b)
    BY <1>2, <1>4 DEF Over
  <2>2. b \in DOMAIN prog.steps
    BY ProgramType DEF Steps
  <2> QED
    BY <1>3, <2>1, <2>2, ProgramDisciplined DEF NothingAfter
<1>5. CASE b = a
  BY <1>2, <1>3, <1>5
<1>6. CASE b < a
  <2>1. b \in 1..((a + 1) - 1) /\ \A k \in (b + 1)..((a + 1) - 1) : prog.steps[k].op # ended
    BY <1>3, <1>6
  <2>2. Exists(prog, o, a + 1)
    BY <1>1, <1>3, <2>1 DEF Since
  <2> QED
    BY <1>2, <2>2
<1> QED
  BY <1>4, <1>5, <1>6

----------------------------------------------------------------------------
(* Counts.                                                                 *)

LEMMA UptoNext ==
    ASSUME NEW T, NEW i \in Nat \ {0}
    PROVE  /\ Upto(T, i) \in Nat
           /\ Upto(T, i + 1) = IF i \in T THEN Upto(T, i) + 1 ELSE Upto(T, i)
<1>1. IsFiniteSet(1..(i - 1))
  BY FS_Interval
<1>2. IsFiniteSet(T \cap (1..(i - 1)))
  BY <1>1, FS_Intersection, Zenon
<1>3. i \notin T \cap (1..(i - 1))
  OBVIOUS
<1>4. T \cap (1..((i + 1) - 1)) =
        IF i \in T THEN (T \cap (1..(i - 1))) \cup {i} ELSE T \cap (1..(i - 1))
  OBVIOUS
<1>5. Cardinality((T \cap (1..(i - 1))) \cup {i}) = Cardinality(T \cap (1..(i - 1))) + 1
  BY <1>2, <1>3, FS_AddElement
<1>6. Cardinality(T \cap (1..(i - 1))) \in Nat
  BY <1>2, FS_CardinalityType, Zenon
<1> QED
  BY <1>4, <1>5, <1>6, Zenon DEF Upto

LEMMA UptoMonotone ==
    ASSUME NEW T, NEW i \in Nat \ {0}, NEW j \in Nat \ {0}, i <= j
    PROVE  Upto(T, i) <= Upto(T, j)
<1>1. IsFiniteSet(1..(j - 1))
  BY FS_Interval
<1>2. IsFiniteSet(T \cap (1..(j - 1)))
  BY <1>1, FS_Intersection, Zenon
<1>3. T \cap (1..(i - 1)) \in SUBSET (T \cap (1..(j - 1)))
  OBVIOUS
<1> QED
  BY <1>2, <1>3, FS_Subset, Zenon DEF Upto

LEMMA CollectivesType ==
    ASSUME NEW pr, NEW i
    PROVE  Collectives(pr, i) \in 0..2
BY DEF Collectives

LEMMA BeforeNext ==
    ASSUME NEW pr, NEW i \in Nat \ {0}, i \in DOMAIN pr.steps
    PROVE  /\ Before(pr, i) \in Nat
           /\ Before(pr, i + 1) = Before(pr, i) + Collectives(pr, i)
<1>1. Collectives(pr, i) \in 0..2
  BY CollectivesType
<1> DEFINE T == {a \in DOMAIN pr.steps : Collectives(pr, a) >= 1}
           U == {a \in DOMAIN pr.steps : Collectives(pr, a) >= 2}
<1>2. /\ Upto(T, i) \in Nat /\ Upto(U, i) \in Nat
      /\ Upto(T, i + 1) = IF i \in T THEN Upto(T, i) + 1 ELSE Upto(T, i)
      /\ Upto(U, i + 1) = IF i \in U THEN Upto(U, i) + 1 ELSE Upto(U, i)
  BY UptoNext
<1>3. (i \in T <=> Collectives(pr, i) >= 1) /\ (i \in U <=> Collectives(pr, i) >= 2)
  OBVIOUS
<1>4. Before(pr, i) = Upto(T, i) + Upto(U, i) /\ Before(pr, i + 1) = Upto(T, i + 1) + Upto(U, i + 1)
  BY DEF Before
<1> HIDE DEF T, U
<1> QED
  BY <1>1, <1>2, <1>3, <1>4

LEMMA BeforeMonotone ==
    ASSUME NEW pr, NEW i \in Nat \ {0}, NEW j \in Nat \ {0}, i <= j
    PROVE  Before(pr, i) \in Nat /\ Before(pr, j) \in Nat /\ Before(pr, i) <= Before(pr, j)
<1> DEFINE T == {a \in DOMAIN pr.steps : Collectives(pr, a) >= 1}
           U == {a \in DOMAIN pr.steps : Collectives(pr, a) >= 2}
<1>1. /\ Upto(T, i) \in Nat /\ Upto(U, i) \in Nat /\ Upto(T, j) \in Nat /\ Upto(U, j) \in Nat
      /\ Upto(T, i) <= Upto(T, j) /\ Upto(U, i) <= Upto(U, j)
  BY UptoNext, UptoMonotone
<1>2. Before(pr, i) = Upto(T, i) + Upto(U, i) /\ Before(pr, j) = Upto(T, j) + Upto(U, j)
  BY DEF Before
<1> HIDE DEF T, U
<1> QED
  BY <1>1, <1>2

LEMMA ExchangesNext ==
    ASSUME NEW pr, NEW i \in Nat \ {0}, i \in DOMAIN pr.steps
    PROVE  /\ Exchanges(pr, i) \in Nat
           /\ Exchanges(pr, i + 1) =
                IF pr.steps[i].op = "exchange" THEN Exchanges(pr, i) + 1 ELSE Exchanges(pr, i)
BY UptoNext DEF Exchanges

LEMMA ExchangesMonotone ==
    ASSUME NEW pr, NEW i \in Nat \ {0}, NEW j \in Nat \ {0}, i <= j
    PROVE  /\ Exchanges(pr, i) \in Nat /\ Exchanges(pr, j) \in Nat
           /\ Exchanges(pr, i) <= Exchanges(pr, j)
BY UptoNext, UptoMonotone DEF Exchanges

LEMMA CountsFirst ==
    ASSUME NEW pr
    PROVE  Before(pr, 1) = 0 /\ Exchanges(pr, 1) = 0
<1>1. \A T : T \cap (1..(1 - 1)) = {}
  OBVIOUS
<1>2. \A T : Upto(T, 1) = 0
  BY <1>1, FS_EmptySet DEF Upto
<1> QED
  BY <1>2 DEF Before, Exchanges

----------------------------------------------------------------------------
(* The circular counter.                                                   *)

LEMMA MultipleAway ==
    ASSUME NEW e \in Int, NEW n \in Nat, e # 0
    PROVE  n * e >= n \/ n * e <= 0 - n
<1>1. CASE e >= 1
  BY <1>1
<1>2. CASE e <= -1
  BY <1>2
<1> QED
  BY <1>1, <1>2

\* One more exchange is one more on the counter.
LEMMA CounterNext ==
    ASSUME NEW u \in Nat
    PROVE  /\ u % nbx_cycle \in 0..(nbx_cycle - 1)
           /\ (u + 1) % nbx_cycle = NextCnt(u % nbx_cycle)
           /\ (u + 1) % nbx_cycle # u % nbx_cycle
<1> DEFINE n == nbx_cycle
           q == u \div n
           r == u % n
           d == (u + 1) \div n
           s == (u + 1) % n
<1>1. n \in Nat /\ n >= 2
  BY NBXAssumption
<1>2. q \in Int /\ r \in 0..(n - 1) /\ u = n * q + r
  BY <1>1
<1>3. d \in Int /\ s \in 0..(n - 1) /\ u + 1 = n * d + s
  BY <1>1
<1> HIDE DEF n, q, r, d, s
<1>4. n * (d - q) = r + 1 - s
  <2>1. n * d - n * q = n * (d - q)
    BY <1>1, <1>2, <1>3
  <2>2. n * d \in Int /\ n * q \in Int
    BY <1>1, <1>2, <1>3
  <2> QED
    BY <1>1, <1>2, <1>3, <2>1, <2>2
<1>5. d - q \in Int
  BY <1>2, <1>3
<1>6. CASE r + 1 < n
  <2>1. d - q = 0
    <3> SUFFICES ASSUME d - q # 0 PROVE FALSE
      OBVIOUS
    <3>1. n * (d - q) >= n \/ n * (d - q) <= 0 - n
      BY <1>1, <1>5, MultipleAway
    <3> QED
      BY <1>1, <1>2, <1>3, <1>4, <1>6, <3>1
  <2>2. s = r + 1
    BY <1>1, <1>2, <1>3, <1>4, <2>1
  <2>3. (r + 1) % n = r + 1
    BY <1>1, <1>2, <1>6
  <2> QED
    BY <1>1, <1>2, <2>2, <2>3 DEF NextCnt, n, r, s
<1>7. CASE r + 1 = n
  <2>1. s = 0
    <3> SUFFICES ASSUME s # 0 PROVE FALSE
      OBVIOUS
    <3>1. n * (d - q) = n - s
      BY <1>1, <1>2, <1>3, <1>4, <1>7
    <3>2. d - q # 0
      BY <1>1, <1>3, <3>1
    <3>3. n * (d - q) >= n \/ n * (d - q) <= 0 - n
      BY <1>1, <1>5, <3>2, MultipleAway
    <3> QED
      BY <1>1, <1>3, <3>1, <3>3
  <2>2. (r + 1) % n = 0
    BY <1>1, <1>7
  <2> QED
    BY <1>1, <1>2, <1>7, <2>1, <2>2 DEF NextCnt, n, r, s
<1> QED
  BY <1>1, <1>2, <1>6, <1>7

----------------------------------------------------------------------------
(* The counters of the program's objects.                                  *)

LEMMA UsesFinite ==
    ASSUME NEW pr, NEW o, NEW i \in Nat \ {0}
    PROVE  IsFiniteSet(Uses(pr, o, i)) /\ Cardinality(Uses(pr, o, i)) \in Nat
<1>1. IsFiniteSet(1..(i - 1))
  BY FS_Interval
<1>2. Uses(pr, o, i) \in SUBSET (1..(i - 1))
  BY DEF Uses
<1> QED
  BY <1>1, <1>2, FS_Subset, FS_CardinalityType, Zenon

\* An exchange at j, and no other of the object and no construction up to i.
LEMMA CounterAfter ==
    ASSUME NEW pr, NEW o, NEW j \in Nat \ {0}, NEW i \in Nat, j < i,
           pr.steps[j].op = "exchange", pr.steps[j].obj = o,
           \A k \in (j + 1)..(i - 1) : pr.steps[k].op \notin {"exchange", "create"}
    PROVE  /\ CounterAt(pr, o, i) = NextCnt(CounterAt(pr, o, j))
           /\ CounterAt(pr, o, i) # CounterAt(pr, o, j)
<1>1. ASSUME NEW a \in 1..(i - 1)
      PROVE  a \in Uses(pr, o, i) <=> a \in Uses(pr, o, j) \cup {j}
  <2>1. CASE a < j
    <3>1. (a + 1)..(i - 1) = ((a + 1)..(j - 1)) \cup {j} \cup ((j + 1)..(i - 1))
      BY <2>1
    <3>2. (\A k \in (a + 1)..(i - 1) : pr.steps[k].op # "create") <=>
            (\A k \in (a + 1)..(j - 1) : pr.steps[k].op # "create")
      BY <3>1
    <3>3. a \in 1..(j - 1) /\ a # j
      BY <2>1
    <3> QED
      BY <3>2, <3>3 DEF Uses
  <2>2. CASE a = j
    BY <2>2 DEF Uses
  <2>3. CASE a > j
    <3>1. a \in (j + 1)..(i - 1) /\ a \notin 1..(j - 1) /\ a # j
      BY <2>3
    <3> QED
      BY <3>1 DEF Uses
  <2> QED
    BY <2>1, <2>2, <2>3
<1>2. Uses(pr, o, i) = Uses(pr, o, j) \cup {j} /\ j \notin Uses(pr, o, j)
  BY <1>1 DEF Uses
<1>3. /\ IsFiniteSet(Uses(pr, o, j)) /\ Cardinality(Uses(pr, o, j)) \in Nat
      /\ Cardinality(Uses(pr, o, i)) = Cardinality(Uses(pr, o, j)) + 1
  BY <1>2, UsesFinite, FS_AddElement
<1> QED
  BY <1>3, CounterNext DEF CounterAt

LEMMA CounterAtNext ==
    ASSUME NEW pr, NEW o, NEW i \in Nat \ {0}
    PROVE  /\ CounterAt(pr, o, i) \in 0..(nbx_cycle - 1)
           /\ pr.steps[i].op = "exchange" /\ pr.steps[i].obj = o =>
                CounterAt(pr, o, i + 1) = NextCnt(CounterAt(pr, o, i))
           /\ ~(pr.steps[i].op = "exchange" /\ pr.steps[i].obj = o)
              /\ ~(pr.steps[i].op = "create" /\ o = "own") =>
                CounterAt(pr, o, i + 1) = CounterAt(pr, o, i)
           /\ pr.steps[i].op = "create" => CounterAt(pr, "own", i + 1) = 0
<1>1. CounterAt(pr, o, i) \in 0..(nbx_cycle - 1)
  BY UsesFinite, CounterNext DEF CounterAt
<1>2. pr.steps[i].op = "exchange" /\ pr.steps[i].obj = o =>
        CounterAt(pr, o, i + 1) = NextCnt(CounterAt(pr, o, i))
  <2>1. \A k \in (i + 1)..((i + 1) - 1) : FALSE
    OBVIOUS
  <2> QED
    BY <2>1, CounterAfter
<1>3. ASSUME ~(pr.steps[i].op = "exchange" /\ pr.steps[i].obj = o),
             ~(pr.steps[i].op = "create" /\ o = "own")
      PROVE  CounterAt(pr, o, i + 1) = CounterAt(pr, o, i)
  <2>1. ASSUME NEW a \in 1..(i - 1)
        PROVE  a \in Uses(pr, o, i + 1) <=> a \in Uses(pr, o, i)
    <3>1. (a + 1)..((i + 1) - 1) = ((a + 1)..(i - 1)) \cup {i}
      OBVIOUS
    <3>2. o = "own" => ((\A k \in (a + 1)..((i + 1) - 1) : pr.steps[k].op # "create") <=>
                          (\A k \in (a + 1)..(i - 1) : pr.steps[k].op # "create"))
      BY <1>3, <3>1
    <3>3. a \in 1..((i + 1) - 1)
      OBVIOUS
    <3> QED
      BY <3>2, <3>3 DEF Uses
  <2>2. i \notin Uses(pr, o, i + 1)
    BY <1>3 DEF Uses
  <2>3. 1..((i + 1) - 1) = 1..(i - 1) \cup {i}
    OBVIOUS
  <2>4. Uses(pr, o, i + 1) = Uses(pr, o, i)
    BY <2>1, <2>2, <2>3 DEF Uses
  <2> QED
    BY <2>4 DEF CounterAt
<1>4. ASSUME pr.steps[i].op = "create"
      PROVE  CounterAt(pr, "own", i + 1) = 0
  <2>1. ASSUME NEW a \in Uses(pr, "own", i + 1)
        PROVE  FALSE
    <3>1. /\ a \in 1..((i + 1) - 1) /\ pr.steps[a].op = "exchange"
          /\ \A k \in (a + 1)..((i + 1) - 1) : pr.steps[k].op # "create"
      BY <2>1 DEF Uses
    <3>2. a # i
      BY <1>4, <3>1
    <3>3. i \in (a + 1)..((i + 1) - 1)
      BY <3>1, <3>2
    <3> QED
      BY <1>4, <3>1, <3>3
  <2>2. Cardinality(Uses(pr, "own", i + 1)) = 0
    BY <2>1, FS_EmptySet
  <2>3. nbx_cycle \in Nat /\ nbx_cycle >= 2
    BY NBXAssumption
  <2> QED
    BY <2>2, <2>3 DEF CounterAt
<1> QED
  BY <1>1, <1>2, <1>3, <1>4

\* Before openfpm_init made the globals they had no exchange.
LEMMA CounterFirst ==
    ASSUME Disciplined, prog \in Programs, NEW i \in Nat \ {0}, i <= Len(prog.steps) + 1,
           NEW o \in Global, ~Exists(prog, "heap", i), ~Finalized(prog, i)
    PROVE  CounterAt(prog, o, i) = 0
<1>1. ASSUME NEW j \in Uses(prog, o, i)
      PROVE  FALSE
  <2>1. j \in 1..(i - 1) /\ prog.steps[j].op = "exchange" /\ prog.steps[j].obj = o
    BY <1>1 DEF Uses
  <2>2. j \in Steps
    BY <2>1, ProgramType
  <2>3. Exists(prog, "heap", j)
    <3>1. Exists(prog, o, j)
      BY <2>1, <2>2, StepDiscipline
    <3> QED
      BY <3>1 DEF Exists, Global
  <2>4. PICK a \in 1..(j - 1) : prog.steps[a].op = "init"
    BY <2>3 DEF Exists, Since
  <2>5. a \in 1..(i - 1) /\ \A k \in (a + 1)..(i - 1) : prog.steps[k].op # "finalize"
    BY <2>1 DEF Finalized
  <2> QED
    BY <2>4, <2>5 DEF Exists, Since
<1>2. Cardinality(Uses(prog, o, i)) = 0
  BY <1>1, FS_EmptySet
<1>3. nbx_cycle \in Nat /\ nbx_cycle >= 2
  BY NBXAssumption
<1> QED
  BY <1>2, <1>3 DEF CounterAt

\* Exchanges with no collective call between them have different counters.
LEMMA CountersTell ==
    ASSUME Disciplined, prog \in Programs, NEW j \in Steps, NEW i \in Steps, j < i,
           prog.steps[j].op = "exchange", prog.steps[i].op = "exchange",
           Before(prog, i) = Before(prog, j + 1)
    PROVE  CounterAt(prog, prog.steps[j].obj, j) # CounterAt(prog, prog.steps[i].obj, i)
<1>1. Steps = 1..Len(prog.steps) /\ Len(prog.steps) \in Nat
  BY ProgramType
<1>2. ASSUME NEW k \in (j + 1)..(i - 1)
      PROVE  Collectives(prog, k) = 0
  <2>1. k \in Nat \ {0} /\ k \in DOMAIN prog.steps
    BY <1>1 DEF Steps
  <2>2. /\ Before(prog, k) \in Nat /\ Before(prog, k + 1) = Before(prog, k) + Collectives(prog, k)
        /\ Collectives(prog, k) \in 0..2
    BY <2>1, BeforeNext, CollectivesType
  <2>3. /\ Before(prog, j + 1) \in Nat /\ Before(prog, j + 1) <= Before(prog, k)
    BY <1>1, <2>1, BeforeMonotone
  <2>4. Before(prog, k + 1) <= Before(prog, i)
    BY <1>1, <2>1, BeforeMonotone
  <2> QED
    BY <2>2, <2>3, <2>4
<1>3. CASE prog.steps[j].obj # prog.steps[i].obj
  BY <1>2, <1>3, ProgramDisciplined DEF CountersDiffer, Steps
<1>4. CASE prog.steps[j].obj = prog.steps[i].obj
  <2>1. \A k \in (j + 1)..(i - 1) : prog.steps[k].op \notin {"exchange", "create"}
    BY <1>2 DEF Collectives
  <2>2. j \in Nat \ {0} /\ i \in Nat
    BY <1>1
  <2> QED
    BY <1>4, <2>1, <2>2, CounterAfter
<1> QED
  BY <1>3, <1>4

----------------------------------------------------------------------------
(* One rank moves.                                                         *)

RankStep(p) ==
    \/ EnterBarrierCall(p) \/ LeaveBarrierCall(p)
    \/ \E o \in Object : Construct(p, o) \/ Constructed(p, o)
    \/ EndInit(p) \/ Delete(p) \/ Finalize(p)
    \/ Use(p) \/ Begin(p) \/ Poll(p) \/ End(p)

LEMMA RankTypes ==
    ASSUME ClustersTypeOK, NEW p \in Proc
    PROVE  /\ pc[p] \in {"app", "progress", "test"} /\ NBX_cnt[p] \in 0..(nbx_cycle - 1)
           /\ reached_bar_req[p] \in BOOLEAN /\ bar_req[p] \in Nat /\ barriers[p] \in Nat
           /\ done[p] \in Nat
           /\ ip[p] \in 1..(Len(prog.steps) + 1)
           /\ cur[p] \in Object \cup {"none"} /\ cnt[p] \in [Object -> 0..(nbx_cycle - 1)]
           /\ alive[p] \subseteq Object /\ pointers[p] \subseteq Global
           /\ n_vcluster[p] \in Nat /\ ofp_initialized[p] \in BOOLEAN
           /\ mpi[p] \in {"none", "up", "finalized"}
           /\ waiting[p] \in Object \cup {"no", "barrier"}
BY DEF ClustersTypeOK, TypeOK

\* The state of rank q stays as it is.
SameRank(q) ==
    /\ pc'[q] = pc[q] /\ NBX_cnt'[q] = NBX_cnt[q]
    /\ reached_bar_req'[q] = reached_bar_req[q] /\ bar_req'[q] = bar_req[q]
    /\ barriers'[q] = barriers[q] /\ done'[q] = done[q]
    /\ ip'[q] = ip[q] /\ cur'[q] = cur[q] /\ cnt'[q] = cnt[q]
    /\ alive'[q] = alive[q] /\ pointers'[q] = pointers[q] /\ n_vcluster'[q] = n_vcluster[q]
    /\ ofp_initialized'[q] = ofp_initialized[q] /\ mpi'[q] = mpi[q]
    /\ waiting'[q] = waiting[q]

LEMMA SameRankKeeps ==
    ASSUME NEW q \in Proc, RankInv(q), prog' = prog, SameRank(q)
    PROVE  RankInv(q)' /\ Seen(q)' = Seen(q)
<1>1. /\ Inside(q)' <=> Inside(q)
      /\ \A op : AtOp(q, op)' <=> AtOp(q, op)
      /\ Step(q)' = Step(q)
  BY DEF SameRank, Inside, AtOp, Step, Steps
<1>2. (Initialising(q)' <=> Initialising(q)) /\ Made(q)' = Made(q)
  BY <1>1 DEF SameRank, Initialising, Made
<1>3. AtStep(q)'
  BY <1>1, <1>2 DEF RankInv, AtStep, SameRank
<1>4. ObjectsThere(q)'
  BY <1>2 DEF RankInv, ObjectsThere, SameRank
<1>5. ObjectsCounted(q)'
  BY DEF RankInv, ObjectsCounted, Held, SameRank
<1>6. LibraryState(q)'
  BY DEF RankInv, LibraryState, SameRank
<1>7. Counters(q)'
  BY DEF RankInv, Counters, CounterOf, SameRank
<1>8. Seen(q)' = Seen(q)
  BY <1>1 DEF Seen, Open, SameRank
<1>9. CallsCounted(q)'
  BY <1>1, <1>2, <1>8 DEF RankInv, CallsCounted, SameRank
<1> QED
  BY <1>3, <1>4, <1>5, <1>6, <1>7, <1>8, <1>9 DEF RankInv

LEMMA OthersStay ==
    ASSUME ClustersTypeOK, NEW p \in Proc, RankStep(p), NEW q \in Proc \ {p}
    PROVE  SameRank(q)
<1> USE DEF SameRank
<1>1. CASE EnterBarrierCall(p)
  BY <1>1 DEF EnterBarrierCall, EnterCollective, libVars, rankVars, ClustersTypeOK, TypeOK
<1>2. CASE LeaveBarrierCall(p)
  BY <1>2 DEF LeaveBarrierCall, LeaveCollective, NextStep, libVars, vars, rankVars,
     ClustersTypeOK, TypeOK
<1>3. ASSUME NEW o \in Object, Construct(p, o)
      PROVE  SameRank(q)
  BY <1>3 DEF Construct, EnterCollective, rankVars, ClustersTypeOK, TypeOK
<1>4. ASSUME NEW o \in Object, Constructed(p, o)
      PROVE  SameRank(q)
  <2>1. NBX_cnt'[q] = NBX_cnt[q] /\ cnt'[q] = cnt[q]
    BY <1>4 DEF Constructed, ClustersTypeOK, TypeOK
  <2>2. ip'[q] = ip[q]
    BY <1>4 DEF Constructed, NextStep, ClustersTypeOK
  <2> QED
    BY <1>4, <2>1, <2>2 DEF Constructed, LeaveCollective, ClustersTypeOK, TypeOK
<1>5. CASE EndInit(p)
  BY <1>5 DEF EndInit, NextStep, vars, rankVars, ClustersTypeOK, TypeOK
<1>6. CASE Delete(p)
  BY <1>6 DEF Delete, Destroy, NextStep, vars, rankVars, ClustersTypeOK, TypeOK
<1>7. CASE Finalize(p)
  BY <1>7 DEF Finalize, Destroy, NextStep, vars, rankVars, ClustersTypeOK, TypeOK
<1>8. CASE Use(p)
  BY <1>8 DEF Use, libVars, ClustersTypeOK, TypeOK
<1>9. CASE Begin(p)
  BY <1>9 DEF Begin, Start, libVars, ClustersTypeOK, TypeOK
<1>10. CASE Poll(p)
  <2>1. CASE progressCommunication(p)
    <3>1. /\ pc' = [pc EXCEPT ![p] = "test"]
          /\ UNCHANGED <<NBX_cnt, done>>
          /\ EnterBarrier(p) \/ UNCHANGED <<reached_bar_req, barriers, bar_req>>
      BY <2>1, ProgressEffect
    <3>2. /\ reached_bar_req'[q] = reached_bar_req[q] /\ bar_req'[q] = bar_req[q]
          /\ barriers'[q] = barriers[q]
      BY <3>1 DEF EnterBarrier, ClustersTypeOK, TypeOK
    <3> QED
      BY <1>10, <3>1, <3>2 DEF Poll, libVars, ClustersTypeOK, TypeOK
  <2>2. CASE LoopAgain(p)
    BY <1>10, <2>2 DEF Poll, LoopAgain, libVars, ClustersTypeOK, TypeOK
  <2> QED
    BY <1>10, <2>1, <2>2 DEF Poll
<1>11. CASE End(p)
  BY <1>11 DEF End, Leave, NextStep, libVars, ClustersTypeOK, TypeOK
<1> QED
  BY <1>1, <1>2, <1>3, <1>4, <1>5, <1>6, <1>7, <1>8, <1>9, <1>10, <1>11 DEF RankStep

\* Steps that touch no exchange leave the messages as they are.
LEMMA MessagesStay ==
    ASSUME Messages, TypeOK', NEW p \in Proc, ~Inside(p),
           UNCHANGED <<pc, req, reached_bar_req, rid, got, done, sent, flight>>,
           \A q \in Proc \ {p} : NBX_cnt'[q] = NBX_cnt[q]
    PROVE  Messages'
<1>1. \A q \in Proc : (Inside(q)' <=> Inside(q)) /\ Begun(q)' = Begun(q)
  BY DEF Inside, Begun
<1>2. RidCount'
  BY DEF Messages, RidCount
<1>3. \A m \in flight : m.src \in Proc \ {p}
  BY DEF Messages, InFlight, TypeOK, Message
<1>4. InFlight'
  BY <1>1, <1>3 DEF Messages, InFlight
<1>5. SentHistory'
  BY <1>1 DEF Messages, SentHistory, TypeOK, Message
<1>6. GotHistory'
  BY <1>1 DEF Messages, GotHistory, Addressed
<1> QED
  BY <1>2, <1>4, <1>5, <1>6 DEF Messages

LEMMA Facts ==
    ASSUME Disciplined, ClustersInv, NEW p \in Proc
    PROVE  /\ RankInv(p) /\ Messages /\ TypeOK /\ prog \in Programs
           /\ ip[p] \in Nat \ {0} /\ ip[p] \in 1..(Len(prog.steps) + 1)
           /\ Len(prog.steps) \in Nat
           /\ Steps = 1..Len(prog.steps) /\ Steps = DOMAIN prog.steps
           /\ ip[p] \in Steps <=> ip[p] <= Len(prog.steps)
           /\ Before(prog, ip[p]) \in Nat /\ Exchanges(prog, ip[p]) \in Nat
<1>1. /\ ip[p] \in 1..(Len(prog.steps) + 1) /\ prog \in Programs
      /\ RankInv(p) /\ Messages /\ TypeOK
  BY DEF ClustersInv, ClustersTypeOK
<1>2. Len(prog.steps) \in Nat /\ Steps = 1..Len(prog.steps) /\ Steps = DOMAIN prog.steps
  BY <1>1, ProgramType DEF Steps
<1>3. ip[p] \in Nat \ {0} /\ (ip[p] \in Steps <=> ip[p] <= Len(prog.steps))
  BY <1>1, <1>2
<1> QED
  BY <1>1, <1>2, <1>3, BeforeMonotone, ExchangesMonotone

----------------------------------------------------------------------------
(* Steps that keep rank p at its step of the program, and its objects.     *)

\* What a step of rank p must show.
Kept(p) ==
    /\ ClustersTypeOK' /\ Messages' /\ RankInv(p)'
    /\ prog' = prog
    /\ \A q \in Proc : barriers'[q] >= barriers[q]
    /\ Seen(p)' = Seen(p) \/ \A q \in Proc : Seen(p)' <= barriers[q]

SameStep(p) ==
    /\ prog' = prog /\ ip'[p] = ip[p]
    /\ alive'[p] = alive[p] /\ pointers'[p] = pointers[p] /\ n_vcluster'[p] = n_vcluster[p]
    /\ ofp_initialized'[p] = ofp_initialized[p] /\ mpi'[p] = mpi[p]

LEMMA ObjectsStay ==
    ASSUME NEW p \in Proc, RankInv(p), SameStep(p), Held(p)' = Held(p)
    PROVE  /\ ObjectsThere(p)' /\ ObjectsCounted(p)' /\ LibraryState(p)'
           /\ \A op : AtOp(p, op)' <=> AtOp(p, op)
           /\ Step(p)' = Step(p)
           /\ Initialising(p)' <=> Initialising(p)
           /\ Made(p)' = Made(p)
<1>1. /\ \A op : AtOp(p, op)' <=> AtOp(p, op)
      /\ Step(p)' = Step(p)
  BY DEF SameStep, AtOp, Step, Steps
<1>2. (Initialising(p)' <=> Initialising(p)) /\ Made(p)' = Made(p)
  BY <1>1 DEF SameStep, Initialising, Made
<1>3. ObjectsThere(p)'
  BY <1>2 DEF RankInv, ObjectsThere, SameStep
<1>4. ObjectsCounted(p)'
  BY DEF RankInv, ObjectsCounted, SameStep
<1>5. LibraryState(p)'
  BY DEF RankInv, LibraryState, SameStep
<1> QED
  BY <1>1, <1>2, <1>3, <1>4, <1>5

LEMMA EnterBarrierKept ==
    ASSUME Disciplined, ClustersInv, NEW p \in Proc, EnterBarrierCall(p)
    PROVE  Kept(p)
<1>1. /\ pc[p] = "app" /\ waiting[p] = "no" /\ ip[p] <= Len(prog.steps) /\ Step(p).op = "barrier"
      /\ waiting' = [waiting EXCEPT ![p] = "barrier"]
      /\ barriers' = [barriers EXCEPT ![p] = @ + 1]
      /\ UNCHANGED <<rankVars, sent, flight, prog, ip, cur, cnt, libVars>>
  BY DEF EnterBarrierCall, EnterCollective, At
<1>2. /\ RankInv(p) /\ Messages /\ ClustersTypeOK /\ TypeOK
      /\ ip[p] \in Steps /\ barriers[p] \in Nat
  BY <1>1, Facts, RankTypes DEF ClustersInv
<1>3. /\ waiting'[p] = "barrier" /\ barriers'[p] = barriers[p] + 1
      /\ \A q \in Proc \ {p} : barriers'[q] = barriers[q]
  BY <1>1, <1>2 DEF ClustersTypeOK, TypeOK
<1>4. ClustersTypeOK'
  BY <1>1, <1>2 DEF ClustersTypeOK, TypeOK, rankVars, libVars
<1>5. ~Inside(p) /\ ~Inside(p)'
  BY <1>1 DEF Inside, rankVars
<1>6. Messages'
  BY <1>1, <1>2, <1>4, <1>5, MessagesStay DEF rankVars, ClustersTypeOK
<1>7. SameStep(p) /\ Held(p)' = Held(p)
  BY <1>1, <1>3 DEF SameStep, libVars, Held, Object, Global
<1>8. /\ ObjectsThere(p)' /\ ObjectsCounted(p)' /\ LibraryState(p)'
      /\ \A op : AtOp(p, op)' <=> AtOp(p, op)
      /\ Made(p)' = Made(p)
  BY <1>2, <1>7, ObjectsStay
<1>9. AtStep(p)'
  BY <1>1, <1>2, <1>3, <1>5, <1>8 DEF AtStep, AtOp, Object, Global
<1>10. Counters(p)'
  BY <1>1, <1>2, <1>7 DEF RankInv, Counters, CounterOf, SameStep, rankVars, libVars
<1>11. Seen(p)' = Seen(p)
  BY <1>1, <1>2, <1>3, <1>5 DEF Seen, Open
<1>12. CallsCounted(p)'
  BY <1>1, <1>2, <1>5, <1>8, <1>11 DEF RankInv, CallsCounted, rankVars
<1>13. \A q \in Proc : barriers'[q] >= barriers[q]
  BY <1>2, <1>3 DEF TypeOK
<1> QED
  BY <1>1, <1>4, <1>6, <1>8, <1>9, <1>10, <1>11, <1>12, <1>13 DEF Kept, RankInv

LEMMA UseKept ==
    ASSUME Disciplined, ClustersInv, NEW p \in Proc, Use(p)
    PROVE  Kept(p)
<1> DEFINE o == Step(p).obj
<1>1. /\ pc[p] = "app" /\ waiting[p] = "no" /\ ip[p] <= Len(prog.steps) /\ Step(p).op = "exchange"
      /\ cur[p] # o
      /\ cur' = [cur EXCEPT ![p] = o]
      /\ cnt' = [cnt EXCEPT ![p] = [x \in Object |-> IF x = cur[p] THEN NBX_cnt[p] ELSE @[x]]]
      /\ NBX_cnt' = [NBX_cnt EXCEPT ![p] = cnt[p][o]]
      /\ UNCHANGED <<pc, req, reached_bar_req, bar_req, rid, got, done, sent, flight, barriers,
                     prog, ip, libVars, waiting>>
  BY DEF Use, At
<1>2. /\ RankInv(p) /\ Messages /\ ClustersTypeOK /\ TypeOK /\ prog \in Programs
      /\ ip[p] \in Steps /\ barriers[p] \in Nat /\ o \in Object
  BY <1>1, Facts, RankTypes, ProgramType DEF ClustersInv, Step
<1> HIDE DEF o
<1>3. /\ cur'[p] = o /\ NBX_cnt'[p] = cnt[p][o]
      /\ cnt'[p] = [x \in Object |-> IF x = cur[p] THEN NBX_cnt[p] ELSE cnt[p][x]]
      /\ \A q \in Proc \ {p} : NBX_cnt'[q] = NBX_cnt[q]
  BY <1>1, <1>2 DEF ClustersTypeOK, TypeOK
<1>4. ClustersTypeOK'
  <2>1. /\ cnt[p] \in [Object -> 0..(nbx_cycle - 1)] /\ NBX_cnt[p] \in 0..(nbx_cycle - 1)
    BY <1>2, RankTypes
  <2>2. /\ cnt[p][o] \in 0..(nbx_cycle - 1)
        /\ [x \in Object |-> IF x = cur[p] THEN NBX_cnt[p] ELSE cnt[p][x]]
             \in [Object -> 0..(nbx_cycle - 1)]
    BY <1>2, <2>1
  <2>3. NBX_cnt' \in [Proc -> 0..(nbx_cycle - 1)] /\ cnt' \in [Proc -> [Object -> 0..(nbx_cycle - 1)]]
        /\ cur' \in [Proc -> Object \cup {"none"}]
    BY <1>1, <1>2, <2>2 DEF ClustersTypeOK, TypeOK
  <2>4. TypeOK'
    BY <1>1, <1>2, <2>3 DEF TypeOK, Message
  <2> QED
    BY <1>1, <1>2, <2>3, <2>4 DEF ClustersTypeOK, libVars
<1>5. ~Inside(p) /\ ~Inside(p)'
  BY <1>1 DEF Inside
<1>6. Messages'
  BY <1>1, <1>2, <1>3, <1>4, <1>5, MessagesStay DEF ClustersTypeOK
<1>7. SameStep(p) /\ Held(p)' = Held(p)
  BY <1>1 DEF SameStep, libVars, Held
<1>8. /\ ObjectsThere(p)' /\ ObjectsCounted(p)' /\ LibraryState(p)'
      /\ \A op : AtOp(p, op)' <=> AtOp(p, op)
      /\ Made(p)' = Made(p)
  BY <1>2, <1>7, ObjectsStay
<1>9. AtStep(p)'
  BY <1>1, <1>5 DEF AtStep, Object, Global
<1>10. Counters(p)'
  <2>1. \A x \in Object : CounterOf(p, x)' = CounterOf(p, x)
    BY <1>1, <1>2, <1>3 DEF CounterOf
  <2>2. alive[p] \subseteq Object
    BY <1>2, RankTypes
  <2> QED
    BY <1>2, <1>7, <2>1, <2>2 DEF RankInv, Counters, SameStep
<1>11. Seen(p)' = Seen(p)
  BY <1>1, <1>5 DEF Seen, Open
<1>12. CallsCounted(p)'
  BY <1>1, <1>2, <1>5, <1>8, <1>11 DEF RankInv, CallsCounted
<1>13. \A q \in Proc : barriers'[q] >= barriers[q]
  BY <1>1, <1>2 DEF TypeOK
<1> QED
  BY <1>1, <1>4, <1>6, <1>8, <1>9, <1>10, <1>11, <1>12, <1>13 DEF Kept, RankInv

LEMMA BeginKept ==
    ASSUME Disciplined, ClustersInv, NEW p \in Proc, Begin(p)
    PROVE  Kept(p)
<1>1. PICK list \in SendLists : Start(p, list)
  BY DEF Begin
<1>2. /\ pc[p] = "app" /\ waiting[p] = "no" /\ ip[p] <= Len(prog.steps) /\ Step(p).op = "exchange"
      /\ cur[p] = Step(p).obj
      /\ pc' = [pc EXCEPT ![p] = "progress"]
      /\ reached_bar_req' = [reached_bar_req EXCEPT ![p] = FALSE]
      /\ UNCHANGED <<NBX_cnt, bar_req, done, barriers, prog, ip, cur, cnt, libVars, waiting>>
  BY <1>1 DEF Begin, At, Start
<1>3. /\ RankInv(p) /\ Messages /\ ClustersTypeOK /\ TypeOK
      /\ ip[p] \in Steps /\ barriers[p] \in Nat
  BY <1>2, Facts, RankTypes DEF ClustersInv
<1>4. Messages'
  BY <1>1, <1>3, StartKeepsMessages
<1>5. ClustersTypeOK'
  BY <1>2, <1>3, <1>4 DEF ClustersTypeOK, libVars, Messages
<1>6. pc'[p] = "progress" /\ reached_bar_req'[p] = FALSE
  BY <1>2, <1>3 DEF TypeOK
<1>7. SameStep(p) /\ Held(p)' = Held(p)
  BY <1>2 DEF SameStep, libVars, Held
<1>8. /\ ObjectsThere(p)' /\ ObjectsCounted(p)' /\ LibraryState(p)'
      /\ \A op : AtOp(p, op)' <=> AtOp(p, op)
      /\ Step(p)' = Step(p)
      /\ Made(p)' = Made(p)
  BY <1>3, <1>7, ObjectsStay
<1>9. AtStep(p)'
  BY <1>2, <1>3, <1>8 DEF AtStep, AtOp, Object, Global
<1>10. Counters(p)'
  BY <1>2, <1>3, <1>7 DEF RankInv, Counters, CounterOf, SameStep
<1>11. Seen(p)' = Seen(p)
  BY <1>2, <1>6 DEF Seen, Open, Inside
<1>12. CallsCounted(p)'
  BY <1>2, <1>3, <1>6, <1>8, <1>11 DEF RankInv, CallsCounted
<1>13. \A q \in Proc : barriers'[q] >= barriers[q]
  BY <1>2, <1>3 DEF TypeOK
<1> QED
  BY <1>2, <1>4, <1>5, <1>8, <1>9, <1>10, <1>11, <1>12, <1>13 DEF Kept, RankInv

----------------------------------------------------------------------------
(* Ranks and their collective calls.                                       *)

LEMMA GlobalCounted ==
    ASSUME NEW S, S \subseteq Global
    PROVE  /\ IsFiniteSet(S) /\ Cardinality(S) \in 0..2
           /\ S = Global => Cardinality(S) = 2
           /\ \A o \in Global \ S : /\ Cardinality(S) <= 1
                                    /\ Cardinality(S \cup {o}) = Cardinality(S) + 1
<1>1. IsFiniteSet({"heap"}) /\ Cardinality({"heap"}) = 1
  BY FS_Singleton
<1>2. Global = {"heap"} \cup {"cuda"} /\ "cuda" \notin {"heap"}
  BY DEF Global
<1>3. IsFiniteSet(Global) /\ Cardinality(Global) = 2
  BY <1>1, <1>2, FS_AddElement
<1>4. /\ IsFiniteSet(S) /\ Cardinality(S) \in Nat /\ Cardinality(S) <= 2
  BY <1>3, FS_Subset, FS_CardinalityType
<1>5. ASSUME NEW o \in Global \ S
      PROVE  Cardinality(S \cup {o}) = Cardinality(S) + 1 /\ Cardinality(S) <= 1
  <2>1. Cardinality(S \cup {o}) = Cardinality(S) + 1
    BY <1>4, FS_AddElement
  <2>2. S \cup {o} \in SUBSET Global
    BY <1>5
  <2>3. Cardinality(S \cup {o}) <= 2
    BY <1>3, <2>2, FS_Subset
  <2> QED
    BY <1>4, <2>1, <2>3
<1> QED
  BY <1>3, <1>4, <1>5

\* A rank made the collective calls before its step, and some of its step.
LEMMA CallsWithin ==
    ASSUME Disciplined, ClustersInv, NEW q \in Proc
    PROVE  /\ barriers[q] \in Nat /\ Seen(q) \in Int /\ Made(q) \in 0..2
           /\ Before(prog, ip[q]) <= Seen(q) /\ Seen(q) <= barriers[q]
           /\ barriers[q] <= Seen(q) + 1
           /\ ip[q] \in Steps => barriers[q] <= Before(prog, ip[q] + 1)
<1>1. /\ RankInv(q) /\ ip[q] \in Nat \ {0} /\ Before(prog, ip[q]) \in Nat
      /\ prog \in Programs /\ Steps = DOMAIN prog.steps
  BY Facts
<1>2. /\ pointers[q] \subseteq Global /\ barriers[q] \in Nat /\ ofp_initialized[q] \in BOOLEAN
      /\ waiting[q] \in Object \cup {"no", "barrier"}
  BY RankTypes DEF ClustersInv
<1>3. Cardinality(pointers[q]) \in 0..2
  BY <1>2, GlobalCounted
<1>4. Made(q) \in 0..2 /\ Seen(q) = Before(prog, ip[q]) + Made(q)
  BY <1>1, <1>3 DEF Made, RankInv, CallsCounted
<1>5. /\ Open(q) => barriers[q] = Seen(q) + 1
      /\ ~Open(q) => barriers[q] = Seen(q)
  BY <1>2 DEF Seen
<1>6. ASSUME ip[q] \in Steps
      PROVE  barriers[q] <= Before(prog, ip[q] + 1)
  <2>1. Before(prog, ip[q] + 1) = Before(prog, ip[q]) + Collectives(prog, ip[q])
    BY <1>1, <1>6, BeforeNext
  <2>2. Collectives(prog, ip[q]) \in 0..2
    BY CollectivesType
  <2>3. CASE Initialising(q)
    <3>1. Collectives(prog, ip[q]) = 2
      BY <1>1, <2>3 DEF Initialising, AtOp, Step, Collectives, RankInv, ObjectsThere
    <3>2. Open(q) => waiting[q] \in Global \ pointers[q]
      BY <1>1, <1>2, <2>3 DEF Initialising, AtOp, Open, RankInv, AtStep
    <3>3. Open(q) => Made(q) <= 1
      BY <1>2, <2>3, <3>2, GlobalCounted DEF Made
    <3> QED
      BY <1>1, <1>4, <1>5, <2>1, <3>1, <3>3
  <2>4. CASE ~Initialising(q)
    <3>1. Made(q) = 0
      BY <2>4 DEF Made
    <3>2. Open(q) => Step(q).op \in {"barrier", "create", "exchange"}
      BY <1>1, <1>2, <2>4 DEF Open, RankInv, AtStep, AtOp
    <3>3. Open(q) => Collectives(prog, ip[q]) = 1
      BY <3>2 DEF Collectives, Step
    <3> QED
      BY <1>1, <1>4, <1>5, <2>1, <2>2, <3>1, <3>3
  <2> QED
    BY <2>3, <2>4
<1> QED
  BY <1>1, <1>2, <1>4, <1>5, <1>6

\* What is known of a rank in an exchange.
LEMMA InsideFacts ==
    ASSUME Disciplined, ClustersInv, NEW p \in Proc, Inside(p)
    PROVE  /\ ip[p] \in Steps /\ prog.steps[ip[p]].op = "exchange"
           /\ Seen(p) = Before(prog, ip[p])
           /\ barriers[p] = IF reached_bar_req[p] THEN Before(prog, ip[p]) + 1 ELSE Before(prog, ip[p])
           /\ Before(prog, ip[p] + 1) = Before(prog, ip[p]) + 1
           /\ cur[p] = prog.steps[ip[p]].obj /\ cur[p] \in alive[p]
           /\ NBX_cnt[p] = CounterAt(prog, cur[p], ip[p])
           /\ done[p] = Exchanges(prog, ip[p])
           /\ Exchanges(prog, ip[p] + 1) = done[p] + 1
<1>1. /\ RankInv(p) /\ ip[p] \in Nat \ {0} /\ Before(prog, ip[p]) \in Nat
      /\ prog \in Programs /\ Steps = DOMAIN prog.steps
  BY Facts
<1>2. /\ waiting[p] = "no" /\ ip[p] \in Steps /\ prog.steps[ip[p]].op = "exchange"
      /\ cur[p] = prog.steps[ip[p]].obj
  BY <1>1 DEF RankInv, AtStep, AtOp, Step
<1>3. Made(p) = 0
  BY <1>2 DEF Made, Initialising, AtOp, Step
<1>4. Seen(p) = Before(prog, ip[p]) /\ done[p] = Exchanges(prog, ip[p])
  BY <1>1, <1>3 DEF RankInv, CallsCounted
<1>5. barriers[p] = IF reached_bar_req[p] THEN Before(prog, ip[p]) + 1 ELSE Before(prog, ip[p])
  <2>1. barriers[p] \in Nat
    BY CallsWithin
  <2>2. Open(p) <=> reached_bar_req[p]
    BY <1>2 DEF Open
  <2> QED
    BY <1>1, <1>4, <2>1, <2>2 DEF Seen
<1>6. Before(prog, ip[p] + 1) = Before(prog, ip[p]) + 1
  BY <1>1, <1>2, BeforeNext DEF Collectives
<1>7. Exchanges(prog, ip[p] + 1) = done[p] + 1
  BY <1>1, <1>2, <1>4, ExchangesNext
<1>8. cur[p] \in alive[p]
  <2>1. Exists(prog, cur[p], ip[p]) /\ cur[p] \in Object
    BY <1>1, <1>2, StepDiscipline, ProgramType
  <2>2. CASE cur[p] = "own"
    BY <1>1, <2>1, <2>2 DEF RankInv, ObjectsThere
  <2>3. CASE cur[p] \in Global
    <3>1. Exists(prog, "heap", ip[p])
      BY <2>1, <2>3 DEF Exists, Global
    <3> QED
      BY <1>1, <2>3, <3>1 DEF RankInv, ObjectsThere
  <2> QED
    BY <2>1, <2>2, <2>3 DEF Object
<1>9. NBX_cnt[p] = CounterAt(prog, cur[p], ip[p])
  BY <1>1, <1>8 DEF RankInv, Counters, CounterOf
<1> QED
  BY <1>2, <1>4, <1>5, <1>6, <1>7, <1>8, <1>9

\* The ranks are at or before the step of a message in flight; one that is in
\* an earlier exchange has entered its barrier, and no collective call lies
\* between.
LEMMA FlightPosition ==
    ASSUME Disciplined, ClustersInv, NEW m \in flight
    PROVE  /\ m.src \in Proc /\ m.dst \in Proc /\ m \in Message
           /\ Inside(m.src) /\ ~reached_bar_req[m.src]
           /\ m.round = done[m.src] /\ m.cnt = NBX_cnt[m.src]
           /\ \A p \in Proc : ip[p] <= ip[m.src]
           /\ \A p \in Proc : Inside(p) /\ ip[p] < ip[m.src] =>
                 reached_bar_req[p] /\ Before(prog, ip[m.src]) = Before(prog, ip[p] + 1)
<1> DEFINE s == m.src
<1>1. /\ m \in Message /\ s \in Proc /\ m.dst \in Proc
      /\ Inside(s) /\ ~reached_bar_req[s]
      /\ m.round = done[s] /\ m.cnt = NBX_cnt[s]
  BY DEF ClustersInv, Messages, TypeOK, Message, InFlight
<1> HIDE DEF s
<1>2. /\ ip[s] \in Nat \ {0} /\ Before(prog, ip[s]) \in Nat
      /\ barriers[s] = Before(prog, ip[s]) /\ Seen(s) = Before(prog, ip[s])
      /\ Before(prog, ip[s] + 1) = Before(prog, ip[s]) + 1
  BY <1>1, Facts, InsideFacts
<1>3. ASSUME NEW p \in Proc
      PROVE  ip[p] <= ip[s]
  <2>1. ip[p] \in Nat \ {0} /\ Before(prog, ip[p]) \in Nat
    BY Facts
  <2>2. Before(prog, ip[p]) <= Seen(p) /\ Seen(p) <= barriers[s] /\ Seen(p) \in Int
    BY <1>1, CallsWithin DEF ClustersInv, SeenByAll
  <2>3. ip[p] >= ip[s] + 1 => Before(prog, ip[s] + 1) <= Before(prog, ip[p])
    BY <1>2, <2>1, BeforeMonotone
  <2> QED
    BY <1>2, <2>1, <2>2, <2>3
<1>4. ASSUME NEW p \in Proc, Inside(p), ip[p] < ip[s]
      PROVE  reached_bar_req[p] /\ Before(prog, ip[s]) = Before(prog, ip[p] + 1)
  <2>1. ip[p] \in Nat \ {0} /\ Before(prog, ip[p]) \in Nat
    BY Facts
  <2>2. /\ barriers[p] = IF reached_bar_req[p] THEN Before(prog, ip[p]) + 1 ELSE Before(prog, ip[p])
        /\ Before(prog, ip[p] + 1) = Before(prog, ip[p]) + 1
    BY <1>4, InsideFacts
  <2>3. Seen(s) <= barriers[p]
    BY <1>1 DEF ClustersInv, SeenByAll
  <2>4. Before(prog, ip[p] + 1) <= Before(prog, ip[s])
    BY <1>2, <1>4, <2>1, BeforeMonotone
  <2> QED
    BY <1>2, <2>1, <2>2, <2>3, <2>4
<1> QED
  BY <1>1, <1>3, <1>4 DEF s

\* The tag tells which messages are of this exchange: the others that may be
\* there are of another counter.
LEMMA TagsTellHere ==
    ASSUME Disciplined, ClustersInv
    PROVE  TagsTell
<1> SUFFICES ASSUME NEW m \in flight, Inside(m.dst), m.cnt = NBX_cnt[m.dst]
             PROVE  m.round = done[m.dst]
  BY DEF TagsTell
<1>1. /\ m.src \in Proc /\ m.dst \in Proc /\ Inside(m.src)
      /\ m.round = done[m.src] /\ m.cnt = NBX_cnt[m.src]
      /\ ip[m.dst] <= ip[m.src]
      /\ ip[m.dst] < ip[m.src] => Before(prog, ip[m.src]) = Before(prog, ip[m.dst] + 1)
  BY FlightPosition
<1>2. /\ ip[m.src] \in Steps /\ prog.steps[ip[m.src]].op = "exchange"
      /\ NBX_cnt[m.src] = CounterAt(prog, prog.steps[ip[m.src]].obj, ip[m.src])
      /\ done[m.src] = Exchanges(prog, ip[m.src])
  BY <1>1, InsideFacts
<1>3. /\ ip[m.dst] \in Steps /\ prog.steps[ip[m.dst]].op = "exchange"
      /\ NBX_cnt[m.dst] = CounterAt(prog, prog.steps[ip[m.dst]].obj, ip[m.dst])
      /\ done[m.dst] = Exchanges(prog, ip[m.dst])
  BY <1>1, InsideFacts
<1>4. ip[m.dst] \in Nat /\ ip[m.src] \in Nat /\ prog \in Programs
  BY <1>1, Facts
<1>5. ~(ip[m.dst] < ip[m.src])
  BY <1>1, <1>2, <1>3, <1>4, CountersTell
<1> QED
  BY <1>1, <1>2, <1>3, <1>4, <1>5


LEMMA PollKept ==
    ASSUME Disciplined, ClustersInv, NEW p \in Proc, Poll(p)
    PROVE  Kept(p)
<1>1. /\ progressCommunication(p) \/ LoopAgain(p)
      /\ UNCHANGED <<prog, ip, cur, cnt, libVars, waiting>>
  BY DEF Poll
<1>2. /\ RankInv(p) /\ Messages /\ ClustersTypeOK /\ TypeOK
      /\ barriers[p] \in Nat /\ bar_req[p] \in Nat /\ reached_bar_req[p] \in BOOLEAN
  BY Facts, RankTypes DEF ClustersInv
<1>3. /\ Messages' /\ Inside(p) /\ Inside(p)'
      /\ UNCHANGED <<NBX_cnt, done>>
      /\ EnterBarrier(p) \/ UNCHANGED <<reached_bar_req, barriers, bar_req>>
  <2>1. CASE progressCommunication(p)
    <3>1. /\ Inside(p)
          /\ pc' = [pc EXCEPT ![p] = "test"]
          /\ UNCHANGED <<NBX_cnt, done>>
          /\ EnterBarrier(p) \/ UNCHANGED <<reached_bar_req, barriers, bar_req>>
      BY <2>1, ProgressEffect
    <3>2. Messages'
      BY <1>2, <2>1, TagsTellHere, ProgressKeepsMessages
    <3> QED
      BY <1>2, <3>1, <3>2 DEF Inside, TypeOK
  <2>2. CASE LoopAgain(p)
    <3>1. Messages'
      BY <1>2, <2>2, LoopKeepsMessages
    <3>2. /\ Inside(p) /\ Inside(p)'
          /\ UNCHANGED <<NBX_cnt, done, reached_bar_req, barriers, bar_req>>
      BY <1>2, <2>2 DEF LoopAgain, Inside, TypeOK
    <3> QED
      BY <3>1, <3>2
  <2> QED
    BY <1>1, <2>1, <2>2
<1>4. ClustersTypeOK'
  BY <1>1, <1>2, <1>3 DEF ClustersTypeOK, libVars, Messages
<1>5. SameStep(p) /\ Held(p)' = Held(p)
  BY <1>1 DEF SameStep, libVars, Held
<1>6. /\ ObjectsThere(p)' /\ ObjectsCounted(p)' /\ LibraryState(p)'
      /\ \A op : AtOp(p, op)' <=> AtOp(p, op)
      /\ Step(p)' = Step(p)
      /\ Made(p)' = Made(p)
  BY <1>2, <1>5, ObjectsStay
<1>7. waiting[p] = "no" /\ waiting'[p] = "no" /\ AtOp(p, "exchange") /\ cur[p] = Step(p).obj
  BY <1>1, <1>2, <1>3 DEF RankInv, AtStep
<1>8. AtStep(p)'
  BY <1>1, <1>6, <1>7 DEF AtStep, Object, Global
<1>9. Counters(p)'
  BY <1>1, <1>2, <1>3, <1>5 DEF RankInv, Counters, CounterOf, SameStep
<1>10. /\ Seen(p)' = Seen(p)
       /\ Inside(p) /\ reached_bar_req'[p] => bar_req'[p] = barriers'[p]
       /\ \A q \in Proc : barriers'[q] >= barriers[q]
  <2>1. CASE EnterBarrier(p)
    <3>1. /\ ~reached_bar_req[p] /\ reached_bar_req'[p]
          /\ barriers'[p] = barriers[p] + 1 /\ bar_req'[p] = barriers'[p]
          /\ \A q \in Proc : barriers'[q] >= barriers[q]
      BY <1>2, <2>1 DEF EnterBarrier, TypeOK
    <3>2. Seen(p) = barriers[p] /\ Seen(p)' = barriers'[p] - 1
      BY <1>3, <1>7, <3>1 DEF Seen, Open
    <3> QED
      BY <1>2, <3>1, <3>2
  <2>2. CASE UNCHANGED <<reached_bar_req, barriers, bar_req>>
    <3>1. Seen(p)' = Seen(p)
      BY <1>1, <1>3, <2>2 DEF Seen, Open
    <3>2. reached_bar_req'[p] => bar_req'[p] = barriers'[p]
      BY <1>2, <1>3, <2>2 DEF RankInv, CallsCounted
    <3> QED
      BY <1>2, <2>2, <3>1, <3>2 DEF TypeOK
  <2> QED
    BY <1>3, <2>1, <2>2
<1>11. CallsCounted(p)'
  BY <1>1, <1>2, <1>3, <1>6, <1>10 DEF RankInv, CallsCounted
<1> QED
  BY <1>1, <1>3, <1>4, <1>6, <1>8, <1>9, <1>10, <1>11 DEF Kept, RankInv

----------------------------------------------------------------------------
(* Steps that take rank p to the next step of the program.                 *)

\* Between two steps a rank is in no call, and has not begun openfpm_init.
LEMMA Advanced ==
    ASSUME Disciplined, ClustersInv, NEW p \in Proc, ip[p] \in Steps, ClustersTypeOK',
           prog' = prog, ip'[p] = ip[p] + 1, waiting'[p] = "no", ~Inside(p)',
           ofp_initialized'[p] \/ Finalized(prog, ip[p] + 1) \/ pointers'[p] = {},
           barriers'[p] = Before(prog, ip[p] + 1),
           done'[p] = Exchanges(prog, ip[p] + 1)
    PROVE  AtStep(p)' /\ CallsCounted(p)' /\ Seen(p)' = barriers'[p]
<1>1. AtStep(p)'
  BY DEF AtStep, Object, Global
<1>2. prog \in Programs /\ ip[p] \in Nat
  BY Facts
<1>3. Initialising(p)' => pointers'[p] = {}
  <2> SUFFICES ASSUME Initialising(p)'
               PROVE  pointers'[p] = {}
    OBVIOUS
  <2>1. ip[p] + 1 \in Steps /\ prog.steps[ip[p] + 1].op = "init" /\ ~ofp_initialized'[p]
    BY DEF Initialising, AtOp, Step, Steps
  <2> QED
    BY <1>2, <2>1, StepDiscipline
<1>4. Made(p)' = 0
  BY <1>3, FS_EmptySet DEF Made
<1>5. Before(prog, ip[p] + 1) \in Nat
  BY <1>2, BeforeMonotone
<1>6. ~Open(p)'
  BY DEF Open
<1>7. Seen(p)' = barriers'[p]
  BY <1>6 DEF Seen
<1> QED
  BY <1>1, <1>4, <1>5, <1>7 DEF CallsCounted

\* Steps that make and destroy no object.
LEMMA ObjectsNext ==
    ASSUME Disciplined, ClustersInv, NEW p \in Proc, ip[p] \in Steps,
           Step(p).op \in {"barrier", "exchange"} \/ (Step(p).op = "init" /\ ofp_initialized[p]),
           prog' = prog, ip'[p] = ip[p] + 1,
           alive'[p] = alive[p], pointers'[p] = pointers[p], n_vcluster'[p] = n_vcluster[p],
           ofp_initialized'[p] = ofp_initialized[p], mpi'[p] = mpi[p],
           Held(p)' = Held(p)
    PROVE  /\ ObjectsThere(p)' /\ ObjectsCounted(p)' /\ LibraryState(p)'
           /\ ofp_initialized'[p] \/ Finalized(prog, ip[p] + 1) \/ pointers'[p] = {}
<1>1. /\ RankInv(p) /\ ip[p] \in Nat \ {0} /\ ofp_initialized[p] \in BOOLEAN
  BY Facts, RankTypes DEF ClustersInv
<1>2. /\ Exists(prog, "own", ip[p] + 1) <=> Exists(prog, "own", ip[p])
      /\ Exists(prog, "heap", ip[p] + 1) <=> Exists(prog, "heap", ip[p])
      /\ Finalized(prog, ip[p] + 1) <=> Finalized(prog, ip[p])
  <2>1. Step(p).op = "init" => Exists(prog, "heap", ip[p])
    BY <1>1 DEF RankInv, ObjectsThere
  <2> QED
    BY <1>1, <2>1, ExistsNext DEF Step
<1>3. ~ofp_initialized[p] /\ ~Finalized(prog, ip[p]) => pointers[p] = {}
  BY <1>1 DEF RankInv, ObjectsThere, Initialising, AtOp
<1>4. ObjectsThere(p)'
  BY <1>1, <1>2, <1>3 DEF RankInv, ObjectsThere
<1>5. ObjectsCounted(p)'
  BY <1>1 DEF RankInv, ObjectsCounted
<1>6. LibraryState(p)'
  BY <1>1, OverNext DEF RankInv, LibraryState
<1> QED
  BY <1>2, <1>3, <1>4, <1>5, <1>6

LEMMA LeaveBarrierKept ==
    ASSUME Disciplined, ClustersInv, NEW p \in Proc, LeaveBarrierCall(p)
    PROVE  Kept(p)
<1>1. /\ waiting[p] = "barrier"
      /\ BarrierComplete(barriers, barriers[p])
      /\ waiting' = [waiting EXCEPT ![p] = "no"]
      /\ ip' = [ip EXCEPT ![p] = @ + 1]
      /\ UNCHANGED <<vars, prog, cur, cnt, libVars>>
  BY DEF LeaveBarrierCall, LeaveCollective, NextStep
<1>2. /\ RankInv(p) /\ Messages /\ ClustersTypeOK /\ TypeOK
      /\ ip[p] \in Nat \ {0} /\ Steps = 1..Len(prog.steps) /\ Steps = DOMAIN prog.steps
      /\ Len(prog.steps) \in Nat /\ barriers[p] \in Nat /\ Before(prog, ip[p]) \in Nat
  BY Facts, RankTypes DEF ClustersInv
<1>3. ip[p] \in Steps /\ Step(p).op = "barrier"
  BY <1>1, <1>2 DEF RankInv, AtStep, AtOp
<1>4. ip'[p] = ip[p] + 1 /\ waiting'[p] = "no"
  BY <1>1, <1>2 DEF ClustersTypeOK
<1>5. ClustersTypeOK'
  <2>1. TypeOK'
    BY <1>1, <1>2 DEF TypeOK, vars, rankVars, Message
  <2>2. /\ ip' \in [Proc -> 1..(Len(prog.steps) + 1)]
        /\ waiting' \in [Proc -> Object \cup {"no", "barrier"}]
    BY <1>1, <1>2, <1>3 DEF ClustersTypeOK
  <2> QED
    BY <1>1, <1>2, <2>1, <2>2 DEF ClustersTypeOK, libVars
<1>6. ~Inside(p) /\ ~Inside(p)'
  BY <1>1, <1>2 DEF RankInv, AtStep, vars, rankVars, Inside
<1>7. Messages'
  BY <1>1, <1>2, <1>5, <1>6, MessagesStay DEF vars, rankVars, ClustersTypeOK
<1>8. Held(p)' = Held(p)
  BY <1>1, <1>4 DEF Held, libVars, Object, Global
<1>9. /\ ObjectsThere(p)' /\ ObjectsCounted(p)' /\ LibraryState(p)'
      /\ ofp_initialized'[p] \/ Finalized(prog, ip[p] + 1) \/ pointers'[p] = {}
  BY <1>1, <1>3, <1>4, <1>8, ObjectsNext DEF libVars
<1>10. /\ barriers'[p] = Before(prog, ip[p] + 1) /\ done'[p] = Exchanges(prog, ip[p] + 1)
       /\ \A q \in Proc : barriers'[p] <= barriers[q] /\ barriers'[q] >= barriers[q]
  <2>1. Made(p) = 0 /\ Open(p)
    BY <1>1, <1>3 DEF Made, Initialising, AtOp, Open
  <2>2. barriers[p] = Before(prog, ip[p]) + 1 /\ done[p] = Exchanges(prog, ip[p])
    BY <1>2, <2>1 DEF RankInv, CallsCounted, Seen
  <2>3. Before(prog, ip[p] + 1) = Before(prog, ip[p]) + 1
    BY <1>2, <1>3, BeforeNext DEF Collectives, Step
  <2>4. Exchanges(prog, ip[p] + 1) = Exchanges(prog, ip[p])
    BY <1>2, <1>3, ExchangesNext DEF Step
  <2>5. \A q \in Proc : barriers[p] <= barriers[q]
    BY <1>1, <1>2 DEF BarrierComplete, TypeOK
  <2> QED
    BY <1>1, <1>2, <2>2, <2>3, <2>4, <2>5 DEF vars, rankVars, TypeOK
<1>11. AtStep(p)' /\ CallsCounted(p)' /\ Seen(p)' = barriers'[p]
  BY <1>1, <1>3, <1>4, <1>5, <1>6, <1>9, <1>10, Advanced
<1>12. Counters(p)'
  <2>1. \A o : CounterAt(prog, o, ip[p] + 1) = CounterAt(prog, o, ip[p])
    BY <1>2, <1>3, CounterAtNext DEF Step
  <2> QED
    BY <1>1, <1>2, <1>4, <2>1 DEF RankInv, Counters, CounterOf, vars, rankVars, libVars
<1> QED
  BY <1>1, <1>5, <1>7, <1>9, <1>10, <1>11, <1>12 DEF Kept, RankInv

LEMMA EndKept ==
    ASSUME Disciplined, ClustersInv, NEW p \in Proc, End(p)
    PROVE  Kept(p)
<1>1. /\ Leave(p)
      /\ pc[p] = "test" /\ reached_bar_req[p] /\ BarrierComplete(barriers, bar_req[p])
      /\ pc' = [pc EXCEPT ![p] = "app"]
      /\ NBX_cnt' = [NBX_cnt EXCEPT ![p] = NextCnt(@)]
      /\ done' = [done EXCEPT ![p] = @ + 1]
      /\ ip' = [ip EXCEPT ![p] = @ + 1]
      /\ UNCHANGED <<reached_bar_req, barriers, prog, cur, cnt, libVars, waiting>>
  BY DEF End, Leave, BarrierPassed, NextStep
<1>2. /\ RankInv(p) /\ Messages /\ ClustersTypeOK /\ TypeOK
      /\ ip[p] \in Nat \ {0} /\ Steps = 1..Len(prog.steps) /\ Steps = DOMAIN prog.steps
      /\ Len(prog.steps) \in Nat /\ barriers[p] \in Nat /\ Before(prog, ip[p]) \in Nat
  BY Facts, RankTypes DEF ClustersInv
<1>3. Inside(p) /\ ~Inside(p)'
  BY <1>1, <1>2 DEF Inside, TypeOK
<1>4. /\ ip[p] \in Steps /\ Step(p).op = "exchange" /\ waiting[p] = "no"
      /\ barriers[p] = Before(prog, ip[p]) + 1 /\ bar_req[p] = barriers[p]
      /\ Before(prog, ip[p] + 1) = Before(prog, ip[p]) + 1
      /\ cur[p] = prog.steps[ip[p]].obj
      /\ NBX_cnt[p] = CounterAt(prog, cur[p], ip[p])
      /\ Exchanges(prog, ip[p] + 1) = done[p] + 1
  BY <1>1, <1>2, <1>3, InsideFacts DEF RankInv, AtStep, CallsCounted, Step
<1>5. /\ ip'[p] = ip[p] + 1 /\ waiting'[p] = "no" /\ done'[p] = done[p] + 1
      /\ NBX_cnt'[p] = NextCnt(NBX_cnt[p])
  BY <1>1, <1>2, <1>4 DEF ClustersTypeOK, TypeOK
<1>6. Messages'
  BY <1>1, <1>2, LeaveKeepsMessages
<1>7. ClustersTypeOK'
  BY <1>1, <1>2, <1>4, <1>6 DEF ClustersTypeOK, libVars, Messages
<1>8. Held(p)' = Held(p)
  BY <1>1 DEF Held, libVars
<1>9. /\ ObjectsThere(p)' /\ ObjectsCounted(p)' /\ LibraryState(p)'
      /\ ofp_initialized'[p] \/ Finalized(prog, ip[p] + 1) \/ pointers'[p] = {}
  BY <1>1, <1>4, <1>5, <1>8, ObjectsNext DEF libVars
<1>10. \A q \in Proc : barriers'[p] <= barriers[q] /\ barriers'[q] >= barriers[q]
  BY <1>1, <1>2, <1>4 DEF BarrierComplete, TypeOK
<1>11. AtStep(p)' /\ CallsCounted(p)' /\ Seen(p)' = barriers'[p]
  BY <1>1, <1>3, <1>4, <1>5, <1>7, <1>9, Advanced
<1>12. Counters(p)'
  <2>1. CounterAt(prog, cur[p], ip[p] + 1) = NextCnt(NBX_cnt[p])
    BY <1>2, <1>4, CounterAtNext DEF Step
  <2>2. \A o : o # cur[p] => CounterAt(prog, o, ip[p] + 1) = CounterAt(prog, o, ip[p])
    BY <1>2, <1>4, CounterAtNext DEF Step
  <2> QED
    BY <1>1, <1>2, <1>5, <2>1, <2>2 DEF RankInv, Counters, CounterOf, libVars
<1> QED
  BY <1>1, <1>6, <1>7, <1>9, <1>10, <1>11, <1>12 DEF Kept, RankInv

----------------------------------------------------------------------------
(* Making objects.                                                         *)

\* The object that is made is not there, and MPI is.
LEMMA MakingNew ==
    ASSUME Disciplined, ClustersInv, NEW p \in Proc, NEW o \in Object, Making(p, o)
    PROVE  /\ o \notin alive[p] /\ mpi[p] # "finalized"
           /\ \/ AtOp(p, "create") /\ Step(p).obj = o
              \/ /\ Initialising(p) /\ o \in Global \ pointers[p]
                 /\ o = "cuda" => "heap" \in pointers[p]
<1>1. /\ RankInv(p) /\ ip[p] \in Nat \ {0} /\ prog \in Programs
      /\ ip[p] \in Steps <=> ip[p] <= Len(prog.steps)
  BY Facts
<1>2. ip[p] \in Steps /\ Step(p).op \in {"create", "init"}
  BY <1>1 DEF Making, At
<1>3. mpi[p] # "finalized"
  BY <1>1, <1>2, StepDiscipline DEF RankInv, LibraryState, Step
<1>4. CASE At(p, "create") /\ o = Step(p).obj
  <2>1. o = "own" /\ ~Exists(prog, "own", ip[p])
    BY <1>1, <1>2, <1>4, StepDiscipline DEF At, Step
  <2> QED
    BY <1>1, <1>2, <1>3, <1>4, <2>1 DEF RankInv, ObjectsThere, AtOp, At
<1>5. CASE /\ At(p, "init") /\ ~ofp_initialized[p]
           /\ o \in Missing(p)
           /\ o = "cuda" => "heap" \notin Missing(p)
  <2>1. Initialising(p) /\ o \in Global \ pointers[p]
    BY <1>2, <1>5 DEF Initialising, AtOp, At, Missing
  <2>2. ~Finalized(prog, ip[p])
    BY <1>1, <1>2, <1>5, StepDiscipline DEF At, Step
  <2>3. pointers[p] = alive[p] \cap Global
    BY <1>1, <1>5, <2>2 DEF RankInv, ObjectsThere
  <2> QED
    BY <1>3, <1>5, <2>1, <2>3 DEF Missing, Global
<1> QED
  BY <1>4, <1>5 DEF Making

LEMMA ObjectsFinite ==
    ASSUME NEW S, S \subseteq Object
    PROVE  IsFiniteSet(S) /\ Cardinality(S) \in Nat
<1>1. IsFiniteSet(Global)
  BY GlobalCounted
<1>2. IsFiniteSet(Object)
  BY <1>1, FS_AddElement DEF Object
<1> QED
  BY <1>2, FS_Subset, FS_CardinalityType

LEMMA ConstructKept ==
    ASSUME Disciplined, ClustersInv, NEW p \in Proc, NEW o \in Object, Construct(p, o)
    PROVE  Kept(p)
<1>1. /\ Making(p, o)
      /\ n_vcluster' = [n_vcluster EXCEPT ![p] = @ + 1]
      /\ mpi' = [mpi EXCEPT ![p] = IF @ = "none" THEN "up" ELSE @]
      /\ waiting' = [waiting EXCEPT ![p] = o]
      /\ barriers' = [barriers EXCEPT ![p] = @ + 1]
      /\ UNCHANGED <<rankVars, sent, flight, prog, ip, cur, cnt, alive, pointers, ofp_initialized>>
  BY DEF Construct, EnterCollective
<1>2. /\ RankInv(p) /\ Messages /\ ClustersTypeOK /\ TypeOK /\ barriers[p] \in Nat
      /\ n_vcluster[p] \in Nat /\ mpi[p] \in {"none", "up", "finalized"}
      /\ alive[p] \subseteq Object
  BY Facts, RankTypes DEF ClustersInv
<1>3. /\ o \notin alive[p] /\ mpi[p] # "finalized"
      /\ \/ AtOp(p, "create") /\ Step(p).obj = o
         \/ /\ Initialising(p) /\ o \in Global \ pointers[p]
            /\ o = "cuda" => "heap" \in pointers[p]
  BY <1>1, MakingNew
<1>4. /\ waiting'[p] = o /\ barriers'[p] = barriers[p] + 1
      /\ \A q \in Proc \ {p} : barriers'[q] = barriers[q]
      /\ n_vcluster'[p] = n_vcluster[p] + 1 /\ mpi'[p] = "up"
  BY <1>1, <1>2, <1>3 DEF ClustersTypeOK, TypeOK
<1>5. ClustersTypeOK'
  <2>1. TypeOK'
    BY <1>1, <1>2 DEF TypeOK, rankVars, Message
  <2>2. /\ n_vcluster' \in [Proc -> Nat]
        /\ mpi' \in [Proc -> {"none", "up", "finalized"}]
        /\ waiting' \in [Proc -> Object \cup {"no", "barrier"}]
    BY <1>1, <1>2 DEF ClustersTypeOK
  <2> QED
    BY <1>1, <1>2, <2>1, <2>2 DEF ClustersTypeOK
<1>6. pc[p] = "app" /\ waiting[p] = "no"
  BY <1>1 DEF Making, At
<1>7. ~Inside(p) /\ ~Inside(p)'
  BY <1>1, <1>6 DEF Inside, rankVars
<1>8. Messages'
  BY <1>1, <1>2, <1>5, <1>7, MessagesStay DEF rankVars, ClustersTypeOK
<1>9. /\ \A op : AtOp(p, op)' <=> AtOp(p, op)
      /\ Step(p)' = Step(p)
      /\ Initialising(p)' <=> Initialising(p)
      /\ Made(p)' = Made(p)
  BY <1>1 DEF AtOp, Step, Steps, Initialising, Made
<1>10. AtStep(p)'
  <2>1. o # "barrier"
    BY DEF Object, Global
  <2> QED
    BY <1>1, <1>3, <1>4, <1>7, <1>9, <2>1 DEF AtStep
<1>11. ObjectsThere(p)'
  BY <1>1, <1>2, <1>9 DEF RankInv, ObjectsThere
<1>12. ObjectsCounted(p)'
  <2>1. Held(p) = alive[p]
    BY <1>6 DEF Held, Object, Global
  <2>2. Held(p)' = alive[p] \cup {o}
    BY <1>1, <1>4 DEF Held
  <2>3. IsFiniteSet(alive[p])
    BY <1>2, ObjectsFinite
  <2>4. Cardinality(alive[p] \cup {o}) = Cardinality(alive[p]) + 1
    BY <1>3, <2>3, FS_AddElement
  <2>5. n_vcluster[p] = Cardinality(alive[p])
    BY <1>2, <2>1 DEF RankInv, ObjectsCounted
  <2> QED
    BY <1>4, <2>2, <2>4, <2>5 DEF ObjectsCounted
<1>13. LibraryState(p)'
  BY <1>2, <1>4 DEF LibraryState
<1>14. Counters(p)'
  BY <1>1, <1>2 DEF RankInv, Counters, CounterOf, rankVars
<1>15. Seen(p)' = Seen(p)
  <2>1. ~Open(p)
    BY <1>6, <1>7 DEF Open
  <2>2. Open(p)'
    BY <1>4 DEF Open, Object, Global
  <2> QED
    BY <1>2, <1>4, <2>1, <2>2 DEF Seen
<1>16. CallsCounted(p)'
  BY <1>1, <1>2, <1>7, <1>9, <1>15 DEF RankInv, CallsCounted, rankVars
<1>17. \A q \in Proc : barriers'[q] >= barriers[q]
  BY <1>2, <1>4 DEF TypeOK
<1> QED
  BY <1>1, <1>5, <1>8, <1>10, <1>11, <1>12, <1>13, <1>14, <1>15, <1>16, <1>17 DEF Kept, RankInv

\* The counter of the object made is 0, the others stay.
LEMMA ConstructedCounters ==
    ASSUME ClustersTypeOK, NEW p \in Proc, NEW o \in Object, Constructed(p, o)
    PROVE  /\ \A x \in Object : CounterOf(p, x)' = IF x = o THEN 0 ELSE CounterOf(p, x)
           /\ NBX_cnt' \in [Proc -> 0..(nbx_cycle - 1)]
           /\ cnt' \in [Proc -> [Object -> 0..(nbx_cycle - 1)]]
           /\ \A q \in Proc \ {p} : NBX_cnt'[q] = NBX_cnt[q]
<1>1. /\ IF cur[p] = o
         THEN NBX_cnt' = [NBX_cnt EXCEPT ![p] = 0] /\ UNCHANGED cnt
         ELSE cnt' = [cnt EXCEPT ![p][o] = 0] /\ UNCHANGED NBX_cnt
      /\ cur' = cur
  BY DEF Constructed
<1>2. /\ NBX_cnt \in [Proc -> 0..(nbx_cycle - 1)] /\ 0 \in 0..(nbx_cycle - 1)
      /\ cnt \in [Proc -> [Object -> 0..(nbx_cycle - 1)]] /\ cnt[p] \in [Object -> 0..(nbx_cycle - 1)]
  BY NBXAssumption DEF ClustersTypeOK, TypeOK
<1>3. CASE cur[p] = o
  BY <1>1, <1>2, <1>3 DEF CounterOf
<1>4. CASE cur[p] # o
  <2>1. cnt' = [cnt EXCEPT ![p] = [cnt[p] EXCEPT ![o] = 0]] /\ NBX_cnt' = NBX_cnt
    BY <1>1, <1>4
  <2>2. [cnt[p] EXCEPT ![o] = 0] \in [Object -> 0..(nbx_cycle - 1)]
    BY <1>2
  <2>3. /\ cnt' \in [Proc -> [Object -> 0..(nbx_cycle - 1)]]
        /\ cnt'[p] = [cnt[p] EXCEPT ![o] = 0]
    BY <1>2, <2>1, <2>2
  <2>4. \A x \in Object : cnt'[p][x] = IF x = o THEN 0 ELSE cnt[p][x]
    BY <1>2, <2>3
  <2> QED
    BY <1>1, <1>2, <1>4, <2>1, <2>3, <2>4 DEF CounterOf
<1> QED
  BY <1>3, <1>4

LEMMA ConstructedKept ==
    ASSUME Disciplined, ClustersInv, NEW p \in Proc, NEW o \in Object, Constructed(p, o)
    PROVE  Kept(p)
<1>1. /\ waiting[p] = o /\ BarrierComplete(barriers, barriers[p])
      /\ waiting' = [waiting EXCEPT ![p] = "no"]
      /\ alive' = [alive EXCEPT ![p] = @ \cup {o}]
      /\ pointers' = [pointers EXCEPT ![p] = IF o \in Global THEN @ \cup {o} ELSE @]
      /\ IF Step(p).op = "create" THEN ip' = [ip EXCEPT ![p] = @ + 1] ELSE UNCHANGED ip
      /\ UNCHANGED <<pc, req, reached_bar_req, bar_req, rid, got, done, sent, flight, barriers,
                     prog, cur, n_vcluster, ofp_initialized, mpi>>
  BY DEF Constructed, LeaveCollective, NextStep
<1>2. /\ RankInv(p) /\ Messages /\ ClustersTypeOK /\ TypeOK /\ prog \in Programs
      /\ ip[p] \in Nat \ {0} /\ Steps = 1..Len(prog.steps) /\ Steps = DOMAIN prog.steps
      /\ Len(prog.steps) \in Nat /\ barriers[p] \in Nat /\ Before(prog, ip[p]) \in Nat
      /\ ip[p] \in 1..(Len(prog.steps) + 1)
      /\ alive[p] \subseteq Object /\ pointers[p] \subseteq Global
  BY Facts, RankTypes DEF ClustersInv
<1>3. /\ ip[p] \in Steps /\ o \notin alive[p] /\ o # "no"
      /\ \/ AtOp(p, "create") /\ Step(p).obj = o
         \/ /\ Initialising(p) /\ o \in Global \ pointers[p]
            /\ o = "cuda" => "heap" \in pointers[p]
  BY <1>1, <1>2 DEF RankInv, AtStep, AtOp, Initialising, Object, Global
<1>4. /\ waiting'[p] = "no" /\ alive'[p] = alive[p] \cup {o}
      /\ pointers'[p] = IF o \in Global THEN pointers[p] \cup {o} ELSE pointers[p]
  BY <1>1, <1>2 DEF ClustersTypeOK
<1>5. /\ \A x \in Object : CounterOf(p, x)' = IF x = o THEN 0 ELSE CounterOf(p, x)
      /\ NBX_cnt' \in [Proc -> 0..(nbx_cycle - 1)]
      /\ cnt' \in [Proc -> [Object -> 0..(nbx_cycle - 1)]]
      /\ \A q \in Proc \ {p} : NBX_cnt'[q] = NBX_cnt[q]
  BY <1>2, ConstructedCounters
<1>6. ClustersTypeOK'
  <2>1. TypeOK'
    BY <1>1, <1>2, <1>5 DEF TypeOK, Message
  <2>2. ip' \in [Proc -> 1..(Len(prog.steps) + 1)]
    <3>1. ip \in [Proc -> 1..(Len(prog.steps) + 1)] /\ ip[p] + 1 \in 1..(Len(prog.steps) + 1)
      BY <1>2, <1>3 DEF ClustersTypeOK
    <3>2. ip' = [ip EXCEPT ![p] = ip[p] + 1] \/ ip' = ip
      BY <1>1
    <3> QED
      BY <3>1, <3>2
  <2>3. /\ alive' \in [Proc -> SUBSET Object] /\ pointers' \in [Proc -> SUBSET Global]
        /\ waiting' \in [Proc -> Object \cup {"no", "barrier"}]
    BY <1>1, <1>2 DEF ClustersTypeOK
  <2> QED
    BY <1>1, <1>2, <1>5, <2>1, <2>2, <2>3 DEF ClustersTypeOK
<1>7. ~Inside(p) /\ ~Inside(p)'
  BY <1>1, <1>2, <1>3 DEF RankInv, AtStep, Inside
<1>8. Messages'
  BY <1>1, <1>2, <1>5, <1>6, <1>7, MessagesStay DEF ClustersTypeOK
<1>9. /\ barriers[p] = Seen(p) + 1 /\ Seen(p) = Before(prog, ip[p]) + Made(p)
      /\ \A q \in Proc : barriers'[p] <= barriers[q] /\ barriers'[q] >= barriers[q]
  <2>1. Open(p)
    BY <1>1, <1>3 DEF Open
  <2>2. Seen(p) = barriers[p] - 1 /\ Seen(p) = Before(prog, ip[p]) + Made(p)
    BY <1>2, <2>1 DEF Seen, RankInv, CallsCounted
  <2>3. \A q \in Proc : barriers[p] <= barriers[q] /\ barriers[q] >= barriers[q]
    BY <1>1, <1>2 DEF BarrierComplete, TypeOK
  <2> QED
    BY <1>1, <1>2, <2>2, <2>3
<1>10. ObjectsCounted(p)'
  <2>1. Held(p) = alive[p] \cup {o}
    BY <1>1 DEF Held
  <2>2. Held(p)' = alive[p] \cup {o}
    BY <1>4 DEF Held, Object, Global
  <2> QED
    BY <1>1, <1>2, <2>1, <2>2 DEF RankInv, ObjectsCounted
<1>11. CASE AtOp(p, "create") /\ Step(p).obj = o
  <2>1. ip'[p] = ip[p] + 1 /\ Step(p).op = "create" /\ o = "own"
    BY <1>1, <1>2, <1>3, <1>11, StepDiscipline DEF AtOp, Step, ClustersTypeOK
  <2>2. pointers'[p] = pointers[p] /\ ~Initialising(p) /\ alive'[p] \cap Global = alive[p] \cap Global
    BY <1>4, <2>1 DEF Global, Initialising, AtOp
  <2>3. /\ Exists(prog, "own", ip[p] + 1)
        /\ Exists(prog, "heap", ip[p] + 1) <=> Exists(prog, "heap", ip[p])
        /\ Finalized(prog, ip[p] + 1) <=> Finalized(prog, ip[p])
    BY <1>2, <2>1, ExistsNext DEF Step
  <2>4. ofp_initialized'[p] \/ Finalized(prog, ip[p] + 1) \/ pointers'[p] = {}
    BY <1>1, <1>2, <2>2, <2>3 DEF RankInv, ObjectsThere
  <2>5. ObjectsThere(p)'
    BY <1>1, <1>2, <1>4, <2>1, <2>2, <2>3, <2>4 DEF RankInv, ObjectsThere
  <2>6. LibraryState(p)'
    BY <1>1, <1>2, <2>1, OverNext DEF RankInv, LibraryState
  <2>7. barriers'[p] = Before(prog, ip[p] + 1) /\ done'[p] = Exchanges(prog, ip[p] + 1)
    <3>1. Before(prog, ip[p] + 1) = Before(prog, ip[p]) + 1
      BY <1>2, <1>3, <2>1, BeforeNext DEF Collectives, Step
    <3>2. Exchanges(prog, ip[p] + 1) = Exchanges(prog, ip[p])
      BY <1>2, <1>3, <2>1, ExchangesNext DEF Step
    <3>3. Made(p) = 0
      BY <2>2 DEF Made
    <3>4. done[p] = Exchanges(prog, ip[p])
      BY <1>2 DEF RankInv, CallsCounted
    <3> QED
      BY <1>1, <1>2, <1>9, <3>1, <3>2, <3>3, <3>4
  <2>8. AtStep(p)' /\ CallsCounted(p)' /\ Seen(p)' = barriers'[p]
    BY <1>1, <1>3, <1>4, <1>6, <1>7, <2>1, <2>4, <2>7, Advanced
  <2>9. Counters(p)'
    <3>1. CounterAt(prog, "own", ip[p] + 1) = 0
      BY <1>2, <2>1, CounterAtNext DEF Step
    <3>2. \A x : x # "own" => CounterAt(prog, x, ip[p] + 1) = CounterAt(prog, x, ip[p])
      BY <1>2, <2>1, CounterAtNext DEF Step
    <3>3. \A x \in alive[p] : x \in Object /\ CounterOf(p, x) = CounterAt(prog, x, ip[p])
      BY <1>2 DEF RankInv, Counters
    <3>4. \A x \in alive'[p] : CounterOf(p, x)' = CounterAt(prog, x, ip'[p])
      BY <1>3, <1>4, <1>5, <2>1, <3>1, <3>2, <3>3
    <3> QED
      BY <1>1, <3>4 DEF Counters
  <2> QED
    BY <1>1, <1>6, <1>8, <1>9, <1>10, <2>5, <2>6, <2>8, <2>9 DEF Kept, RankInv
<1>12. CASE /\ Initialising(p) /\ o \in Global \ pointers[p]
            /\ o = "cuda" => "heap" \in pointers[p]
  <2>1. ip' = ip /\ Step(p).op = "init" /\ ~ofp_initialized[p]
    BY <1>1, <1>12 DEF Initialising, AtOp
  <2>2. ~Finalized(prog, ip[p])
    BY <1>2, <1>3, <2>1, StepDiscipline DEF Step
  <2>3. /\ pointers'[p] = pointers[p] \cup {o}
        /\ pointers[p] = alive[p] \cap Global
        /\ "cuda" \in pointers[p] => "heap" \in pointers[p]
        /\ Initialising(p)'
    BY <1>1, <1>2, <1>4, <1>12, <2>1, <2>2
       DEF RankInv, ObjectsThere, Initialising, AtOp, Step, Steps
  <2>4. AtStep(p)'
    BY <1>4, <1>7 DEF AtStep, Object, Global
  <2>5. ObjectsThere(p)'
    <3>1. ("own" \in alive'[p]) <=> ("own" \in alive[p])
      BY <1>4, <1>12 DEF Global
    <3>2. pointers'[p] = alive'[p] \cap Global
      <4>1. o \in Global /\ alive'[p] = alive[p] \cup {o}
        BY <1>4, <1>12
      <4>2. (alive[p] \cup {o}) \cap Global = (alive[p] \cap Global) \cup {o}
        BY <4>1
      <4> QED
        BY <2>3, <4>1, <4>2
    <3>3. "cuda" \in pointers'[p] => "heap" \in pointers'[p]
      BY <1>12, <2>3 DEF Global
    <3> QED
      BY <1>1, <1>2, <2>1, <2>2, <2>3, <3>1, <3>2, <3>3 DEF RankInv, ObjectsThere
  <2>6. LibraryState(p)'
    BY <1>1, <1>2, <2>1 DEF RankInv, LibraryState
  <2>7. Made(p)' = Made(p) + 1 /\ Made(p) \in Nat
    <3>1. Cardinality(pointers[p] \cup {o}) = Cardinality(pointers[p]) + 1
      BY <1>2, <1>12, GlobalCounted
    <3>2. Cardinality(pointers[p]) \in 0..2
      BY <1>2, GlobalCounted
    <3> QED
      BY <1>12, <2>3, <3>1, <3>2 DEF Made
  <2>8. Seen(p)' = barriers'[p]
    BY <1>4, <1>7 DEF Seen, Open
  <2>9. CallsCounted(p)'
    BY <1>1, <1>2, <1>7, <1>9, <2>1, <2>7, <2>8 DEF RankInv, CallsCounted
  <2>10. Counters(p)'
    <3>1. CounterAt(prog, o, ip[p]) = 0
      <4>1. ~Exists(prog, "heap", ip[p])
        BY <1>2, <2>1 DEF RankInv, ObjectsThere
      <4> QED
        BY <1>2, <1>12, <2>2, <4>1, CounterFirst
    <3>2. \A x \in alive[p] : x \in Object /\ CounterOf(p, x) = CounterAt(prog, x, ip[p])
      BY <1>2 DEF RankInv, Counters
    <3>3. \A x \in alive'[p] : CounterOf(p, x)' = CounterAt(prog, x, ip'[p])
      BY <1>3, <1>4, <1>5, <2>1, <3>1, <3>2
    <3> QED
      BY <1>1, <3>3 DEF Counters
  <2> QED
    BY <1>1, <1>6, <1>8, <1>9, <1>10, <2>4, <2>5, <2>6, <2>8, <2>9, <2>10 DEF Kept, RankInv
<1> QED
  BY <1>3, <1>11, <1>12

LEMMA EndInitKept ==
    ASSUME Disciplined, ClustersInv, NEW p \in Proc, EndInit(p)
    PROVE  Kept(p)
<1>1. /\ pc[p] = "app" /\ waiting[p] = "no" /\ ip[p] <= Len(prog.steps) /\ Step(p).op = "init"
      /\ ofp_initialized[p] \/ Missing(p) = {}
      /\ ofp_initialized' = [ofp_initialized EXCEPT ![p] = TRUE]
      /\ ip' = [ip EXCEPT ![p] = @ + 1]
      /\ UNCHANGED <<vars, prog, cur, cnt, alive, pointers, n_vcluster, mpi, waiting>>
  BY DEF EndInit, At, NextStep
<1>2. /\ RankInv(p) /\ Messages /\ ClustersTypeOK /\ TypeOK /\ prog \in Programs
      /\ ip[p] \in Nat \ {0} /\ ip[p] \in Steps
      /\ Steps = 1..Len(prog.steps) /\ Steps = DOMAIN prog.steps
      /\ Len(prog.steps) \in Nat /\ barriers[p] \in Nat /\ Before(prog, ip[p]) \in Nat
      /\ ofp_initialized[p] \in BOOLEAN
      /\ alive[p] \subseteq Object /\ pointers[p] \subseteq Global
  BY <1>1, Facts, RankTypes DEF ClustersInv
<1>3. ip'[p] = ip[p] + 1 /\ waiting'[p] = "no" /\ ofp_initialized'[p] = TRUE
  BY <1>1, <1>2 DEF ClustersTypeOK
<1>4. ClustersTypeOK'
  <2>1. TypeOK'
    BY <1>1, <1>2 DEF TypeOK, vars, rankVars, Message
  <2>2. /\ ip' \in [Proc -> 1..(Len(prog.steps) + 1)]
        /\ ofp_initialized' \in [Proc -> BOOLEAN]
    BY <1>1, <1>2 DEF ClustersTypeOK
  <2> QED
    BY <1>1, <1>2, <2>1, <2>2 DEF ClustersTypeOK
<1>5. ~Inside(p) /\ ~Inside(p)'
  BY <1>1 DEF Inside, vars, rankVars
<1>6. Messages'
  BY <1>1, <1>2, <1>4, <1>5, MessagesStay DEF vars, rankVars, ClustersTypeOK
<1>7. ~Finalized(prog, ip[p])
  BY <1>1, <1>2, StepDiscipline DEF Step
<1>8. /\ Global \subseteq alive[p] /\ pointers[p] = Global
      /\ Made(p) = Collectives(prog, ip[p])
  <2>1. ofp_initialized[p] <=> Exists(prog, "heap", ip[p])
    BY <1>2 DEF RankInv, ObjectsThere
  <2>2. Collectives(prog, ip[p]) = IF ofp_initialized[p] THEN 0 ELSE 2
    BY <1>1, <2>1 DEF Collectives, Step
  <2>3. CASE ofp_initialized[p]
    BY <1>2, <2>2, <2>3 DEF RankInv, ObjectsThere, Made, Initialising
  <2>4. CASE ~ofp_initialized[p]
    <3>1. pointers[p] = Global
      BY <1>1, <1>2, <2>4 DEF Missing
    <3>2. pointers[p] = alive[p] \cap Global
      BY <1>2, <1>7, <2>4 DEF RankInv, ObjectsThere
    <3>3. Initialising(p)
      BY <1>1, <1>2, <2>4 DEF Initialising, AtOp
    <3>4. Cardinality(pointers[p]) = 2
      BY <3>1, GlobalCounted
    <3> QED
      BY <2>2, <2>4, <3>1, <3>2, <3>3, <3>4 DEF Made
  <2> QED
    BY <2>3, <2>4
<1>9. ObjectsThere(p)'
  <2>1. /\ Exists(prog, "own", ip[p] + 1) <=> Exists(prog, "own", ip[p])
        /\ Exists(prog, "heap", ip[p] + 1)
    BY <1>1, <1>2, ExistsNext DEF Step
  <2> QED
    BY <1>1, <1>2, <1>3, <1>8, <2>1 DEF RankInv, ObjectsThere
<1>10. ObjectsCounted(p)'
  BY <1>1, <1>2 DEF RankInv, ObjectsCounted, Held
<1>11. LibraryState(p)'
  BY <1>1, <1>2, <1>3, OverNext DEF RankInv, LibraryState
<1>12. Counters(p)'
  <2>1. \A o : CounterAt(prog, o, ip[p] + 1) = CounterAt(prog, o, ip[p])
    BY <1>1, <1>2, CounterAtNext DEF Step
  <2> QED
    BY <1>1, <1>2, <1>3, <2>1 DEF RankInv, Counters, CounterOf, vars, rankVars
<1>13. /\ barriers'[p] = Before(prog, ip[p] + 1) /\ done'[p] = Exchanges(prog, ip[p] + 1)
       /\ Seen(p) = barriers[p]
  <2>1. Seen(p) = barriers[p]
    BY <1>1, <1>5 DEF Seen, Open
  <2>2. Before(prog, ip[p] + 1) = Before(prog, ip[p]) + Collectives(prog, ip[p])
    BY <1>2, BeforeNext
  <2>3. Exchanges(prog, ip[p] + 1) = Exchanges(prog, ip[p])
    BY <1>1, <1>2, ExchangesNext DEF Step
  <2> QED
    BY <1>1, <1>2, <1>8, <2>1, <2>2, <2>3 DEF RankInv, CallsCounted, vars, rankVars
<1>14. AtStep(p)' /\ CallsCounted(p)' /\ Seen(p)' = barriers'[p]
  BY <1>1, <1>2, <1>3, <1>4, <1>5, <1>13, Advanced
<1>15. Seen(p)' = Seen(p) /\ \A q \in Proc : barriers'[q] >= barriers[q]
  BY <1>1, <1>2, <1>13, <1>14 DEF vars, rankVars, TypeOK
<1> QED
  BY <1>1, <1>4, <1>6, <1>9, <1>10, <1>11, <1>12, <1>14, <1>15 DEF Kept, RankInv

----------------------------------------------------------------------------
(* Destroying objects.                                                     *)

\* n_vcluster passes 0 exactly when it reaches it.
LEMMA DestroyedCount ==
    ASSUME NEW p \in Proc, NEW objs, alive[p] \subseteq Object, objs \subseteq alive[p], objs # {},
           n_vcluster[p] = Cardinality(alive[p])
    PROVE  /\ n_vcluster[p] - Cardinality(objs) = Cardinality(alive[p] \ objs)
           /\ n_vcluster[p] - Cardinality(objs) \in Nat
           /\ LastDestroyed(p, Cardinality(objs)) <=> alive[p] \ objs = {}
           /\ n_vcluster[p] > 0
<1>1. /\ IsFiniteSet(alive[p]) /\ Cardinality(alive[p]) \in Nat
      /\ IsFiniteSet(objs) /\ Cardinality(objs) \in Nat
      /\ IsFiniteSet(alive[p] \ objs) /\ Cardinality(alive[p] \ objs) \in Nat
  BY ObjectsFinite
<1>2. alive[p] \cap objs = objs
  OBVIOUS
<1>3. Cardinality(alive[p] \ objs) = Cardinality(alive[p]) - Cardinality(objs)
  <2>1. Cardinality(alive[p] \ objs) = Cardinality(alive[p]) - Cardinality(alive[p] \cap objs)
    BY <1>1, FS_Difference, Zenon
  <2> QED
    BY <1>2, <2>1, Zenon
<1>4. Cardinality(objs) # 0
  BY <1>1, FS_EmptySet
<1>5. Cardinality(alive[p] \ objs) = 0 <=> alive[p] \ objs = {}
  BY <1>1, FS_EmptySet
<1> QED
  BY <1>1, <1>3, <1>4, <1>5 DEF LastDestroyed

\* What a step that destroys objs has still to show.
LEMMA DestroyKept ==
    ASSUME Disciplined, ClustersInv, NEW p \in Proc, NEW objs,
           pc[p] = "app", waiting[p] = "no", ip[p] \in Steps,
           Step(p).op \in {"delete", "finalize"}, Destroy(p, objs),
           ofp_initialized' \in [Proc -> BOOLEAN],
           objs \subseteq alive[p], objs # {},
           ObjectsThere(p)',
           alive[p] \ objs = {} => None(prog, ip[p] + 1),
           ofp_initialized'[p] \/ Finalized(prog, ip[p] + 1) \/ pointers'[p] = {}
    PROVE  Kept(p)
<1>1. /\ alive' = [alive EXCEPT ![p] = @ \ objs]
      /\ n_vcluster' = [n_vcluster EXCEPT ![p] = @ - Cardinality(objs)]
      /\ mpi' = [mpi EXCEPT ![p] =
            IF LastDestroyed(p, Cardinality(objs)) /\ prog.world THEN "finalized" ELSE @]
      /\ ip' = [ip EXCEPT ![p] = @ + 1]
      /\ UNCHANGED <<vars, prog, cur, cnt, pointers, waiting>>
  BY DEF Destroy, NextStep
<1>2. /\ RankInv(p) /\ Messages /\ ClustersTypeOK /\ TypeOK /\ prog \in Programs
      /\ ip[p] \in Nat \ {0}
      /\ Steps = 1..Len(prog.steps) /\ Steps = DOMAIN prog.steps
      /\ Len(prog.steps) \in Nat /\ barriers[p] \in Nat /\ Before(prog, ip[p]) \in Nat
      /\ alive[p] \subseteq Object /\ mpi[p] \in {"none", "up", "finalized"}
      /\ prog.world \in BOOLEAN
  BY Facts, RankTypes, ProgramType DEF ClustersInv
<1>3. n_vcluster[p] = Cardinality(alive[p])
  <2>1. Held(p) = alive[p]
    BY DEF Held, Object, Global
  <2> QED
    BY <1>2, <2>1 DEF RankInv, ObjectsCounted
<1>4. /\ n_vcluster[p] - Cardinality(objs) = Cardinality(alive[p] \ objs)
      /\ n_vcluster[p] - Cardinality(objs) \in Nat
      /\ LastDestroyed(p, Cardinality(objs)) <=> alive[p] \ objs = {}
      /\ n_vcluster[p] > 0
  BY <1>2, <1>3, DestroyedCount
<1>5. /\ ip'[p] = ip[p] + 1 /\ waiting'[p] = "no" /\ alive'[p] = alive[p] \ objs
      /\ n_vcluster'[p] = Cardinality(alive[p] \ objs)
      /\ mpi'[p] = IF alive[p] \ objs = {} /\ prog.world THEN "finalized" ELSE mpi[p]
  BY <1>1, <1>2, <1>4 DEF ClustersTypeOK
<1>6. ClustersTypeOK'
  <2>1. TypeOK'
    BY <1>1, <1>2 DEF TypeOK, vars, rankVars, Message
  <2>2. /\ ip' \in [Proc -> 1..(Len(prog.steps) + 1)]
        /\ alive' \in [Proc -> SUBSET Object]
    BY <1>1, <1>2 DEF ClustersTypeOK
  <2>3. n_vcluster' \in [Proc -> Nat]
    BY <1>1, <1>2, <1>4 DEF ClustersTypeOK
  <2>4. mpi' \in [Proc -> {"none", "up", "finalized"}]
    BY <1>1, <1>2 DEF ClustersTypeOK
  <2> QED
    BY <1>1, <1>2, <2>1, <2>2, <2>3, <2>4 DEF ClustersTypeOK
<1>7. ~Inside(p) /\ ~Inside(p)'
  BY <1>1 DEF Inside, vars, rankVars
<1>8. Messages'
  BY <1>1, <1>2, <1>6, <1>7, MessagesStay DEF vars, rankVars, ClustersTypeOK
<1>9. ObjectsCounted(p)'
  <2>1. Held(p)' = alive[p] \ objs
    BY <1>5 DEF Held, Object, Global
  <2> QED
    BY <1>5, <2>1 DEF ObjectsCounted
<1>10. LibraryState(p)'
  <2>1. CASE alive[p] \ objs = {}
    <3>1. n_vcluster'[p] = 0
      BY <1>5, <2>1, FS_EmptySet
    <3>2. prog.world => Over(prog, ip[p] + 1)
      BY <1>2, <2>1, OverNext DEF Step
    <3>3. ~prog.world => mpi[p] = "up"
      BY <1>2 DEF RankInv, LibraryState
    <3> QED
      BY <1>1, <1>2, <1>5, <2>1, <3>1, <3>2, <3>3 DEF LibraryState
  <2>2. CASE alive[p] \ objs # {}
    <3>1. n_vcluster'[p] > 0
      <4>1. IsFiniteSet(alive[p] \ objs) /\ Cardinality(alive[p] \ objs) \in Nat
        BY <1>2, ObjectsFinite
      <4>2. Cardinality(alive[p] \ objs) # 0
        BY <2>2, <4>1, FS_EmptySet
      <4> QED
        BY <1>5, <4>1, <4>2
    <3>2. mpi'[p] = mpi[p]
      BY <1>5, <2>2
    <3>3. mpi[p] = "up"
      BY <1>2, <1>4 DEF RankInv, LibraryState
    <3> QED
      BY <1>1, <3>1, <3>2, <3>3 DEF LibraryState
  <2> QED
    BY <2>1, <2>2
<1>11. Counters(p)'
  <2>1. \A o : CounterAt(prog, o, ip[p] + 1) = CounterAt(prog, o, ip[p])
    BY <1>2, CounterAtNext DEF Step
  <2> QED
    BY <1>1, <1>2, <1>5, <2>1 DEF RankInv, Counters, CounterOf, vars, rankVars
<1>12. /\ barriers'[p] = Before(prog, ip[p] + 1) /\ done'[p] = Exchanges(prog, ip[p] + 1)
       /\ Seen(p) = barriers[p]
  <2>1. Seen(p) = barriers[p] /\ Made(p) = 0
    BY <1>7 DEF Seen, Open, Made, Initialising, AtOp
  <2>2. Before(prog, ip[p] + 1) = Before(prog, ip[p]) + Collectives(prog, ip[p])
    BY <1>2, BeforeNext
  <2>3. Exchanges(prog, ip[p] + 1) = Exchanges(prog, ip[p])
    BY <1>2, ExchangesNext DEF Step
  <2>4. Collectives(prog, ip[p]) = 0
    BY DEF Collectives, Step
  <2> QED
    BY <1>1, <1>2, <2>1, <2>2, <2>3, <2>4 DEF RankInv, CallsCounted, vars, rankVars
<1>13. AtStep(p)' /\ CallsCounted(p)' /\ Seen(p)' = barriers'[p]
  BY <1>1, <1>2, <1>5, <1>6, <1>7, <1>12, Advanced
<1>14. Seen(p)' = Seen(p) /\ \A q \in Proc : barriers'[q] >= barriers[q]
  BY <1>1, <1>2, <1>12, <1>13 DEF vars, rankVars, TypeOK
<1> QED
  BY <1>1, <1>6, <1>8, <1>9, <1>10, <1>11, <1>13, <1>14 DEF Kept, RankInv

LEMMA DeleteKept ==
    ASSUME Disciplined, ClustersInv, NEW p \in Proc, Delete(p)
    PROVE  Kept(p)
<1>1. /\ pc[p] = "app" /\ waiting[p] = "no" /\ ip[p] <= Len(prog.steps) /\ Step(p).op = "delete"
      /\ Destroy(p, {Step(p).obj}) /\ ofp_initialized' = ofp_initialized
  BY DEF Delete, At
<1>2. /\ RankInv(p) /\ ClustersTypeOK /\ prog \in Programs
      /\ ip[p] \in Nat \ {0} /\ ip[p] \in Steps /\ alive[p] \subseteq Object
      /\ ofp_initialized[p] \in BOOLEAN
  BY <1>1, Facts, RankTypes DEF ClustersInv
<1>3. Step(p).obj = "own" /\ Exists(prog, "own", ip[p])
  BY <1>1, <1>2, StepDiscipline DEF Step
<1>4. "own" \in alive[p]
  BY <1>2, <1>3 DEF RankInv, ObjectsThere
<1>5. /\ alive'[p] = alive[p] \ {"own"} /\ pointers'[p] = pointers[p] /\ ip'[p] = ip[p] + 1
      /\ prog' = prog
  BY <1>1, <1>2, <1>3 DEF Destroy, NextStep, ClustersTypeOK
<1>6. /\ ~Exists(prog, "own", ip[p] + 1)
      /\ Exists(prog, "heap", ip[p] + 1) <=> Exists(prog, "heap", ip[p])
      /\ Exists(prog, "cuda", ip[p] + 1) <=> Exists(prog, "heap", ip[p] + 1)
      /\ Finalized(prog, ip[p] + 1) <=> Finalized(prog, ip[p])
  BY <1>1, <1>2, ExistsNext DEF Step
<1>7. alive'[p] \cap Global = alive[p] \cap Global /\ "own" \notin alive'[p]
  BY <1>5 DEF Global
<1>8. ~Initialising(p)
  BY <1>1 DEF Initialising, AtOp
<1>9. ofp_initialized'[p] \/ Finalized(prog, ip[p] + 1) \/ pointers'[p] = {}
  BY <1>1, <1>2, <1>5, <1>6, <1>8 DEF RankInv, ObjectsThere
<1>10. ObjectsThere(p)'
  <2>1. ofp_initialized[p] => Global \subseteq alive'[p] /\ pointers'[p] = Global
    BY <1>2, <1>5, <1>7 DEF RankInv, ObjectsThere
  <2>2. ~ofp_initialized[p] /\ Finalized(prog, ip[p] + 1) => alive'[p] \cap Global = {}
    BY <1>2, <1>6, <1>7 DEF RankInv, ObjectsThere
  <2>3. ~ofp_initialized[p] /\ ~Finalized(prog, ip[p] + 1) =>
          pointers'[p] = alive'[p] \cap Global /\ pointers'[p] = {}
    BY <1>1, <1>2, <1>5, <1>6, <1>7, <1>9 DEF RankInv, ObjectsThere
  <2>4. ofp_initialized[p] <=> Exists(prog, "heap", ip[p] + 1)
    BY <1>2, <1>6 DEF RankInv, ObjectsThere
  <2> QED
    BY <1>1, <1>5, <1>6, <1>7, <2>1, <2>2, <2>3, <2>4 DEF ObjectsThere
<1>11. alive[p] \ {"own"} = {} => None(prog, ip[p] + 1)
  <2> SUFFICES ASSUME alive[p] \ {"own"} = {}
               PROVE  ~Exists(prog, "heap", ip[p] + 1)
    BY <1>6 DEF None, Object, Global
  <2>1. "heap" \notin alive[p] /\ "heap" \in Global
    BY DEF Global
  <2> QED
    BY <1>2, <1>6, <2>1 DEF RankInv, ObjectsThere
<1> QED
  BY <1>1, <1>2, <1>3, <1>4, <1>9, <1>10, <1>11, DestroyKept DEF ClustersTypeOK

LEMMA FinalizeKept ==
    ASSUME Disciplined, ClustersInv, NEW p \in Proc, Finalize(p)
    PROVE  Kept(p)
<1>1. /\ pc[p] = "app" /\ waiting[p] = "no" /\ ip[p] <= Len(prog.steps) /\ Step(p).op = "finalize"
      /\ Destroy(p, pointers[p])
      /\ ofp_initialized' = [ofp_initialized EXCEPT ![p] = FALSE]
  BY DEF Finalize, At
<1>2. /\ RankInv(p) /\ ClustersTypeOK /\ prog \in Programs
      /\ ip[p] \in Nat \ {0} /\ ip[p] \in Steps /\ alive[p] \subseteq Object
  BY <1>1, Facts, RankTypes DEF ClustersInv
<1>3. /\ Exists(prog, "heap", ip[p])
      /\ Global \subseteq alive[p] /\ pointers[p] = Global
  <2>1. Exists(prog, "heap", ip[p])
    BY <1>1, <1>2, StepDiscipline DEF Step
  <2> QED
    BY <1>2, <2>1 DEF RankInv, ObjectsThere
<1>4. /\ alive'[p] = alive[p] \ Global /\ ip'[p] = ip[p] + 1
      /\ prog' = prog /\ ofp_initialized'[p] = FALSE
      /\ ofp_initialized' \in [Proc -> BOOLEAN]
  BY <1>1, <1>2, <1>3 DEF Destroy, NextStep, ClustersTypeOK
<1>5. /\ Exists(prog, "own", ip[p] + 1) <=> Exists(prog, "own", ip[p])
      /\ ~Exists(prog, "heap", ip[p] + 1) /\ ~Exists(prog, "cuda", ip[p] + 1)
      /\ Finalized(prog, ip[p] + 1)
  <2>1. Exists(prog, "cuda", ip[p] + 1) <=> Exists(prog, "heap", ip[p] + 1)
    BY <1>2, ExistsNext
  <2> QED
    BY <1>1, <1>2, <2>1, ExistsNext DEF Step
<1>6. /\ "own" \in alive'[p] <=> "own" \in alive[p]
      /\ alive'[p] \cap Global = {}
  BY <1>4 DEF Global
<1>7. ObjectsThere(p)'
  BY <1>2, <1>4, <1>5, <1>6 DEF RankInv, ObjectsThere
<1>8. alive[p] \ Global = {} => None(prog, ip[p] + 1)
  BY <1>2, <1>4, <1>5, <1>6 DEF RankInv, ObjectsThere, None, Object, Global
<1>9. Global # {}
  BY DEF Global
<1> QED
  BY <1>1, <1>2, <1>3, <1>4, <1>5, <1>7, <1>8, <1>9, DestroyKept

----------------------------------------------------------------------------
(* The invariant.                                                          *)

LEMMA RankStepKept ==
    ASSUME Disciplined, ClustersInv, NEW p \in Proc, RankStep(p)
    PROVE  Kept(p)
BY EnterBarrierKept, LeaveBarrierKept, ConstructKept, ConstructedKept, EndInitKept, DeleteKept,
   FinalizeKept, UseKept, BeginKept, PollKept, EndKept DEF RankStep

LEMMA ClustersInitInv ==
    ASSUME ClustersInit
    PROVE  ClustersInv
<1>1. /\ Init /\ prog \in Programs
      /\ ip = [p \in Proc |-> 1]
      /\ cur = [p \in Proc |-> "none"]
      /\ cnt = [p \in Proc |-> [o \in Object |-> 0]]
      /\ alive = [p \in Proc |-> {}] /\ pointers = [p \in Proc |-> {}]
      /\ n_vcluster = [p \in Proc |-> 0]
      /\ ofp_initialized = [p \in Proc |-> FALSE]
      /\ mpi = [p \in Proc |-> IF prog.world THEN "none" ELSE "up"]
      /\ waiting = [p \in Proc |-> "no"]
  BY DEF ClustersInit
<1>2. Messages
  BY <1>1, InitMessages
<1>3. /\ Len(prog.steps) \in Nat /\ prog.world \in BOOLEAN
  BY <1>1, ProgramType
<1>4. 0 \in 0..(nbx_cycle - 1)
  BY NBXAssumption
<1>5. ClustersTypeOK
  <2>1. 1 \in 1..(Len(prog.steps) + 1)
    BY <1>3
  <2>2. cnt \in [Proc -> [Object -> 0..(nbx_cycle - 1)]]
    BY <1>1, <1>4
  <2> QED
    BY <1>1, <1>2, <2>1, <2>2 DEF ClustersTypeOK, Messages
<1>6. ASSUME NEW p \in Proc
      PROVE  RankInv(p) /\ Seen(p) = 0 /\ barriers[p] = 0
  <2>1. /\ ip[p] = 1 /\ alive[p] = {} /\ pointers[p] = {} /\ n_vcluster[p] = 0
        /\ ofp_initialized[p] = FALSE /\ waiting[p] = "no"
        /\ mpi[p] = IF prog.world THEN "none" ELSE "up"
        /\ ~Inside(p) /\ barriers[p] = 0 /\ done[p] = 0
    BY <1>1 DEF Init, Inside
  <2>2. AtStep(p)
    BY <2>1 DEF AtStep, Object, Global
  <2>3. ObjectsThere(p)
    BY <2>1, ExistsFirst DEF ObjectsThere
  <2>4. Held(p) = {}
    BY <2>1 DEF Held, Object, Global
  <2>5. ObjectsCounted(p)
    BY <2>1, <2>4, FS_EmptySet DEF ObjectsCounted
  <2>6. LibraryState(p)
    BY <1>3, <2>1 DEF LibraryState
  <2>7. Counters(p)
    BY <2>1 DEF Counters
  <2>8. Made(p) = 0
    BY <2>1, FS_EmptySet DEF Made
  <2>9. Seen(p) = 0
    BY <2>1 DEF Seen, Open
  <2>10. CallsCounted(p)
    BY <2>1, <2>8, <2>9, CountsFirst DEF CallsCounted
  <2> QED
    BY <2>1, <2>2, <2>3, <2>5, <2>6, <2>7, <2>9, <2>10 DEF RankInv
<1>7. SeenByAll
  BY <1>6 DEF SeenByAll
<1> QED
  BY <1>1, <1>2, <1>5, <1>6, <1>7 DEF ClustersInv

\* A step of one rank.
LEMMA RankStepInv ==
    ASSUME Disciplined, ClustersInv, NEW p \in Proc, RankStep(p)
    PROVE  ClustersInv'
<1>1. /\ ClustersTypeOK' /\ Messages' /\ RankInv(p)' /\ prog' = prog
      /\ \A q \in Proc : barriers'[q] >= barriers[q]
      /\ Seen(p)' = Seen(p) \/ \A q \in Proc : Seen(p)' <= barriers[q]
  BY RankStepKept DEF Kept
<1>2. \A q \in Proc \ {p} : RankInv(q)' /\ Seen(q)' = Seen(q)
  BY <1>1, OthersStay, SameRankKeeps DEF ClustersInv
<1>3. prog' \in Programs
  BY <1>1 DEF ClustersInv
<1>4. /\ \A q \in Proc : Seen(q) \in Int /\ barriers[q] \in Nat
      /\ \A q \in Proc : barriers'[q] \in Nat /\ Seen(q)' \in Int
  <2>1. \A q \in Proc : barriers'[q] \in Nat
    BY <1>1 DEF ClustersTypeOK, TypeOK
  <2>2. \A q \in Proc : Seen(q)' \in Int
    BY <2>1 DEF Seen
  <2> QED
    BY <2>1, <2>2, CallsWithin
<1>5. SeenByAll'
  <2> SUFFICES ASSUME NEW q \in Proc, NEW r \in Proc
               PROVE  Seen(q)' <= barriers'[r]
    BY DEF SeenByAll
  <2>1. Seen(q) <= barriers[r] /\ barriers[r] <= barriers'[r]
    BY <1>1, <1>4 DEF ClustersInv, SeenByAll
  <2>2. Seen(q)' = Seen(q) \/ Seen(q)' <= barriers[r]
    BY <1>1, <1>2
  <2> QED
    BY <1>4, <2>1, <2>2
<1> QED
  BY <1>1, <1>2, <1>3, <1>5 DEF ClustersInv

LEMMA ClustersStutterInv ==
    ASSUME ClustersInv, UNCHANGED clusterVars
    PROVE  ClustersInv'
<1>1. UNCHANGED <<vars, prog, ip, cur, cnt, alive, pointers, n_vcluster, ofp_initialized, mpi, waiting>>
  BY DEF clusterVars, libVars
<1>2. \A q \in Proc : SameRank(q)
  BY <1>1 DEF SameRank, vars, rankVars
<1>3. \A q \in Proc : RankInv(q)' /\ Seen(q)' = Seen(q)
  BY <1>1, <1>2, SameRankKeeps DEF ClustersInv
<1>4. ClustersTypeOK'
  BY <1>1 DEF ClustersInv, ClustersTypeOK, TypeOK, Message, vars, rankVars
<1>5. Messages'
  BY <1>1 DEF ClustersInv, Messages, TypeOK, RidCount, InFlight, SentHistory, GotHistory, Inside,
     Begun, Addressed, Message, vars, rankVars
<1>6. SeenByAll'
  BY <1>1, <1>3 DEF ClustersInv, SeenByAll, vars
<1> QED
  BY <1>1, <1>3, <1>4, <1>5, <1>6 DEF ClustersInv

LEMMA ClustersStepInv == Disciplined /\ ClustersInv /\ [ClustersNext]_clusterVars => ClustersInv'
<1> SUFFICES ASSUME Disciplined, ClustersInv, [ClustersNext]_clusterVars
             PROVE  ClustersInv'
  OBVIOUS
<1>1. (\E p \in Proc : RankStep(p)) \/ UNCHANGED clusterVars
  BY DEF ClustersNext, RankStep
<1> QED
  BY <1>1, RankStepInv, ClustersStutterInv

(* In every reachable state of a disciplined program each rank's objects,  *)
(* counters and collective calls are those of its step of the program      *)
(* (Vcluster's constructor, destructor and NBX_cnt).                       *)
THEOREM ClustersInvariant ==
    ASSUME Disciplined
    PROVE  ClustersSpec => []ClustersInv
<1>1. ClustersInit => ClustersInv
  BY ClustersInitInv
<1>2. ClustersInv /\ [ClustersNext]_clusterVars => ClustersInv'
  BY ClustersStepInv
<1> QED
  BY <1>1, <1>2, PTL DEF ClustersSpec

(* Types: NBX_cnt and the waiting counters stay below nbx_cycle, n_vcluster*)
(* never becomes negative, and no rank runs past its program.              *)
THEOREM ClustersTypes ==
    ASSUME Disciplined
    PROVE  ClustersSpec => []ClustersTypeOK
<1>1. ClustersInv => ClustersTypeOK
  BY DEF ClustersInv
<1> QED
  BY <1>1, ClustersInvariant, PTL

----------------------------------------------------------------------------
(* MPI and the objects.                                                    *)

LEMMA ObjectMeansLibrary ==
    ASSUME Disciplined, ClustersInv, NEW p \in Proc, Held(p) # {}
    PROVE  n_vcluster[p] > 0 /\ mpi[p] = "up"
<1>1. /\ RankInv(p) /\ n_vcluster[p] \in Nat /\ mpi[p] \in {"none", "up", "finalized"}
      /\ alive[p] \subseteq Object
  BY Facts, RankTypes DEF ClustersInv
<1>2. Held(p) \subseteq Object
  BY <1>1 DEF Held
<1>3. n_vcluster[p] # 0
  BY <1>1, <1>2, ObjectsFinite, FS_EmptySet DEF RankInv, ObjectsCounted
<1> QED
  BY <1>1, <1>3 DEF RankInv, LibraryState

LEMMA ExistingAlive ==
    ASSUME Disciplined, ClustersInv, NEW p \in Proc, NEW o \in Object, Exists(prog, o, ip[p])
    PROVE  o \in alive[p]
<1>1. RankInv(p) /\ ip[p] \in Nat \ {0}
  BY Facts
<1>2. o = "own" \/ o \in Global
  BY DEF Object
<1>3. o \in Global => Exists(prog, "heap", ip[p])
  BY <1>1, ExistsNext DEF Global
<1> QED
  BY <1>1, <1>2, <1>3 DEF RankInv, ObjectsThere

LEMMA InvUsable == Disciplined /\ ClustersInv => LibraryUsable
<1> SUFFICES ASSUME Disciplined, ClustersInv, NEW p \in Proc
             PROVE  /\ pc[p] # "app" => mpi[p] = "up" /\ cur[p] \in alive[p]
                    /\ waiting[p] # "no" => mpi[p] = "up"
                    /\ At(p, "finalize") => pointers[p] \subseteq alive[p]
                    /\ At(p, "delete") => Step(p).obj \in alive[p]
  BY DEF LibraryUsable
<1>1. /\ RankInv(p) /\ ip[p] \in Nat \ {0} /\ prog \in Programs
      /\ ip[p] \in Steps <=> ip[p] <= Len(prog.steps)
      /\ waiting[p] \in Object \cup {"no", "barrier"}
  BY Facts, RankTypes DEF ClustersInv
<1>2. pc[p] # "app" => mpi[p] = "up" /\ cur[p] \in alive[p]
  BY InsideFacts, ObjectMeansLibrary DEF Inside, Held
<1>3. waiting[p] # "no" => mpi[p] = "up"
  <2>1. CASE waiting[p] = "barrier"
    <3>1. ip[p] \in Steps /\ prog.steps[ip[p]].op = "barrier"
      BY <1>1, <2>1 DEF RankInv, AtStep, AtOp, Step
    <3>2. ~None(prog, ip[p])
      BY <1>1, <3>1, StepDiscipline
    <3>3. PICK o \in Object : Exists(prog, o, ip[p])
      BY <3>2 DEF None
    <3>4. o \in alive[p]
      BY <3>3, ExistingAlive
    <3> QED
      BY <3>4, ObjectMeansLibrary DEF Held
  <2>2. CASE waiting[p] \in Object
    BY <2>2, ObjectMeansLibrary DEF Held
  <2> QED
    BY <1>1, <2>1, <2>2
<1>4. ASSUME At(p, "finalize")
      PROVE  pointers[p] \subseteq alive[p]
  <2>1. Exists(prog, "heap", ip[p])
    BY <1>1, <1>4, StepDiscipline DEF At, Step
  <2> QED
    BY <1>1, <2>1 DEF RankInv, ObjectsThere
<1>5. ASSUME At(p, "delete")
      PROVE  Step(p).obj \in alive[p]
  <2>1. Exists(prog, Step(p).obj, ip[p]) /\ Step(p).obj \in Object
    BY <1>1, <1>5, StepDiscipline DEF At, Step, Object
  <2> QED
    BY <2>1, ExistingAlive
<1> QED
  BY <1>2, <1>3, <1>4, <1>5

(* A disciplined program calls MPI only between MPI_Init and MPI_Finalize, *)
(* and exchanges and destroys only objects that exist (openfpm_init,       *)
(* openfpm_finalize, the constructor and destructor of Vcluster_base).     *)
THEOREM LibraryStaysUsable ==
    ASSUME Disciplined
    PROVE  ClustersSpec => []LibraryUsable
<1>1. ClustersInv => LibraryUsable
  BY InvUsable
<1> QED
  BY <1>1, ClustersInvariant, PTL

LEMMA InvLastFinalizes == Disciplined /\ ClustersInv => LastOneFinalizes
<1> SUFFICES ASSUME Disciplined, ClustersInv, NEW p \in Proc
             PROVE  /\ n_vcluster[p] = Cardinality(alive[p] \cup ({waiting[p]} \cap Object))
                    /\ mpi[p] = "finalized" =>
                          /\ n_vcluster[p] = 0
                          /\ \A m \in flight : p \notin {m.src, m.dst}
                    /\ prog.world /\ ip[p] > Len(prog.steps) /\ n_vcluster[p] = 0 => mpi[p] # "up"
  BY DEF LastOneFinalizes
<1>1. RankInv(p) /\ n_vcluster[p] \in Nat /\ prog \in Programs
      /\ ip[p] \in Nat \ {0} /\ Len(prog.steps) \in Nat
  BY Facts, RankTypes DEF ClustersInv
<1>2. n_vcluster[p] = Cardinality(alive[p] \cup ({waiting[p]} \cap Object))
  BY <1>1 DEF RankInv, ObjectsCounted, Held
<1>3. ASSUME mpi[p] = "finalized"
      PROVE  n_vcluster[p] = 0 /\ \A m \in flight : p \notin {m.src, m.dst}
  <2>1. n_vcluster[p] = 0 /\ Over(prog, ip[p])
    BY <1>1, <1>3 DEF RankInv, LibraryState
  <2>2. ASSUME NEW m \in flight
        PROVE  ip[p] > ip[m.src]
    <3>1. m.src \in Proc /\ Inside(m.src)
      BY FlightPosition
    <3>2. /\ ip[m.src] \in Steps /\ prog.steps[ip[m.src]].op = "exchange"
      BY <3>1, InsideFacts
    <3>3. Exists(prog, prog.steps[ip[m.src]].obj, ip[m.src]) /\ prog.steps[ip[m.src]].obj \in Object
      BY <1>1, <3>2, StepDiscipline, ProgramType
    <3>4. ip[m.src] \in Nat /\ ip[m.src] <= Len(prog.steps) + 1
      BY <3>1, Facts
    <3>5. ~(ip[p] <= ip[m.src])
      BY <1>1, <2>1, <3>3, <3>4, OverForGood
    <3> QED
      BY <1>1, <3>4, <3>5
  <2>3. ASSUME NEW m \in flight
        PROVE  FALSE
    <3>1. m.src \in Proc /\ ip[p] <= ip[m.src]
      BY FlightPosition
    <3>2. ip[m.src] \in Nat /\ ip[p] > ip[m.src]
      BY <2>2, <3>1, Facts
    <3> QED
      BY <1>1, <3>1, <3>2
  <2> QED
    BY <2>1, <2>3
<1>4. prog.world /\ ip[p] > Len(prog.steps) /\ n_vcluster[p] = 0 => mpi[p] # "up"
  BY <1>1 DEF RankInv, LibraryState
<1> QED
  BY <1>2, <1>3, <1>4

(* n_vcluster counts the objects, MPI is finalised with the last of them,  *)
(* when nothing is in flight to or from the rank, and not forgotten.       *)
THEOREM LastFinalizes ==
    ASSUME Disciplined
    PROVE  ClustersSpec => []LastOneFinalizes
<1>1. ClustersInv => LastOneFinalizes
  BY InvLastFinalizes
<1> QED
  BY <1>1, ClustersInvariant, PTL

----------------------------------------------------------------------------
(* The exchanges of all objects are one sequence of exchanges.             *)

(* No receive takes a message of another exchange, be it of the same       *)
(* object or of another (the comments on NBX_cnt and on the tags).         *)
THEOREM OneSequence ==
    ASSUME Disciplined
    PROVE  ClustersSpec => []RightAssociation
<1>1. ClustersInv => RightAssociation
  BY DEF ClustersInv, Messages, GotHistory, Addressed, RightAssociation
<1> QED
  BY <1>1, ClustersInvariant, PTL

\* When a call returns everybody has begun it, and none of its messages is in
\* flight.
LEMMA EndPosition ==
    ASSUME Disciplined, ClustersInv, NEW p \in Proc, Leave(p)
    PROVE  /\ \A q \in Proc : Begun(q) > done[p]
           /\ \A m \in flight : m.round # done[p]
<1> DEFINE i == ip[p]
<1>1. Inside(p) /\ reached_bar_req[p] /\ BarrierComplete(barriers, bar_req[p])
  BY DEF Leave, BarrierPassed, Inside
<1>2. /\ RankInv(p) /\ TypeOK /\ i \in Nat \ {0}
      /\ Before(prog, i) \in Nat /\ Exchanges(prog, i) \in Nat
  BY Facts
<1>3. /\ i \in Steps /\ prog.steps[i].op = "exchange"
      /\ barriers[p] = Before(prog, i) + 1 /\ bar_req[p] = barriers[p]
      /\ Before(prog, i + 1) = Before(prog, i) + 1
      /\ done[p] = Exchanges(prog, i) /\ Exchanges(prog, i + 1) = done[p] + 1
  BY <1>1, <1>2, InsideFacts DEF RankInv, CallsCounted
<1> HIDE DEF i
<1>4. \A q \in Proc : barriers[q] >= Before(prog, i) + 1
  BY <1>1, <1>2, <1>3 DEF BarrierComplete, TypeOK
<1>5. ASSUME NEW q \in Proc
      PROVE  Begun(q) > done[p] /\ (Inside(q) /\ ~reached_bar_req[q] => done[q] # done[p])
  <2>1. /\ RankInv(q) /\ ip[q] \in Nat \ {0} /\ done[q] = Exchanges(prog, ip[q])
        /\ Exchanges(prog, ip[q]) \in Nat /\ barriers[q] \in Nat
        /\ ip[q] \in Steps <=> ip[q] <= Len(prog.steps)
        /\ ip[p] \in Steps <=> ip[p] <= Len(prog.steps)
    BY Facts, RankTypes DEF RankInv, CallsCounted, ClustersInv
  <2>2. Begun(q) \in Nat /\ Begun(q) >= done[q] /\ (Inside(q) => Begun(q) = done[q] + 1)
    BY <2>1 DEF Begun, Inside
  <2>3. CASE ip[q] > i
    <3>1. Exchanges(prog, i + 1) <= Exchanges(prog, ip[q])
      BY <1>2, <2>1, <2>3, ExchangesMonotone
    <3> QED
      BY <1>2, <1>3, <2>1, <2>2, <3>1
  <2>4. CASE ip[q] = i
    <3>1. Inside(q) /\ reached_bar_req[q]
      <4>1. CASE ~Inside(q)
        <5>1. Made(q) = 0 /\ waiting[q] = "no"
          <6>1. Step(q).op = "exchange"
            BY <1>3, <2>4 DEF Step
          <6>2. waiting[q] \in Object \cup {"no", "barrier"}
            BY RankTypes DEF ClustersInv
          <6> QED
            BY <2>1, <6>1, <6>2 DEF Made, Initialising, AtOp, RankInv, AtStep
        <5>2. Seen(q) = barriers[q]
          BY <4>1, <5>1 DEF Seen, Open
        <5> QED
          BY <1>2, <1>4, <2>1, <2>4, <5>1, <5>2 DEF RankInv, CallsCounted
      <4>2. CASE Inside(q) /\ ~reached_bar_req[q]
        <5>1. barriers[q] = Before(prog, i)
          BY <2>4, <4>2, InsideFacts
        <5> QED
          BY <1>2, <1>4, <5>1
      <4> QED
        BY <4>1, <4>2
    <3> QED
      BY <1>3, <2>1, <2>2, <2>4, <3>1
  <2>5. CASE ip[q] < i
    <3>1. ip[q] \in Steps
      BY <1>3, <2>1, <2>5, ProgramType DEF i, ClustersInv
    <3>2. barriers[q] <= Before(prog, ip[q] + 1)
      BY <3>1, CallsWithin
    <3>3. Before(prog, ip[q] + 1) \in Nat /\ Before(prog, ip[q] + 1) <= Before(prog, i)
      BY <1>2, <2>1, <2>5, BeforeMonotone
    <3> QED
      BY <1>2, <1>4, <2>1, <3>2, <3>3
  <2> QED
    BY <1>2, <2>1, <2>3, <2>4, <2>5
<1>6. \A m \in flight : m.src \in Proc /\ Inside(m.src) /\ ~reached_bar_req[m.src]
                        /\ m.round = done[m.src]
  BY FlightPosition
<1> QED
  BY <1>5, <1>6

LEMMA ClustersStepPromise ==
    Disciplined /\ ClustersInv /\ [ClustersNext]_clusterVars => [Promise!Next]_(Promise!vars)
<1> SUFFICES ASSUME Disciplined, ClustersInv, [ClustersNext]_clusterVars
             PROVE  [Promise!Next]_(Promise!vars)
  OBVIOUS
<1>1. TypeOK /\ Messages /\ TagsTell
  BY TagsTellHere DEF ClustersInv, Messages
<1>2. ASSUME NEW p \in Proc, Begin(p)
      PROVE  Promise!Begin(p)
  BY <1>1, <1>2, StartKeepsPromise DEF Begin
<1>3. ASSUME NEW p \in Proc, Poll(p)
      PROVE  (\E m \in sent : Promise!HandOver(p, m)) \/ UNCHANGED (Promise!vars)
  BY <1>1, <1>3, ProgressKeepsPromise, LoopKeepsPromise DEF Poll
<1>4. ASSUME NEW p \in Proc, End(p)
      PROVE  Promise!End(p)
  <2>1. Leave(p)
    BY <1>4 DEF End
  <2> QED
    BY <1>1, <2>1, EndPosition, LeaveKeepsPromise
<1>5. ASSUME UNCHANGED <<pc, got, done, sent>>
      PROVE  UNCHANGED (Promise!vars)
  BY <1>5 DEF Promise!vars
<1>6. ASSUME NEW p \in Proc,
             \/ EnterBarrierCall(p) \/ LeaveBarrierCall(p)
             \/ \E o \in Object : Construct(p, o) \/ Constructed(p, o)
             \/ EndInit(p) \/ Delete(p) \/ Finalize(p) \/ Use(p)
      PROVE  UNCHANGED <<pc, got, done, sent>>
  BY <1>6 DEF EnterBarrierCall, LeaveBarrierCall, EnterCollective, Construct, Constructed, EndInit,
     Delete, Finalize, Destroy, Use, vars, rankVars
<1>7. CASE UNCHANGED clusterVars
  BY <1>5, <1>7 DEF clusterVars, vars, rankVars
<1> QED
  BY <1>2, <1>3, <1>4, <1>5, <1>6, <1>7 DEF ClustersNext, Promise!Next

(* Through several objects on one communicator, and with other collective  *)
(* calls between, the exchanges are those of SparseExchange: each rank gets*)
(* what was addressed to it in that exchange, all of it before its call    *)
(* returns, whichever object carries it.                                   *)
THEOREM ClustersRefinement ==
    ASSUME Disciplined
    PROVE  ClustersSpec => KeepsPromise
<1>1. ClustersInit => Promise!Init
  <2>1. Init => Promise!Init
    BY DEF Init, Promise!Init
  <2> QED
    BY <2>1 DEF ClustersInit
<1>2. ClustersInv /\ [ClustersNext]_clusterVars => [Promise!Next]_(Promise!vars)
  BY ClustersStepPromise
<1> QED
  BY <1>1, <1>2, ClustersInvariant, PTL DEF ClustersSpec, KeepsPromise, Promise!Spec
=============================================================================
