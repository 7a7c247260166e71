------------------------------ MODULE Clusters ------------------------------
(***************************************************************************)
(* The Vcluster objects of a program and the library around them.          *)
(* openfpm_init makes two objects, global_v_cluster_private_heap and _cuda,*)
(* and a program may make more.  Each is built on the same communicator    *)
(* and counts its exchanges from 0 with an NBX_cnt of its own, while MPI   *)
(* sees one stream of messages and of barriers.  n_vcluster counts the     *)
(* objects, and the destructor of the last one calls MPI_Finalize.         *)
(*                                                                         *)
(* An exchange is that of NBX; its NBX_cnt is the counter of the object in *)
(* use, the other counters wait in cnt.  Nothing else of an object outlives*)
(* a blocking exchange.  The ranks run one program, a sequence of steps.   *)
(***************************************************************************)
EXTENDS NBX, Integers

CONSTANT
    Programs        \* the programs an application may be

Global == {"heap", "cuda"}
Object == Global \cup {"own"}
Ops == [op : {"init", "finalize", "barrier"}, obj : {"heap"}]
         \cup [op : {"create", "delete", "exchange"}, obj : Object]

\* world: ext_comm is MPI_COMM_WORLD; else a communicator of the application.
ASSUME ClustersAssumption == Programs \subseteq [steps : Seq(Ops), world : BOOLEAN]

(***************************************************************************)
(* What an application has to observe for its objects not to disturb one   *)
(* another, as conditions on programs that the theorems name.              *)
(***************************************************************************)
\* Some step before i is made, and none after it is ended.
Since(pr, i, made, ended) ==
    \E a \in 1..(i - 1) :
        pr.steps[a].op = made /\ \A k \in (a + 1)..(i - 1) : pr.steps[k].op # ended

\* Object o is there when step i is taken.
Exists(pr, o, i) ==
    IF o = "own" THEN Since(pr, i, "create", "delete") ELSE Since(pr, i, "init", "finalize")
None(pr, i) == \A o \in Object : ~Exists(pr, o, i)

\* The last object was destroyed before step i, and MPI with it.
Over(pr, i) ==
    /\ pr.world
    /\ \E a \in 1..(i - 1) : pr.steps[a].op \in {"delete", "finalize"} /\ None(pr, a + 1)

\* Objects are used while they exist, and made while they do not; globals are
\* made and destroyed once, by openfpm_init and openfpm_finalize.
ObjectsExist(pr) ==
    \A i \in DOMAIN pr.steps : LET s == pr.steps[i] IN
        /\ s.op \in {"exchange", "delete"} => Exists(pr, s.obj, i)
        /\ s.op = "finalize" => Exists(pr, "heap", i)
        /\ s.op = "barrier" => ~None(pr, i)
        /\ s.op \in {"create", "delete"} => s.obj = "own"
        /\ s.op = "create" => ~Exists(pr, "own", i)
InitOnce(pr) ==
    \A a, i \in DOMAIN pr.steps :
        a < i /\ pr.steps[a].op = "finalize" => pr.steps[i].op # "init"

\* MPI cannot be initialised again.
NothingAfter(pr) ==
    \A i \in DOMAIN pr.steps : pr.steps[i].op \in {"create", "init"} => ~Over(pr, i)

\* Collective calls of step i, and the counter of its object: the exchanges
\* since this was made.
Collectives(pr, i) ==
    CASE pr.steps[i].op = "init" -> IF Exists(pr, "heap", i) THEN 0 ELSE 2
      [] pr.steps[i].op \in {"create", "barrier", "exchange"} -> 1
      [] OTHER -> 0
Uses(pr, o, i) ==
    {j \in 1..(i - 1) :
        /\ pr.steps[j].op = "exchange" /\ pr.steps[j].obj = o
        /\ o = "own" => \A k \in (j + 1)..(i - 1) : pr.steps[k].op # "create"}
CounterAt(pr, o, i) == Cardinality(Uses(pr, o, i)) % nbx_cycle

\* Exchanges of different objects with no collective call between them have
\* different counters.
CountersDiffer(pr) ==
    \A j, i \in DOMAIN pr.steps :
        /\ j < i /\ pr.steps[j].op = "exchange" /\ pr.steps[i].op = "exchange"
        /\ pr.steps[j].obj # pr.steps[i].obj
        /\ \A k \in (j + 1)..(i - 1) : Collectives(pr, k) = 0
        => CounterAt(pr, pr.steps[j].obj, j) # CounterAt(pr, pr.steps[i].obj, i)

Disciplined ==
    \A pr \in Programs :
        ObjectsExist(pr) /\ InitOnce(pr) /\ NothingAfter(pr) /\ CountersDiffer(pr)

VARIABLES
    prog, ip,       \* the program; the next step of each rank
    cur, cnt,       \* the object NBX_cnt is of; the counters of the others
    alive,          \* objects constructed and not destroyed
    pointers,       \* the global pointers that are not NULL
    n_vcluster, ofp_initialized,
    mpi,            \* "none", "up" or "finalized"
    waiting         \* the object or "barrier" whose collective call a rank is in

libVars == <<alive, pointers, n_vcluster, ofp_initialized, mpi>>
clusterVars == <<vars, prog, ip, cur, cnt, libVars, waiting>>

Step(p) == prog.steps[ip[p]]
At(p, op) ==
    /\ pc[p] = "app" /\ waiting[p] = "no"
    /\ ip[p] <= Len(prog.steps) /\ Step(p).op = op
NextStep(p) == ip' = [ip EXCEPT ![p] = @ + 1]

\* An application with a communicator of its own has called MPI_Init.
ClustersInit ==
    /\ Init
    /\ prog \in Programs
    /\ ip = [p \in Proc |-> 1]
    /\ cur = [p \in Proc |-> "none"]
    /\ cnt = [p \in Proc |-> [o \in Object |-> 0]]
    /\ alive = [p \in Proc |-> {}]
    /\ pointers = [p \in Proc |-> {}]
    /\ n_vcluster = [p \in Proc |-> 0]
    /\ ofp_initialized = [p \in Proc |-> FALSE]
    /\ mpi = [p \in Proc |-> IF prog.world THEN "none" ELSE "up"]
    /\ waiting = [p \in Proc |-> "no"]

----------------------------------------------------------------------------
(* Collective calls of the communicator that wait: they are matched with   *)
(* the barriers of the exchanges by their order.                           *)
EnterCollective(p, what) ==
    /\ waiting' = [waiting EXCEPT ![p] = what]
    /\ barriers' = [barriers EXCEPT ![p] = @ + 1]
    /\ UNCHANGED <<rankVars, sent, flight>>

LeaveCollective(p) ==
    /\ BarrierComplete(barriers, barriers[p])
    /\ waiting' = [waiting EXCEPT ![p] = "no"]

EnterBarrierCall(p) ==
    /\ At(p, "barrier")
    /\ EnterCollective(p, "barrier")
    /\ UNCHANGED <<prog, ip, cur, cnt, libVars>>

LeaveBarrierCall(p) ==
    /\ waiting[p] = "barrier"
    /\ LeaveCollective(p)
    /\ NextStep(p)
    /\ UNCHANGED <<vars, prog, cur, cnt, libVars>>

----------------------------------------------------------------------------
(* Making objects.                                                         *)

\* Seeded fault: not if a program has made objects before.
Missing_Counts(p) == IF n_vcluster[p] > 0 THEN {} ELSE Global \ pointers[p]

\* init_global_v_cluster_private: the pointers that are NULL.
Missing(p) == Global \ pointers[p]

\* The object a rank makes now: for openfpm_init first heap, then cuda.
Making(p, o) ==
    \/ At(p, "create") /\ o = Step(p).obj
    \/ /\ At(p, "init") /\ ~ofp_initialized[p]
       /\ o \in Missing(p)
       /\ o = "cuda" => "heap" \notin Missing(p)

\* Seeded fault: a constructor without MPI_Comm_split_type.
Construct_Alone(p, o) ==
    /\ Making(p, o)
    /\ n_vcluster' = [n_vcluster EXCEPT ![p] = @ + 1]
    /\ mpi' = [mpi EXCEPT ![p] = IF @ = "none" THEN "up" ELSE @]
    /\ waiting' = [waiting EXCEPT ![p] = o]
    /\ UNCHANGED <<vars, prog, ip, cur, cnt, alive, pointers, ofp_initialized>>

\* The constructor up to MPI_Comm_split_type, which all ranks must call.
\* After MPI_Finalize, MPI_Initialized still answers true.
Construct(p, o) ==
    /\ Making(p, o)
    /\ n_vcluster' = [n_vcluster EXCEPT ![p] = @ + 1]
    /\ mpi' = [mpi EXCEPT ![p] = IF @ = "none" THEN "up" ELSE @]
    /\ EnterCollective(p, o)
    /\ UNCHANGED <<prog, ip, cur, cnt, alive, pointers, ofp_initialized>>

\* The rest of the constructor: NBX_cnt(0) and what openfpm_init does with it.
Constructed(p, o) ==
    /\ waiting[p] = o
    /\ LeaveCollective(p)
    /\ alive' = [alive EXCEPT ![p] = @ \cup {o}]
    /\ pointers' = [pointers EXCEPT ![p] = IF o \in Global THEN @ \cup {o} ELSE @]
    /\ IF cur[p] = o
       THEN NBX_cnt' = [NBX_cnt EXCEPT ![p] = 0] /\ UNCHANGED cnt
       ELSE cnt' = [cnt EXCEPT ![p][o] = 0] /\ UNCHANGED NBX_cnt
    /\ IF Step(p).op = "create" THEN NextStep(p) ELSE UNCHANGED ip
    /\ UNCHANGED <<pc, req, reached_bar_req, bar_req, rid, got, done, sent, flight, barriers,
                   prog, cur, n_vcluster, ofp_initialized, mpi>>

\* openfpm_init returns, at once when it was called before.
EndInit(p) ==
    /\ At(p, "init")
    /\ ofp_initialized[p] \/ Missing(p) = {}
    /\ ofp_initialized' = [ofp_initialized EXCEPT ![p] = TRUE]
    /\ NextStep(p)
    /\ UNCHANGED <<vars, prog, cur, cnt, alive, pointers, n_vcluster, mpi, waiting>>

----------------------------------------------------------------------------
(* Destroying objects, and MPI with the last of them.                      *)

\* Seeded fault: an object that is left is not counted.
LastDestroyed_Early(p, n) == \E left \in 0..1 : left \in (n_vcluster[p] - n)..(n_vcluster[p] - 1)

\* n_vcluster reaches 0 while n objects are destroyed.
LastDestroyed(p, n) == 0 \in (n_vcluster[p] - n)..(n_vcluster[p] - 1)

Destroy(p, objs) ==
    /\ alive' = [alive EXCEPT ![p] = @ \ objs]
    /\ n_vcluster' = [n_vcluster EXCEPT ![p] = @ - Cardinality(objs)]
    /\ mpi' = [mpi EXCEPT ![p] =
          IF LastDestroyed(p, Cardinality(objs)) /\ prog.world THEN "finalized" ELSE @]
    /\ NextStep(p)
    /\ UNCHANGED <<vars, prog, cur, cnt, pointers, waiting>>

Delete(p) ==
    /\ At(p, "delete")
    /\ Destroy(p, {Step(p).obj})
    /\ UNCHANGED ofp_initialized

\* openfpm_finalize: delete of both pointers, which stay as they are; delete
\* of NULL does nothing.
Finalize(p) ==
    /\ At(p, "finalize")
    /\ Destroy(p, pointers[p])
    /\ ofp_initialized' = [ofp_initialized EXCEPT ![p] = FALSE]

----------------------------------------------------------------------------
(* Exchanges.  Use turns to the object of the next one.                    *)
Use(p) ==
    LET o == Step(p).obj IN
    /\ At(p, "exchange")
    /\ cur[p] # o
    /\ cur' = [cur EXCEPT ![p] = o]
    /\ cnt' = [cnt EXCEPT ![p] = [x \in Object |-> IF x = cur[p] THEN NBX_cnt[p] ELSE @[x]]]
    /\ NBX_cnt' = [NBX_cnt EXCEPT ![p] = cnt[p][o]]
    /\ UNCHANGED <<pc, req, reached_bar_req, bar_req, rid, got, done, sent, flight, barriers,
                   prog, ip, libVars, waiting>>

Begin(p) ==
    /\ At(p, "exchange")
    /\ cur[p] = Step(p).obj
    /\ \E list \in SendLists : Start(p, list)
    /\ UNCHANGED <<prog, ip, cur, cnt, libVars, waiting>>

Poll(p) ==
    /\ progressCommunication(p) \/ LoopAgain(p)
    /\ UNCHANGED <<prog, ip, cur, cnt, libVars, waiting>>

End(p) ==
    /\ Leave(p)
    /\ NextStep(p)
    /\ UNCHANGED <<prog, cur, cnt, libVars, waiting>>

(* Every rank ran its program: the application has finished. *)
AtEnd == \A p \in Proc : pc[p] = "app" /\ waiting[p] = "no" /\ ip[p] > Len(prog.steps)

ClustersNext ==
    \/ \E p \in Proc :
        \/ EnterBarrierCall(p) \/ LeaveBarrierCall(p)
        \/ \E o \in Object : Construct(p, o) \/ Constructed(p, o)
        \/ EndInit(p) \/ Delete(p) \/ Finalize(p)
        \/ Use(p) \/ Begin(p) \/ Poll(p) \/ End(p)
    \/ AtEnd /\ UNCHANGED clusterVars

ClustersSpec == ClustersInit /\ [][ClustersNext]_clusterVars

(* Fairness is that of NBX; the program goes on (WF), and a blocking       *)
(* collective call returns when all ranks are in it (WF).                  *)
ClustersFair ==
    /\ ClustersSpec
    /\ \A p \in Proc :
        /\ WF_clusterVars(EnterBarrierCall(p) \/ LeaveBarrierCall(p))
        /\ WF_clusterVars(\E o \in Object : Construct(p, o) \/ Constructed(p, o))
        /\ WF_clusterVars(EndInit(p) \/ Delete(p) \/ Finalize(p))
        /\ WF_clusterVars(Use(p) \/ Begin(p))
        /\ WF_clusterVars(Poll(p) \/ End(p))
        /\ SF_clusterVars(Poll(p) /\ flight' # flight)
        /\ SF_clusterVars(Poll(p) /\ barriers' # barriers)
        /\ SF_clusterVars(End(p))

----------------------------------------------------------------------------
(* Types of what Clusters adds to NBX. *)
ClustersTypeOK ==
    /\ TypeOK
    /\ ip \in [Proc -> 1..(Len(prog.steps) + 1)]
    /\ cur \in [Proc -> Object \cup {"none"}]
    /\ cnt \in [Proc -> [Object -> 0..(nbx_cycle - 1)]]
    /\ alive \in [Proc -> SUBSET Object]
    /\ pointers \in [Proc -> SUBSET Global]
    /\ n_vcluster \in [Proc -> Nat]
    /\ ofp_initialized \in [Proc -> BOOLEAN]
    /\ mpi \in [Proc -> {"none", "up", "finalized"}]
    /\ waiting \in [Proc -> Object \cup {"no", "barrier"}]

(* Whoever calls MPI may: it is initialised and not finalised, and the     *)
(* object whose exchange runs, or that is about to be destroyed, exists.   *)
LibraryUsable ==
    \A p \in Proc :
        /\ pc[p] # "app" => mpi[p] = "up" /\ cur[p] \in alive[p]
        /\ waiting[p] # "no" => mpi[p] = "up"
        /\ At(p, "finalize") => pointers[p] \subseteq alive[p]
        /\ At(p, "delete") => Step(p).obj \in alive[p]

(* n_vcluster counts the objects, those under construction included, and   *)
(* MPI is finalised with the last one: not while another rank still needs  *)
(* this one, and not left running by a program that destroyed them all.    *)
LastOneFinalizes ==
    \A p \in Proc :
        /\ n_vcluster[p] = Cardinality(alive[p] \cup ({waiting[p]} \cap Object))
        /\ mpi[p] = "finalized" =>
              /\ n_vcluster[p] = 0
              /\ \A m \in flight : p \notin {m.src, m.dst}
        /\ prog.world /\ ip[p] > Len(prog.steps) /\ n_vcluster[p] = 0 => mpi[p] # "up"

(* The program runs to its end on every rank. *)
ClustersTermination == <>AtEnd

=============================================================================
