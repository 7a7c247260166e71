-------------------------- MODULE SSendRecv_proofs --------------------------
(***************************************************************************)
(* Theorems about SSendRecv, for every number of slots and every finite    *)
(* set of peers:                                                           *)
(*   - packed memory lives exactly as long as the call that needs it, for  *)
(*     every program, also for those whose results are wrong;              *)
(*   - a finished call has merged exactly its own messages, in order, and  *)
(*     the types hold, for every disciplined program;                      *)
(*   - a call finds a slot while fewer than NQUEUE are queued, for every   *)
(*     program that keeps room.                                            *)
(***************************************************************************)
EXTENDS SSendRecv, FiniteSetTheorems, TLAPS

\* What slot s holds: the asynchronous calls that wait lie in order in the
\* slots from NBX_prc_pcnt on, a blocking call in the one behind them.
Holder(s) ==
    IF s \in pcnt .. scnt - 1 THEN open[s - pcnt + 1]
    ELSE IF s = scnt /\ pc = "sync" THEN ip ELSE 0

Counted ==
    /\ ip \in Nat \ {0}
    /\ open \in Seq(Nat \ {0})
    /\ pcnt \in Nat /\ scnt \in 0 .. NQUEUE
    /\ scnt = pcnt + Len(open)
    /\ pc = "sync" => scnt \in Slots
    /\ pc = "wait" => open # <<>>
    /\ mem \in [Slots -> Nat]

SlotsAccounted == Counted /\ \A s \in Slots : mem[s] = Holder(s)

----------------------------------------------------------------------------
(* SlotsAccounted says more than PackedWhileQueued: which slot holds what. *)
LEMMA AccountedSuffices == SlotsAccounted => PackedWhileQueued
<1> SUFFICES ASSUME SlotsAccounted PROVE PackedWhileQueued
  OBVIOUS
<1>0. NQUEUE \in Nat \ {0}
  BY SemanticAssumption
<1> DEFINE Live == {open[i] : i \in DOMAIN open} \cup (IF pc = "sync" THEN {ip} ELSE {})
<1>1. ASSUME NEW s \in Slots, mem[s] # 0
      PROVE  mem[s] \in Live
  <2>1. CASE s \in pcnt .. scnt - 1
    <3>1. s - pcnt + 1 \in DOMAIN open
      BY <1>0, <2>1 DEF SlotsAccounted, Counted, Slots
    <3> QED
      BY <2>1, <3>1 DEF SlotsAccounted, Counted, Holder
  <2>2. CASE s \notin pcnt .. scnt - 1
    BY <1>1, <2>2 DEF SlotsAccounted, Counted, Holder
  <2> QED
    BY <2>1, <2>2
<1>2. ASSUME NEW i \in DOMAIN open
      PROVE  \E s \in Slots : mem[s] # 0 /\ mem[s] = open[i]
  <2>1. /\ pcnt + i - 1 \in Slots
        /\ pcnt + i - 1 \in pcnt .. scnt - 1
        /\ (pcnt + i - 1) - pcnt + 1 = i
    BY <1>0 DEF SlotsAccounted, Counted, Slots
  <2>2. mem[pcnt + i - 1] = open[i]
    BY <2>1 DEF SlotsAccounted, Counted, Holder
  <2>3. open[i] # 0
    BY DEF SlotsAccounted, Counted
  <2> QED
    BY <2>1, <2>2, <2>3
<1>3. ASSUME pc = "sync"
      PROVE  \E s \in Slots : mem[s] # 0 /\ mem[s] = ip
  <2>1. scnt \in Slots /\ scnt \notin pcnt .. scnt - 1
    BY <1>0, <1>3 DEF SlotsAccounted, Counted, Slots
  <2>2. mem[scnt] = ip /\ ip # 0
    BY <1>3, <2>1 DEF SlotsAccounted, Counted, Holder
  <2> QED
    BY <2>1, <2>2
<1>4. {mem[s] : s \in Slots} \ {0} \subseteq Live
  BY <1>1
<1>5. Live \subseteq {mem[s] : s \in Slots} \ {0}
  BY <1>2, <1>3
<1> QED
  BY <1>4, <1>5 DEF PackedWhileQueued

LEMMA AccountedInit == Init => SlotsAccounted
BY SemanticAssumption DEF Init, SlotsAccounted, Counted, Holder, Slots

----------------------------------------------------------------------------
(* One lemma for each action that takes or gives back a slot.              *)

LEMMA AccountedAsync ==
    ASSUME SlotsAccounted, SSendRecvAsync
    PROVE  SlotsAccounted'
<1>0. NQUEUE \in Nat \ {0} /\ ip \in Nat \ {0}
  BY SemanticAssumption DEF SlotsAccounted, Counted
<1>1. /\ scnt \in Slots /\ scnt' = scnt + 1 /\ pcnt' = pcnt
      /\ open' = Append(open, ip) /\ ip' = ip + 1
      /\ pc = "app" /\ pc' = "app"
      /\ mem' = [mem EXCEPT ![scnt] = ip]
  BY DEF SSendRecvAsync, prepare_send_buffer, Running
<1>2. open' \in Seq(Nat \ {0}) /\ Len(open') = Len(open) + 1
  BY <1>0, <1>1 DEF SlotsAccounted, Counted
<1>3. ASSUME NEW s \in Slots
      PROVE  mem'[s] = Holder(s)'
  <2>1. CASE s = scnt
    BY <1>0, <1>1, <1>2, <2>1 DEF SlotsAccounted, Counted, Holder, Slots
  <2>2. CASE s \in pcnt .. scnt - 1
    <3>1. s - pcnt + 1 \in 1 .. Len(open)
      BY <1>0, <2>2 DEF SlotsAccounted, Counted, Slots
    <3>2. open'[s - pcnt + 1] = open[s - pcnt + 1]
      BY <1>0, <1>1, <3>1 DEF SlotsAccounted, Counted
    <3>3. s # scnt /\ s \in pcnt' .. scnt' - 1
      BY <1>0, <1>1, <2>2 DEF SlotsAccounted, Counted
    <3>4. mem'[s] = open[s - pcnt + 1]
      BY <1>1, <2>2, <3>3 DEF SlotsAccounted, Counted, Holder
    <3>5. Holder(s)' = open'[s - pcnt + 1]
      BY <1>1, <3>3 DEF Holder
    <3> QED
      BY <3>2, <3>4, <3>5
  <2>3. CASE s # scnt /\ s \notin pcnt .. scnt - 1
    BY <1>0, <1>1, <2>3 DEF SlotsAccounted, Counted, Holder, Slots
  <2> QED
    BY <2>1, <2>2, <2>3
<1>4. Counted'
  BY <1>0, <1>1, <1>2 DEF SlotsAccounted, Counted, Slots
<1> QED
  BY <1>3, <1>4 DEF SlotsAccounted

LEMMA AccountedBlocking ==
    ASSUME SlotsAccounted, SSendRecv
    PROVE  SlotsAccounted'
<1>0. NQUEUE \in Nat \ {0}
  BY SemanticAssumption
<1>1. /\ scnt \in Slots /\ scnt' = scnt /\ pcnt' = pcnt /\ open' = open /\ ip' = ip
      /\ pc = "app" /\ pc' = "sync"
      /\ mem' = [mem EXCEPT ![scnt] = ip]
  BY DEF SSendRecv, prepare_send_buffer, Running
<1>2. ASSUME NEW s \in Slots
      PROVE  mem'[s] = Holder(s)'
  <2>1. /\ mem[s] = Holder(s) /\ mem \in [Slots -> Nat]
        /\ Holder(s)' = IF s \in pcnt .. scnt - 1 THEN open[s - pcnt + 1]
                        ELSE IF s = scnt THEN ip ELSE 0
        /\ scnt \notin pcnt .. scnt - 1
    BY <1>1 DEF SlotsAccounted, Counted, Holder
  <2>2. CASE s = scnt
    BY <1>1, <2>1, <2>2
  <2>3. CASE s # scnt
    BY <1>1, <2>1, <2>3 DEF Holder
  <2> QED
    BY <2>2, <2>3
<1>3. Counted'
  BY <1>0, <1>1 DEF SlotsAccounted, Counted, Slots
<1> QED
  BY <1>2, <1>3 DEF SlotsAccounted

LEMMA AccountedEndBlocking ==
    ASSUME SlotsAccounted, EndSSendRecv
    PROVE  SlotsAccounted'
<1>0. NQUEUE \in Nat \ {0}
  BY SemanticAssumption
<1>1. /\ scnt' = scnt /\ pcnt' = pcnt /\ open' = open /\ ip' = ip + 1
      /\ pc = "sync" /\ pc' = "app"
      /\ mem' = [mem EXCEPT ![scnt] = 0]
  BY DEF EndSSendRecv, Process, Merge
<1>2. ASSUME NEW s \in Slots
      PROVE  mem'[s] = Holder(s)'
  BY <1>0, <1>1, SMTT(30) DEF SlotsAccounted, Counted, Holder, Slots
<1>3. Counted'
  BY <1>0, <1>1 DEF SlotsAccounted, Counted, Slots
<1> QED
  BY <1>2, <1>3 DEF SlotsAccounted

LEMMA AccountedEndWait ==
    ASSUME SlotsAccounted, EndSSendRecvWait
    PROVE  SlotsAccounted'
<1>0. NQUEUE \in Nat \ {0}
  BY SemanticAssumption
<1>1. /\ scnt' = Counters(scnt, pcnt)[1] /\ pcnt' = Counters(scnt, pcnt)[2]
      /\ open' = Tail(open) /\ ip' = ip + 1
      /\ pc = "wait" /\ pc' = "app"
      /\ mem' = [mem EXCEPT ![pcnt] = 0]
  BY DEF EndSSendRecvWait, Process, Merge, PackedIn
<1>2. /\ open \in Seq(Nat \ {0}) /\ open # <<>> /\ Len(open) \in Nat \ {0}
      /\ open' \in Seq(Nat \ {0}) /\ Len(open') = Len(open) - 1
      /\ \A i \in 1 .. Len(open) - 1 : open'[i] = open[i + 1]
  BY <1>1 DEF SlotsAccounted, Counted
<1>3. /\ pcnt \in Nat /\ scnt \in Nat /\ scnt = pcnt + Len(open) /\ scnt <= NQUEUE
      /\ pcnt \in Slots
      /\ mem \in [Slots -> Nat] /\ mem' \in [Slots -> Nat]
      /\ ip' \in Nat \ {0}
      /\ \A s \in Slots : s \in Nat /\ s < NQUEUE
  BY <1>0, <1>1, <1>2 DEF SlotsAccounted, Counted, Slots
<1>4. \A s \in Slots : mem[s] = IF s \in pcnt .. scnt - 1 THEN open[s - pcnt + 1] ELSE 0
  BY <1>1 DEF SlotsAccounted, Counted, Holder
<1>5. CASE scnt = pcnt + 1
  <2>1. scnt' = 0 /\ pcnt' = 0 /\ Len(open') = 0
    BY <1>1, <1>2, <1>3, <1>5 DEF Counters
  <2>2. ASSUME NEW s \in Slots
        PROVE  mem'[s] = Holder(s)'
    <3>1. s # pcnt => s \notin pcnt .. scnt - 1
      BY <1>3, <1>5
    <3>2. mem'[s] = 0
      BY <1>1, <1>3, <1>4, <3>1
    <3>3. s \notin pcnt' .. scnt' - 1
      BY <1>3, <2>1
    <3> QED
      BY <1>1, <3>2, <3>3 DEF Holder
  <2>3. Counted'
    BY <1>0, <1>1, <1>2, <1>3, <2>1 DEF Counted
  <2> QED
    BY <2>2, <2>3 DEF SlotsAccounted
<1>6. CASE scnt # pcnt + 1
  <2>1. scnt' = scnt /\ pcnt' = pcnt + 1
    BY <1>1, <1>6 DEF Counters
  <2>2. ASSUME NEW s \in Slots
        PROVE  mem'[s] = Holder(s)'
    <3>1. CASE s \in pcnt' .. scnt' - 1
      <4>1. /\ s # pcnt /\ s \in pcnt .. scnt - 1
            /\ s - pcnt \in 1 .. Len(open) - 1
            /\ s - pcnt' + 1 = s - pcnt
        BY <1>2, <1>3, <2>1, <3>1
      <4>2. open'[s - pcnt] = open[s - pcnt + 1]
        BY <1>2, <4>1
      <4>3. mem'[s] = open[s - pcnt + 1]
        BY <1>1, <1>3, <1>4, <4>1
      <4>4. Holder(s)' = open'[s - pcnt]
        BY <3>1, <4>1 DEF Holder
      <4> QED
        BY <4>2, <4>3, <4>4
    <3>2. CASE s \notin pcnt' .. scnt' - 1
      <4>1. s # pcnt => s \notin pcnt .. scnt - 1
        BY <1>3, <2>1, <3>2
      <4>2. mem'[s] = 0
        BY <1>1, <1>3, <1>4, <4>1
      <4> QED
        BY <1>1, <3>2, <4>2 DEF Holder
    <3> QED
      BY <3>1, <3>2
  <2>3. scnt' = pcnt' + Len(open')
    BY <1>2, <1>3, <2>1
  <2>4. Counted'
    BY <1>0, <1>1, <1>2, <1>3, <2>1, <2>3, SMTT(30) DEF Counted
  <2> QED
    BY <2>2, <2>4 DEF SlotsAccounted
<1> QED
  BY <1>5, <1>6

(* Gathers and scatters use a slot's buffers and no packed memory; what    *)
(* the base calls back touches neither counters nor packed memory.         *)
LEMMA AccountedOther ==
    ASSUME SlotsAccounted,
           \/ SSendRecvWait \/ Collect \/ EndCollect \/ Finished
           \/ \E m \in left, j \in DOMAIN queue : Receive(m, j) \/ FillIn(m, j)
           \/ \E j \in DOMAIN queue : PostAfterSizes(j)
           \/ UNCHANGED vars
    PROVE  SlotsAccounted'
<1>0. NQUEUE \in Nat \ {0}
  BY SemanticAssumption
<1>1. /\ scnt' = scnt /\ pcnt' = pcnt /\ open' = open /\ mem' = mem
      /\ \/ ip' = ip /\ pc' = pc
         \/ ip' = ip /\ pc = "app" /\ pc' = "wait" /\ open # <<>>
         \/ ip' = ip /\ pc = "app" /\ pc' = "blocking"
         \/ ip' = ip + 1 /\ pc = "blocking" /\ pc' = "app"
  <2>1. CASE SSendRecvWait
    BY <2>1 DEF SSendRecvWait, Running
  <2>2. CASE Collect
    BY <2>2 DEF Collect, Running
  <2>3. CASE EndCollect
    <3>1. pc = "blocking" /\ scnt' = scnt /\ pcnt' = pcnt /\ open' = open /\ mem' = mem
      BY <2>3 DEF EndCollect
    <3>2. pc' = "app" /\ ip' = ip + 1
      BY <2>3 DEF EndCollect, Merge
    <3> QED
      BY <3>1, <3>2
  <2>4. CASE Finished \/ UNCHANGED vars
    BY <2>4 DEF Finished, vars
  <2>5. ASSUME NEW m \in left, NEW j \in DOMAIN queue, Receive(m, j) \/ FillIn(m, j)
        PROVE  UNCHANGED <<scnt, pcnt, open, mem, ip, pc>>
    BY <2>5 DEF Receive, FillIn
  <2>6. ASSUME NEW j \in DOMAIN queue, PostAfterSizes(j)
        PROVE  UNCHANGED <<scnt, pcnt, open, mem, ip, pc>>
    BY <2>6 DEF PostAfterSizes
  <2> QED
    BY <2>1, <2>2, <2>3, <2>4, <2>5, <2>6
<1>2. ASSUME NEW s \in Slots
      PROVE  mem'[s] = Holder(s)'
  BY <1>0, <1>1 DEF SlotsAccounted, Counted, Holder, Slots
<1>3. Counted'
  <2>1. ip' \in Nat \ {0}
    BY <1>1 DEF SlotsAccounted, Counted
  <2>2. (pc' = "sync" => pc = "sync") /\ (pc' = "wait" => open # <<>>)
    BY <1>1 DEF SlotsAccounted, Counted
  <2> QED
    BY <1>1, <2>1, <2>2 DEF SlotsAccounted, Counted, Slots
<1> QED
  BY <1>2, <1>3 DEF SlotsAccounted

----------------------------------------------------------------------------
(* prepare_send_buffer and the ends of the calls keep account of packed    *)
(* memory whatever order an application queues, waits and blocks in.       *)
THEOREM Accounted == Spec => []SlotsAccounted
<1>1. Init => SlotsAccounted
  BY AccountedInit
<1>2. SlotsAccounted /\ [Next]_vars => SlotsAccounted'
  BY AccountedAsync, AccountedBlocking, AccountedEndBlocking, AccountedEndWait, AccountedOther DEF Next
<1> QED
  BY <1>1, <1>2, PTL DEF Spec

(* Packed data is there while the base may send it and is deleted at the   *)
(* end of its call: never early, never overwritten, never leaked.          *)
THEOREM PackedMemoryKept == Spec => []PackedWhileQueued
BY Accounted, AccountedSuffices, PTL


----------------------------------------------------------------------------
(* Programs, and what call c is to receive.                                *)

LEMMA ProgramType ==
    ASSUME prog \in Programs
    PROVE  /\ Len(prog) \in Nat
           /\ DOMAIN prog = 1..Len(prog)
           /\ \A c \in DOMAIN prog : /\ prog[c].op \in Ops
                                     /\ prog[c].opt \in Opts
                                     /\ prog[c].in \in [Peers -> Nat]
<1> DEFINE Calling == [op : Ops, opt : Opts, in : [Peers -> Nat], lists : Nat]
<1>1. prog \in Seq(Calling)
  BY SemanticAssumption
<1>2. \A x \in Calling : x.op \in Ops /\ x.opt \in Opts /\ x.in \in [Peers -> Nat]
  OBVIOUS
<1> HIDE DEF Calling
<1> QED
  BY <1>1, <1>2

LEMMA InboxHas ==
    ASSUME prog \in Programs, NEW c \in DOMAIN prog
    PROVE  /\ \A m \in Inbox(c) : /\ m.src \in Peers /\ m.src \in Nat \ {0}
                                  /\ m.k \in Nat \ {0} /\ m.k <= prog[c].in[m.src]
                                  /\ m = [call |-> c, src |-> m.src, k |-> m.k]
                                  /\ m.call = c /\ m \in Msgs
           /\ \A s \in Peers : \A k \in 1..prog[c].in[s] : [call |-> c, src |-> s, k |-> k] \in Inbox(c)
<1>1. /\ Peers \subseteq Nat \ {0} /\ prog[c].in \in [Peers -> Nat]
      /\ c \in 0..Len(prog)
  BY SemanticAssumption, ProgramType
<1>2. ASSUME NEW m \in Inbox(c)
      PROVE  /\ m.src \in Peers /\ m.src \in Nat \ {0}
             /\ m.k \in Nat \ {0} /\ m.k <= prog[c].in[m.src]
             /\ m = [call |-> c, src |-> m.src, k |-> m.k]
             /\ m.call = c /\ m \in Msgs
  <2>0. PICK s \in Peers : \E k \in 1..prog[c].in[s] : m = [call |-> c, src |-> s, k |-> k]
    BY <1>2 DEF Inbox
  <2>1. PICK k \in 1..prog[c].in[s] : m = [call |-> c, src |-> s, k |-> k]
    BY <2>0
  <2>2. s \in Nat \ {0} /\ prog[c].in[s] \in Nat
    BY <1>1
  <2> QED
    BY <1>1, <2>1, <2>2 DEF Msgs
<1>3. ASSUME NEW s \in Peers, NEW k \in 1..prog[c].in[s]
      PROVE  [call |-> c, src |-> s, k |-> k] \in Inbox(c)
  BY DEF Inbox
<1> QED
  BY <1>2, <1>3

LEMMA ImageFinite ==
    ASSUME NEW S, IsFiniteSet(S), NEW f
    PROVE  IsFiniteSet({f[x] : x \in S})
<1> DEFINE T == {f[x] : x \in S}
           g == [x \in S |-> f[x]]
<1>1. g \in Surjection(S, T)
  BY DEF Surjection
<1> HIDE DEF g, T
<1>2. IsFiniteSet(T)
  BY <1>1, FS_Surjection, Zenon
<1> QED
  BY <1>2 DEF T

LEMMA InboxFinite ==
    ASSUME prog \in Programs, NEW c \in DOMAIN prog
    PROVE  IsFiniteSet(Inbox(c)) /\ Cardinality(Inbox(c)) \in Nat
<1> DEFINE Of(s) == {[call |-> c, src |-> s, k |-> k] : k \in 1..prog[c].in[s]}
<1>1. IsFiniteSet(Peers) /\ prog[c].in \in [Peers -> Nat]
  BY SemanticAssumption, ProgramType
<1>2. ASSUME NEW s \in Peers
      PROVE  IsFiniteSet(Of(s))
  <2> DEFINE one == [k \in 1..prog[c].in[s] |-> [call |-> c, src |-> s, k |-> k]]
  <2>1. IsFiniteSet(1..prog[c].in[s])
    BY <1>1, FS_Interval
  <2>2. Of(s) = {one[k] : k \in 1..prog[c].in[s]}
    OBVIOUS
  <2> HIDE DEF one, Of
  <2>3. IsFiniteSet({one[k] : k \in 1..prog[c].in[s]})
    BY <2>1, ImageFinite
  <2> QED
    BY <2>2, <2>3
<1>3. IsFiniteSet({Of(s) : s \in Peers})
  <2> DEFINE of == [s \in Peers |-> Of(s)]
  <2> HIDE DEF Of
  <2>1. {Of(s) : s \in Peers} = {of[s] : s \in Peers}
    OBVIOUS
  <2> HIDE DEF of
  <2> QED
    BY <1>1, <2>1, ImageFinite, Zenon
<1>4. \A T \in {Of(s) : s \in Peers} : IsFiniteSet(T)
  <2> HIDE DEF Of
  <2> QED
    BY <1>2
<1>5. IsFiniteSet(UNION {Of(s) : s \in Peers})
  <2> HIDE DEF Of
  <2> QED
    BY <1>3, <1>4, FS_UNION, Zenon
<1>6. Inbox(c) = UNION {Of(s) : s \in Peers}
  BY DEF Inbox
<1>7. IsFiniteSet(Inbox(c))
  BY <1>5, <1>6, Zenon
<1> QED
  BY <1>7, FS_CardinalityType, Zenon

----------------------------------------------------------------------------
(* Expected(c) is the one list of Inbox(c) by processor and number.        *)

LEMMA EarlierOrders ==
    ASSUME prog \in Programs, NEW c \in DOMAIN prog
    PROVE  /\ \A m \in Inbox(c) : ~Earlier(m, m)
           /\ \A m, n \in Inbox(c) : m = n \/ Earlier(m, n) \/ Earlier(n, m)
           /\ \A m, n \in Inbox(c) : Earlier(m, n) => ~Earlier(n, m)
           /\ \A m, n, o \in Inbox(c) : Earlier(m, n) /\ Earlier(n, o) => Earlier(m, o)
<1>1. \A m \in Inbox(c) : m.src \in Nat /\ m.k \in Nat /\ m = [call |-> c, src |-> m.src, k |-> m.k]
  BY InboxHas
<1>2. \A m, n \in Inbox(c) : m.src = n.src /\ m.k = n.k => m = n
  BY <1>1
<1> QED
  BY <1>1, <1>2 DEF Earlier

LEMMA RankCounts ==
    ASSUME prog \in Programs, NEW c \in DOMAIN prog
    PROVE  /\ \A m \in Inbox(c) : Rank(m, c) \in 0..(Cardinality(Inbox(c)) - 1)
           /\ \A m, n \in Inbox(c) : Earlier(m, n) => Rank(m, c) < Rank(n, c)
           /\ \A m, n \in Inbox(c) : Rank(m, c) = Rank(n, c) => m = n
<1> DEFINE S == Inbox(c)
           Below(m) == {n \in S : Earlier(n, m)}
<1>1. IsFiniteSet(S) /\ Cardinality(S) \in Nat
  BY InboxFinite
<1>2. /\ \A m \in S : ~Earlier(m, m)
      /\ \A m, n \in S : m = n \/ Earlier(m, n) \/ Earlier(n, m)
      /\ \A m, n, o \in S : Earlier(m, n) /\ Earlier(n, o) => Earlier(m, o)
  BY EarlierOrders
<1>3. \A m \in S : Rank(m, c) = Cardinality(Below(m))
  BY DEF Rank
<1> HIDE DEF S
<1>4. ASSUME NEW A, NEW B, IsFiniteSet(B), A \subseteq B, NEW x \in B, x \notin A
      PROVE  Cardinality(A) \in Nat /\ Cardinality(B) \in Nat /\ Cardinality(A) < Cardinality(B)
  <2>1. IsFiniteSet(A) /\ Cardinality(A) <= Cardinality(B) /\ (Cardinality(B) = Cardinality(A) => B = A)
    BY <1>4, FS_Subset, Zenon
  <2>2. Cardinality(A) \in Nat /\ Cardinality(B) \in Nat
    BY <1>4, <2>1, FS_CardinalityType, Zenon
  <2>3. A # B
    BY <1>4
  <2> QED
    BY <2>1, <2>2, <2>3
<1>5. ASSUME NEW m \in S
      PROVE  Rank(m, c) \in 0..(Cardinality(S) - 1)
  <2>1. Below(m) \subseteq S /\ m \notin Below(m)
    BY <1>2
  <2>2. Cardinality(Below(m)) \in Nat /\ Cardinality(Below(m)) < Cardinality(S)
    <3> HIDE DEF Below
    <3> QED
      BY <1>1, <1>4, <2>1
  <2> QED
    BY <1>1, <1>3, <2>2
<1>6. ASSUME NEW m \in S, NEW n \in S, Earlier(m, n)
      PROVE  Rank(m, c) < Rank(n, c)
  <2>1. Below(m) \subseteq Below(n) /\ m \in Below(n) /\ m \notin Below(m) /\ Below(n) \subseteq S
    BY <1>2, <1>6
  <2>2. Cardinality(Below(m)) < Cardinality(Below(n))
    <3> HIDE DEF Below
    <3>1. IsFiniteSet(Below(n))
      BY <1>1, <2>1, FS_Subset, Zenon
    <3> QED
      BY <1>4, <2>1, <3>1
  <2> QED
    BY <1>3, <2>2
<1>7. ASSUME NEW m \in S, NEW n \in S, Rank(m, c) = Rank(n, c)
      PROVE  m = n
  <2>1. Rank(m, c) \in Nat /\ Rank(n, c) \in Nat
    BY <1>1, <1>5
  <2>2. ~Earlier(m, n) /\ ~Earlier(n, m)
    BY <1>6, <1>7, <2>1
  <2> QED
    BY <1>2, <2>2
<1> QED
  BY <1>5, <1>6, <1>7 DEF S

LEMMA ExpectedLists ==
    ASSUME prog \in Programs, NEW c \in DOMAIN prog
    PROVE  /\ Expected(c) \in [1..Cardinality(Inbox(c)) -> Inbox(c)]
           /\ \A m \in Inbox(c) : \E i \in DOMAIN Expected(c) : Expected(c)[i] = m
           /\ \A i \in DOMAIN Expected(c) : Rank(Expected(c)[i], c) = i - 1
           /\ \A i, j \in DOMAIN Expected(c) : i < j => Earlier(Expected(c)[i], Expected(c)[j])
           /\ \A i, j \in DOMAIN Expected(c) : Expected(c)[i] = Expected(c)[j] => i = j
<1> DEFINE S == Inbox(c)
           n == Cardinality(S)
           f == [m \in S |-> Rank(m, c) + 1]
           E == Expected(c)
<1>1. IsFiniteSet(S) /\ n \in Nat
  BY InboxFinite
<1>2. /\ \A m \in S : Rank(m, c) \in 0..(n - 1)
      /\ \A m, o \in S : Earlier(m, o) => Rank(m, c) < Rank(o, c)
      /\ \A m, o \in S : Rank(m, c) = Rank(o, c) => m = o
  BY RankCounts
<1>3. \A m, o \in S : m = o \/ Earlier(m, o) \/ Earlier(o, m)
  BY EarlierOrders
<1>e. E = [i \in 1..n |-> CHOOSE m \in S : Rank(m, c) = i - 1]
  BY DEF Expected
<1> HIDE DEF S, n, E
<1>4. f \in Injection(S, 1..n)
  <2>1. f \in [S -> 1..n]
    BY <1>1, <1>2
  <2>2. ASSUME NEW m \in S, NEW o \in S, f[m] = f[o]
        PROVE  m = o
    BY <1>1, <1>2, <2>2
  <2> QED
    BY <2>1, <2>2 DEF Injection, IsInjective
<1>5. f \in Surjection(S, 1..n)
  <2>1. IsFiniteSet(1..n) /\ Cardinality(1..n) = n
    BY <1>1, FS_Interval
  <2> HIDE DEF f
  <2>2. Cardinality(S) = Cardinality(1..n)
    BY <2>1 DEF n
  <2> QED
    BY <1>4, <2>1, <2>2, FS_Injection, Zenon
<1>6. ASSUME NEW i \in 1..n
      PROVE  \E m \in S : Rank(m, c) = i - 1
  <2>1. PICK m \in S : f[m] = i
    BY <1>5 DEF Surjection
  <2> QED
    BY <1>1, <1>2, <2>1
<1>7. \A i \in 1..n : E[i] \in S /\ Rank(E[i], c) = i - 1
  BY <1>e, <1>6
<1>8. E \in [1..n -> S] /\ DOMAIN E = 1..n
  BY <1>e, <1>7
<1>9. ASSUME NEW i \in 1..n, NEW j \in 1..n, i < j
      PROVE  Earlier(E[i], E[j])
  <2>1. /\ E[i] \in S /\ E[j] \in S
        /\ Rank(E[i], c) = i - 1 /\ Rank(E[j], c) = j - 1
    BY <1>7
  <2>2. E[i] # E[j]
    BY <1>1, <1>9, <2>1
  <2>3. ~Earlier(E[j], E[i])
    <3>1. SUFFICES ASSUME Earlier(E[j], E[i]) PROVE FALSE
      OBVIOUS
    <3>2. j - 1 < i - 1
      BY <1>2, <2>1, <3>1
    <3> QED
      BY <1>1, <1>9, <3>2
  <2> QED
    BY <1>3, <2>1, <2>2, <2>3
<1>10. ASSUME NEW m \in S
       PROVE  \E i \in 1..n : E[i] = m
  <2>1. Rank(m, c) + 1 \in 1..n /\ (Rank(m, c) + 1) - 1 = Rank(m, c)
    BY <1>1, <1>2
  <2>2. Rank(E[Rank(m, c) + 1], c) = Rank(m, c) /\ E[Rank(m, c) + 1] \in S
    BY <1>7, <2>1
  <2> QED
    BY <1>2, <2>1, <2>2
<1>11. ASSUME NEW i \in 1..n, NEW j \in 1..n, E[i] = E[j]
       PROVE  i = j
  BY <1>1, <1>7, <1>11
<1> QED
  BY <1>7, <1>8, <1>9, <1>10, <1>11 DEF S, n, E

(* A sorted list of all messages of a call, each once, is the expected one.*)
LEMMA SortedIsExpected ==
    ASSUME prog \in Programs, NEW c \in DOMAIN prog,
           NEW n \in Nat, NEW e \in [1..n -> Inbox(c)],
           \A m \in Inbox(c) : \E i \in 1..n : e[i] = m,
           \A i, j \in 1..n : i < j => Earlier(e[i], e[j])
    PROVE  e = Expected(c)
<1> DEFINE S == Inbox(c)
<1>1. /\ \A m \in S : ~Earlier(m, m)
      /\ \A m, o \in S : Earlier(m, o) => ~Earlier(o, m)
  BY EarlierOrders
<1>2. /\ \A m \in S : Rank(m, c) \in 0..(Cardinality(S) - 1)
      /\ \A m, o \in S : Rank(m, c) = Rank(o, c) => m = o
  BY RankCounts
<1>3. /\ Expected(c) \in [1..Cardinality(S) -> S]
      /\ \A i \in DOMAIN Expected(c) : Rank(Expected(c)[i], c) = i - 1
  BY ExpectedLists
<1>4. IsFiniteSet(S) /\ Cardinality(S) \in Nat
  BY InboxFinite
<1>s. /\ e \in [1..n -> S]
      /\ \A m \in S : \E i \in 1..n : e[i] = m
  OBVIOUS
<1>r. \A m \in S : Rank(m, c) = Cardinality({o \in S : Earlier(o, m)})
  BY DEF Rank
<1> HIDE DEF S
<1>5. \A i, j \in 1..n : e[i] = e[j] => i = j
  <2>1. SUFFICES ASSUME NEW i \in 1..n, NEW j \in 1..n, e[i] = e[j], i < j
                 PROVE  FALSE
    OBVIOUS
  <2> QED
    BY <1>1, <1>s, <2>1
<1>6. Cardinality(S) = n
  <2>1. e \in Bijection(1..n, S)
    BY <1>5, <1>s DEF Bijection, Injection, Surjection, IsInjective
  <2> QED
    BY <2>1, FS_CountingElements, Zenon DEF ExistsBijection
<1>7. ASSUME NEW i \in 1..n
      PROVE  Rank(e[i], c) = i - 1
  <2> DEFINE B == {o \in S : Earlier(o, e[i])}
             g == [k \in 1..(i - 1) |-> e[k]]
  <2>1. i - 1 \in Nat /\ 1..(i - 1) \subseteq 1..n /\ \A k \in 1..(i - 1) : k < i
    OBVIOUS
  <2>2. \A k \in 1..(i - 1) : e[k] \in B
    BY <1>s, <2>1
  <2>3. ASSUME NEW o \in B
        PROVE  \E k \in 1..(i - 1) : e[k] = o
    <3>1. PICK k \in 1..n : e[k] = o
      BY <1>s
    <3>2. Earlier(e[k], e[i]) /\ e[k] \in S /\ e[i] \in S
      BY <1>s, <3>1
    <3>3. k # i /\ ~(i < k)
      BY <1>1, <3>2
    <3> QED
      BY <3>1, <3>3
  <2>4. g \in Bijection(1..(i - 1), B)
    <3>1. g \in [1..(i - 1) -> B]
      BY <2>2
    <3>2. \A k, l \in 1..(i - 1) : g[k] = g[l] => k = l
      BY <1>5, <2>1
    <3>3. \A o \in B : \E k \in 1..(i - 1) : g[k] = o
      BY <2>3
    <3> HIDE DEF g, B
    <3> QED
      BY <3>1, <3>2, <3>3, Zenon DEF Bijection, Injection, Surjection, IsInjective
  <2>5. Cardinality(B) = i - 1
    <3> HIDE DEF g, B
    <3> QED
      BY <2>1, <2>4, FS_CountingElements, Zenon DEF ExistsBijection
  <2> QED
    BY <1>r, <1>s, <2>5
<1>8. \A i \in 1..n : e[i] = Expected(c)[i]
  <2>1. SUFFICES ASSUME NEW i \in 1..n PROVE e[i] = Expected(c)[i]
    OBVIOUS
  <2>2. Expected(c)[i] \in S /\ e[i] \in S
    BY <1>3, <1>6, <1>s
  <2>3. Rank(Expected(c)[i], c) = i - 1 /\ Rank(e[i], c) = i - 1
    BY <1>3, <1>6, <1>7
  <2> QED
    BY <1>2, <2>2, <2>3
<1> QED
  BY <1>3, <1>6, <1>8, <1>s

----------------------------------------------------------------------------
(* The invariant behind the results of calls.                              *)

\* The call that slot s is used for: the asynchronous calls that wait have
\* the slots from NBX_prc_pcnt on, a blocking call the one behind them.
Caller(s) ==
    IF s \in pcnt .. scnt - 1 THEN open[s - pcnt + 1]
    ELSE IF s = scnt /\ pc \in {"sync", "blocking"} THEN ip ELSE 0

\* Where a rank is in its program, and in the call there.
Control ==
    /\ prog \in Programs
    /\ pc # "app" => ip \in DOMAIN prog
    /\ pc = "sync" => prog[ip].op = "SSendRecv"
    /\ pc = "wait" => prog[ip].op = "SSendRecvWait"
    /\ pc = "blocking" => prog[ip].op \in {"SGather", "SGatherSend", "SScatter"} /\ scnt \in Slots

\* Which calls are open follows from the program, as does, with discipline,
\* that one whose peers are known is alone.
Opened ==
    /\ \A i \in DOMAIN open : open[i] \in 1..(ip - 1) /\ prog[open[i]].op = "SSendRecvAsync"
    /\ \A i, j \in DOMAIN open : i < j => open[i] < open[j]
    /\ Len(open) + MadeBefore(prog, "SSendRecvWait", ip) = MadeBefore(prog, "SSendRecvAsync", ip)
    /\ open = <<>> => scnt = 0
    /\ \A i \in DOMAIN open : WithPeersKnown(prog[open[i]]) => open = <<ip - 1>> /\ pcnt = 0
    /\ finished \subseteq 1..(ip - 1)
    /\ \A i \in DOMAIN open : open[i] \notin finished

Entries == [call : Nat \ {0}, slot : Slots, known : BOOLEAN, posted : BOOLEAN, data : Nat, rid : Nat]

\* What the base is told of a queued call agrees with the slot it was given.
QueueHolds ==
    /\ queue \in Seq(Entries)
    /\ \A j \in DOMAIN queue :
        /\ \A s \in Slots : s = queue[j].slot =>
              /\ Caller(s) = queue[j].call
              /\ ~queue[j].known => queue[j].rid = Len(recv_buf[s])
        /\ queue[j].known <=> WithPeersKnown(prog[queue[j].call])
        /\ queue[j].known /\ queue[j].posted => queue[j].data = queue[j].call
        /\ queue[j].known /\ ~queue[j].posted => send_buf = queue[j].call
        /\ ~queue[j].known => queue[j].posted
    /\ \A i, j \in DOMAIN queue : queue[i].call = queue[j].call => i = j
    /\ pc = "blocking" => \E j \in DOMAIN queue : queue[j].call = ip

\* Only messages of queued calls are still to come.
Flying ==
    \A n \in left : \E j \in DOMAIN queue, c \in DOMAIN prog : queue[j].call = c /\ n \in Inbox(c)

\* The buffers of a slot list what has arrived for its call, each once and
\* from one source in order; prc_recv and tags describe them.
Arrived(s, c) ==
    /\ bi[s] = c
    /\ \A i, j \in DOMAIN recv_buf[s] : recv_buf[s][i] = recv_buf[s][j] => i = j
    /\ \A i \in DOMAIN recv_buf[s] : recv_buf[s][i] \in Inbox(c) /\ recv_buf[s][i] \notin left
    /\ \A n \in Inbox(c) : n \in left \/ \E i \in DOMAIN recv_buf[s] : recv_buf[s][i] = n
    /\ prc_recv[c] = SourcesOf(recv_buf[s])
    /\ tags[s] = [i \in DOMAIN recv_buf[s] |-> recv_buf[s][i].k]
    /\ \A i, j \in DOMAIN recv_buf[s] :
          i < j /\ recv_buf[s][i].src = recv_buf[s][j].src => recv_buf[s][i].k < recv_buf[s][j].k
    /\ \A i \in DOMAIN recv_buf[s] : \A n \in left :
          n \in Inbox(c) /\ recv_buf[s][i].src = n.src => recv_buf[s][i].k < n.k

Unposted(c) == \E j \in DOMAIN queue : queue[j].call = c /\ ~queue[j].posted

\* Posted receives have their places from the start; before the sizes are
\* exchanged there are none.
FilledIn(c) ==
    /\ prc_recv[c] = SourcesOf(Expected(c))
    /\ Unposted(c) => recv_buf[0] = <<>> /\ Inbox(c) \subseteq left
    /\ ~Unposted(c) =>
          recv_buf[0] = [i \in DOMAIN Expected(c) |->
              IF Expected(c)[i] \in left THEN [call |-> 0, src |-> 0, k |-> 0] ELSE Expected(c)[i]]

BuffersHold ==
    \A s \in Slots, c \in DOMAIN prog : Caller(s) = c =>
        IF WithPeersKnown(prog[c]) THEN FilledIn(c) ELSE Arrived(s, c)

ResultsInv == TypeOK /\ Control /\ Opened /\ QueueHolds /\ Flying /\ BuffersHold /\ MergedInOrder

----------------------------------------------------------------------------
(* Counting, and which calls have slots.                                   *)

LEMMA FunctionIsSeq ==
    ASSUME NEW S, NEW n \in Nat, NEW f \in [1..n -> S]
    PROVE  f \in Seq(S) /\ Len(f) = n
OBVIOUS

LEMMA MadeNext ==
    ASSUME NEW pr, NEW op, NEW c \in Nat \ {0}
    PROVE  /\ MadeBefore(pr, op, c) \in Nat
           /\ pr[c].op = op => MadeBefore(pr, op, c + 1) = MadeBefore(pr, op, c) + 1
           /\ pr[c].op # op => MadeBefore(pr, op, c + 1) = MadeBefore(pr, op, c)
<1> DEFINE S(n) == {k \in 1..(n - 1) : pr[k].op = op}
<1>1. IsFiniteSet(1..(c - 1))
  BY FS_Interval
<1>2. S(c) \subseteq 1..(c - 1)
  OBVIOUS
<1>3. S(c + 1) = IF pr[c].op = op THEN S(c) \cup {c} ELSE S(c)
  <2>1. 1..((c + 1) - 1) = 1..(c - 1) \cup {c}
    OBVIOUS
  <2> QED
    BY <2>1
<1>4. c \notin S(c)
  OBVIOUS
<1>5. MadeBefore(pr, op, c) = Cardinality(S(c)) /\ MadeBefore(pr, op, c + 1) = Cardinality(S(c + 1))
  BY DEF MadeBefore
<1> HIDE DEF S
<1>6. IsFiniteSet(S(c))
  BY <1>1, <1>2, FS_Subset
<1>7. Cardinality(S(c)) \in Nat
  BY <1>6, FS_CardinalityType
<1>8. Cardinality(S(c) \cup {c}) = Cardinality(S(c)) + 1
  BY <1>4, <1>6, FS_AddElement
<1> QED
  BY <1>3, <1>5, <1>7, <1>8

LEMMA MadeByStart ==
    ASSUME NEW pr, NEW op
    PROVE  MadeBefore(pr, op, 1) = 0
<1>1. {k \in 1..(1 - 1) : pr[k].op = op} = {}
  OBVIOUS
<1> QED
  BY <1>1, FS_EmptySet DEF MadeBefore

LEMMA SlotBasics ==
    ASSUME SlotsAccounted, TypeOK, prog \in Programs
    PROVE  /\ NQUEUE \in Nat \ {0}
           /\ \A s \in Slots : s \in Nat /\ s < NQUEUE
           /\ \A s \in Nat : s < NQUEUE => s \in Slots
           /\ open \in Seq(Nat \ {0}) /\ Len(open) \in Nat /\ DOMAIN open = 1..Len(open)
           /\ pcnt \in Nat /\ scnt \in Nat /\ scnt <= NQUEUE /\ pcnt < NQUEUE
           /\ scnt = pcnt + Len(open)
           /\ ip \in Nat \ {0} /\ ip <= Len(prog) + 1
           /\ Len(prog) \in Nat /\ DOMAIN prog = 1..Len(prog)
<1>1. NQUEUE \in Nat \ {0}
  BY SemanticAssumption
<1>2. Len(prog) \in Nat /\ DOMAIN prog = 1..Len(prog)
  BY ProgramType
<1>3. \A s : s \in Slots <=> s \in Nat /\ s < NQUEUE
  BY <1>1 DEF Slots
<1>4. /\ open \in Seq(Nat \ {0}) /\ Len(open) \in Nat /\ DOMAIN open = 1..Len(open)
      /\ pcnt \in Nat /\ scnt \in 0..NQUEUE
      /\ scnt = pcnt + Len(open)
      /\ ip \in Nat \ {0}
  BY DEF SlotsAccounted, Counted
<1>5. pcnt \in Slots /\ ip \in 1..(Len(prog) + 1)
  BY DEF TypeOK
<1>6. scnt \in Nat /\ scnt <= NQUEUE /\ pcnt < NQUEUE /\ ip <= Len(prog) + 1
  BY <1>1, <1>2, <1>3, <1>4, <1>5
<1> QED
  BY <1>1, <1>2, <1>3, <1>4, <1>6

LEMMA Callers ==
    ASSUME SlotsAccounted, TypeOK, Control, Opened
    PROVE  /\ \A i \in DOMAIN open : (pcnt + i) - 1 \in Slots /\ Caller((pcnt + i) - 1) = open[i]
           /\ \A s \in Slots : Caller(s) # 0 =>
                 /\ Caller(s) \in DOMAIN prog /\ Caller(s) \notin finished
                 /\ Caller(s) <= ip
                 /\ Caller(s) = ip => s = scnt /\ pc \in {"sync", "blocking"}
                 /\ Caller(s) # ip => s \in pcnt .. scnt - 1 /\ Caller(s) = open[s - pcnt + 1]
           /\ \A s, t \in Slots : Caller(s) # 0 /\ Caller(s) = Caller(t) => s = t
           /\ pc \in {"sync", "blocking"} => scnt \in Slots /\ Caller(scnt) = ip
           /\ pc \in {"app", "wait"} => Caller(scnt) = 0
<1>1. /\ NQUEUE \in Nat \ {0}
      /\ \A s \in Slots : s \in Nat /\ s < NQUEUE
      /\ \A s \in Nat : s < NQUEUE => s \in Slots
      /\ open \in Seq(Nat \ {0}) /\ Len(open) \in Nat /\ DOMAIN open = 1..Len(open)
      /\ pcnt \in Nat /\ scnt \in Nat /\ scnt <= NQUEUE /\ pcnt < NQUEUE
      /\ scnt = pcnt + Len(open)
      /\ ip \in Nat \ {0} /\ ip <= Len(prog) + 1
      /\ Len(prog) \in Nat /\ DOMAIN prog = 1..Len(prog)
  BY SlotBasics DEF Control
<1>2. /\ \A i \in DOMAIN open : open[i] \in 1..(ip - 1) /\ open[i] \notin finished
      /\ \A i, j \in DOMAIN open : i < j => open[i] < open[j]
      /\ finished \subseteq 1..(ip - 1)
  BY DEF Opened
<1>3. /\ pc \in {"sync", "blocking"} => scnt \in Slots /\ ip \in DOMAIN prog
  BY DEF SlotsAccounted, Counted, Control
<1>4. ASSUME NEW i \in DOMAIN open
      PROVE  (pcnt + i) - 1 \in Slots /\ Caller((pcnt + i) - 1) = open[i]
  <2>0. i \in Nat /\ 1 <= i /\ i <= Len(open) /\ Len(open) \in Nat /\ pcnt \in Nat
    BY <1>1
  <2>1. (pcnt + i) - 1 \in pcnt .. (pcnt + Len(open)) - 1 /\ ((pcnt + i) - 1) - pcnt + 1 = i
    BY <2>0
  <2>2. (pcnt + i) - 1 \in Slots
    <3>1. (pcnt + i) - 1 \in Nat /\ (pcnt + i) - 1 < scnt
      BY <1>1, <2>0
    <3> QED
      BY <1>1, <3>1
  <2> QED
    BY <1>1, <2>1, <2>2 DEF Caller
<1>5. ASSUME NEW s \in Slots, Caller(s) # 0
      PROVE  /\ Caller(s) \in DOMAIN prog /\ Caller(s) \notin finished
             /\ Caller(s) <= ip
             /\ Caller(s) = ip => s = scnt /\ pc \in {"sync", "blocking"}
             /\ Caller(s) # ip => s \in pcnt .. scnt - 1 /\ Caller(s) = open[s - pcnt + 1]
  <2>1. CASE s \in pcnt .. scnt - 1
    <3>1. s - pcnt + 1 \in DOMAIN open
      BY <1>1, <2>1
    <3>2. Caller(s) = open[s - pcnt + 1]
      BY <2>1 DEF Caller
    <3>3. open[s - pcnt + 1] \in 1..(ip - 1) /\ open[s - pcnt + 1] \notin finished
      BY <1>2, <3>1
    <3> QED
      BY <1>1, <2>1, <3>2, <3>3
  <2>2. CASE s \notin pcnt .. scnt - 1
    <3>1. s = scnt /\ pc \in {"sync", "blocking"} /\ Caller(s) = ip
      BY <1>5, <2>2 DEF Caller
    <3>2. ip \notin finished
      BY <1>1, <1>2
    <3> QED
      BY <1>1, <1>3, <3>1, <3>2
  <2> QED
    BY <2>1, <2>2
<1>6. ASSUME NEW s \in Slots, NEW t \in Slots, Caller(s) # 0, Caller(s) = Caller(t)
      PROVE  s = t
  <2>1. CASE Caller(s) = ip
    BY <1>5, <1>6, <2>1
  <2>2. CASE Caller(s) # ip
    <3>1. /\ s \in pcnt .. scnt - 1 /\ Caller(s) = open[s - pcnt + 1]
          /\ t \in pcnt .. scnt - 1 /\ Caller(t) = open[t - pcnt + 1]
      BY <1>5, <1>6, <2>2
    <3>2. s - pcnt + 1 \in DOMAIN open /\ t - pcnt + 1 \in DOMAIN open
      BY <1>1, <3>1
    <3>3. open[s - pcnt + 1] = open[t - pcnt + 1]
      BY <1>6, <3>1
    <3>n. open[s - pcnt + 1] \in Nat /\ open[t - pcnt + 1] \in Nat
      <4>1. \A i \in DOMAIN open : open[i] \in Nat
        BY <1>1
      <4> QED
        BY <3>2, <4>1
    <3>4. ~(s - pcnt + 1 < t - pcnt + 1) /\ ~(t - pcnt + 1 < s - pcnt + 1)
      BY <1>2, <3>2, <3>3, <3>n
    <3>5. s \in Nat /\ t \in Nat
      BY <1>1
    <3> QED
      BY <1>1, <3>4, <3>5
  <2> QED
    BY <2>1, <2>2
<1>7. scnt \notin pcnt .. scnt - 1
  BY <1>1
<1>8. pc \in {"sync", "blocking"} => scnt \in Slots /\ Caller(scnt) = ip
  BY <1>3, <1>7 DEF Caller
<1>9. pc \in {"app", "wait"} => Caller(scnt) = 0
  BY <1>7 DEF Caller
<1> QED
  BY <1>4, <1>5, <1>6, <1>8, <1>9

(* What discipline adds: who is alone.                                     *)
LEMMA Alone ==
    ASSUME Disciplined, SlotsAccounted, TypeOK, Control, Opened
    PROVE  /\ ip \in DOMAIN prog /\ prog[ip].op \notin {"SSendRecvAsync", "SSendRecvWait"} => open = <<>>
           /\ ip \in DOMAIN prog /\ WithPeersKnown(prog[ip]) => open = <<>>
           /\ pc \in {"sync", "blocking"} => open = <<>>
           /\ open = <<>> => scnt = 0 /\ pcnt = 0
           /\ open = <<>> /\ pc \in {"app", "wait"} => \A s \in Slots : Caller(s) = 0
           /\ open = <<>> => \A s \in Slots : Caller(s) # 0 => s = 0
           /\ \A s \in Slots : Caller(s) # 0 /\ WithPeersKnown(prog[Caller(s)]) =>
                 /\ s = 0
                 /\ \A t \in Slots : Caller(t) # 0 => t = 0
                 /\ \A t \in Peers : prog[Caller(s)].in[t] <= 1
<1>1. /\ NQUEUE \in Nat \ {0}
      /\ \A s \in Slots : s \in Nat /\ s < NQUEUE
      /\ open \in Seq(Nat \ {0}) /\ Len(open) \in Nat /\ DOMAIN open = 1..Len(open)
      /\ pcnt \in Nat /\ scnt \in Nat /\ scnt <= NQUEUE /\ pcnt < NQUEUE
      /\ scnt = pcnt + Len(open)
      /\ ip \in Nat \ {0} /\ ip <= Len(prog) + 1
      /\ Len(prog) \in Nat /\ DOMAIN prog = 1..Len(prog)
  BY SlotBasics DEF Control
<1>2. BlockingAlone(prog) /\ KnownAlone(prog)
  BY DEF Disciplined, Control
<1>3. ASSUME Idle(prog, ip)
      PROVE  open = <<>>
  <2>1. Len(open) + MadeBefore(prog, "SSendRecvWait", ip) = MadeBefore(prog, "SSendRecvAsync", ip)
    BY DEF Opened
  <2>2. MadeBefore(prog, "SSendRecvWait", ip) \in Nat
    BY <1>1, MadeNext
  <2>3. Len(open) = 0
    BY <1>1, <1>3, <2>1, <2>2 DEF Idle
  <2> QED
    BY <1>1, <2>3
<1>4. ip \in DOMAIN prog /\ prog[ip].op \notin {"SSendRecvAsync", "SSendRecvWait"} => open = <<>>
  BY <1>2, <1>3 DEF BlockingAlone
<1>5. ip \in DOMAIN prog /\ WithPeersKnown(prog[ip]) => open = <<>>
  BY <1>2, <1>3 DEF KnownAlone
<1>6. pc \in {"sync", "blocking"} => open = <<>>
  BY <1>4 DEF Control
<1>7. open = <<>> => scnt = 0 /\ pcnt = 0
  BY <1>1 DEF Opened
<1>8. open = <<>> => \A s \in Slots : Caller(s) # 0 => s = 0 /\ pc \in {"sync", "blocking"}
  BY <1>1, <1>7 DEF Caller
<1>9. ASSUME NEW s \in Slots, Caller(s) # 0, WithPeersKnown(prog[Caller(s)])
      PROVE  /\ s = 0
             /\ \A t \in Slots : Caller(t) # 0 => t = 0
             /\ \A t \in Peers : prog[Caller(s)].in[t] <= 1
  <2>1. \A t \in Peers : prog[Caller(s)].in[t] <= 1
    BY <1>2, <1>9, Callers DEF KnownAlone
  <2>2. CASE open = <<>>
    BY <1>8, <1>9, <2>1, <2>2
  <2>3. CASE open # <<>>
    <3>1. pc \notin {"sync", "blocking"}
      BY <1>6, <2>3
    <3>2. s - pcnt + 1 \in DOMAIN open /\ Caller(s) = open[s - pcnt + 1]
      BY <1>1, <1>9, <3>1 DEF Caller
    <3>3. open = <<ip - 1>> /\ pcnt = 0
      BY <1>9, <3>2 DEF Opened
    <3>4. scnt = 1
      BY <1>1, <3>3
    <3>5. \A t \in Slots : Caller(t) # 0 => t = 0
      BY <1>1, <3>1, <3>3, <3>4 DEF Caller
    <3> QED
      BY <1>9, <2>1, <3>5
  <2> QED
    BY <2>2, <2>3
<1> QED
  BY <1>4, <1>5, <1>6, <1>7, <1>8, <1>9

LEMMA SameProgram ==
    ASSUME prog' = prog
    PROVE  /\ \A c : Inbox(c)' = Inbox(c) /\ Expected(c)' = Expected(c) /\ Own(c)' = Own(c)
           /\ Msgs' = Msgs
BY DEF Inbox, Expected, Rank, Own, Msgs

LEMMA ExpectedType ==
    ASSUME prog \in Programs, NEW c \in DOMAIN prog
    PROVE  /\ Expected(c) \in Seq(Msgs)
           /\ DOMAIN Expected(c) = 1..Len(Expected(c)) /\ Len(Expected(c)) \in Nat
           /\ SourcesOf(Expected(c)) \in Seq(Peers)
           /\ Own(c) \in Seq(Msgs) /\ SourcesOf(Own(c)) \in Seq(Peers \cup {0})
<1>1. Expected(c) \in [1..Cardinality(Inbox(c)) -> Inbox(c)] /\ Cardinality(Inbox(c)) \in Nat
  BY ExpectedLists, InboxFinite
<1>2. \A m \in Inbox(c) : m \in Msgs /\ m.src \in Peers
  BY InboxHas
<1>3. /\ Expected(c) \in Seq(Msgs)
      /\ DOMAIN Expected(c) = 1..Len(Expected(c)) /\ Len(Expected(c)) \in Nat
  BY <1>1, <1>2
<1>4. SourcesOf(Expected(c)) \in [1..Len(Expected(c)) -> Peers]
  BY <1>1, <1>2, <1>3 DEF SourcesOf
<1>5. SourcesOf(Expected(c)) \in Seq(Peers)
  BY <1>3, <1>4
<1>6. Own(c) \in Seq(Msgs) /\ SourcesOf(Own(c)) \in Seq(Peers \cup {0})
  <2>1. c \in 0..Len(prog)
    BY ProgramType
  <2>2. [call |-> c, src |-> 0, k |-> 0] \in Msgs
    BY <2>1 DEF Msgs
  <2>3. CASE prog[c].op = "SGather"
    <3>1. Own(c) = <<[call |-> c, src |-> 0, k |-> 0]>>
      BY <2>3 DEF Own
    <3> DEFINE own == [call |-> c, src |-> 0, k |-> 0]
    <3>2. own \in Msgs /\ own.src = 0
      BY <2>2
    <3> HIDE DEF own
    <3>3. Own(c) = <<own>>
      BY <3>1 DEF own
    <3>4. Own(c) \in Seq(Msgs) /\ DOMAIN Own(c) = 1..1 /\ Own(c)[1] = own
      BY <3>2, <3>3
    <3>5. SourcesOf(Own(c)) \in [1..1 -> Peers \cup {0}]
      BY <3>2, <3>4 DEF SourcesOf
    <3>6. SourcesOf(Own(c)) \in Seq(Peers \cup {0})
      BY <3>5, FunctionIsSeq
    <3> QED
      BY <3>4, <3>6
  <2>4. CASE prog[c].op # "SGather"
    <3>1. Own(c) = <<>>
      BY <2>4 DEF Own
    <3>2. Own(c) \in Seq(Msgs) /\ DOMAIN Own(c) = 1..0
      <4>1. \A S : <<>> \in Seq(S) /\ DOMAIN <<>> = 1..0
        OBVIOUS
      <4> QED
        BY <3>1, <4>1
    <3>3. SourcesOf(Own(c)) \in [1..0 -> Peers \cup {0}]
      BY <3>2 DEF SourcesOf
    <3>4. SourcesOf(Own(c)) \in Seq(Peers \cup {0})
      BY <3>3, FunctionIsSeq
    <3> QED
      BY <3>2, <3>4
  <2> QED
    BY <2>3, <2>4
<1> QED
  BY <1>3, <1>5, <1>6

LEMMA RearrangedIsExpected ==
    ASSUME prog \in Programs, NEW c \in DOMAIN prog,
           NEW n \in Nat, NEW buf \in [1..n -> Inbox(c)],
           \A m \in Inbox(c) : \E i \in 1..n : buf[i] = m,
           NEW f \in Surjection(1..n, 1..n),
           \A i, j \in 1..n : i < j => Earlier(buf[f[i]], buf[f[j]])
    PROVE  [i \in 1..n |-> buf[f[i]]] = Expected(c)
<1>1. f \in [1..n -> 1..n] /\ \A l \in 1..n : \E i \in 1..n : f[i] = l
  BY DEF Surjection
<1>2. PICK line \in [1..n -> Inbox(c)] : line = [i \in 1..n |-> buf[f[i]]]
  BY <1>1
<1>3. \A i \in 1..n : line[i] = buf[f[i]]
  BY <1>2
<1>4. \A m \in Inbox(c) : \E i \in 1..n : line[i] = m
  BY <1>1, <1>3
<1>5. \A i, j \in 1..n : i < j => Earlier(line[i], line[j])
  BY <1>3
<1> QED
  BY <1>2, <1>4, <1>5, SortedIsExpected

----------------------------------------------------------------------------
\* The messages of call c, each once.
Lists(buf, c) ==
    /\ buf \in Seq(Msgs)
    /\ \A i, j \in DOMAIN buf : buf[i] = buf[j] => i = j
    /\ \A i \in DOMAIN buf : buf[i] \in Inbox(c)
    /\ \A n \in Inbox(c) : \E i \in DOMAIN buf : buf[i] = n

\* Sorting by processor and tag tells them apart.
Apart(buf, tag) ==
    \/ tag = [i \in DOMAIN buf |-> buf[i].k]
    \/ \A i, j \in DOMAIN buf : buf[i].src = buf[j].src => i = j

(* Whatever order equal entries were left in, sorting the complete buffers *)
(* of a call gives what was expected, if the tags noted are those of the   *)
(* buffers or no two of them have one source.                              *)
LEMMA SortedGives ==
    ASSUME prog \in Programs, NEW c \in DOMAIN prog,
           Lists(recv_buf[pcnt], c),
           NEW tag, Apart(recv_buf[pcnt], tag),
           NEW r \in Sorted(SourcesOf(recv_buf[pcnt]), tag)
    PROVE  r.buf = Expected(c) /\ r.prc = SourcesOf(Expected(c))
<1>0. PICK buf : buf = recv_buf[pcnt]
  OBVIOUS
<1> DEFINE prc == SourcesOf(buf)
<1>1. PICK n \in Nat : n = Len(buf) /\ DOMAIN buf = 1..n /\ buf \in [1..n -> Msgs]
  BY <1>0 DEF Lists
<1>2. DOMAIN prc = 1..n /\ Len(prc) = n /\ prc \in Seq(Peers)
  <2>1. \A i \in 1..n : buf[i].src \in Peers
    BY <1>0, <1>1, InboxHas DEF Lists
  <2>2. prc \in [1..n -> Peers]
    BY <1>1, <2>1 DEF SourcesOf
  <2> QED
    BY <2>2, FunctionIsSeq
<1>3. r \in reorder_buffer(buf, prc, tag)
  <2>1. PICK full \in ReadTo(prc, n) : r \in reorder_buffer(buf, full, tag)
    BY <1>0, <1>1 DEF Sorted
  <2>2. ~(n > Len(prc))
    BY <1>2
  <2>3. PICK past \in [1..0 -> Peers] : full = prc \o past
    BY <2>1, <2>2 DEF ReadTo
  <2>4. past = <<>>
    BY <2>3
  <2>5. full = prc
    BY <1>2, <2>3, <2>4
  <2> QED
    BY <2>1, <2>5
<1>4. PICK f \in Sortings(buf, prc, tag) :
         r = [buf |-> [i \in DOMAIN f |-> buf[f[i]]], prc |-> [i \in DOMAIN f |-> prc[f[i]]]]
  BY <1>3 DEF reorder_buffer
<1> HIDE DEF prc
<1>5. /\ f \in [1..n -> 1..n]
      /\ \A i, j \in 1..n : f[i] = f[j] => i = j
      /\ \A i, j \in 1..n : i < j => ~Before(Entry(prc, tag, f[j]), Entry(prc, tag, f[i]))
  BY <1>1, <1>4 DEF Sortings
<1>6. f \in Surjection(1..n, 1..n)
  <2>1. f \in Injection(1..n, 1..n)
    BY <1>5 DEF Injection, IsInjective
  <2>2. IsFiniteSet(1..n)
    BY <1>1, FS_Interval
  <2> QED
    BY <2>1, <2>2, FS_Injection, Zenon
<1>7. ASSUME NEW i \in 1..n, NEW j \in 1..n, i # j, ~Before(Entry(prc, tag, j), Entry(prc, tag, i))
      PROVE  Earlier(buf[i], buf[j])
  <2>1. /\ buf[i].src \in Nat /\ buf[j].src \in Nat /\ buf[i].k \in Nat /\ buf[j].k \in Nat
        /\ buf[i] = [call |-> c, src |-> buf[i].src, k |-> buf[i].k]
        /\ buf[j] = [call |-> c, src |-> buf[j].src, k |-> buf[j].k]
    BY <1>0, <1>1, InboxHas DEF Lists
  <2>2. Entry(prc, tag, i).proc = buf[i].src /\ Entry(prc, tag, j).proc = buf[j].src
    BY <1>1 DEF Entry, prc, SourcesOf
  <2>3. CASE tag = [l \in 1..n |-> buf[l].k]
    <3>1. Entry(prc, tag, i).tag = buf[i].k /\ Entry(prc, tag, j).tag = buf[j].k
      BY <2>3 DEF Entry
    <3>2. ~(buf[i].src = buf[j].src /\ buf[i].k = buf[j].k)
      <4>1. buf[i] # buf[j]
        BY <1>0, <1>1, <1>7 DEF Lists
      <4> QED
        BY <2>1, <4>1
    <3> QED
      BY <1>7, <2>1, <2>2, <3>1, <3>2 DEF Before, Earlier
  <2>4. CASE \A l, m \in 1..n : buf[l].src = buf[m].src => l = m
    <3>1. buf[i].src # buf[j].src
      BY <1>7, <2>4
    <3> QED
      BY <1>7, <2>1, <2>2, <3>1 DEF Before, Earlier
  <2> QED
    BY <1>0, <1>1, <2>3, <2>4 DEF Apart
<1>8. [i \in 1..n |-> buf[f[i]]] = Expected(c)
  <2>1. buf \in [1..n -> Inbox(c)]
    BY <1>0, <1>1 DEF Lists
  <2>2. \A m \in Inbox(c) : \E i \in 1..n : buf[i] = m
    BY <1>0, <1>1 DEF Lists
  <2>3. \A i, j \in 1..n : i < j => Earlier(buf[f[i]], buf[f[j]])
    <3>1. SUFFICES ASSUME NEW i \in 1..n, NEW j \in 1..n, i < j
                   PROVE  Earlier(buf[f[i]], buf[f[j]])
      OBVIOUS
    <3>2. f[i] \in 1..n /\ f[j] \in 1..n /\ f[i] # f[j]
      BY <1>5, <3>1
    <3>3. ~Before(Entry(prc, tag, f[j]), Entry(prc, tag, f[i]))
      BY <1>5, <3>1
    <3> QED
      BY <1>7, <3>2, <3>3
  <2>4. \A k \in Nat : \A b \in [1..k -> Inbox(c)] : \A g \in Surjection(1..k, 1..k) :
           /\ \A m \in Inbox(c) : \E i \in 1..k : b[i] = m
           /\ \A i, j \in 1..k : i < j => Earlier(b[g[i]], b[g[j]])
           => [i \in 1..k |-> b[g[i]]] = Expected(c)
    BY RearrangedIsExpected
  <2>5. \A g \in Surjection(1..n, 1..n) :
           /\ \A m \in Inbox(c) : \E i \in 1..n : buf[i] = m
           /\ \A i, j \in 1..n : i < j => Earlier(buf[g[i]], buf[g[j]])
           => [i \in 1..n |-> buf[g[i]]] = Expected(c)
    BY <1>1, <2>1, <2>4
  <2> QED
    BY <1>6, <2>2, <2>3, <2>5
<1>9. r.buf = Expected(c)
  BY <1>4, <1>5, <1>8
<1>10. r.prc = SourcesOf([i \in 1..n |-> buf[f[i]]])
  <2>1. r.prc = [i \in 1..n |-> prc[f[i]]]
    BY <1>4, <1>5
  <2>2. \A i \in 1..n : prc[f[i]] = buf[f[i]].src
    BY <1>1, <1>5 DEF prc, SourcesOf
  <2> QED
    BY <2>1, <2>2 DEF SourcesOf
<1> QED
  BY <1>8, <1>9, <1>10

----------------------------------------------------------------------------
(* Control and the counts.                                                 *)

LEMMA ControlKept ==
    ASSUME SlotsAccounted, Control, [Next]_vars
    PROVE  Control' /\ prog' = prog
<1>1. Len(prog) \in Nat /\ DOMAIN prog = 1..Len(prog) /\ ip \in Nat \ {0}
  BY ProgramType DEF Control, SlotsAccounted, Counted
<1>2. CASE SSendRecvAsync \/ SSendRecv \/ SSendRecvWait \/ Collect
  BY <1>1, <1>2 DEF SSendRecvAsync, SSendRecv, SSendRecvWait, Collect, Running, Control
<1>3. CASE EndSSendRecv \/ EndSSendRecvWait
  BY <1>3 DEF EndSSendRecv, EndSSendRecvWait, Process, Merge, Control
<1>4. CASE EndCollect
  <2>1. pc' = "app" /\ prog' = prog
    BY <1>4 DEF EndCollect, Merge, Control
  <2> QED
    BY <2>1 DEF Control
<1>5. ASSUME NEW m \in left, NEW j \in DOMAIN queue, Receive(m, j) \/ FillIn(m, j)
      PROVE  Control' /\ prog' = prog
  BY <1>5 DEF Receive, FillIn, Control
<1>6. ASSUME NEW j \in DOMAIN queue, PostAfterSizes(j)
      PROVE  Control' /\ prog' = prog
  BY <1>6 DEF PostAfterSizes, Control
<1>7. CASE Finished \/ UNCHANGED vars
  BY <1>7 DEF Finished, vars, Control
<1> QED
  BY <1>2, <1>3, <1>4, <1>5, <1>6, <1>7 DEF Next

LEMMA OpenedAsync ==
    ASSUME Disciplined, SlotsAccounted, TypeOK, Control, Opened, SSendRecvAsync
    PROVE  Opened'
<1>1. /\ open \in Seq(Nat \ {0}) /\ Len(open) \in Nat /\ DOMAIN open = 1..Len(open)
      /\ ip \in Nat \ {0} /\ pcnt \in Nat /\ scnt \in Nat
      /\ DOMAIN prog = 1..Len(prog) /\ Len(prog) \in Nat
  BY SlotBasics DEF Control
<1>2. /\ ip \in DOMAIN prog /\ prog[ip].op = "SSendRecvAsync"
      /\ open' = Append(open, ip) /\ ip' = ip + 1 /\ scnt' = scnt + 1 /\ pcnt' = pcnt
      /\ finished' = finished /\ prog' = prog /\ prog \in Programs
  BY <1>1 DEF SSendRecvAsync, Running, prepare_send_buffer, Control
<1>3. /\ Len(open') = Len(open) + 1 /\ DOMAIN open' = 1..(Len(open) + 1)
      /\ \A i \in 1..Len(open) : open'[i] = open[i]
      /\ open'[Len(open) + 1] = ip
      /\ open' # <<>>
  BY <1>1, <1>2
<1>4. /\ \A i \in 1..Len(open) : open[i] \in 1..(ip - 1) /\ prog[open[i]].op = "SSendRecvAsync"
      /\ \A i, j \in 1..Len(open) : i < j => open[i] < open[j]
      /\ Len(open) + MadeBefore(prog, "SSendRecvWait", ip) = MadeBefore(prog, "SSendRecvAsync", ip)
      /\ \A i \in 1..Len(open) : WithPeersKnown(prog[open[i]]) => open = <<ip - 1>> /\ pcnt = 0
      /\ finished \subseteq 1..(ip - 1)
      /\ \A i \in 1..Len(open) : open[i] \notin finished
  BY <1>1 DEF Opened
<1>5. \A i \in DOMAIN open' : i \in 1..Len(open) \/ i = Len(open) + 1
  BY <1>1, <1>3
<1>6. ASSUME NEW i \in DOMAIN open'
      PROVE  open'[i] \in 1..(ip' - 1) /\ prog'[open'[i]].op = "SSendRecvAsync" /\ open'[i] \notin finished'
  <2>1. CASE i \in 1..Len(open)
    BY <1>1, <1>2, <1>3, <1>4, <2>1
  <2>2. CASE i = Len(open) + 1
    BY <1>1, <1>2, <1>3, <1>4, <2>2
  <2> QED
    BY <1>5, <2>1, <2>2
<1>7. ASSUME NEW i \in DOMAIN open', NEW j \in DOMAIN open', i < j
      PROVE  open'[i] < open'[j]
  <2>1. i \in 1..Len(open)
    BY <1>1, <1>3, <1>7
  <2>2. CASE j \in 1..Len(open)
    BY <1>3, <1>4, <1>7, <2>1, <2>2
  <2>3. CASE j = Len(open) + 1
    BY <1>1, <1>3, <1>4, <2>1, <2>3
  <2> QED
    BY <1>5, <2>2, <2>3
<1>8. Len(open') + MadeBefore(prog', "SSendRecvWait", ip') = MadeBefore(prog', "SSendRecvAsync", ip')
  <2>1. /\ MadeBefore(prog, "SSendRecvWait", ip) \in Nat
        /\ MadeBefore(prog, "SSendRecvWait", ip + 1) = MadeBefore(prog, "SSendRecvWait", ip)
        /\ MadeBefore(prog, "SSendRecvAsync", ip) \in Nat
        /\ MadeBefore(prog, "SSendRecvAsync", ip + 1) = MadeBefore(prog, "SSendRecvAsync", ip) + 1
    <3>1. MadeBefore(prog, "SSendRecvWait", ip) \in Nat /\ MadeBefore(prog, "SSendRecvAsync", ip) \in Nat
      BY <1>1, MadeNext
    <3> QED
      BY <1>1, <1>2, <3>1, MadeNext
  <2> QED
    BY <1>1, <1>2, <1>3, <1>4, <2>1
<1>9. ASSUME NEW i \in DOMAIN open', WithPeersKnown(prog'[open'[i]])
      PROVE  open' = <<ip' - 1>> /\ pcnt' = 0
  <2>1. CASE i \in 1..Len(open)
    <3>1. WithPeersKnown(prog[open[i]]) /\ open = <<ip - 1>>
      BY <1>2, <1>3, <1>4, <1>9, <2>1
    <3>2. Len(open) = 1 /\ open[1] = ip - 1 /\ i = 1
      BY <2>1, <3>1
    <3>3. /\ ip - 1 \in 1..(ip - 1) /\ prog[ip - 1].op = "SSendRecvAsync" /\ WithPeersKnown(prog[ip - 1])
      BY <1>4, <2>1, <3>1, <3>2
    <3>4. ip - 1 \in DOMAIN prog /\ ip - 1 < Len(prog) /\ (ip - 1) + 1 = ip
      BY <1>1, <1>2, <3>3
    <3>5. KnownAlone(prog)
      BY <1>2 DEF Disciplined
    <3>6. prog[ip].op = "SSendRecvWait"
      BY <3>3, <3>4, <3>5 DEF KnownAlone
    <3> QED
      BY <1>2, <3>6
  <2>2. CASE i = Len(open) + 1
    <3>1. WithPeersKnown(prog[ip])
      BY <1>2, <1>3, <1>9, <2>2
    <3>2. open = <<>> /\ pcnt = 0
      BY <1>2, <3>1, Alone
    <3> QED
      BY <1>1, <1>2, <3>2
  <2> QED
    BY <1>5, <2>1, <2>2
<1>10. finished' \subseteq 1..(ip' - 1)
  BY <1>1, <1>2, <1>4
<1> QED
  BY <1>3, <1>6, <1>7, <1>8, <1>9, <1>10 DEF Opened

LEMMA OpenedEndBlocking ==
    ASSUME Disciplined, SlotsAccounted, TypeOK, Control, Opened, EndSSendRecv \/ EndCollect
    PROVE  Opened'
<1>1. /\ ip \in Nat \ {0}
  BY SlotBasics DEF Control
<1>2. /\ pc \in {"sync", "blocking"}
      /\ open' = open /\ ip' = ip + 1 /\ scnt' = scnt /\ pcnt' = pcnt /\ prog' = prog
      /\ finished' \subseteq finished \cup {ip}
  <2>1. CASE EndSSendRecv
    BY <2>1 DEF EndSSendRecv, Process, Merge
  <2>2. CASE EndCollect
    BY <2>2 DEF EndCollect, Merge
  <2> QED
    BY <2>1, <2>2
<1>3. /\ ip \in DOMAIN prog /\ prog[ip].op \notin {"SSendRecvAsync", "SSendRecvWait"}
  BY <1>2 DEF Control
<1>4. open = <<>>
  BY <1>2, Alone
<1>5. Len(open') + MadeBefore(prog', "SSendRecvWait", ip') = MadeBefore(prog', "SSendRecvAsync", ip')
  <2>1. /\ MadeBefore(prog, "SSendRecvWait", ip + 1) = MadeBefore(prog, "SSendRecvWait", ip)
        /\ MadeBefore(prog, "SSendRecvAsync", ip + 1) = MadeBefore(prog, "SSendRecvAsync", ip)
    <3>1. MadeBefore(prog, "SSendRecvWait", ip) \in Nat /\ MadeBefore(prog, "SSendRecvAsync", ip) \in Nat
      BY <1>1, MadeNext
    <3> QED
      BY <1>1, <1>3, <3>1, MadeNext
  <2> QED
    BY <1>2, <2>1 DEF Opened
<1>6. finished' \subseteq 1..(ip' - 1)
  BY <1>1, <1>2 DEF Opened
<1>7. DOMAIN open' = {}
  BY <1>2, <1>4
<1> QED
  BY <1>2, <1>5, <1>6, <1>7 DEF Opened

LEMMA OpenedEndWait ==
    ASSUME Disciplined, SlotsAccounted, TypeOK, Control, Opened, EndSSendRecvWait
    PROVE  Opened'
<1>1. /\ open \in Seq(Nat \ {0}) /\ Len(open) \in Nat /\ DOMAIN open = 1..Len(open)
      /\ ip \in Nat \ {0} /\ pcnt \in Nat /\ scnt \in Nat /\ scnt = pcnt + Len(open)
  BY SlotBasics DEF Control
<1>2. /\ prog[ip].op = "SSendRecvWait" /\ open # <<>>
      /\ open' = Tail(open) /\ ip' = ip + 1 /\ prog' = prog
      /\ scnt' = Counters(scnt, pcnt)[1] /\ pcnt' = Counters(scnt, pcnt)[2]
      /\ finished' = finished \cup {open[1]}
  BY DEF EndSSendRecvWait, Process, Merge, Control, SlotsAccounted, Counted
<1>3. /\ Len(open) >= 1 /\ Len(open') = Len(open) - 1 /\ DOMAIN open' = 1..(Len(open) - 1)
      /\ \A i \in 1..(Len(open) - 1) : open'[i] = open[i + 1]
      /\ \A i \in 1..(Len(open) - 1) : i + 1 \in 1..Len(open)
      /\ 1 \in 1..Len(open)
  BY <1>1, <1>2
<1>4. /\ \A i \in 1..Len(open) : open[i] \in 1..(ip - 1) /\ prog[open[i]].op = "SSendRecvAsync"
      /\ \A i, j \in 1..Len(open) : i < j => open[i] < open[j]
      /\ Len(open) + MadeBefore(prog, "SSendRecvWait", ip) = MadeBefore(prog, "SSendRecvAsync", ip)
      /\ \A i \in 1..Len(open) : WithPeersKnown(prog[open[i]]) => open = <<ip - 1>> /\ pcnt = 0
      /\ finished \subseteq 1..(ip - 1)
      /\ \A i \in 1..Len(open) : open[i] \notin finished
  BY <1>1 DEF Opened
<1>5. ASSUME NEW i \in DOMAIN open'
      PROVE  open'[i] \in 1..(ip' - 1) /\ prog'[open'[i]].op = "SSendRecvAsync" /\ open'[i] \notin finished'
  <2>1. i + 1 \in 1..Len(open) /\ open'[i] = open[i + 1] /\ 1 < i + 1
    BY <1>3
  <2>2. open[1] < open[i + 1] /\ open[1] \in Nat /\ open[i + 1] \in Nat
    <3>1. open[1] < open[i + 1]
      BY <1>3, <1>4, <2>1
    <3>2. \A l \in 1..Len(open) : open[l] \in Nat
      BY <1>1
    <3> QED
      BY <1>3, <2>1, <3>1, <3>2
  <2>3. open[i + 1] # open[1] /\ open[i + 1] \notin finished /\ prog[open[i + 1]].op = "SSendRecvAsync"
    BY <1>4, <2>1, <2>2
  <2>4. open[i + 1] \in 1..((ip + 1) - 1)
    BY <1>1, <1>4, <2>1
  <2> QED
    BY <1>2, <2>1, <2>3, <2>4
<1>6. ASSUME NEW i \in DOMAIN open', NEW j \in DOMAIN open', i < j
      PROVE  open'[i] < open'[j]
  <2>1. /\ i + 1 \in 1..Len(open) /\ j + 1 \in 1..Len(open) /\ i + 1 < j + 1
        /\ open'[i] = open[i + 1] /\ open'[j] = open[j + 1]
    BY <1>3, <1>6
  <2>2. open[i + 1] < open[j + 1]
    BY <1>4, <2>1
  <2> QED
    BY <2>1, <2>2
<1>7. Len(open') + MadeBefore(prog', "SSendRecvWait", ip') = MadeBefore(prog', "SSendRecvAsync", ip')
  <2>1. /\ MadeBefore(prog, "SSendRecvWait", ip) \in Nat
        /\ MadeBefore(prog, "SSendRecvWait", ip + 1) = MadeBefore(prog, "SSendRecvWait", ip) + 1
        /\ MadeBefore(prog, "SSendRecvAsync", ip) \in Nat
        /\ MadeBefore(prog, "SSendRecvAsync", ip + 1) = MadeBefore(prog, "SSendRecvAsync", ip)
    <3>1. MadeBefore(prog, "SSendRecvWait", ip) \in Nat /\ MadeBefore(prog, "SSendRecvAsync", ip) \in Nat
      BY <1>1, MadeNext
    <3> QED
      BY <1>1, <1>2, <3>1, MadeNext
  <2> QED
    BY <1>1, <1>2, <1>3, <1>4, <2>1
<1>8. ASSUME NEW i \in DOMAIN open', WithPeersKnown(prog'[open'[i]])
      PROVE  FALSE
  <2>1. i + 1 \in 1..Len(open) /\ open'[i] = open[i + 1]
    BY <1>3
  <2>2. open = <<ip - 1>>
    BY <1>2, <1>4, <1>8, <2>1
  <2> QED
    BY <1>3, <2>2
<1>9. open' = <<>> => scnt' = 0
  <2>1. SUFFICES ASSUME open' = <<>> PROVE scnt' = 0
    OBVIOUS
  <2>2. Len(open') = 0
    BY <2>1
  <2>3. scnt = pcnt + 1
    <3>1. Len(open) = 1
      <4>1. Len(open) \in Nat /\ Len(open) - 1 = 0
        BY <1>1, <1>3, <2>2
      <4> QED
        BY <4>1
    <3> QED
      BY <1>1, <3>1
  <2> QED
    BY <1>2, <2>3 DEF Counters
<1>10. finished' \subseteq 1..(ip' - 1)
  <2>1. open[1] \in 1..(ip - 1) /\ finished' \subseteq 1..(ip - 1)
    BY <1>2, <1>3, <1>4
  <2>2. 1..(ip - 1) \subseteq 1..(ip' - 1)
    BY <1>1, <1>2
  <2> QED
    BY <2>1, <2>2
<1> QED
  BY <1>5, <1>6, <1>7, <1>8, <1>9, <1>10 DEF Opened

LEMMA OpenedKept ==
    ASSUME Disciplined, SlotsAccounted, TypeOK, Control, Opened, [Next]_vars
    PROVE  Opened'
<1>1. CASE SSendRecvAsync \/ EndSSendRecv \/ EndSSendRecvWait \/ EndCollect
  BY <1>1, OpenedAsync, OpenedEndBlocking, OpenedEndWait
<1>2. ASSUME UNCHANGED <<prog, ip, scnt, pcnt, open, finished>>
      PROVE  Opened'
  BY <1>2 DEF Opened
<1>3. CASE SSendRecv \/ SSendRecvWait \/ Collect
  BY <1>2, <1>3 DEF SSendRecv, SSendRecvWait, Collect, prepare_send_buffer
<1>4. ASSUME NEW m \in left, NEW j \in DOMAIN queue, Receive(m, j) \/ FillIn(m, j)
      PROVE  Opened'
  BY <1>2, <1>4 DEF Receive, FillIn
<1>5. ASSUME NEW j \in DOMAIN queue, PostAfterSizes(j)
      PROVE  Opened'
  BY <1>2, <1>5 DEF PostAfterSizes
<1>6. CASE Finished \/ UNCHANGED vars
  BY <1>2, <1>6 DEF Finished, vars
<1> QED
  BY <1>1, <1>3, <1>4, <1>5, <1>6 DEF Next

----------------------------------------------------------------------------
(* How the slots' calls change.                                            *)

LEMMA CallersSame ==
    ASSUME UNCHANGED <<ip, scnt, pcnt, open>>,
           pc' = pc \/ (pc = "app" /\ pc' = "wait")
    PROVE  \A s : Caller(s)' = Caller(s)
BY DEF Caller

LEMMA CallersStart ==
    ASSUME SlotsAccounted, TypeOK, Control, Opened, SSendRecvAsync \/ SSendRecv \/ Collect
    PROVE  /\ scnt \in Slots /\ Caller(scnt) = 0 /\ ip \in DOMAIN prog /\ pc = "app"
           /\ \A s \in Slots : Caller(s)' = IF s = scnt THEN ip ELSE Caller(s)
<1>1. /\ \A s \in Slots : s \in Nat
      /\ open \in Seq(Nat \ {0}) /\ Len(open) \in Nat /\ DOMAIN open = 1..Len(open)
      /\ pcnt \in Nat /\ scnt \in Nat /\ scnt = pcnt + Len(open)
      /\ ip \in Nat \ {0} /\ DOMAIN prog = 1..Len(prog) /\ Len(prog) \in Nat
  BY SlotBasics DEF Control
<1>2. scnt \in Slots /\ pc = "app" /\ pcnt' = pcnt /\ ip \in DOMAIN prog
  BY <1>1 DEF SSendRecvAsync, SSendRecv, Collect, prepare_send_buffer, Running
<1>3. Caller(scnt) = 0
  BY <1>2, Callers
<1>4. CASE SSendRecvAsync
  <2>1. scnt' = scnt + 1 /\ open' = Append(open, ip) /\ pc' = "app"
    BY <1>2, <1>4 DEF SSendRecvAsync
  <2>2. ASSUME NEW s \in Slots
        PROVE  Caller(s)' = IF s = scnt THEN ip ELSE Caller(s)
    <3>1. CASE s = scnt
      <4>1. s \in pcnt' .. scnt' - 1 /\ s - pcnt' + 1 = Len(open) + 1
        BY <1>1, <1>2, <2>1, <3>1
      <4>2. open'[Len(open) + 1] = ip
        BY <1>1, <2>1
      <4> QED
        BY <3>1, <4>1, <4>2 DEF Caller
    <3>2. CASE s \in pcnt .. scnt - 1
      <4>1. s \in pcnt' .. scnt' - 1 /\ s - pcnt' + 1 = s - pcnt + 1 /\ s - pcnt + 1 \in 1..Len(open) /\ s # scnt
        BY <1>1, <1>2, <2>1, <3>2
      <4>2. open'[s - pcnt + 1] = open[s - pcnt + 1]
        BY <1>1, <2>1, <4>1
      <4> QED
        BY <3>2, <4>1, <4>2 DEF Caller
    <3>3. CASE s # scnt /\ s \notin pcnt .. scnt - 1
      <4>1. s \notin pcnt' .. scnt' - 1
        BY <1>1, <1>2, <2>1, <3>3
      <4> QED
        BY <1>2, <2>1, <3>3, <4>1 DEF Caller
    <3> QED
      BY <3>1, <3>2, <3>3
  <2> QED
    BY <1>2, <1>3, <2>2
<1>5. CASE SSendRecv \/ Collect
  <2>1. scnt' = scnt /\ open' = open /\ ip' = ip /\ pc' \in {"sync", "blocking"}
    BY <1>5 DEF SSendRecv, Collect
  <2>2. scnt \notin pcnt .. scnt - 1
    BY <1>1
  <2>3. ASSUME NEW s \in Slots
        PROVE  Caller(s)' = IF s = scnt THEN ip ELSE Caller(s)
    BY <1>2, <2>1, <2>2 DEF Caller
  <2> QED
    BY <1>2, <1>3, <2>3
<1> QED
  BY <1>4, <1>5 DEF SSendRecvAsync, SSendRecv, Collect

LEMMA CallersEndBlocking ==
    ASSUME Disciplined, SlotsAccounted, TypeOK, Control, Opened, EndSSendRecv \/ EndCollect
    PROVE  /\ scnt = 0 /\ pcnt = 0 /\ 0 \in Slots /\ Caller(0) = ip /\ ip \in DOMAIN prog
           /\ \A s \in Slots : Caller(s)' = 0
<1>1. /\ pc \in {"sync", "blocking"} /\ pc' = "app"
      /\ open' = open /\ scnt' = scnt /\ pcnt' = pcnt
  <2>1. CASE EndSSendRecv
    BY <2>1 DEF EndSSendRecv, Process, Merge
  <2>2. CASE EndCollect
    BY <2>2 DEF EndCollect, Merge
  <2> QED
    BY <2>1, <2>2
<1>2. open = <<>> /\ scnt = 0 /\ pcnt = 0
  BY <1>1, Alone
<1>3. scnt \in Slots /\ Caller(scnt) = ip
  BY <1>1, Callers
<1>4. \A s \in Slots : s \notin 0 .. 0 - 1
  OBVIOUS
<1>5. \A s \in Slots : Caller(s)' = 0
  BY <1>1, <1>2, <1>4 DEF Caller
<1> QED
  BY <1>1, <1>2, <1>3, <1>5 DEF Control

LEMMA CallersEndWait ==
    ASSUME SlotsAccounted, TypeOK, Control, Opened, EndSSendRecvWait
    PROVE  /\ pcnt \in Slots /\ open # <<>> /\ Caller(pcnt) = Head(open) /\ Caller(pcnt) # 0
           /\ \A s \in Slots : Caller(s)' = IF s = pcnt THEN 0 ELSE Caller(s)
<1>1. /\ \A s \in Slots : s \in Nat
      /\ open \in Seq(Nat \ {0}) /\ Len(open) \in Nat /\ DOMAIN open = 1..Len(open)
      /\ pcnt \in Nat /\ scnt \in Nat /\ scnt = pcnt + Len(open)
      /\ pcnt \in Slots
  BY SlotBasics DEF Control, TypeOK
<1>2. /\ open # <<>> /\ pc = "wait" /\ pc' = "app"
      /\ open' = Tail(open)
      /\ scnt' = Counters(scnt, pcnt)[1] /\ pcnt' = Counters(scnt, pcnt)[2]
  BY DEF EndSSendRecvWait, Process, Merge, SlotsAccounted, Counted
<1>3. /\ Len(open) >= 1
      /\ \A i \in 1..(Len(open) - 1) : open'[i] = open[i + 1]
  BY <1>1, <1>2
<1>4. Caller(pcnt) = Head(open) /\ Caller(pcnt) # 0
  <2>1. pcnt \in pcnt .. scnt - 1 /\ pcnt - pcnt + 1 = 1 /\ 1 \in DOMAIN open
    BY <1>1, <1>3
  <2>2. Caller(pcnt) = open[1]
    BY <2>1 DEF Caller
  <2>3. open[1] # 0 /\ open[1] = Head(open)
    BY <1>1, <2>1
  <2> QED
    BY <2>2, <2>3
<1>5. ASSUME NEW s \in Slots
      PROVE  Caller(s)' = IF s = pcnt THEN 0 ELSE Caller(s)
  <2>0. s \in Nat
    BY <1>1
  <2>1. CASE scnt = pcnt + 1
    <3>1. scnt' = 0 /\ pcnt' = 0
      BY <1>2, <2>1 DEF Counters
    <3>2. s \notin pcnt' .. scnt' - 1 /\ (s # pcnt => s \notin pcnt .. scnt - 1)
      BY <1>1, <2>0, <2>1, <3>1
    <3> QED
      BY <1>2, <3>2 DEF Caller
  <2>2. CASE scnt # pcnt + 1
    <3>1. scnt' = scnt /\ pcnt' = pcnt + 1
      BY <1>2, <2>2 DEF Counters
    <3>2. CASE s \in pcnt' .. scnt' - 1
      <4>1. /\ s # pcnt /\ s \in pcnt .. scnt - 1
            /\ s - pcnt \in 1..(Len(open) - 1) /\ s - pcnt' + 1 = s - pcnt
        BY <1>1, <2>0, <3>1, <3>2
      <4>2. open'[s - pcnt] = open[s - pcnt + 1]
        BY <1>3, <4>1
      <4>3. Caller(s)' = open'[s - pcnt]
        BY <3>2, <4>1 DEF Caller
      <4>4. Caller(s) = open[s - pcnt + 1]
        BY <4>1 DEF Caller
      <4> QED
        BY <4>1, <4>2, <4>3, <4>4
    <3>3. CASE s \notin pcnt' .. scnt' - 1
      <4>1. s # pcnt => s \notin pcnt .. scnt - 1
        BY <1>1, <2>0, <3>1, <3>3
      <4> QED
        BY <1>2, <3>3, <4>1 DEF Caller
    <3> QED
      BY <3>2, <3>3
  <2> QED
    BY <2>1, <2>2
<1> QED
  BY <1>1, <1>2, <1>4, <1>5

----------------------------------------------------------------------------
(* The buffers of a slot, when a call starts in it and while others do.    *)

LEMMA ArrivedFresh ==
    ASSUME prog \in Programs, prog' = prog, NEW s \in Slots, NEW c \in DOMAIN prog,
           bi'[s] = c, recv_buf'[s] = <<>>, prc_recv'[c] = <<>>, tags'[s] = <<>>,
           Inbox(c) \subseteq left'
    PROVE  Arrived(s, c)'
<1>1. Inbox(c)' = Inbox(c)
  BY SameProgram
<1>2. DOMAIN recv_buf'[s] = {} /\ SourcesOf(recv_buf'[s]) = <<>>
  BY DEF SourcesOf
<1>3. tags'[s] = [i \in DOMAIN recv_buf'[s] |-> recv_buf'[s][i].k]
  BY <1>2
<1> QED
  BY <1>1, <1>2, <1>3 DEF Arrived

LEMMA ArrivedStays ==
    ASSUME prog' = prog, NEW s \in Slots, NEW c \in DOMAIN prog, Arrived(s, c),
           bi'[s] = bi[s], recv_buf'[s] = recv_buf[s], prc_recv'[c] = prc_recv[c], tags'[s] = tags[s],
           \A n \in Inbox(c) : n \in left' <=> n \in left
    PROVE  Arrived(s, c)'
<1>1. Inbox(c)' = Inbox(c)
  BY SameProgram
<1> QED
  BY <1>1 DEF Arrived

LEMMA NoneKnownOpen ==
    ASSUME Disciplined, SlotsAccounted, TypeOK, Control, Opened, SSendRecvAsync \/ SSendRecv \/ Collect
    PROVE  \A s \in Slots, c \in DOMAIN prog : Caller(s) = c => ~WithPeersKnown(prog[c])
<1> SUFFICES ASSUME NEW s \in Slots, NEW c \in DOMAIN prog, Caller(s) = c, WithPeersKnown(prog[c])
             PROVE  FALSE
  OBVIOUS
<1>1. /\ \A t \in Slots : t \in Nat
      /\ open \in Seq(Nat \ {0}) /\ Len(open) \in Nat /\ DOMAIN open = 1..Len(open)
      /\ pcnt \in Nat /\ scnt \in Nat /\ scnt = pcnt + Len(open)
      /\ ip \in Nat \ {0} /\ DOMAIN prog = 1..Len(prog) /\ Len(prog) \in Nat
  BY SlotBasics DEF Control
<1>2. pc = "app" /\ ip \in DOMAIN prog /\ prog[ip].op # "SSendRecvWait"
  BY <1>1 DEF SSendRecvAsync, SSendRecv, Collect, Running
<1>3. s - pcnt + 1 \in DOMAIN open /\ open[s - pcnt + 1] = c
  <2>1. c # 0 /\ s \in pcnt .. scnt - 1
    BY <1>1, <1>2 DEF Caller
  <2> QED
    BY <1>1, <2>1 DEF Caller
<1>4. open = <<ip - 1>> /\ prog[c].op = "SSendRecvAsync"
  BY <1>3 DEF Opened
<1>5. c = ip - 1
  <2>1. s - pcnt + 1 = 1
    BY <1>1, <1>3, <1>4
  <2> QED
    BY <1>3, <1>4, <2>1
<1>6. c < Len(prog) /\ c + 1 = ip
  BY <1>1, <1>2, <1>5
<1>7. KnownAlone(prog)
  BY DEF Disciplined, Control
<1> QED
  BY <1>2, <1>4, <1>6, <1>7 DEF KnownAlone

LEMMA MergedStays ==
    ASSUME prog' = prog, MergedInOrder, finished \subseteq DOMAIN prog,
           finished' = finished, recv' = recv,
           \A c \in finished : prc_recv'[c] = prc_recv[c]
    PROVE  MergedInOrder'
<1>1. \A c : Expected(c)' = Expected(c) /\ Own(c)' = Own(c)
  BY SameProgram
<1>2. \A c \in finished : SourcesOf(recv[c])' = SourcesOf(recv[c])
  BY DEF SourcesOf
<1> QED
  BY <1>1, <1>2 DEF MergedInOrder

(* With no call under way the base has nothing queued. *)
LEMMA NothingQueued ==
    ASSUME TypeOK, Control, QueueHolds, Flying, \A s \in Slots : Caller(s) = 0
    PROVE  queue = <<>> /\ left = {}
<1>1. queue \in Seq(Entries)
  BY DEF QueueHolds
<1>2. ASSUME NEW j \in DOMAIN queue
      PROVE  FALSE
  <2>1. queue[j] \in Entries
    BY <1>1
  <2>2. queue[j].call # 0 /\ queue[j].slot \in Slots
    BY <2>1 DEF Entries
  <2> QED
    BY <2>2 DEF QueueHolds
<1>3. queue = <<>>
  BY <1>1, <1>2
<1> QED
  BY <1>2, <1>3 DEF Flying

----------------------------------------------------------------------------
(* A call starts.  With discipline the three actions that start one differ *)
(* only in what the base is told, here e.                                  *)

Starts(e) ==
    /\ e \in Entries /\ e.call = ip /\ e.slot = scnt /\ e.data = ip /\ e.rid = 0
    /\ e.known <=> WithPeersKnown(prog[ip])
    /\ ~e.known => e.posted
    /\ e.known => send_buf' = ip /\ open = <<>> /\ queue = <<>> /\ left = {}
    /\ queue' = Append(queue, e)
    /\ left' = left \cup Inbox(ip)
    /\ bi' = [bi EXCEPT ![scnt] = ip]
    /\ tags' \in {tags, ClearTags} /\ (~e.known => tags' = ClearTags)
    /\ recv_buf' = [recv_buf EXCEPT ![scnt] = IF e.known /\ e.posted THEN Blank(ip) ELSE <<>>]
    /\ prc_recv' = [prc_recv EXCEPT ![ip] = IF e.known THEN SourcesOf(Expected(ip)) ELSE <<>>]
    /\ UNCHANGED <<prog, recv, finished>>

LEMMA StartsPrepared ==
    ASSUME Disciplined, SlotsAccounted, ResultsInv, SSendRecvAsync \/ SSendRecv
    PROVE  \E e \in Entries : Starts(e)
<1>1. /\ TypeOK /\ Control /\ Opened /\ QueueHolds /\ Flying
  BY DEF ResultsInv
<1>2. scnt \in Slots /\ ip \in DOMAIN prog /\ prog \in Programs /\ pc = "app"
  BY <1>1, CallersStart DEF Control
<1>3. ip \in Nat \ {0} /\ NQUEUE \in Nat \ {0}
  BY <1>1, SlotBasics DEF Control
<1>4. /\ prepare_send_buffer(ip) /\ prog[ip].op \in {"SSendRecv", "SSendRecvAsync"}
      /\ UNCHANGED <<prog, recv, finished>>
  BY DEF SSendRecvAsync, SSendRecv, Running
<1> DEFINE known == prog[ip].opt # "NONE"
           posted == prog[ip].opt # "RECEIVE_KNOWN"
           e == [call |-> ip, slot |-> scnt, known |-> known, posted |-> posted, data |-> ip, rid |-> 0]
<1>5. known \in BOOLEAN /\ posted \in BOOLEAN /\ (~known => posted)
  OBVIOUS
<1>6. known <=> WithPeersKnown(prog[ip])
  BY <1>4 DEF WithPeersKnown
<1>7. prog[ip].opt \in Opts
  BY <1>2, ProgramType
<1>8. known /\ posted <=> prog[ip].opt = "KNOWN_ELEMENT"
  BY <1>7 DEF Opts
<1>9. known => open = <<>> /\ scnt = 0 /\ queue = <<>> /\ left = {}
  <2>1. SUFFICES ASSUME known PROVE open = <<>> /\ scnt = 0 /\ queue = <<>> /\ left = {}
    OBVIOUS
  <2>2. open = <<>> /\ scnt = 0 /\ \A s \in Slots : Caller(s) = 0
    BY <1>1, <1>2, <1>6, <2>1, Alone
  <2> QED
    BY <1>1, <2>2, NothingQueued
<1>10. recv_buf' = [recv_buf EXCEPT ![scnt] = IF known /\ posted THEN Blank(ip) ELSE <<>>]
  <2>1. CASE prog[ip].opt = "KNOWN_ELEMENT"
    <3>1. recv_buf' = msg_alloc_known(ip, [recv_buf EXCEPT ![0] = <<>>]) /\ scnt = 0
      BY <1>4, <1>8, <1>9, <2>1 DEF prepare_send_buffer, reset_recv_buf
    <3>2. CASE Expected(ip) = <<>>
      <4>1. Blank(ip) = <<>>
        BY <3>2 DEF Blank
      <4> QED
        BY <1>8, <2>1, <3>1, <3>2, <4>1 DEF msg_alloc_known
    <3>3. CASE Expected(ip) # <<>>
      <4>1. recv_buf' = [[recv_buf EXCEPT ![0] = <<>>] EXCEPT ![0] = Blank(ip)]
        BY <3>1, <3>3 DEF msg_alloc_known
      <4>2. recv_buf' = [recv_buf EXCEPT ![0] = Blank(ip)]
        BY <4>1
      <4> QED
        BY <1>8, <2>1, <3>1, <4>2
    <3> QED
      BY <3>2, <3>3
  <2>2. CASE prog[ip].opt # "KNOWN_ELEMENT"
    BY <1>4, <1>8, <2>2 DEF prepare_send_buffer, reset_recv_buf
  <2> QED
    BY <2>1, <2>2
<1>11. /\ queue' = Append(queue, e) /\ send_buf' = ip
       /\ left' = left \cup Inbox(ip)
       /\ bi' = [bi EXCEPT ![scnt] = ip]
       /\ tags' = IF known THEN tags ELSE ClearTags
       /\ prc_recv' = [prc_recv EXCEPT ![ip] = IF known THEN SourcesOf(Expected(ip)) ELSE <<>>]
  BY <1>4 DEF prepare_send_buffer
<1>12. /\ e.call = ip /\ e.slot = scnt /\ e.data = ip /\ e.rid = 0 /\ e.known = known /\ e.posted = posted
       /\ e \in Entries
  BY <1>2, <1>3, <1>5 DEF Entries
<1> HIDE DEF known, posted, e
<1>13. Starts(e)
  BY <1>4, <1>5, <1>6, <1>9, <1>10, <1>11, <1>12 DEF Starts
<1> QED
  BY <1>12, <1>13

LEMMA StartsCollect ==
    ASSUME Disciplined, SlotsAccounted, ResultsInv, Collect
    PROVE  \E e \in Entries : Starts(e)
<1>1. /\ TypeOK /\ Control /\ Opened /\ QueueHolds /\ Flying
  BY DEF ResultsInv
<1>2. scnt \in Slots /\ ip \in DOMAIN prog /\ prog \in Programs /\ pc = "app"
  BY <1>1, CallersStart DEF Control
<1>3. ip \in Nat \ {0} /\ NQUEUE \in Nat \ {0}
  BY <1>1, SlotBasics DEF Control
<1>4. /\ prog[ip].op \in {"SGather", "SGatherSend", "SScatter"}
      /\ UNCHANGED <<prog, recv, finished>>
  BY DEF Collect, Running
<1>5. open = <<>> /\ queue = <<>> /\ left = {}
  <2>1. open = <<>>
    BY <1>1, <1>2, <1>4, Alone
  <2>2. \A s \in Slots : Caller(s) = 0
    BY <1>1, <1>2, <2>1, Alone
  <2> QED
    BY <1>1, <2>1, <2>2, NothingQueued
<1> DEFINE e == [call |-> ip, slot |-> scnt, known |-> FALSE, posted |-> TRUE, data |-> ip, rid |-> 0]
<1>6. prog[ip].lists = 0
  BY <1>1, <1>2 DEF Disciplined, ListsNew
<1>7. /\ queue' = <<e>> /\ left' = Inbox(ip)
      /\ bi' = [bi EXCEPT ![scnt] = ip]
      /\ tags' = ClearTags
      /\ recv_buf' = [recv_buf EXCEPT ![scnt] = <<>>]
      /\ prc_recv' = [prc_recv EXCEPT ![ip] = <<>>]
  BY <1>5, <1>6 DEF Collect, reset_recv_buf
<1>8. /\ e.call = ip /\ e.slot = scnt /\ e.data = ip /\ e.rid = 0 /\ e.known = FALSE /\ e.posted = TRUE
      /\ e \in Entries
  BY <1>2, <1>3 DEF Entries
<1>9. ~WithPeersKnown(prog[ip])
  BY <1>4 DEF WithPeersKnown
<1> HIDE DEF e
<1>10. queue' = Append(queue, e) /\ left' = left \cup Inbox(ip)
  BY <1>5, <1>7
<1>11. Starts(e)
  BY <1>4, <1>7, <1>8, <1>9, <1>10 DEF Starts
<1> QED
  BY <1>8, <1>11

LEMMA BlankType ==
    ASSUME prog \in Programs, NEW c \in DOMAIN prog
    PROVE  /\ Blank(c) \in Seq(Msgs) /\ DOMAIN Blank(c) = DOMAIN Expected(c)
           /\ \A i \in DOMAIN Blank(c) : Blank(c)[i] = [call |-> 0, src |-> 0, k |-> 0]
<1>1. Len(prog) \in Nat /\ DOMAIN Expected(c) = 1..Len(Expected(c)) /\ Len(Expected(c)) \in Nat
  BY ProgramType, ExpectedType
<1>2. [call |-> 0, src |-> 0, k |-> 0] \in Msgs
  BY <1>1 DEF Msgs
<1>3. Blank(c) \in [1..Len(Expected(c)) -> Msgs]
  BY <1>1, <1>2 DEF Blank
<1>4. Blank(c) \in Seq(Msgs)
  BY <1>1, <1>3, FunctionIsSeq
<1> QED
  BY <1>1, <1>4 DEF Blank

LEMMA StartTypes ==
    ASSUME SlotsAccounted, ResultsInv, SSendRecvAsync \/ SSendRecv \/ Collect,
           NEW e, Starts(e)
    PROVE  TypeOK'
<1>0. TypeOK /\ Control /\ Opened /\ prog \in Programs
  BY DEF ResultsInv, Control
<1>1. scnt \in Slots /\ ip \in DOMAIN prog /\ prog' = prog /\ Msgs' = Msgs
  BY <1>0, CallersStart, SameProgram DEF Starts
<1>2. /\ ip \in Nat \ {0} /\ DOMAIN prog = 1..Len(prog) /\ Len(prog) \in Nat
      /\ scnt \in Nat /\ scnt < NQUEUE /\ NQUEUE \in Nat /\ pcnt \in Nat /\ pcnt \in Slots /\ pcnt <= scnt
  BY <1>0, <1>1, SlotBasics DEF TypeOK
<1>3. /\ pcnt' = pcnt /\ scnt' \in {scnt, scnt + 1} /\ ip' \in {ip, ip + 1}
      /\ pc' \in {"app", "sync", "blocking"} /\ mem' \in {mem, [mem EXCEPT ![scnt] = ip]}
  <2>1. pc = "app"
    BY <1>0, CallersStart
  <2> QED
    BY <2>1 DEF SSendRecvAsync, SSendRecv, Collect, prepare_send_buffer
<1>4. ip' \in 1..(Len(prog) + 1) /\ scnt' \in 0..NQUEUE /\ pcnt' \in Slots /\ pcnt' <= scnt'
  BY <1>1, <1>2, <1>3
<1>5. mem' \in [Slots -> 0..Len(prog)] /\ bi' \in [Slots -> 0..Len(prog)]
  <2>1. ip \in 0..Len(prog)
    BY <1>1, <1>2
  <2>2. mem \in [Slots -> 0..Len(prog)] /\ bi \in [Slots -> 0..Len(prog)]
    BY <1>0 DEF TypeOK
  <2> QED
    BY <1>3, <2>1, <2>2 DEF Starts
<1>6. recv_buf' \in [Slots -> Seq(Msgs)]
  <2>1. recv_buf \in [Slots -> Seq(Msgs)] /\ Blank(ip) \in Seq(Msgs) /\ <<>> \in Seq(Msgs)
    BY <1>0, <1>1, BlankType DEF TypeOK
  <2>2. PICK b \in Seq(Msgs) : recv_buf' = [recv_buf EXCEPT ![scnt] = b]
    BY <2>1 DEF Starts
  <2> HIDE DEF Msgs
  <2> QED
    BY <2>1, <2>2
<1>7. tags' \in [Slots -> Seq(Nat)]
  <2>1. tags \in [Slots -> Seq(Nat)] /\ <<>> \in Seq(Nat)
    BY <1>0 DEF TypeOK
  <2>2. tags' = tags \/ tags' = [tags EXCEPT ![scnt] = <<>>]
    BY DEF Starts, ClearTags
  <2> QED
    BY <2>1, <2>2
<1>8. prc_recv' \in [DOMAIN prog -> Seq(Peers \cup {0})]
  <2>1. SourcesOf(Expected(ip)) \in Seq(Peers \cup {0}) /\ <<>> \in Seq(Peers \cup {0})
    BY <1>0, <1>1, ExpectedType
  <2>2. PICK b \in Seq(Peers \cup {0}) : prc_recv' = [prc_recv EXCEPT ![ip] = b]
    BY <2>1 DEF Starts
  <2> QED
    BY <1>0, <1>1, <2>2 DEF TypeOK
<1>9. recv' \in [DOMAIN prog -> Seq(Msgs)] /\ finished' \subseteq DOMAIN prog
  BY <1>0 DEF Starts, TypeOK
<1> QED
  BY <1>1, <1>3, <1>4, <1>5, <1>6, <1>7, <1>8, <1>9 DEF TypeOK, Slots

LEMMA StartQueue ==
    ASSUME Disciplined, SlotsAccounted, ResultsInv, SSendRecvAsync \/ SSendRecv \/ Collect,
           NEW e, Starts(e)
    PROVE  QueueHolds'
<1>0. TypeOK /\ Control /\ Opened /\ QueueHolds
  BY DEF ResultsInv
<1>1. /\ scnt \in Slots /\ Caller(scnt) = 0 /\ ip \in DOMAIN prog /\ pc = "app"
      /\ \A s \in Slots : Caller(s)' = IF s = scnt THEN ip ELSE Caller(s)
      /\ ip \in Nat \ {0}
  BY <1>0, CallersStart, SlotBasics DEF Control
<1>2. queue \in Seq(Entries) /\ Len(queue) \in Nat /\ DOMAIN queue = 1..Len(queue)
  BY <1>0 DEF QueueHolds
<1>3. /\ e \in Entries /\ queue' = Append(queue, e) /\ prog' = prog
      /\ e.call = ip /\ e.slot = scnt /\ e.data = ip /\ e.rid = 0
      /\ e.known <=> WithPeersKnown(prog[ip])
      /\ ~e.known => e.posted
      /\ e.known => send_buf' = ip /\ queue = <<>>
      /\ \A s \in Slots : s # scnt => recv_buf'[s] = recv_buf[s]
      /\ ~e.known => Len(recv_buf'[scnt]) = 0
  <2>1. recv_buf \in [Slots -> Seq(Msgs)]
    BY <1>0 DEF TypeOK
  <2>2. Len(<<>>) = 0
    OBVIOUS
  <2> QED
    BY <1>1, <2>1, <2>2 DEF Starts
<1> HIDE DEF Entries
<1>4. /\ queue' \in Seq(Entries) /\ DOMAIN queue' = 1..(Len(queue) + 1)
      /\ \A j \in 1..Len(queue) : queue'[j] = queue[j]
      /\ queue'[Len(queue) + 1] = e
      /\ \A j \in DOMAIN queue' : j \in 1..Len(queue) \/ j = Len(queue) + 1
  BY <1>2, <1>3
<1>5. \A s : (s \in Slots)' <=> s \in Slots
  BY DEF Slots
<1>6. ASSUME NEW j \in 1..Len(queue)
      PROVE  /\ queue[j].slot \in Slots /\ queue[j].slot # scnt /\ queue[j].call # 0 /\ queue[j].call # ip
             /\ ~queue[j].known /\ queue[j].posted
             /\ ~WithPeersKnown(prog[queue[j].call])
             /\ queue[j].rid = Len(recv_buf[queue[j].slot])
             /\ Caller(queue[j].slot) = queue[j].call
  <2>1. queue[j] \in Entries
    BY <1>2
  <2>2. queue[j].slot \in Slots /\ queue[j].call # 0
    BY <2>1 DEF Entries
  <2>3. Caller(queue[j].slot) = queue[j].call
    BY <1>0, <1>2, <2>2 DEF QueueHolds
  <2>4. queue[j].slot # scnt
    BY <1>1, <2>2, <2>3
  <2>5. queue[j].call # ip
    BY <1>0, <1>1, <2>2, <2>3, Callers
  <2>6. queue # <<>>
    BY <1>2
  <2>7. queue[j].known <=> WithPeersKnown(prog[queue[j].call])
    BY <1>0, <1>2 DEF QueueHolds
  <2>8. ~queue[j].known
    <3>1. SUFFICES ASSUME WithPeersKnown(prog[queue[j].call]) PROVE FALSE
      BY <2>7
    <3>2. queue[j].call \in DOMAIN prog
      BY <1>0, <2>2, <2>3, Callers
    <3>3. Caller(queue[j].slot) = ip \/ queue[j].slot \in pcnt .. scnt - 1
      BY <1>0, <2>2, <2>3, Callers
    <3> QED
      BY <1>0, <2>2, <2>3, <3>1, <3>2, NoneKnownOpen, <1>3
  <2> QED
    BY <1>0, <1>2, <2>2, <2>3, <2>4, <2>5, <2>7, <2>8 DEF QueueHolds
<1>7. ASSUME NEW j \in DOMAIN queue'
      PROVE  /\ \A s \in Slots : s = queue'[j].slot =>
                   /\ Caller(s)' = queue'[j].call
                   /\ ~queue'[j].known => queue'[j].rid = Len(recv_buf'[s])
             /\ queue'[j].known <=> WithPeersKnown(prog'[queue'[j].call])
             /\ queue'[j].known /\ queue'[j].posted => queue'[j].data = queue'[j].call
             /\ queue'[j].known /\ ~queue'[j].posted => send_buf' = queue'[j].call
             /\ ~queue'[j].known => queue'[j].posted
  <2>1. CASE j \in 1..Len(queue)
    <3>1. queue'[j] = queue[j]
      BY <1>4, <2>1
    <3>2. recv_buf'[queue[j].slot] = recv_buf[queue[j].slot]
      BY <1>3, <1>6, <2>1
    <3> QED
      BY <1>1, <1>3, <1>6, <2>1, <3>1, <3>2
  <2>2. CASE j = Len(queue) + 1
    BY <1>1, <1>3, <1>4, <2>2
  <2> QED
    BY <1>4, <2>1, <2>2
<1>8. ASSUME NEW i \in DOMAIN queue', NEW j \in DOMAIN queue', queue'[i].call = queue'[j].call
      PROVE  i = j
  <2>1. CASE i \in 1..Len(queue) /\ j \in 1..Len(queue)
    BY <1>0, <1>2, <1>4, <1>8, <2>1 DEF QueueHolds
  <2>2. CASE i \in 1..Len(queue) /\ j = Len(queue) + 1
    BY <1>3, <1>4, <1>6, <1>8, <2>2
  <2>3. CASE j \in 1..Len(queue) /\ i = Len(queue) + 1
    BY <1>3, <1>4, <1>6, <1>8, <2>3
  <2> QED
    BY <1>4, <2>1, <2>2, <2>3
<1>9. pc' = "blocking" => \E j \in DOMAIN queue' : queue'[j].call = ip'
  <2>1. pc' = "blocking" => ip' = ip
    BY <1>1 DEF SSendRecvAsync, SSendRecv, Collect
  <2>2. Len(queue) + 1 \in DOMAIN queue'
    BY <1>2, <1>4
  <2> QED
    BY <1>3, <1>4, <2>1, <2>2
<1>10. Entries' = Entries
  BY DEF Entries, Slots
<1> QED
  BY <1>4, <1>5, <1>7, <1>8, <1>9, <1>10 DEF QueueHolds

LEMMA StartFlying ==
    ASSUME SlotsAccounted, ResultsInv, SSendRecvAsync \/ SSendRecv \/ Collect,
           NEW e, Starts(e)
    PROVE  Flying'
<1>0. TypeOK /\ Control /\ Opened /\ QueueHolds /\ Flying
  BY DEF ResultsInv
<1>1. ip \in DOMAIN prog
  BY <1>0, CallersStart
<1>2. queue \in Seq(Entries) /\ Len(queue) \in Nat /\ DOMAIN queue = 1..Len(queue)
  BY <1>0 DEF QueueHolds
<1>3. /\ e \in Entries /\ e.call = ip /\ queue' = Append(queue, e) /\ prog' = prog
      /\ left' = left \cup Inbox(ip)
  BY DEF Starts
<1>4. /\ DOMAIN queue' = 1..(Len(queue) + 1)
      /\ \A j \in 1..Len(queue) : queue'[j] = queue[j]
      /\ queue'[Len(queue) + 1] = e
  BY <1>2, <1>3
<1>5. \A c : Inbox(c)' = Inbox(c)
  BY <1>3, SameProgram
<1>6. ASSUME NEW n \in left'
      PROVE  \E j \in DOMAIN queue', c \in DOMAIN prog' : queue'[j].call = c /\ n \in Inbox(c)
  <2>1. CASE n \in left
    <3>1. PICK j \in DOMAIN queue, c \in DOMAIN prog : queue[j].call = c /\ n \in Inbox(c)
      BY <1>0, <2>1 DEF Flying
    <3>2. j \in DOMAIN queue' /\ queue'[j] = queue[j]
      BY <1>2, <1>4
    <3> QED
      BY <1>3, <3>1, <3>2
  <2>2. CASE n \in Inbox(ip)
    <3>1. Len(queue) + 1 \in DOMAIN queue'
      BY <1>2, <1>4
    <3> QED
      BY <1>1, <1>3, <1>4, <2>2, <3>1
  <2> QED
    BY <1>3, <2>1, <2>2
<1> QED
  BY <1>5, <1>6 DEF Flying

LEMMA StartBuffers ==
    ASSUME Disciplined, SlotsAccounted, ResultsInv, SSendRecvAsync \/ SSendRecv \/ Collect,
           NEW e, Starts(e)
    PROVE  BuffersHold'
<1>0. TypeOK /\ Control /\ Opened /\ QueueHolds /\ Flying /\ BuffersHold /\ prog \in Programs
  BY DEF ResultsInv, Control
<1>1. /\ scnt \in Slots /\ Caller(scnt) = 0 /\ ip \in DOMAIN prog
      /\ \A s \in Slots : Caller(s)' = IF s = scnt THEN ip ELSE Caller(s)
      /\ \A d \in DOMAIN prog : d # 0
  BY <1>0, CallersStart, ProgramType
<1>2. /\ prog' = prog
      /\ recv_buf \in [Slots -> Seq(Msgs)] /\ bi \in [Slots -> 0..Len(prog)]
      /\ tags \in [Slots -> Seq(Nat)] /\ prc_recv \in [DOMAIN prog -> Seq(Peers \cup {0})]
  BY <1>0 DEF Starts, TypeOK
<1>3. /\ \A s \in Slots : s # scnt => recv_buf'[s] = recv_buf[s] /\ bi'[s] = bi[s] /\ tags'[s] = tags[s]
      /\ \A d \in DOMAIN prog : d # ip => prc_recv'[d] = prc_recv[d]
      /\ bi'[scnt] = ip
      /\ recv_buf'[scnt] = IF e.known /\ e.posted THEN Blank(ip) ELSE <<>>
      /\ prc_recv'[ip] = IF e.known THEN SourcesOf(Expected(ip)) ELSE <<>>
      /\ ~e.known => tags'[scnt] = <<>>
  <2>1. \A s \in Slots : s # scnt => tags'[s] = tags[s]
    BY <1>2 DEF Starts, ClearTags
  <2>2. ~e.known => tags'[scnt] = <<>>
    BY <1>1, <1>2 DEF Starts, ClearTags
  <2> QED
    BY <1>1, <1>2, <2>1, <2>2 DEF Starts
<1>4. left' = left \cup Inbox(ip) /\ (e.known <=> WithPeersKnown(prog[ip]))
  BY DEF Starts
<1>5. ASSUME NEW s \in Slots, s # scnt, NEW c \in DOMAIN prog, Caller(s) = c
      PROVE  ~WithPeersKnown(prog[c]) /\ Arrived(s, c)'
  <2>1. ~WithPeersKnown(prog[c])
    BY <1>0, <1>5, NoneKnownOpen
  <2>2. Arrived(s, c)
    BY <1>0, <1>5, <2>1 DEF BuffersHold
  <2>3. c # ip
    <3>1. Caller(s) # 0
      BY <1>1, <1>5
    <3> QED
      BY <1>0, <1>5, <3>1, Callers
  <2>4. \A n \in Inbox(c) : n \in left' <=> n \in left
    <3>1. \A n \in Inbox(c) : n.call = c
      BY <1>0, InboxHas
    <3>2. \A n \in Inbox(ip) : n.call = ip
      BY <1>0, <1>1, InboxHas
    <3> QED
      BY <1>4, <2>3, <3>1, <3>2
  <2>5. Arrived(s, c)'
    BY <1>2, <1>3, <1>5, <2>2, <2>3, <2>4, ArrivedStays
  <2> QED
    BY <2>1, <2>5
<1>6. ASSUME NEW s \in Slots, NEW c \in DOMAIN prog, s = scnt, c = ip, ~e.known
      PROVE  Arrived(s, c)'
  <2>1. /\ bi'[s] = c /\ recv_buf'[s] = <<>> /\ prc_recv'[c] = <<>> /\ tags'[s] = <<>>
        /\ Inbox(c) \subseteq left'
    BY <1>3, <1>4, <1>6
  <2> QED
    BY <1>0, <1>2, <2>1, ArrivedFresh
<1>7. ASSUME NEW s \in Slots, NEW c \in DOMAIN prog, s = scnt, c = ip, e.known
      PROVE  FilledIn(c)'
  <2>1. queue = <<>> /\ open = <<>> /\ left = {} /\ queue' = Append(queue, e) /\ e.call = c
    BY <1>7 DEF Starts
  <2>2. scnt = 0
    BY <1>0, <2>1, Alone
  <2>3. Expected(c)' = Expected(c) /\ Inbox(c)' = Inbox(c)
    BY <1>2, SameProgram
  <2>4. prc_recv'[c] = SourcesOf(Expected(c)) /\ recv_buf'[0] = IF e.posted THEN Blank(c) ELSE <<>>
    BY <1>3, <1>7, <2>2
  <2>5. DOMAIN queue' = {1} /\ queue'[1] = e
    BY <2>1
  <2>6. Unposted(c)' <=> ~e.posted
    BY <2>1, <2>5 DEF Unposted
  <2>7. \A i \in DOMAIN Expected(c) : Expected(c)[i] \in left'
    <3>1. Expected(c) \in [1..Cardinality(Inbox(c)) -> Inbox(c)]
      BY <1>0, ExpectedLists
    <3> QED
      BY <1>4, <1>7, <3>1
  <2>8. Blank(c) = [i \in DOMAIN Expected(c) |->
                       IF Expected(c)[i] \in left' THEN [call |-> 0, src |-> 0, k |-> 0] ELSE Expected(c)[i]]
    BY <2>7 DEF Blank
  <2>9. prc_recv'[c] = SourcesOf(Expected(c))'
    BY <2>3, <2>4 DEF SourcesOf
  <2>10. Unposted(c)' => recv_buf'[0] = <<>> /\ Inbox(c)' \subseteq left'
    BY <1>4, <1>7, <2>3, <2>4, <2>6
  <2>11. ~Unposted(c)' =>
            recv_buf'[0] = [i \in DOMAIN Expected(c)' |->
                IF Expected(c)'[i] \in left' THEN [call |-> 0, src |-> 0, k |-> 0] ELSE Expected(c)'[i]]
    BY <2>3, <2>4, <2>6, <2>8
  <2> QED
    BY <2>9, <2>10, <2>11 DEF FilledIn
<1>8. ASSUME NEW s \in Slots, NEW c \in DOMAIN prog, Caller(s)' = c
      PROVE  IF WithPeersKnown(prog'[c]) THEN FilledIn(c)' ELSE Arrived(s, c)'
  <2>1. CASE s = scnt
    BY <1>1, <1>2, <1>4, <1>6, <1>7, <1>8, <2>1
  <2>2. CASE s # scnt
    <3>1. Caller(s) = c
      BY <1>1, <1>8, <2>2
    <3> QED
      BY <1>2, <1>5, <2>2, <3>1
  <2> QED
    BY <2>1, <2>2
<1>9. Slots' = Slots /\ DOMAIN prog' = DOMAIN prog
  BY <1>2 DEF Slots
<1> QED
  BY <1>8, <1>9 DEF BuffersHold

LEMMA StartMerged ==
    ASSUME SlotsAccounted, ResultsInv, SSendRecvAsync \/ SSendRecv \/ Collect,
           NEW e, Starts(e)
    PROVE  MergedInOrder'
<1>0. TypeOK /\ Control /\ Opened /\ MergedInOrder /\ prog \in Programs
  BY DEF ResultsInv, Control
<1>1. ip \in DOMAIN prog /\ ip \in Nat
  BY <1>0, CallersStart, ProgramType
<1>2. /\ prog' = prog /\ finished' = finished /\ recv' = recv
      /\ prc_recv \in [DOMAIN prog -> Seq(Peers \cup {0})]
      /\ finished \subseteq 1..(ip - 1) /\ finished \subseteq DOMAIN prog
  BY <1>0 DEF Starts, TypeOK, Opened
<1>3. \A c \in finished : prc_recv'[c] = prc_recv[c]
  <2>1. \A c \in finished : c # ip /\ c \in DOMAIN prog
    BY <1>1, <1>2
  <2> QED
    BY <1>2, <2>1 DEF Starts
<1> QED
  BY <1>0, <1>2, <1>3, MergedStays

LEMMA StartKeeps ==
    ASSUME Disciplined, SlotsAccounted, ResultsInv, SSendRecvAsync \/ SSendRecv \/ Collect
    PROVE  ResultsInv'
<1>1. PICK e \in Entries : Starts(e)
  BY StartsPrepared, StartsCollect
<1>2. TypeOK' /\ QueueHolds' /\ Flying' /\ BuffersHold' /\ MergedInOrder'
  BY <1>1, StartTypes, StartQueue, StartFlying, StartBuffers, StartMerged
<1>3. Control' /\ Opened'
  BY ControlKept, OpenedKept DEF ResultsInv, Next
<1> QED
  BY <1>2, <1>3 DEF ResultsInv

----------------------------------------------------------------------------
(* What the base calls back.                                               *)

\* A queued call is that of its slot.
LEMMA QueuedCall ==
    ASSUME SlotsAccounted, ResultsInv, NEW j \in DOMAIN queue
    PROVE  /\ queue[j] \in Entries
           /\ queue[j].slot \in Slots /\ queue[j].call \in DOMAIN prog /\ queue[j].call # 0
           /\ Caller(queue[j].slot) = queue[j].call
           /\ queue[j].call \notin finished
           /\ IF WithPeersKnown(prog[queue[j].call])
              THEN FilledIn(queue[j].call) ELSE Arrived(queue[j].slot, queue[j].call)
<1>1. TypeOK /\ Control /\ Opened /\ QueueHolds /\ BuffersHold
  BY DEF ResultsInv
<1>2. queue[j] \in Entries
  BY <1>1 DEF QueueHolds
<1>3. queue[j].slot \in Slots /\ queue[j].call # 0
  BY <1>2 DEF Entries
<1>4. Caller(queue[j].slot) = queue[j].call
  BY <1>1, <1>3 DEF QueueHolds
<1>5. queue[j].call \in DOMAIN prog /\ queue[j].call \notin finished
  BY <1>1, <1>3, <1>4, Callers
<1>6. IF WithPeersKnown(prog[queue[j].call])
      THEN FilledIn(queue[j].call) ELSE Arrived(queue[j].slot, queue[j].call)
  BY <1>1, <1>3, <1>4, <1>5 DEF BuffersHold
<1> QED
  BY <1>2, <1>3, <1>4, <1>5, <1>6

LEMMA FlyingTo ==
    ASSUME SlotsAccounted, ResultsInv, NEW j \in DOMAIN queue, NEW m \in left, m.call = queue[j].call
    PROVE  m \in Inbox(queue[j].call)
<1>1. Flying /\ prog \in Programs
  BY DEF ResultsInv, Control
<1>2. PICK c \in DOMAIN prog : m \in Inbox(c)
  BY <1>1 DEF Flying
<1>3. m.call = c
  BY <1>1, <1>2, InboxHas
<1> QED
  BY <1>2, <1>3

LEMMA AppendFacts ==
    ASSUME NEW S, NEW q \in Seq(S), NEW x \in S
    PROVE  /\ Append(q, x) \in Seq(S) /\ DOMAIN Append(q, x) = 1..(Len(q) + 1)
           /\ \A i \in 1..Len(q) : Append(q, x)[i] = q[i]
           /\ Append(q, x)[Len(q) + 1] = x
OBVIOUS

LEMMA ArrivedGrows ==
    ASSUME prog \in Programs, prog' = prog, NEW s \in Slots, NEW c \in DOMAIN prog,
           Arrived(s, c), recv_buf[s] \in Seq(Msgs), NEW m \in left, m \in Inbox(c),
           \A n \in left : n.src = m.src /\ n.call = m.call => n.k >= m.k,
           bi'[s] = bi[s],
           recv_buf'[s] = [i \in 1..(Len(recv_buf[s]) + 1) |-> IF i <= Len(recv_buf[s]) THEN recv_buf[s][i] ELSE m],
           prc_recv'[c] = Append(prc_recv[c], m.src),
           tags'[s] = Append(tags[s], m.k),
           left' = left \ {m}
    PROVE  Arrived(s, c)'
<1>1. PICK b \in Seq(Msgs), n \in Nat : b = recv_buf[s] /\ n = Len(b) /\ DOMAIN b = 1..n
  <2> DEFINE q == recv_buf[s]
  <2> HIDE DEF Msgs
  <2>1. q \in Seq(Msgs)
    OBVIOUS
  <2> HIDE DEF q
  <2>2. Len(q) \in Nat /\ DOMAIN q = 1..Len(q)
    BY <2>1
  <2>3. \E b \in Seq(Msgs), n \in Nat : b = q /\ n = Len(b) /\ DOMAIN b = 1..n
    BY <2>1, <2>2
  <2> QED
    BY <2>3 DEF q
<1>2. PICK b2 : b2 = recv_buf'[s]
  OBVIOUS
<1>3. /\ DOMAIN b2 = 1..(n + 1)
      /\ \A i \in 1..n : b2[i] = b[i]
      /\ b2[n + 1] = m
      /\ \A i \in 1..(n + 1) : i \in 1..n \/ i = n + 1
  BY <1>1, <1>2
<1>4. /\ \A i, j \in 1..n : b[i] = b[j] => i = j
      /\ \A i \in 1..n : b[i] \in Inbox(c) /\ b[i] \notin left
      /\ \A o \in Inbox(c) : o \in left \/ \E i \in 1..n : b[i] = o
      /\ prc_recv[c] = SourcesOf(b)
      /\ tags[s] = [i \in 1..n |-> b[i].k]
      /\ \A i, j \in 1..n : i < j /\ b[i].src = b[j].src => b[i].k < b[j].k
      /\ \A i \in 1..n : \A o \in left : o \in Inbox(c) /\ b[i].src = o.src => b[i].k < o.k
  BY <1>1 DEF Arrived
<1>5. \A o \in Inbox(c) : o.src \in Nat /\ o.k \in Nat /\ o.call = c /\ o = [call |-> c, src |-> o.src, k |-> o.k]
  BY InboxHas
<1>6. \A i, j \in 1..(n + 1) : b2[i] = b2[j] => i = j
  <2>1. \A i \in 1..n : b[i] # m
    BY <1>4
  <2> SUFFICES ASSUME NEW i \in 1..(n + 1), NEW j \in 1..(n + 1), b2[i] = b2[j]
               PROVE  i = j
    OBVIOUS
  <2>2. CASE i \in 1..n /\ j \in 1..n
    BY <1>3, <1>4, <2>2
  <2>3. CASE i = n + 1 \/ j = n + 1
    BY <1>3, <2>1, <2>3
  <2> QED
    BY <1>3, <2>2, <2>3
<1>7. \A i \in 1..(n + 1) : b2[i] \in Inbox(c) /\ b2[i] \notin left'
  BY <1>3, <1>4
<1>8. \A o \in Inbox(c) : o \in left' \/ \E i \in 1..(n + 1) : b2[i] = o
  <2>1. \A i \in 1..n : i \in 1..(n + 1)
    OBVIOUS
  <2>2. n + 1 \in 1..(n + 1)
    OBVIOUS
  <2> QED
    BY <1>3, <1>4, <2>1, <2>2
<1>9. prc_recv'[c] = SourcesOf(b2)
  <2>1. DOMAIN prc_recv[c] = 1..n /\ \A i \in 1..n : prc_recv[c][i] = b[i].src
    BY <1>1, <1>4 DEF SourcesOf
  <2>2. prc_recv[c] \in Seq(Nat) /\ Len(prc_recv[c]) = n
    <3>1. \A i \in 1..n : b[i].src \in Nat
      BY <1>4, <1>5
    <3>2. prc_recv[c] \in [1..n -> Nat]
      BY <1>1, <1>4, <3>1 DEF SourcesOf
    <3> QED
      BY <3>2, FunctionIsSeq
  <2>3. m.src \in Nat
    BY <1>5
  <2>4. /\ prc_recv'[c] \in Seq(Nat) /\ DOMAIN prc_recv'[c] = 1..(n + 1)
        /\ \A i \in 1..n : prc_recv'[c][i] = b[i].src
        /\ prc_recv'[c][n + 1] = m.src
    <3>1. prc_recv'[c] = Append(prc_recv[c], m.src)
      OBVIOUS
    <3>2. \A q \in Seq(Nat), x \in Nat :
             /\ Append(q, x) \in Seq(Nat) /\ DOMAIN Append(q, x) = 1..(Len(q) + 1)
             /\ \A i \in 1..Len(q) : Append(q, x)[i] = q[i]
             /\ Append(q, x)[Len(q) + 1] = x
      BY AppendFacts
    <3>3. LET q == prc_recv[c] IN
             /\ Append(q, m.src) \in Seq(Nat) /\ DOMAIN Append(q, m.src) = 1..(n + 1)
             /\ \A i \in 1..n : Append(q, m.src)[i] = q[i]
             /\ Append(q, m.src)[n + 1] = m.src
      BY <2>2, <2>1, <2>3, <3>2, Zenon
    <3> QED
      BY <2>1, <2>2, <3>1, <3>3, Zenon
  <2>5. \A i \in 1..(n + 1) : prc_recv'[c][i] = b2[i].src
    BY <1>3, <2>4
  <2>6. prc_recv'[c] = [i \in 1..(n + 1) |-> b2[i].src]
    BY <2>4, <2>5, SMTT(30)
  <2> QED
    BY <1>3, <2>6 DEF SourcesOf
<1>10. tags'[s] = [i \in 1..(n + 1) |-> b2[i].k]
  <2>1. tags[s] \in Seq(Nat) /\ Len(tags[s]) = n /\ DOMAIN tags[s] = 1..n
    <3>1. \A i \in 1..n : b[i].k \in Nat
      BY <1>4, <1>5
    <3>2. tags[s] \in [1..n -> Nat]
      BY <1>4, <3>1
    <3> QED
      BY <3>2, FunctionIsSeq
  <2>2. \A i \in 1..n : tags[s][i] = b[i].k
    BY <1>4
  <2>3. m.k \in Nat
    BY <1>5
  <2>4. /\ tags'[s] \in Seq(Nat) /\ DOMAIN tags'[s] = 1..(n + 1)
        /\ \A i \in 1..n : tags'[s][i] = b[i].k
        /\ tags'[s][n + 1] = m.k
    <3>1. tags'[s] = Append(tags[s], m.k)
      OBVIOUS
    <3>2. \A q \in Seq(Nat), x \in Nat :
             /\ Append(q, x) \in Seq(Nat) /\ DOMAIN Append(q, x) = 1..(Len(q) + 1)
             /\ \A i \in 1..Len(q) : Append(q, x)[i] = q[i]
             /\ Append(q, x)[Len(q) + 1] = x
      BY AppendFacts
    <3>3. LET q == tags[s] IN
             /\ Append(q, m.k) \in Seq(Nat) /\ DOMAIN Append(q, m.k) = 1..(n + 1)
             /\ \A i \in 1..n : Append(q, m.k)[i] = q[i]
             /\ Append(q, m.k)[n + 1] = m.k
      BY <2>2, <2>1, <2>3, <3>2, Zenon
    <3> QED
      BY <2>1, <2>2, <3>1, <3>3, Zenon
  <2>5. \A i \in 1..(n + 1) : tags'[s][i] = b2[i].k
    BY <1>3, <2>4
  <2> QED
    BY <2>4, <2>5
<1>11. ASSUME NEW i \in 1..(n + 1), NEW j \in 1..(n + 1), i < j, b2[i].src = b2[j].src
       PROVE  b2[i].k < b2[j].k
  <2>1. i \in 1..n
    BY <1>11
  <2>2. CASE j \in 1..n
    BY <1>3, <1>4, <1>11, <2>1, <2>2
  <2>3. CASE j = n + 1
    BY <1>3, <1>4, <1>11, <2>1, <2>3
  <2> QED
    BY <1>3, <2>2, <2>3
<1>12. ASSUME NEW i \in 1..(n + 1), NEW o \in left', o \in Inbox(c), b2[i].src = o.src
       PROVE  b2[i].k < o.k
  <2>0. o \in left /\ o # m
    OBVIOUS
  <2>1. CASE i \in 1..n
    BY <1>3, <1>4, <1>12, <2>0, <2>1
  <2>2. CASE i = n + 1
    <3>1. b2[i] = m /\ o.src = m.src /\ o.call = m.call
      BY <1>3, <1>5, <1>12, <2>2
    <3>2. o.k >= m.k
      BY <2>0, <3>1
    <3>3. o.k # m.k
      BY <1>5, <1>12, <2>0, <3>1
    <3> QED
      BY <1>5, <1>12, <3>1, <3>2, <3>3
  <2> QED
    BY <1>3, <2>1, <2>2
<1>13. Inbox(c)' = Inbox(c)
  BY SameProgram
<1>14. bi'[s] = c
  BY DEF Arrived
<1>15. prc_recv'[c] = SourcesOf(recv_buf[s])'
  BY <1>2, <1>9 DEF SourcesOf
<1>16. tags'[s] = [i \in DOMAIN recv_buf'[s] |-> recv_buf'[s][i].k]
  BY <1>2, <1>3, <1>10
<1>d. DOMAIN recv_buf'[s] = 1..(n + 1)
  BY <1>2, <1>3, Zenon
<1>17. /\ \A i, j \in DOMAIN recv_buf'[s] : recv_buf'[s][i] = recv_buf'[s][j] => i = j
       /\ \A i \in DOMAIN recv_buf'[s] : recv_buf'[s][i] \in Inbox(c)' /\ recv_buf'[s][i] \notin left'
       /\ \A o \in Inbox(c)' : o \in left' \/ \E i \in DOMAIN recv_buf'[s] : recv_buf'[s][i] = o
  <2>1. \A i, j \in DOMAIN recv_buf'[s] : recv_buf'[s][i] = recv_buf'[s][j] => i = j
    BY <1>2, <1>d, <1>6, Zenon
  <2>2. \A i \in DOMAIN recv_buf'[s] : recv_buf'[s][i] \in Inbox(c)' /\ recv_buf'[s][i] \notin left'
    BY <1>2, <1>d, <1>7, <1>13, Zenon
  <2>3. \A o \in Inbox(c)' : o \in left' \/ \E i \in DOMAIN recv_buf'[s] : recv_buf'[s][i] = o
    BY <1>2, <1>d, <1>8, <1>13, Zenon
  <2> QED
    BY <2>1, <2>2, <2>3
<1>18. /\ \A i, j \in DOMAIN recv_buf'[s] :
             i < j /\ recv_buf'[s][i].src = recv_buf'[s][j].src => recv_buf'[s][i].k < recv_buf'[s][j].k
       /\ \A i \in DOMAIN recv_buf'[s] : \A o \in left' :
             o \in Inbox(c)' /\ recv_buf'[s][i].src = o.src => recv_buf'[s][i].k < o.k
  BY <1>2, <1>d, <1>11, <1>12, <1>13, ZenonT(60)
<1> QED
  BY <1>14, <1>15, <1>16, <1>17, <1>18 DEF Arrived

\* What Receive does, by the slot, its call and how much it has received.
Receives(m, j, s, c, n) ==
    /\ queue[j].slot = s /\ queue[j].call = c /\ m.call = c /\ m \in Inbox(c)
    /\ Caller(s) = c /\ c # 0 /\ c \notin finished
    /\ n = Len(recv_buf[s]) /\ bi[s] = c
    /\ ~queue[j].known /\ queue[j].posted
    /\ ~WithPeersKnown(prog[c]) /\ Arrived(s, c)
    /\ recv_buf' = [recv_buf EXCEPT ![s] =
           [i \in 1..(n + 1) |-> IF i <= n THEN recv_buf[s][i] ELSE m]]
    /\ prc_recv' = [prc_recv EXCEPT ![c] = Append(prc_recv[c], m.src)]
    /\ tags' = [tags EXCEPT ![s] = Append(tags[s], m.k)]
    /\ queue' = [queue EXCEPT ![j].rid = n + 1]
    /\ left' = left \ {m}
    /\ \A o \in left : o.src = m.src /\ o.call = m.call => o.k >= m.k
    /\ UNCHANGED <<prog, ip, pc, scnt, pcnt, mem, bi, send_buf, open, recv, finished>>

LEMMA ReceiveFits ==
    ASSUME SlotsAccounted, ResultsInv, NEW m \in left, NEW j \in DOMAIN queue, Receive(m, j)
    PROVE  \E s \in Slots, c \in DOMAIN prog, n \in Nat : Receives(m, j, s, c, n)
<1>1. TypeOK /\ QueueHolds
  BY DEF ResultsInv
<1>2. /\ queue[j].slot \in Slots /\ queue[j].call \in DOMAIN prog /\ queue[j].call # 0
      /\ Caller(queue[j].slot) = queue[j].call /\ queue[j].call \notin finished
  BY QueuedCall
<1>3. /\ queue[j].call = m.call /\ ~queue[j].known /\ queue[j].posted
      /\ \A o \in left : o.src = m.src /\ o.call = m.call => o.k >= m.k
  BY DEF Receive, Arrives
<1>4. ~WithPeersKnown(prog[queue[j].call]) /\ queue[j].rid = Len(recv_buf[queue[j].slot])
  BY <1>1, <1>2, <1>3 DEF QueueHolds
<1>5. Arrived(queue[j].slot, queue[j].call)
  BY <1>4, QueuedCall
<1>6. bi[queue[j].slot] = queue[j].call
  BY <1>5 DEF Arrived
<1>7. m \in Inbox(queue[j].call)
  BY <1>3, FlyingTo
<1>8. recv_buf[queue[j].slot] \in Seq(Msgs)
  BY <1>1, <1>2 DEF TypeOK
<1>9. Len(recv_buf[queue[j].slot]) \in Nat
  <2> HIDE DEF Msgs
  <2> QED
    BY <1>8
<1>10. /\ recv_buf' = [recv_buf EXCEPT ![queue[j].slot] =
              [i \in 1..(queue[j].rid + 1) |-> IF i <= queue[j].rid THEN recv_buf[queue[j].slot][i] ELSE m]]
       /\ prc_recv' = [prc_recv EXCEPT ![bi[queue[j].slot]] = Append(prc_recv[bi[queue[j].slot]], m.src)]
       /\ tags' = [tags EXCEPT ![queue[j].slot] = Append(tags[queue[j].slot], m.k)]
       /\ queue' = [queue EXCEPT ![j].rid = queue[j].rid + 1]
       /\ left' = left \ {m}
       /\ UNCHANGED <<prog, ip, pc, scnt, pcnt, mem, bi, send_buf, open, recv, finished>>
  BY DEF Receive
<1>11. Receives(m, j, queue[j].slot, queue[j].call, Len(recv_buf[queue[j].slot]))
  BY <1>2, <1>3, <1>4, <1>5, <1>6, <1>7, <1>10 DEF Receives
<1> QED
  BY <1>2, <1>9, <1>11

LEMMA ReceiveTypes ==
    ASSUME ResultsInv, NEW m \in left, NEW j \in DOMAIN queue,
           NEW s \in Slots, NEW c \in DOMAIN prog, NEW n \in Nat, Receives(m, j, s, c, n)
    PROVE  TypeOK'
<1>1. TypeOK /\ prog \in Programs
  BY DEF ResultsInv, Control
<1>2. m \in Msgs /\ m.src \in Peers \cup {0} /\ m.k \in Nat
  BY <1>1, InboxHas DEF Receives
<1>3. recv_buf' \in [Slots -> Seq(Msgs)]
  <2> DEFINE line == [i \in 1..(n + 1) |-> IF i <= n THEN recv_buf[s][i] ELSE m]
  <2>1. recv_buf \in [Slots -> Seq(Msgs)] /\ n = Len(recv_buf[s]) /\ recv_buf' = [recv_buf EXCEPT ![s] = line]
    BY <1>1 DEF TypeOK, Receives
  <2>2. line \in Seq(Msgs)
    <3> HIDE DEF Msgs
    <3>1. recv_buf[s] \in Seq(Msgs)
      BY <2>1
    <3>2. \A i \in 1..n : recv_buf[s][i] \in Msgs
      BY <2>1, <3>1
    <3>3. line \in [1..(n + 1) -> Msgs]
      BY <1>2, <3>2
    <3> QED
      BY <3>3, FunctionIsSeq
  <2> HIDE DEF line, Msgs
  <2> QED
    BY <2>1, <2>2
<1>4. prc_recv' \in [DOMAIN prog -> Seq(Peers \cup {0})]
  <2>1. prc_recv \in [DOMAIN prog -> Seq(Peers \cup {0})]
    BY <1>1 DEF TypeOK
  <2>2. Append(prc_recv[c], m.src) \in Seq(Peers \cup {0})
    BY <1>2, <2>1
  <2> QED
    BY <2>1, <2>2 DEF Receives
<1>5. tags' \in [Slots -> Seq(Nat)]
  <2>1. tags \in [Slots -> Seq(Nat)]
    BY <1>1 DEF TypeOK
  <2>2. Append(tags[s], m.k) \in Seq(Nat)
    BY <1>2, <2>1
  <2> QED
    BY <2>1, <2>2 DEF Receives
<1>6. UNCHANGED <<prog, ip, pc, scnt, pcnt, mem, bi, recv, finished>>
  BY DEF Receives
<1>7. Msgs' = Msgs /\ Slots' = Slots
  BY <1>6, SameProgram DEF Slots
<1> QED
  BY <1>1, <1>3, <1>4, <1>5, <1>6, <1>7 DEF TypeOK

LEMMA ReceiveQueue ==
    ASSUME SlotsAccounted, ResultsInv, NEW m \in left, NEW j \in DOMAIN queue,
           NEW s \in Slots, NEW c \in DOMAIN prog, NEW n \in Nat, Receives(m, j, s, c, n)
    PROVE  QueueHolds' /\ Flying'
<1>1. TypeOK /\ Control /\ Opened /\ QueueHolds /\ Flying
  BY DEF ResultsInv
<1>2. /\ UNCHANGED <<prog, ip, pc, scnt, pcnt, send_buf, open>>
      /\ queue' = [queue EXCEPT ![j].rid = n + 1]
      /\ queue[j].slot = s /\ ~queue[j].known /\ left' = left \ {m}
  BY DEF Receives
<1>3. \A t : Caller(t)' = Caller(t)
  BY <1>2, CallersSame
<1>4. queue \in Seq(Entries) /\ queue[j] \in Entries /\ DOMAIN queue = 1..Len(queue) /\ Len(queue) \in Nat
  BY <1>1, QueuedCall DEF QueueHolds
<1>5. /\ DOMAIN queue' = DOMAIN queue
      /\ \A i \in DOMAIN queue : i # j => queue'[i] = queue[i]
      /\ queue'[j] = [queue[j] EXCEPT !.rid = n + 1]
      /\ queue' \in Seq(Entries)
  <2>1. [queue[j] EXCEPT !.rid = n + 1] \in Entries
    <3>1. \A q \in Entries, r \in Nat : [q EXCEPT !.rid = r] \in Entries
      BY DEF Entries
    <3> HIDE DEF Entries
    <3> QED
      BY <1>4, <3>1
  <2> DEFINE e == [queue[j] EXCEPT !.rid = n + 1]
  <2>2. queue' = [queue EXCEPT ![j] = e]
    BY <1>2
  <2> HIDE DEF e, Entries
  <2>3. e \in Entries
    BY <2>1 DEF e
  <2>4. queue' \in [1..Len(queue) -> Entries]
    BY <1>4, <2>2, <2>3
  <2>5. queue' \in Seq(Entries)
    BY <1>4, <2>4, FunctionIsSeq
  <2>6. DOMAIN queue' = DOMAIN queue /\ (\A i \in DOMAIN queue : i # j => queue'[i] = queue[i]) /\ queue'[j] = e
    BY <1>4, <2>2
  <2> QED
    BY <2>5, <2>6 DEF e
<1>6. /\ queue'[j].call = queue[j].call /\ queue'[j].slot = s /\ queue'[j].rid = n + 1
      /\ queue'[j].known = queue[j].known /\ queue'[j].posted = queue[j].posted
  BY <1>2, <1>4, <1>5 DEF Entries
<1>7. \A i \in DOMAIN queue : queue'[i].call = queue[i].call
  BY <1>5, <1>6
<1>8. /\ \A t \in Slots : t # s => recv_buf'[t] = recv_buf[t]
      /\ Len(recv_buf'[s]) = n + 1
  <2>1. recv_buf'[s] = [i \in 1..(n + 1) |-> IF i <= n THEN recv_buf[s][i] ELSE m]
    BY <1>1 DEF Receives, TypeOK
  <2>2. \A t \in Slots : t # s => recv_buf'[t] = recv_buf[t]
    BY <1>1 DEF Receives, TypeOK
  <2> QED
    BY <2>1, <2>2
<1>9. ASSUME NEW i \in DOMAIN queue'
      PROVE  /\ \A t \in Slots : t = queue'[i].slot =>
                   /\ Caller(t)' = queue'[i].call
                   /\ ~queue'[i].known => queue'[i].rid = Len(recv_buf'[t])
             /\ queue'[i].known <=> WithPeersKnown(prog'[queue'[i].call])
             /\ queue'[i].known /\ queue'[i].posted => queue'[i].data = queue'[i].call
             /\ queue'[i].known /\ ~queue'[i].posted => send_buf' = queue'[i].call
             /\ ~queue'[i].known => queue'[i].posted
  <2>1. CASE i = j
    <3>1. /\ Caller(s) = queue[j].call /\ queue[j].posted
          /\ ~WithPeersKnown(prog[queue[j].call])
      BY <1>1, <1>2 DEF QueueHolds
    <3> QED
      BY <1>2, <1>3, <1>6, <1>8, <2>1, <3>1
  <2>2. CASE i # j
    <3>1. i \in DOMAIN queue /\ queue'[i] = queue[i]
      BY <1>5, <2>2
    <3>2. queue[i].slot # s
      <4>1. queue[i].call # queue[j].call
        BY <1>1, <2>2, <3>1 DEF QueueHolds
      <4>2. Caller(queue[i].slot) = queue[i].call /\ Caller(queue[j].slot) = queue[j].call
        BY <3>1, QueuedCall
      <4> QED
        BY <1>2, <4>1, <4>2
    <3> QED
      BY <1>1, <1>2, <1>3, <1>8, <3>1, <3>2 DEF QueueHolds
  <2> QED
    BY <2>1, <2>2
<1>10. \A i, k \in DOMAIN queue' : queue'[i].call = queue'[k].call => i = k
  BY <1>1, <1>5, <1>7 DEF QueueHolds
<1>11. pc' = "blocking" => \E i \in DOMAIN queue' : queue'[i].call = ip'
  BY <1>1, <1>2, <1>5, <1>7 DEF QueueHolds
<1>12. Entries' = Entries /\ Slots' = Slots
  BY DEF Entries, Slots
<1>13. QueueHolds'
  BY <1>5, <1>9, <1>10, <1>11, <1>12 DEF QueueHolds
<1>14. Flying'
  <2>1. \A d : Inbox(d)' = Inbox(d)
    BY <1>2, SameProgram
  <2> QED
    BY <1>1, <1>2, <1>5, <1>7, <2>1 DEF Flying
<1> QED
  BY <1>13, <1>14

LEMMA ReceiveBuffers ==
    ASSUME Disciplined, SlotsAccounted, ResultsInv, NEW m \in left, NEW j \in DOMAIN queue,
           NEW s \in Slots, NEW c \in DOMAIN prog, NEW n \in Nat, Receives(m, j, s, c, n)
    PROVE  BuffersHold' /\ MergedInOrder'
<1>1. TypeOK /\ Control /\ Opened /\ BuffersHold /\ MergedInOrder /\ prog \in Programs
  BY DEF ResultsInv, Control
<1>2. /\ UNCHANGED <<prog, ip, pc, scnt, pcnt, open, bi, recv, finished>>
      /\ Caller(s) = c /\ c # 0 /\ c \notin finished /\ ~WithPeersKnown(prog[c]) /\ Arrived(s, c)
      /\ left' = left \ {m} /\ m \in Inbox(c) /\ m.call = c /\ n = Len(recv_buf[s])
      /\ \A o \in left : o.src = m.src /\ o.call = m.call => o.k >= m.k
  BY DEF Receives
<1>3. \A t : Caller(t)' = Caller(t)
  BY <1>2, CallersSame
<1>4. /\ recv_buf \in [Slots -> Seq(Msgs)] /\ tags \in [Slots -> Seq(Nat)]
      /\ prc_recv \in [DOMAIN prog -> Seq(Peers \cup {0})] /\ finished \subseteq DOMAIN prog
  BY <1>1 DEF TypeOK
<1>5. /\ recv_buf'[s] = [i \in 1..(n + 1) |-> IF i <= n THEN recv_buf[s][i] ELSE m]
      /\ prc_recv'[c] = Append(prc_recv[c], m.src)
      /\ tags'[s] = Append(tags[s], m.k)
      /\ \A t \in Slots : t # s => recv_buf'[t] = recv_buf[t] /\ tags'[t] = tags[t]
      /\ \A d \in DOMAIN prog : d # c => prc_recv'[d] = prc_recv[d]
  BY <1>4 DEF Receives
<1>6. Arrived(s, c)'
  <2>1. recv_buf[s] \in Seq(Msgs)
    BY <1>4
  <2>2. recv_buf'[s] = [i \in 1..(Len(recv_buf[s]) + 1) |-> IF i <= Len(recv_buf[s]) THEN recv_buf[s][i] ELSE m]
    BY <1>2, <1>5
  <2>3. bi'[s] = bi[s] /\ prog' = prog
    BY <1>2
  <2> HIDE DEF Msgs
  <2> QED
    BY <1>1, <1>2, <1>5, <2>1, <2>2, <2>3, ArrivedGrows
<1>7. ASSUME NEW t \in Slots, NEW d \in DOMAIN prog, Caller(t) = d
      PROVE  ~WithPeersKnown(prog[d]) /\ Arrived(t, d)'
  <2>0. Caller(t) # 0
    BY <1>1, <1>7, ProgramType
  <2>1. CASE t = s
    BY <1>2, <1>6, <1>7, <2>1
  <2>2. CASE t # s
    <3>1. d # c
      BY <1>1, <1>2, <1>7, <2>0, <2>2, Callers
    <3>2. ~WithPeersKnown(prog[d])
      <4>1. SUFFICES ASSUME WithPeersKnown(prog[d]) PROVE FALSE
        OBVIOUS
      <4>2. t = 0 /\ s = 0
        BY <1>1, <1>2, <1>7, <2>0, <4>1, Alone
      <4> QED
        BY <2>2, <4>2
    <3>3. Arrived(t, d)
      BY <1>1, <1>7, <3>2 DEF BuffersHold
    <3>4. \A o \in Inbox(d) : o \in left' <=> o \in left
      <4>1. \A o \in Inbox(d) : o.call = d
        BY <1>1, InboxHas
      <4> QED
        BY <1>2, <3>1, <4>1
    <3>5. Arrived(t, d)'
      BY <1>2, <1>5, <2>2, <3>1, <3>3, <3>4, ArrivedStays
    <3> QED
      BY <3>2, <3>5
  <2> QED
    BY <2>1, <2>2
<1>8. BuffersHold'
  <2>1. Slots' = Slots /\ DOMAIN prog' = DOMAIN prog /\ prog' = prog
    BY <1>2 DEF Slots
  <2> QED
    BY <1>3, <1>7, <2>1 DEF BuffersHold
<1>9. MergedInOrder'
  <2>1. \A d \in finished : prc_recv'[d] = prc_recv[d]
    BY <1>2, <1>4, <1>5
  <2> QED
    BY <1>1, <1>2, <1>4, <2>1, MergedStays
<1> QED
  BY <1>8, <1>9

LEMMA ReceiveKeeps ==
    ASSUME Disciplined, SlotsAccounted, ResultsInv, NEW m \in left, NEW j \in DOMAIN queue, Receive(m, j)
    PROVE  ResultsInv'
<1>1. PICK s \in Slots, c \in DOMAIN prog, n \in Nat : Receives(m, j, s, c, n)
  BY ReceiveFits
<1>2. TypeOK' /\ QueueHolds' /\ Flying' /\ BuffersHold' /\ MergedInOrder'
  BY <1>1, ReceiveTypes, ReceiveQueue, ReceiveBuffers
<1>3. Control' /\ Opened'
  BY ControlKept, OpenedKept DEF ResultsInv, Next
<1> QED
  BY <1>2, <1>3 DEF ResultsInv

\* With discipline a call that knows its peers is the only one queued.
LEMMA KnownQueued ==
    ASSUME Disciplined, SlotsAccounted, ResultsInv, NEW j \in DOMAIN queue, queue[j].known
    PROVE  /\ 0 \in Slots /\ queue[j].slot = 0 /\ queue[j].call \in DOMAIN prog
           /\ WithPeersKnown(prog[queue[j].call]) /\ FilledIn(queue[j].call)
           /\ queue[j].call \notin finished
           /\ \A t \in Slots, d \in DOMAIN prog : Caller(t) = d => t = 0 /\ d = queue[j].call
           /\ \A i \in DOMAIN queue : i = j
           /\ Unposted(queue[j].call) <=> ~queue[j].posted
           /\ Expected(queue[j].call) \in [1..Cardinality(Inbox(queue[j].call)) -> Inbox(queue[j].call)]
<1>1. TypeOK /\ Control /\ Opened /\ QueueHolds /\ BuffersHold /\ prog \in Programs
  BY DEF ResultsInv, Control
<1>2. /\ queue[j].slot \in Slots /\ queue[j].call \in DOMAIN prog /\ queue[j].call # 0
      /\ Caller(queue[j].slot) = queue[j].call /\ queue[j].call \notin finished
  BY QueuedCall
<1>3. WithPeersKnown(prog[queue[j].call])
  BY <1>1 DEF QueueHolds
<1>4. queue[j].slot = 0 /\ \A t \in Slots : Caller(t) # 0 => t = 0
  BY <1>1, <1>2, <1>3, Alone
<1>5. ASSUME NEW t \in Slots, NEW d \in DOMAIN prog, Caller(t) = d
      PROVE  t = 0 /\ d = queue[j].call
  <2>1. Caller(t) # 0
    BY <1>1, <1>5, ProgramType
  <2>2. t = 0
    BY <1>4, <2>1
  <2> QED
    BY <1>2, <1>4, <1>5, <2>2
<1>6. ASSUME NEW i \in DOMAIN queue
      PROVE  i = j
  <2>1. /\ queue[i].slot \in Slots /\ queue[i].call \in DOMAIN prog
        /\ Caller(queue[i].slot) = queue[i].call
    BY QueuedCall
  <2>2. queue[i].call = queue[j].call
    BY <1>5, <2>1
  <2> QED
    BY <1>1, <2>2 DEF QueueHolds
<1>7. Unposted(queue[j].call) <=> ~queue[j].posted
  BY <1>6 DEF Unposted
<1>8. FilledIn(queue[j].call)
  BY <1>3, QueuedCall
<1>9. Expected(queue[j].call) \in [1..Cardinality(Inbox(queue[j].call)) -> Inbox(queue[j].call)]
  BY <1>1, <1>2, ExpectedLists
<1> QED
  BY <1>2, <1>3, <1>4, <1>5, <1>6, <1>7, <1>8, <1>9

LEMMA ChangedIsSeq ==
    ASSUME NEW S, NEW q \in Seq(S), NEW i, NEW x \in S
    PROVE  [q EXCEPT ![i] = x] \in Seq(S)
<1>1. Len(q) \in Nat /\ q \in [1..Len(q) -> S]
  OBVIOUS
<1>2. [q EXCEPT ![i] = x] \in [1..Len(q) -> S]
  BY <1>1
<1> QED
  BY <1>1, <1>2, FunctionIsSeq, Zenon

LEMMA FillInBuffers ==
    ASSUME Disciplined, SlotsAccounted, ResultsInv, NEW m \in left, NEW j \in DOMAIN queue, FillIn(m, j)
    PROVE  /\ recv_buf'[0] = [i \in DOMAIN Expected(m.call) |->
                 IF Expected(m.call)[i] \in left' THEN [call |-> 0, src |-> 0, k |-> 0] ELSE Expected(m.call)[i]]
           /\ \A t \in Slots : t # 0 => recv_buf'[t] = recv_buf[t]
           /\ recv_buf' \in [Slots -> Seq(Msgs)]
<1>1. TypeOK /\ QueueHolds /\ prog \in Programs
  BY DEF ResultsInv, Control
<1>2. /\ queue[j].known /\ queue[j].posted /\ queue[j].call = m.call /\ left' = left \ {m}
  BY DEF FillIn, Arrives
<1>3. queue[j].data = m.call
  BY <1>1, <1>2 DEF QueueHolds
<1>4. /\ 0 \in Slots /\ m.call \in DOMAIN prog /\ FilledIn(m.call) /\ ~Unposted(m.call)
      /\ m \in Inbox(m.call)
  BY <1>2, KnownQueued, FlyingTo
<1>5. PICK c \in DOMAIN prog : c = m.call
  BY <1>4
<1> DEFINE E == Expected(c)
           gap == [call |-> 0, src |-> 0, k |-> 0]
           pos == CHOOSE i \in DOMAIN E : E[i] = m
<1>6. /\ pos \in DOMAIN E /\ E[pos] = m
      /\ \A i, l \in DOMAIN E : E[i] = E[l] => i = l
  <2>1. \E i \in DOMAIN E : E[i] = m
    BY <1>1, <1>4, <1>5, ExpectedLists
  <2>2. \A i, l \in DOMAIN E : E[i] = E[l] => i = l
    BY <1>1, ExpectedLists
  <2> QED
    BY <2>1, <2>2
<1>7. recv_buf[0] = [i \in DOMAIN E |-> IF E[i] \in left THEN gap ELSE E[i]]
  BY <1>4, <1>5 DEF FilledIn
<1>8. [m EXCEPT !.call = queue[j].data] = m
  <2>1. m = [call |-> m.call, src |-> m.src, k |-> m.k]
    BY <1>1, <1>4, InboxHas
  <2> QED
    BY <1>3, <2>1
<1>9. recv_buf' = [recv_buf EXCEPT ![0][pos] = m]
  <2>1. pos \in DOMAIN recv_buf[0]
    BY <1>6, <1>7
  <2> QED
    BY <1>5, <1>8, <2>1 DEF FillIn
<1>10. recv_buf \in [Slots -> Seq(Msgs)]
  BY <1>1 DEF TypeOK
<1> HIDE DEF pos, E, gap, Msgs
<1>11. recv_buf'[0] = [recv_buf[0] EXCEPT ![pos] = m] /\ \A t \in Slots : t # 0 => recv_buf'[t] = recv_buf[t]
  BY <1>4, <1>9, <1>10
<1>12. recv_buf'[0] = [i \in DOMAIN E |-> IF E[i] \in left' THEN gap ELSE E[i]]
  <2>1. \A i \in DOMAIN E : E[i] \in left' <=> E[i] \in left /\ i # pos
    BY <1>2, <1>6
  <2>2. m \notin left'
    BY <1>2
  <2> QED
    BY <1>6, <1>7, <1>11, <2>1, <2>2
<1>13. recv_buf' \in [Slots -> Seq(Msgs)]
  <2>1. m \in Msgs
    BY <1>1, <1>4, InboxHas
  <2>2. recv_buf[0] \in Seq(Msgs)
    BY <1>4, <1>10
  <2>3. [recv_buf[0] EXCEPT ![pos] = m] \in Seq(Msgs)
    BY <2>1, <2>2, ChangedIsSeq, Zenon
  <2>4. recv_buf' = [recv_buf EXCEPT ![0] = [recv_buf[0] EXCEPT ![pos] = m]]
    BY <1>9
  <2> QED
    BY <1>10, <2>3, <2>4
<1> QED
  BY <1>5, <1>11, <1>12, <1>13 DEF E, gap

LEMMA FillInKeeps ==
    ASSUME Disciplined, SlotsAccounted, ResultsInv, NEW m \in left, NEW j \in DOMAIN queue, FillIn(m, j)
    PROVE  ResultsInv'
<1>1. /\ TypeOK /\ Control /\ Opened /\ QueueHolds /\ Flying /\ BuffersHold /\ MergedInOrder
      /\ prog \in Programs
  BY DEF ResultsInv, Control
<1>2. /\ UNCHANGED <<prog, ip, pc, scnt, pcnt, mem, bi, tags, prc_recv, send_buf, queue, open, recv, finished>>
      /\ queue[j].known /\ queue[j].posted /\ queue[j].call = m.call /\ left' = left \ {m}
  BY DEF FillIn, Arrives
<1>3. /\ recv_buf'[0] = [i \in DOMAIN Expected(m.call) |->
            IF Expected(m.call)[i] \in left' THEN [call |-> 0, src |-> 0, k |-> 0] ELSE Expected(m.call)[i]]
      /\ \A t \in Slots : t # 0 => recv_buf'[t] = recv_buf[t]
      /\ recv_buf' \in [Slots -> Seq(Msgs)]
  BY FillInBuffers
<1>4. /\ m.call \in DOMAIN prog /\ WithPeersKnown(prog[m.call]) /\ FilledIn(m.call) /\ ~Unposted(m.call)
      /\ \A t \in Slots, d \in DOMAIN prog : Caller(t) = d => t = 0 /\ d = m.call
      /\ \A i \in DOMAIN queue : i = j
  BY <1>2, KnownQueued
<1>5. /\ \A t : Caller(t)' = Caller(t)
      /\ \A d : Inbox(d)' = Inbox(d) /\ Expected(d)' = Expected(d)
      /\ Msgs' = Msgs /\ Slots' = Slots /\ Entries' = Entries
  BY <1>2, CallersSame, SameProgram DEF Slots, Entries
<1>6. TypeOK'
  BY <1>1, <1>2, <1>3, <1>5 DEF TypeOK
<1>7. QueueHolds'
  <2>1. \A i \in DOMAIN queue : queue[i].known
    BY <1>2, <1>4
  <2> QED
    BY <1>1, <1>2, <1>5, <2>1 DEF QueueHolds
<1>8. Flying'
  BY <1>1, <1>2, <1>5 DEF Flying
<1>9. FilledIn(m.call)'
  <2>1. PICK c : c = m.call
    OBVIOUS
  <2>2. Unposted(c)' <=> Unposted(c)
    BY <1>2 DEF Unposted
  <2>3. SourcesOf(Expected(c))' = SourcesOf(Expected(c))
    BY <1>5 DEF SourcesOf
  <2> QED
    BY <1>2, <1>3, <1>4, <1>5, <2>1, <2>2, <2>3 DEF FilledIn
<1>10. BuffersHold'
  <2>1. ASSUME NEW t \in Slots, NEW d \in DOMAIN prog, Caller(t)' = d
        PROVE  IF WithPeersKnown(prog'[d]) THEN FilledIn(d)' ELSE Arrived(t, d)'
    <3>1. d = m.call
      BY <1>4, <1>5, <2>1
    <3> QED
      BY <1>2, <1>4, <1>9, <3>1
  <2> QED
    BY <1>2, <1>5, <2>1 DEF BuffersHold
<1>11. MergedInOrder'
  <2>1. finished \subseteq DOMAIN prog
    BY <1>1 DEF TypeOK
  <2> QED
    BY <1>1, <1>2, <2>1, MergedStays
<1>12. Control' /\ Opened'
  BY <1>1, ControlKept, OpenedKept DEF Next
<1> QED
  BY <1>6, <1>7, <1>8, <1>10, <1>11, <1>12 DEF ResultsInv

LEMMA PostKeeps ==
    ASSUME Disciplined, SlotsAccounted, ResultsInv, NEW j \in DOMAIN queue, PostAfterSizes(j)
    PROVE  ResultsInv'
<1>1. /\ TypeOK /\ Control /\ Opened /\ QueueHolds /\ Flying /\ BuffersHold /\ MergedInOrder
      /\ prog \in Programs
  BY DEF ResultsInv, Control
<1>2. /\ UNCHANGED <<prog, ip, pc, scnt, pcnt, mem, bi, tags, prc_recv, send_buf, left, open, recv, finished>>
      /\ ~queue[j].posted
      /\ queue' = [queue EXCEPT ![j].posted = TRUE, ![j].data = send_buf]
      /\ recv_buf' = msg_alloc_known(queue[j].call, recv_buf)
  BY DEF PostAfterSizes
<1>3. queue[j].known /\ send_buf = queue[j].call /\ queue \in Seq(Entries) /\ queue[j] \in Entries
  BY <1>1, <1>2, QueuedCall DEF QueueHolds
<1>4. PICK c \in DOMAIN prog : c = queue[j].call
  BY QueuedCall
<1>5. /\ 0 \in Slots /\ queue[j].slot = 0 /\ WithPeersKnown(prog[c]) /\ FilledIn(c) /\ Unposted(c)
      /\ c \notin finished
      /\ \A t \in Slots, d \in DOMAIN prog : Caller(t) = d => t = 0 /\ d = c
      /\ \A i \in DOMAIN queue : i = j
      /\ Expected(c) \in [1..Cardinality(Inbox(c)) -> Inbox(c)]
  BY <1>2, <1>3, <1>4, KnownQueued
<1>6. /\ \A t : Caller(t)' = Caller(t)
      /\ \A d : Inbox(d)' = Inbox(d) /\ Expected(d)' = Expected(d)
      /\ Msgs' = Msgs /\ Slots' = Slots /\ Entries' = Entries
  BY <1>2, CallersSame, SameProgram DEF Slots, Entries
<1>7. /\ DOMAIN queue' = DOMAIN queue /\ queue' \in Seq(Entries)
      /\ queue'[j].call = c /\ queue'[j].slot = 0 /\ queue'[j].known /\ queue'[j].posted /\ queue'[j].data = c
  <2> DEFINE e == [queue[j] EXCEPT !.posted = TRUE, !.data = send_buf]
  <2>1. queue' = [queue EXCEPT ![j] = e]
    BY <1>2
  <2>2. send_buf \in Nat
    BY <1>3, <1>4, <1>1, ProgramType
  <2>3. /\ e \in Entries /\ e.posted /\ e.data = send_buf
        /\ e.call = queue[j].call /\ e.slot = queue[j].slot /\ e.known = queue[j].known
    <3>1. \A q \in Entries, r \in Nat :
             LET x == [q EXCEPT !.posted = TRUE, !.data = r] IN
             /\ x \in Entries /\ x.posted /\ x.data = r
             /\ x.call = q.call /\ x.slot = q.slot /\ x.known = q.known
      BY DEF Entries
    <3> HIDE DEF Entries
    <3> QED
      BY <1>3, <2>2, <3>1
  <2> HIDE DEF e, Entries
  <2>4. queue' \in Seq(Entries)
    BY <1>3, <2>1, <2>3, ChangedIsSeq, Zenon
  <2>5. DOMAIN queue' = DOMAIN queue /\ queue'[j] = e
    BY <2>1
  <2> QED
    BY <1>3, <1>4, <1>5, <2>3, <2>4, <2>5
<1>8. recv_buf' = [recv_buf EXCEPT ![0] = Blank(c)] /\ recv_buf \in [Slots -> Seq(Msgs)]
  <2>1. recv_buf \in [Slots -> Seq(Msgs)]
    BY <1>1 DEF TypeOK
  <2>2. recv_buf[0] = <<>>
    BY <1>5 DEF FilledIn
  <2>3. CASE Expected(c) = <<>>
    <3>1. Blank(c) = <<>>
      BY <2>3 DEF Blank
    <3>2. recv_buf' = recv_buf
      BY <1>2, <1>4, <2>3 DEF msg_alloc_known
    <3> HIDE DEF Msgs
    <3>3. [recv_buf EXCEPT ![0] = <<>>] = recv_buf
      BY <1>5, <2>1, <2>2
    <3> QED
      BY <2>1, <3>1, <3>2, <3>3
  <2>4. CASE Expected(c) # <<>>
    BY <1>2, <1>4, <2>1, <2>4 DEF msg_alloc_known
  <2> QED
    BY <2>3, <2>4
<1>9. recv_buf' \in [Slots -> Seq(Msgs)] /\ recv_buf'[0] = Blank(c)
  <2>1. Blank(c) \in Seq(Msgs)
    BY <1>1, BlankType
  <2> HIDE DEF Msgs
  <2> QED
    BY <1>5, <1>8, <2>1
<1>10. TypeOK'
  BY <1>1, <1>2, <1>6, <1>9 DEF TypeOK
<1>11. \A i \in DOMAIN queue' : i = j
  BY <1>5, <1>7
<1>12. QueueHolds'
  <2>1. \A s \in Slots : s = 0 => Caller(s)' = c
    <3>1. Caller(queue[j].slot) = queue[j].call
      BY QueuedCall
    <3> QED
      BY <1>4, <1>5, <1>6, <3>1
  <2>2. pc' = "blocking" => \E i \in DOMAIN queue' : queue'[i].call = ip'
    <3>1. pc = "blocking" => \E i \in DOMAIN queue : queue[i].call = ip
      BY <1>1 DEF QueueHolds
    <3> QED
      BY <1>2, <1>4, <1>5, <1>7, <3>1
  <2>3. ASSUME NEW i \in DOMAIN queue'
        PROVE  /\ \A s \in Slots : s = queue'[i].slot =>
                     /\ Caller(s)' = queue'[i].call
                     /\ ~queue'[i].known => queue'[i].rid = Len(recv_buf'[s])
               /\ queue'[i].known <=> WithPeersKnown(prog'[queue'[i].call])
               /\ queue'[i].known /\ queue'[i].posted => queue'[i].data = queue'[i].call
               /\ queue'[i].known /\ ~queue'[i].posted => send_buf' = queue'[i].call
               /\ ~queue'[i].known => queue'[i].posted
    <3>1. i = j
      BY <1>11
    <3> QED
      BY <1>2, <1>5, <1>7, <2>1, <3>1
  <2> QED
    BY <1>6, <1>7, <1>11, <2>2, <2>3 DEF QueueHolds
<1>13. Flying'
  <2>1. ASSUME NEW n \in left
        PROVE  n \in Inbox(c)
    BY <1>1, <1>4, <1>5 DEF Flying
  <2>2. j \in DOMAIN queue' /\ queue'[j].call = c
    BY <1>7
  <2> QED
    BY <1>2, <1>6, <2>1, <2>2 DEF Flying
<1>14. FilledIn(c)'
  <2>1. ~Unposted(c)'
    BY <1>7, <1>11 DEF Unposted
  <2>2. prc_recv[c] = SourcesOf(Expected(c)) /\ Inbox(c) \subseteq left
    BY <1>5 DEF FilledIn
  <2>3. \A i \in DOMAIN Expected(c) : Expected(c)[i] \in left
    BY <1>5, <2>2
  <2>4. recv_buf'[0] = [i \in DOMAIN Expected(c) |->
           IF Expected(c)[i] \in left THEN [call |-> 0, src |-> 0, k |-> 0] ELSE Expected(c)[i]]
    BY <1>9, <2>3 DEF Blank
  <2>5. SourcesOf(Expected(c))' = SourcesOf(Expected(c))
    BY <1>6 DEF SourcesOf
  <2> QED
    BY <1>2, <1>6, <2>1, <2>2, <2>4, <2>5 DEF FilledIn
<1>15. BuffersHold'
  <2>1. ASSUME NEW t \in Slots, NEW d \in DOMAIN prog, Caller(t)' = d
        PROVE  IF WithPeersKnown(prog'[d]) THEN FilledIn(d)' ELSE Arrived(t, d)'
    <3>1. d = c
      BY <1>5, <1>6, <2>1
    <3> QED
      BY <1>2, <1>5, <1>14, <3>1
  <2> QED
    BY <1>2, <1>6, <2>1 DEF BuffersHold
<1>16. MergedInOrder'
  <2>1. finished \subseteq DOMAIN prog
    BY <1>1 DEF TypeOK
  <2> QED
    BY <1>1, <1>2, <2>1, MergedStays
<1>17. Control' /\ Opened'
  BY <1>1, ControlKept, OpenedKept DEF Next
<1> QED
  BY <1>10, <1>12, <1>13, <1>15, <1>16, <1>17 DEF ResultsInv

----------------------------------------------------------------------------
(* A call ends.                                                            *)

LEMMA ConcatFacts ==
    ASSUME NEW S, NEW p \in Seq(S), NEW q \in Seq(S)
    PROVE  /\ DOMAIN (p \o q) = 1..(Len(p) + Len(q))
           /\ \A i \in 1..(Len(p) + Len(q)) : (p \o q)[i] = IF i <= Len(p) THEN p[i] ELSE q[i - Len(p)]
           /\ p \o q = [i \in 1..(Len(p) + Len(q)) |-> (p \o q)[i]]
<1>1. /\ DOMAIN (p \o q) = 1..(Len(p) + Len(q))
      /\ \A i \in 1..(Len(p) + Len(q)) : (p \o q)[i] = IF i <= Len(p) THEN p[i] ELSE q[i - Len(p)]
  OBVIOUS
<1>2. p \o q \in Seq(S)
  OBVIOUS
<1>3. \A z \in Seq(S) : z = [i \in DOMAIN z |-> z[i]]
  OBVIOUS
<1> QED
  BY <1>1, <1>2, <1>3, Zenon

LEMMA SourcesOfConcat ==
    ASSUME NEW S, NEW p \in Seq(S), NEW q \in Seq(S), \A x \in S : x.src \in Nat
    PROVE  SourcesOf(p \o q) = SourcesOf(p) \o SourcesOf(q)
<1>1. /\ Len(p) \in Nat /\ Len(q) \in Nat /\ DOMAIN p = 1..Len(p) /\ DOMAIN q = 1..Len(q)
      /\ \A i \in 1..Len(p) : p[i] \in S
      /\ \A i \in 1..Len(q) : q[i] \in S
  OBVIOUS
<1>2. /\ SourcesOf(p) \in Seq(Nat) /\ Len(SourcesOf(p)) = Len(p)
      /\ SourcesOf(q) \in Seq(Nat) /\ Len(SourcesOf(q)) = Len(q)
  <2>1. SourcesOf(p) \in [1..Len(p) -> Nat] /\ SourcesOf(q) \in [1..Len(q) -> Nat]
    BY <1>1 DEF SourcesOf
  <2> QED
    BY <1>1, <2>1, FunctionIsSeq
<1>3. /\ \A i \in 1..Len(p) : SourcesOf(p)[i] = p[i].src
      /\ \A i \in 1..Len(q) : SourcesOf(q)[i] = q[i].src
  BY <1>1 DEF SourcesOf
<1>4. /\ DOMAIN (p \o q) = 1..(Len(p) + Len(q))
      /\ \A i \in 1..(Len(p) + Len(q)) : (p \o q)[i] = IF i <= Len(p) THEN p[i] ELSE q[i - Len(p)]
  OBVIOUS
<1> DEFINE a == SourcesOf(p)
           b == SourcesOf(q)
<1>5. /\ DOMAIN (a \o b) = 1..(Len(p) + Len(q))
      /\ \A i \in 1..(Len(p) + Len(q)) : (a \o b)[i] = IF i <= Len(p) THEN a[i] ELSE b[i - Len(p)]
  <2>1. /\ DOMAIN (a \o b) = 1..(Len(a) + Len(b))
        /\ \A i \in 1..(Len(a) + Len(b)) : (a \o b)[i] = IF i <= Len(a) THEN a[i] ELSE b[i - Len(a)]
    BY <1>2, ConcatFacts, SMTT(30)
  <2> QED
    BY <1>2, <2>1, Zenon
<1>6. ASSUME NEW i \in 1..(Len(p) + Len(q))
      PROVE  (a \o b)[i] = (p \o q)[i].src
  <2>1. CASE i <= Len(p)
    <3>1. i \in 1..Len(p)
      BY <1>1, <2>1
    <3> HIDE DEF a, b
    <3>2. a[i] = p[i].src /\ (a \o b)[i] = a[i] /\ (p \o q)[i] = p[i]
      BY <1>3, <1>4, <1>5, <2>1, <3>1 DEF a
    <3> QED
      BY <3>2
  <2>2. CASE ~(i <= Len(p))
    <3>1. i - Len(p) \in 1..Len(q)
      BY <1>1, <2>2
    <3> HIDE DEF a, b
    <3>2. b[i - Len(p)] = q[i - Len(p)].src /\ (a \o b)[i] = b[i - Len(p)] /\ (p \o q)[i] = q[i - Len(p)]
      BY <1>3, <1>4, <1>5, <2>2, <3>1 DEF b
    <3> QED
      BY <3>2
  <2> QED
    BY <2>1, <2>2
<1>7. SourcesOf(p \o q) = [i \in 1..(Len(p) + Len(q)) |-> (p \o q)[i].src]
  BY <1>4 DEF SourcesOf
<1>8. a \o b = [i \in 1..(Len(p) + Len(q)) |-> (a \o b)[i]]
  <2>1. a \o b = [i \in 1..(Len(a) + Len(b)) |-> (a \o b)[i]]
    BY <1>2, ConcatFacts, Zenon
  <2> QED
    BY <1>2, <2>1, Zenon
<1> HIDE DEF a, b
<1>9. SourcesOf(p \o q) = a \o b
  BY <1>6, <1>7, <1>8
<1> QED
  BY <1>9 DEF a, b

(* When the base's Wait is over the buffers of a call are complete.        *)
LEMMA EndComplete ==
    ASSUME Disciplined, SlotsAccounted, ResultsInv, NEW s \in Slots, NEW c \in DOMAIN prog,
           Caller(s) = c, left = {}, \A j \in DOMAIN queue : queue[j].posted
    PROVE  /\ Lists(recv_buf[s], c) /\ Apart(recv_buf[s], tags[s])
           /\ prc_recv[c] = SourcesOf(recv_buf[s])
<1>1. TypeOK /\ Control /\ Opened /\ QueueHolds /\ BuffersHold /\ prog \in Programs
  BY DEF ResultsInv, Control
<1>2. recv_buf[s] \in Seq(Msgs)
  BY <1>1 DEF TypeOK
<1>3. CASE ~WithPeersKnown(prog[c])
  <2>1. Arrived(s, c)
    BY <1>1, <1>3 DEF BuffersHold
  <2>2. Lists(recv_buf[s], c)
    BY <1>2, <2>1 DEF Arrived, Lists
  <2> QED
    BY <2>1, <2>2 DEF Arrived, Apart
<1>4. CASE WithPeersKnown(prog[c])
  <2>1. FilledIn(c)
    BY <1>1, <1>4 DEF BuffersHold
  <2>2. c # 0 /\ s = 0 /\ \A t \in Peers : prog[c].in[t] <= 1
    <3>1. c # 0
      BY <1>1, ProgramType
    <3> QED
      BY <1>1, <1>4, <3>1, Alone
  <2>3. ~Unposted(c)
    BY DEF Unposted
  <2>4. DOMAIN recv_buf[0] = DOMAIN Expected(c) /\ \A i \in DOMAIN Expected(c) : recv_buf[0][i] = Expected(c)[i]
    BY <2>1, <2>3 DEF FilledIn
  <2>5. /\ Expected(c) \in [1..Cardinality(Inbox(c)) -> Inbox(c)]
        /\ \A m \in Inbox(c) : \E i \in DOMAIN Expected(c) : Expected(c)[i] = m
        /\ \A i, j \in DOMAIN Expected(c) : Expected(c)[i] = Expected(c)[j] => i = j
    BY <1>1, ExpectedLists
  <2>6. Lists(recv_buf[s], c)
    BY <1>2, <2>2, <2>4, <2>5 DEF Lists
  <2>7. prc_recv[c] = SourcesOf(recv_buf[s])
    <3>1. prc_recv[c] = SourcesOf(Expected(c))
      BY <2>1 DEF FilledIn
    <3> QED
      BY <2>2, <2>4, <3>1 DEF SourcesOf
  <2>8. \A i, j \in DOMAIN recv_buf[s] : recv_buf[s][i].src = recv_buf[s][j].src => i = j
    <3>1. ASSUME NEW m \in Inbox(c), NEW n \in Inbox(c), m.src = n.src
          PROVE  m = n
      <4>1. /\ m.src \in Peers /\ m.k \in Nat \ {0} /\ m.k <= prog[c].in[m.src]
            /\ m = [call |-> c, src |-> m.src, k |-> m.k]
            /\ n.k \in Nat \ {0} /\ n.k <= prog[c].in[n.src]
            /\ n = [call |-> c, src |-> n.src, k |-> n.k]
        BY <1>1, InboxHas
      <4>2. prog[c].in[m.src] <= 1 /\ prog[c].in[m.src] \in Nat
        BY <1>1, <2>2, <4>1, ProgramType
      <4>3. m.k = 1 /\ n.k = 1
        BY <3>1, <4>1, <4>2
      <4> QED
        BY <3>1, <4>1, <4>3
    <3> QED
      BY <2>6, <3>1 DEF Lists
  <2> QED
    BY <2>6, <2>7, <2>8 DEF Apart
<1> QED
  BY <1>3, <1>4

\* In a scatter one rank sends: what arrived in order is in order.
LEMMA ScatterComplete ==
    ASSUME Disciplined, SlotsAccounted, ResultsInv, NEW s \in Slots, NEW c \in DOMAIN prog,
           Caller(s) = c, left = {}, \A j \in DOMAIN queue : queue[j].posted, prog[c].op = "SScatter"
    PROVE  recv_buf[s] = Expected(c) /\ prc_recv[c] = SourcesOf(Expected(c))
<1>1. BuffersHold /\ prog \in Programs
  BY DEF ResultsInv, Control
<1>2. Lists(recv_buf[s], c) /\ prc_recv[c] = SourcesOf(recv_buf[s])
  BY EndComplete
<1>3. Arrived(s, c)
  BY <1>1 DEF BuffersHold, WithPeersKnown
<1>4. OneRoot(prog)
  BY <1>1 DEF Disciplined
<1>5. PICK b \in Seq(Msgs) : b = recv_buf[s]
  BY <1>2 DEF Lists
<1>6. PICK n \in Nat : DOMAIN b = 1..n
  <2> HIDE DEF Msgs
  <2> QED
    BY <1>5
<1>7. b \in [1..n -> Inbox(c)] /\ \A m \in Inbox(c) : \E i \in 1..n : b[i] = m
  <2>1. \A i \in 1..n : b[i] \in Inbox(c)
    BY <1>2, <1>5, <1>6 DEF Lists
  <2>2. b = [i \in 1..n |-> b[i]]
    <3> HIDE DEF Msgs
    <3> QED
      BY <1>5, <1>6
  <2>3. \A m \in Inbox(c) : \E i \in 1..n : b[i] = m
    BY <1>2, <1>5, <1>6 DEF Lists
  <2> QED
    BY <2>1, <2>2, <2>3
<1>8. ASSUME NEW i \in 1..n, NEW j \in 1..n, i < j
      PROVE  Earlier(b[i], b[j])
  <2>1. b[i] \in Inbox(c) /\ b[j] \in Inbox(c)
    BY <1>7
  <2>2. /\ b[i].src \in Peers /\ b[i].k \in Nat \ {0} /\ b[i].k <= prog[c].in[b[i].src]
        /\ b[j].src \in Peers /\ b[j].k \in Nat \ {0} /\ b[j].k <= prog[c].in[b[j].src]
    BY <1>1, <2>1, InboxHas
  <2>3. prog[c].in[b[i].src] # 0 /\ prog[c].in[b[j].src] # 0
    <3>1. prog[c].in[b[i].src] \in Nat /\ prog[c].in[b[j].src] \in Nat
      BY <1>1, <2>2, ProgramType
    <3> QED
      BY <2>2, <3>1
  <2>4. b[i].src = b[j].src
    BY <1>4, <2>2, <2>3 DEF OneRoot
  <2>5. b[i].k < b[j].k
    BY <1>3, <1>5, <1>6, <1>8, <2>4 DEF Arrived
  <2> QED
    BY <2>4, <2>5 DEF Earlier
<1>9. b = Expected(c)
  <2>1. \A k \in Nat : \A e \in [1..k -> Inbox(c)] :
           /\ \A m \in Inbox(c) : \E i \in 1..k : e[i] = m
           /\ \A i, j \in 1..k : i < j => Earlier(e[i], e[j])
           => e = Expected(c)
    BY <1>1, SortedIsExpected
  <2> QED
    BY <1>7, <1>8, <2>1
<1> QED
  BY <1>2, <1>5, <1>9

\* Whatever Sorted may return, sorting gives what was expected.
LEMMA SortingComplete ==
    ASSUME Disciplined, SlotsAccounted, ResultsInv, NEW c \in DOMAIN prog, pcnt \in Slots,
           Caller(pcnt) = c, left = {}, \A j \in DOMAIN queue : queue[j].posted,
           NEW r \in Sorted(prc_recv[c], tags[pcnt])
    PROVE  r.buf = Expected(c) /\ r.prc = SourcesOf(Expected(c))
<1>1. prog \in Programs
  BY DEF ResultsInv, Control
<1>2. /\ Lists(recv_buf[pcnt], c) /\ Apart(recv_buf[pcnt], tags[pcnt])
      /\ prc_recv[c] = SourcesOf(recv_buf[pcnt])
  BY EndComplete
<1>3. r \in Sorted(SourcesOf(recv_buf[pcnt]), tags[pcnt])
  BY <1>2
<1> QED
  BY <1>1, <1>2, <1>3, SortedGives

\* Call c, in slot NBX_prc_pcnt, returns; a rank that only sends to a gather
\* has merged nothing.
Ends(c) ==
    /\ pcnt \in Slots /\ Caller(pcnt) = c
    /\ left = {} /\ left' = {} /\ queue' = <<>>
    /\ pc # "app" /\ pc' = "app" /\ ip' = ip + 1
    /\ UNCHANGED <<prog, bi, tags>>
    /\ mem' \in {mem, [mem EXCEPT ![pcnt] = 0]}
    /\ \/ /\ recv_buf' = [recv_buf EXCEPT ![pcnt] = Expected(c)]
          /\ prc_recv' = [prc_recv EXCEPT ![c] = SourcesOf(Expected(c)) \o SourcesOf(Own(c))]
          /\ recv' = [recv EXCEPT ![c] = Expected(c) \o Own(c)]
          /\ finished' = finished \cup {c}
       \/ UNCHANGED <<recv_buf, prc_recv, recv, finished>>
    /\ \A s \in Slots : Caller(s)' = IF s = pcnt THEN 0 ELSE Caller(s)
    /\ scnt' \in 0..NQUEUE /\ pcnt' \in Slots /\ pcnt' <= scnt'

LEMMA EndBlockingEnds ==
    ASSUME Disciplined, SlotsAccounted, ResultsInv, EndSSendRecv
    PROVE  \E c \in DOMAIN prog : Ends(c)
<1>1. TypeOK /\ Control /\ Opened
  BY DEF ResultsInv
<1>2. /\ scnt = 0 /\ pcnt = 0 /\ 0 \in Slots /\ Caller(0) = ip /\ ip \in DOMAIN prog
      /\ \A s \in Slots : Caller(s)' = 0
  BY <1>1, CallersEndBlocking
<1>3. /\ \A j \in DOMAIN queue : queue[j].posted
      /\ left = {} /\ queue' = <<>> /\ pc = "sync"
      /\ UNCHANGED <<scnt, pcnt, open>> /\ mem' = [mem EXCEPT ![pcnt] = 0]
  BY <1>2 DEF EndSSendRecv, BaseWaitDone, Process
<1>4. PICK r \in Sorted(prc_recv[ip], tags[pcnt]) : Merge(ip, r)
  BY <1>2 DEF EndSSendRecv, Process
<1>5. r.buf = Expected(ip) /\ r.prc = SourcesOf(Expected(ip))
  BY <1>2, <1>3, <1>4, SortingComplete
<1>6. \A s \in Slots : s # pcnt => Caller(s) = 0
  BY <1>1, <1>2, <1>3, Alone
<1>7. scnt' \in 0..NQUEUE /\ pcnt' \in Slots /\ pcnt' <= scnt'
  BY <1>1, <1>3 DEF TypeOK
<1>8. Ends(ip)
  BY <1>2, <1>3, <1>4, <1>5, <1>6, <1>7 DEF Ends, Merge
<1> QED
  BY <1>2, <1>8

LEMMA EndWaitEnds ==
    ASSUME Disciplined, SlotsAccounted, ResultsInv, EndSSendRecvWait
    PROVE  \E c \in DOMAIN prog : Ends(c)
<1>1. TypeOK /\ Control /\ Opened
  BY DEF ResultsInv
<1>2. /\ pcnt \in Slots /\ open # <<>> /\ Caller(pcnt) = Head(open) /\ Caller(pcnt) # 0
      /\ \A s \in Slots : Caller(s)' = IF s = pcnt THEN 0 ELSE Caller(s)
  BY <1>1, CallersEndWait
<1>3. PICK c \in DOMAIN prog : c = Head(open) /\ Caller(pcnt) = c
  BY <1>1, <1>2, Callers
<1>4. /\ \A j \in DOMAIN queue : queue[j].posted
      /\ left = {} /\ queue' = <<>> /\ pc = "wait"
      /\ mem' = [mem EXCEPT ![pcnt] = 0]
      /\ scnt' = Counters(scnt, pcnt)[1] /\ pcnt' = Counters(scnt, pcnt)[2]
  BY DEF EndSSendRecvWait, BaseWaitDone, Process, PackedIn
<1>5. PICK r \in Sorted(prc_recv[c], tags[pcnt]) : Merge(c, r)
  BY <1>3 DEF EndSSendRecvWait, Process, PackedIn
<1>6. r.buf = Expected(c) /\ r.prc = SourcesOf(Expected(c))
  BY <1>2, <1>3, <1>4, <1>5, SortingComplete
<1>7. scnt' \in 0..NQUEUE /\ pcnt' \in Slots /\ pcnt' <= scnt'
  <2>1. /\ NQUEUE \in Nat \ {0} /\ \A s \in Nat : s < NQUEUE => s \in Slots
        /\ pcnt \in Nat /\ scnt \in Nat /\ scnt <= NQUEUE /\ scnt = pcnt + Len(open)
        /\ Len(open) \in Nat /\ open \in Seq(Nat \ {0})
    BY <1>1, SlotBasics DEF Control
  <2>2. Len(open) >= 1
    BY <1>2, <2>1
  <2>3. CASE scnt = pcnt + 1
    BY <1>4, <2>1, <2>3 DEF Counters
  <2>4. CASE scnt # pcnt + 1
    BY <1>4, <2>1, <2>2, <2>4 DEF Counters
  <2> QED
    BY <2>3, <2>4
<1>8. Ends(c)
  BY <1>2, <1>3, <1>4, <1>5, <1>6, <1>7 DEF Ends, Merge
<1> QED
  BY <1>8

LEMMA EndCollectEnds ==
    ASSUME Disciplined, SlotsAccounted, ResultsInv, EndCollect
    PROVE  \E c \in DOMAIN prog : Ends(c)
<1>1. TypeOK /\ Control /\ Opened /\ QueueHolds
  BY DEF ResultsInv
<1>2. /\ scnt = 0 /\ pcnt = 0 /\ 0 \in Slots /\ Caller(0) = ip /\ ip \in DOMAIN prog
      /\ \A s \in Slots : Caller(s)' = 0
  BY <1>1, CallersEndBlocking
<1>3. /\ \A j \in DOMAIN queue : queue[j].posted
      /\ left = {} /\ queue' = <<>> /\ pc = "blocking"
      /\ UNCHANGED <<scnt, pcnt, open, mem>>
  <2>1. pc = "blocking"
    BY DEF EndCollect
  <2>2. \E j \in DOMAIN queue : queue[j].call = ip
    BY <1>1, <2>1 DEF QueueHolds
  <2>3. BaseWaitDone
    BY <2>2 DEF EndCollect
  <2> QED
    BY <2>1, <2>3 DEF EndCollect, BaseWaitDone
<1>4. \A s \in Slots : s # pcnt => Caller(s) = 0
  BY <1>1, <1>2, <1>3, Alone
<1>5. scnt' \in 0..NQUEUE /\ pcnt' \in Slots /\ pcnt' <= scnt'
  BY <1>1, <1>3 DEF TypeOK
<1>6. CASE prog[ip].op = "SGather"
  <2>1. PICK r \in Sorted(prc_recv[ip], tags[pcnt]) : Merge(ip, r)
    BY <1>2, <1>6 DEF EndCollect
  <2>2. r.buf = Expected(ip) /\ r.prc = SourcesOf(Expected(ip))
    BY <1>2, <1>3, <2>1, SortingComplete
  <2>3. Ends(ip)
    BY <1>2, <1>3, <1>4, <1>5, <2>1, <2>2 DEF Ends, Merge
  <2> QED
    BY <1>2, <2>3
<1>7. CASE prog[ip].op = "SScatter"
  <2>1. Merge(ip, [buf |-> recv_buf[pcnt], prc |-> prc_recv[ip]])
    BY <1>7 DEF EndCollect
  <2>2. recv_buf[pcnt] = Expected(ip) /\ prc_recv[ip] = SourcesOf(Expected(ip))
    BY <1>2, <1>3, <1>7, ScatterComplete
  <2>3. Ends(ip)
    BY <1>2, <1>3, <1>4, <1>5, <2>1, <2>2 DEF Ends, Merge
  <2> QED
    BY <1>2, <2>3
<1>8. CASE prog[ip].op \notin {"SGather", "SScatter"}
  <2>1. /\ pc' = "app" /\ ip' = ip + 1
        /\ UNCHANGED <<prog, bi, tags, left, recv_buf, prc_recv, recv, finished>>
    BY <1>8 DEF EndCollect
  <2>2. Ends(ip)
    BY <1>2, <1>3, <1>4, <1>5, <2>1 DEF Ends
  <2> QED
    BY <1>2, <2>2
<1> QED
  BY <1>6, <1>7, <1>8

LEMMA EndTypes ==
    ASSUME SlotsAccounted, ResultsInv, NEW c \in DOMAIN prog, Ends(c)
    PROVE  TypeOK' /\ QueueHolds' /\ Flying'
<1>1. TypeOK /\ Control /\ Opened /\ prog \in Programs
  BY DEF ResultsInv, Control
<1>2. prog' = prog /\ Msgs' = Msgs /\ Slots' = Slots
  BY SameProgram DEF Ends, Slots
<1>3. ip' \in 1..(Len(prog) + 1)
  <2>1. ip \in Nat \ {0} /\ DOMAIN prog = 1..Len(prog) /\ Len(prog) \in Nat
    BY <1>1, SlotBasics
  <2>2. ip \in DOMAIN prog /\ ip' = ip + 1
    BY <1>1 DEF Ends, Control
  <2> QED
    BY <2>1, <2>2
<1>4. mem' \in [Slots -> 0..Len(prog)] /\ bi' \in [Slots -> 0..Len(prog)] /\ tags' \in [Slots -> Seq(Nat)]
  <2>1. 0 \in 0..Len(prog)
    BY <1>1, ProgramType
  <2> QED
    BY <1>1, <2>1 DEF TypeOK, Ends
<1>5. /\ Expected(c) \in Seq(Msgs) /\ Own(c) \in Seq(Msgs)
      /\ SourcesOf(Expected(c)) \in Seq(Peers \cup {0}) /\ SourcesOf(Own(c)) \in Seq(Peers \cup {0})
  BY <1>1, ExpectedType
<1> HIDE DEF Msgs
<1>6. recv_buf' \in [Slots -> Seq(Msgs)] /\ recv' \in [DOMAIN prog -> Seq(Msgs)]
  <2>1. recv_buf \in [Slots -> Seq(Msgs)] /\ recv \in [DOMAIN prog -> Seq(Msgs)]
    BY <1>1 DEF TypeOK
  <2>2. Expected(c) \o Own(c) \in Seq(Msgs)
    BY <1>5
  <2>3. /\ recv_buf' = recv_buf \/ recv_buf' = [recv_buf EXCEPT ![pcnt] = Expected(c)]
        /\ recv' = recv \/ recv' = [recv EXCEPT ![c] = Expected(c) \o Own(c)]
    BY DEF Ends
  <2> QED
    BY <1>5, <2>1, <2>2, <2>3
<1>7. prc_recv' \in [DOMAIN prog -> Seq(Peers \cup {0})]
  <2>1. prc_recv \in [DOMAIN prog -> Seq(Peers \cup {0})]
    BY <1>1 DEF TypeOK
  <2>2. SourcesOf(Expected(c)) \o SourcesOf(Own(c)) \in Seq(Peers \cup {0})
    BY <1>5
  <2>3. prc_recv' = prc_recv \/ prc_recv' = [prc_recv EXCEPT ![c] = SourcesOf(Expected(c)) \o SourcesOf(Own(c))]
    BY DEF Ends
  <2> QED
    BY <2>1, <2>2, <2>3
<1>8. finished' \subseteq DOMAIN prog
  BY <1>1 DEF TypeOK, Ends
<1>9. pc' = "app" /\ scnt' \in 0..NQUEUE /\ pcnt' \in Slots /\ pcnt' <= scnt'
  BY DEF Ends
<1>10. TypeOK'
  BY <1>2, <1>3, <1>4, <1>6, <1>7, <1>8, <1>9 DEF TypeOK
<1>11. QueueHolds' /\ Flying'
  <2>1. queue' = <<>> /\ left' = {} /\ pc' = "app"
    BY DEF Ends
  <2>2. <<>> \in Seq(Entries') /\ DOMAIN <<>> = {}
    OBVIOUS
  <2> QED
    BY <2>1, <2>2 DEF QueueHolds, Flying
<1> QED
  BY <1>10, <1>11

LEMMA EndBuffers ==
    ASSUME Disciplined, SlotsAccounted, ResultsInv, NEW c \in DOMAIN prog, Ends(c)
    PROVE  BuffersHold' /\ MergedInOrder'
<1>1. TypeOK /\ Control /\ Opened /\ BuffersHold /\ MergedInOrder /\ prog \in Programs
  BY DEF ResultsInv, Control
<1>2. /\ pcnt \in Slots /\ Caller(pcnt) = c /\ c # 0 /\ c \notin finished
      /\ prog' = prog /\ left = {} /\ left' = {} /\ bi' = bi /\ tags' = tags
      /\ \A s \in Slots : Caller(s)' = IF s = pcnt THEN 0 ELSE Caller(s)
  <2>1. c # 0
    BY <1>1, ProgramType
  <2>2. pcnt \in Slots /\ Caller(pcnt) = c
    BY DEF Ends
  <2>3. c \notin finished
    BY <1>1, <2>1, <2>2, Callers
  <2> QED
    BY <2>1, <2>2, <2>3 DEF Ends
<1>3. /\ recv_buf \in [Slots -> Seq(Msgs)] /\ recv \in [DOMAIN prog -> Seq(Msgs)]
      /\ prc_recv \in [DOMAIN prog -> Seq(Peers \cup {0})] /\ finished \subseteq DOMAIN prog
  BY <1>1 DEF TypeOK
<1> HIDE DEF Msgs
<1>4. /\ \A s \in Slots : s # pcnt => recv_buf'[s] = recv_buf[s]
      /\ \A d \in DOMAIN prog : d # c => prc_recv'[d] = prc_recv[d] /\ recv'[d] = recv[d]
  BY <1>3 DEF Ends
<1>5. ASSUME NEW s \in Slots, NEW d \in DOMAIN prog, Caller(s)' = d
      PROVE  ~WithPeersKnown(prog[d]) /\ Arrived(s, d)'
  <2>1. d # 0
    BY <1>1, ProgramType
  <2>2. s # pcnt /\ Caller(s) = d
    BY <1>2, <1>5, <2>1
  <2>3. d # c
    BY <1>1, <1>2, <2>2, Callers
  <2>4. ~WithPeersKnown(prog[d])
    <3>1. SUFFICES ASSUME WithPeersKnown(prog[d]) PROVE FALSE
      OBVIOUS
    <3>2. s = 0 /\ pcnt = 0
      BY <1>1, <1>2, <2>1, <2>2, <3>1, Alone
    <3> QED
      BY <2>2, <3>2
  <2>5. Arrived(s, d)
    BY <1>1, <2>2, <2>4 DEF BuffersHold
  <2>6. Arrived(s, d)'
    BY <1>2, <1>4, <2>2, <2>3, <2>5, ArrivedStays
  <2> QED
    BY <2>4, <2>6
<1>6. BuffersHold'
  <2>1. Slots' = Slots /\ DOMAIN prog' = DOMAIN prog
    BY <1>2 DEF Slots
  <2> QED
    BY <1>2, <1>5, <2>1 DEF BuffersHold
<1>7. CASE UNCHANGED <<recv_buf, prc_recv, recv, finished>>
  <2>1. MergedInOrder'
    BY <1>1, <1>2, <1>3, <1>7, MergedStays
  <2> QED
    BY <1>6, <2>1
<1>8. CASE /\ prc_recv' = [prc_recv EXCEPT ![c] = SourcesOf(Expected(c)) \o SourcesOf(Own(c))]
           /\ recv' = [recv EXCEPT ![c] = Expected(c) \o Own(c)]
           /\ finished' = finished \cup {c}
  <2>1. \A d : Expected(d)' = Expected(d) /\ Own(d)' = Own(d)
    BY <1>2, SameProgram
  <2>2. SourcesOf(Expected(c) \o Own(c)) = SourcesOf(Expected(c)) \o SourcesOf(Own(c))
    <3>1. Expected(c) \in Seq(Msgs) /\ Own(c) \in Seq(Msgs)
      BY <1>1, ExpectedType
    <3>2. \A x \in Msgs : x.src \in Nat
      <4>1. \A p \in Peers \cup {0} : p \in Nat
        BY SemanticAssumption
      <4> QED
        BY <4>1 DEF Msgs
    <3> QED
      BY <3>1, <3>2, SourcesOfConcat
  <2>3. recv'[c] = Expected(c) \o Own(c) /\ prc_recv'[c] = SourcesOf(recv'[c])
    BY <1>3, <1>8, <2>2
  <2>4. ASSUME NEW d \in finished
        PROVE  recv'[d] = Expected(d) \o Own(d) /\ prc_recv'[d] = SourcesOf(recv'[d])
    <3>1. d # c /\ d \in DOMAIN prog
      BY <1>2, <1>3
    <3>2. recv[d] = Expected(d) \o Own(d) /\ prc_recv[d] = SourcesOf(recv[d])
      BY <1>1 DEF MergedInOrder
    <3> QED
      BY <1>4, <3>1, <3>2
  <2>5. ASSUME NEW d \in finished'
        PROVE  recv'[d] = (Expected(d) \o Own(d))' /\ prc_recv'[d] = SourcesOf(recv[d])'
    <3>1. recv'[d] = Expected(d) \o Own(d) /\ prc_recv'[d] = SourcesOf(recv'[d])
      BY <1>8, <2>3, <2>4
    <3> QED
      BY <2>1, <3>1 DEF SourcesOf
  <2>6. MergedInOrder'
    BY <2>5 DEF MergedInOrder
  <2> QED
    BY <1>6, <2>6
<1> QED
  BY <1>7, <1>8 DEF Ends

LEMMA EndKeeps ==
    ASSUME Disciplined, SlotsAccounted, ResultsInv, EndSSendRecv \/ EndSSendRecvWait \/ EndCollect
    PROVE  ResultsInv'
<1>1. PICK c \in DOMAIN prog : Ends(c)
  BY EndBlockingEnds, EndWaitEnds, EndCollectEnds
<1>2. TypeOK' /\ QueueHolds' /\ Flying' /\ BuffersHold' /\ MergedInOrder'
  BY <1>1, EndTypes, EndBuffers
<1>3. Control' /\ Opened'
  BY ControlKept, OpenedKept DEF ResultsInv, Next
<1> QED
  BY <1>2, <1>3 DEF ResultsInv

----------------------------------------------------------------------------
LEMMA WaitKeeps ==
    ASSUME Disciplined, SlotsAccounted, ResultsInv, SSendRecvWait \/ Finished \/ UNCHANGED vars
    PROVE  ResultsInv'
<1>1. /\ TypeOK /\ Control /\ Opened /\ QueueHolds /\ Flying /\ BuffersHold /\ MergedInOrder
      /\ prog \in Programs
  BY DEF ResultsInv, Control
<1>2. /\ UNCHANGED <<prog, ip, scnt, pcnt, mem, bi, recv_buf, tags, prc_recv, send_buf, queue, left,
                     open, recv, finished>>
      /\ pc' = pc \/ (pc = "app" /\ pc' = "wait")
  BY DEF SSendRecvWait, Running, Finished, vars
<1>3. /\ \A t : Caller(t)' = Caller(t)
      /\ \A d : Inbox(d)' = Inbox(d) /\ Expected(d)' = Expected(d)
      /\ Msgs' = Msgs /\ Slots' = Slots /\ Entries' = Entries
  BY <1>2, CallersSame, SameProgram DEF Slots, Entries
<1>4. TypeOK'
  BY <1>1, <1>2, <1>3 DEF TypeOK
<1>5. QueueHolds' /\ Flying'
  BY <1>1, <1>2, <1>3 DEF QueueHolds, Flying
<1>6. BuffersHold'
  <2>1. ASSUME NEW t \in Slots, NEW d \in DOMAIN prog, Caller(t) = d
        PROVE  IF WithPeersKnown(prog[d]) THEN FilledIn(d)' ELSE Arrived(t, d)'
    <3>1. CASE WithPeersKnown(prog[d])
      <4>1. FilledIn(d)
        BY <1>1, <2>1, <3>1 DEF BuffersHold
      <4>2. Unposted(d)' <=> Unposted(d)
        BY <1>2 DEF Unposted
      <4>3. SourcesOf(Expected(d))' = SourcesOf(Expected(d))
        BY <1>3 DEF SourcesOf
      <4>4. FilledIn(d)'
        BY <1>2, <1>3, <4>1, <4>2, <4>3 DEF FilledIn
      <4> QED
        BY <3>1, <4>4
    <3>2. CASE ~WithPeersKnown(prog[d])
      <4>1. Arrived(t, d)
        BY <1>1, <2>1, <3>2 DEF BuffersHold
      <4>2. Arrived(t, d)'
        BY <1>2, <4>1, ArrivedStays
      <4> QED
        BY <3>2, <4>2
    <3> QED
      BY <3>1, <3>2
  <2> QED
    BY <1>2, <1>3, <2>1 DEF BuffersHold
<1>7. MergedInOrder'
  <2>1. finished \subseteq DOMAIN prog
    BY <1>1 DEF TypeOK
  <2> QED
    BY <1>1, <1>2, <2>1, MergedStays
<1>8. Control' /\ Opened'
  BY <1>1, ControlKept, OpenedKept DEF Next
<1> QED
  BY <1>4, <1>5, <1>6, <1>7, <1>8 DEF ResultsInv

LEMMA ResultsInit == Init => ResultsInv
<1> SUFFICES ASSUME Init PROVE ResultsInv
  OBVIOUS
<1>1. /\ NQUEUE \in Nat \ {0} /\ 0 \in Slots
      /\ prog \in Programs /\ Len(prog) \in Nat /\ DOMAIN prog = 1..Len(prog)
  <2>1. prog \in Programs
    BY DEF Init
  <2> QED
    BY <2>1, SemanticAssumption, ProgramType DEF Slots
<1>2. \A S : <<>> \in Seq(S) /\ DOMAIN <<>> = {} /\ Len(<<>>) = 0
  OBVIOUS
<1>3. TypeOK
  <2>1. /\ recv_buf \in [Slots -> Seq(Msgs)] /\ tags \in [Slots -> Seq(Nat)]
        /\ prc_recv \in [DOMAIN prog -> Seq(Peers \cup {0})] /\ recv \in [DOMAIN prog -> Seq(Msgs)]
    <3> HIDE DEF Msgs
    <3> QED
      BY <1>2 DEF Init
  <2> QED
    BY <1>1, <2>1 DEF Init, TypeOK
<1>4. Control
  BY <1>1 DEF Init, Control
<1>5. Opened
  <2>1. MadeBefore(prog, "SSendRecvWait", 1) = 0 /\ MadeBefore(prog, "SSendRecvAsync", 1) = 0
    BY MadeByStart
  <2> QED
    BY <1>2, <2>1 DEF Init, Opened
<1>6. QueueHolds /\ Flying
  BY <1>2 DEF Init, QueueHolds, Flying
<1>7. BuffersHold
  <2>1. \A s \in Slots : Caller(s) = 0
    <3>1. \A s \in Slots : s \notin 0 .. 0 - 1
      OBVIOUS
    <3> QED
      BY <3>1 DEF Init, Caller
  <2> QED
    BY <1>1, <2>1 DEF BuffersHold
<1>8. MergedInOrder
  BY DEF Init, MergedInOrder
<1> QED
  BY <1>3, <1>4, <1>5, <1>6, <1>7, <1>8 DEF ResultsInv

LEMMA ResultsStep ==
    ASSUME Disciplined, SlotsAccounted, ResultsInv, [Next]_vars
    PROVE  ResultsInv'
<1>1. CASE SSendRecvAsync \/ SSendRecv \/ Collect
  BY <1>1, StartKeeps
<1>2. CASE EndSSendRecv \/ EndSSendRecvWait \/ EndCollect
  BY <1>2, EndKeeps
<1>3. CASE SSendRecvWait \/ Finished \/ UNCHANGED vars
  BY <1>3, WaitKeeps
<1>4. ASSUME NEW m \in left, NEW j \in DOMAIN queue, Receive(m, j) \/ FillIn(m, j)
      PROVE  ResultsInv'
  BY <1>4, ReceiveKeeps, FillInKeeps
<1>5. ASSUME NEW j \in DOMAIN queue, PostAfterSizes(j)
      PROVE  ResultsInv'
  BY <1>5, PostKeeps
<1> QED
  BY <1>1, <1>2, <1>3, <1>4, <1>5 DEF Next

(* prepare_send_buffer, what the base calls back and the ends of the calls *)
(* keep the buffers of every slot those of its call.                       *)
THEOREM ResultsInvariant ==
    ASSUME Disciplined
    PROVE  Spec => []ResultsInv
<1>1. Init => ResultsInv
  BY ResultsInit
<1>2. SlotsAccounted /\ ResultsInv /\ [Next]_vars => ResultsInv'
  BY ResultsStep
<1>3. Spec => []SlotsAccounted
  BY Accounted
<1> QED
  BY <1>1, <1>2, <1>3, PTL DEF Spec

(* process_receive_buffer merges exactly the messages of its call, by      *)
(* processor and in the order sent, whatever else was queued meanwhile.    *)
THEOREM Merged ==
    ASSUME Disciplined
    PROVE  Spec => []MergedInOrder
<1>1. ResultsInv => MergedInOrder
  BY DEF ResultsInv
<1> QED
  BY <1>1, ResultsInvariant, PTL

(* NBX_prc_pcnt indexes an existing slot and never passes NBX_prc_scnt,    *)
(* and the buffers, tags and lists keep their types.                       *)
THEOREM SlotsTyped ==
    ASSUME Disciplined
    PROVE  Spec => []TypeOK
<1>1. ResultsInv => TypeOK
  BY DEF ResultsInv
<1> QED
  BY <1>1, ResultsInvariant, PTL

----------------------------------------------------------------------------
(* NBX_prc_scnt counts the asynchronous calls since none was queued, since *)
(* only then it returns to 0.  This needs nothing of the programs.         *)

OpenCounted ==
    Len(open) + MadeBefore(prog, "SSendRecvWait", ip) = MadeBefore(prog, "SSendRecvAsync", ip)

Room == Control /\ OpenCounted /\ SlotsSinceIdle

LEMMA RoomInit == Init => Room
<1> SUFFICES ASSUME Init PROVE Room
  OBVIOUS
<1>1. MadeBefore(prog, "SSendRecvWait", 1) = 0 /\ MadeBefore(prog, "SSendRecvAsync", 1) = 0
  BY MadeByStart
<1>2. Control
  BY DEF Init, Control
<1>3. ip = 1 /\ scnt = 0 /\ open = <<>> /\ Len(<<>>) = 0
  BY DEF Init
<1>4. 1 \in 1..ip /\ (1 + 1)..ip = {}
  BY <1>3
<1>5. SlotsSinceIdle
  BY <1>1, <1>3, <1>4 DEF SlotsSinceIdle, Idle
<1>6. OpenCounted
  BY <1>1, <1>3 DEF OpenCounted
<1> QED
  BY <1>2, <1>5, <1>6 DEF Room

\* None is queued exactly when every asynchronous call had its Wait, and then
\* no slot is used.
LEMMA IdleSlots ==
    ASSUME SlotsAccounted, Room
    PROVE  /\ Idle(prog, ip) <=> open = <<>>
           /\ open = <<>> => scnt = 0
<1>1. ip \in Nat \ {0} /\ scnt \in Nat /\ open \in Seq(Nat \ {0}) /\ Len(open) \in Nat
  BY SemanticAssumption DEF SlotsAccounted, Counted
<1>2. \A op : \A c \in 1..ip : MadeBefore(prog, op, c) \in Nat
  <2>1. \A c \in 1..ip : c \in Nat \ {0}
    BY <1>1
  <2> QED
    BY <2>1, MadeNext
<1>3. ip \in 1..ip
  BY <1>1
<1>4. Idle(prog, ip) <=> Len(open) = 0
  BY <1>1, <1>2, <1>3 DEF Room, OpenCounted, Idle
<1>5. Idle(prog, ip) <=> open = <<>>
  BY <1>1, <1>4
<1>6. ASSUME Idle(prog, ip)
      PROVE  scnt = 0
  <2>1. PICK a \in 1..ip :
           /\ \A b \in (a + 1)..ip : ~Idle(prog, b)
           /\ MadeBefore(prog, "SSendRecvAsync", ip) = MadeBefore(prog, "SSendRecvAsync", a) + scnt
    BY DEF Room, SlotsSinceIdle
  <2>2. a = ip
    BY <1>1, <1>6, <2>1
  <2>3. MadeBefore(prog, "SSendRecvAsync", ip) \in Nat
    BY <1>2, <1>3
  <2> QED
    BY <1>1, <2>1, <2>2, <2>3
<1> QED
  BY <1>5, <1>6

\* The next call: with nothing queued after it the slots start again, else
\* they follow the asynchronous calls.
LEMMA RoomNext ==
    ASSUME SlotsAccounted, Room, Control', prog' = prog, ip' = ip + 1,
           open' \in Seq(Nat \ {0}), scnt' \in Nat, OpenCounted',
           open' = <<>> => scnt' = 0,
           open' # <<>> =>
               MadeBefore(prog, "SSendRecvAsync", ip + 1) + scnt
                   = MadeBefore(prog, "SSendRecvAsync", ip) + scnt'
    PROVE  Room'
<1> DEFINE M(a) == MadeBefore(prog, "SSendRecvAsync", a)
           W(a) == MadeBefore(prog, "SSendRecvWait", a)
<1>1. ip \in Nat \ {0} /\ scnt \in Nat /\ Len(open') \in Nat
  BY SemanticAssumption DEF SlotsAccounted, Counted
<1>2. \A a \in 1..(ip + 1) : M(a) \in Nat /\ W(a) \in Nat
  <2>1. \A a \in 1..(ip + 1) : a \in Nat \ {0}
    BY <1>1
  <2> QED
    BY <2>1, MadeNext
<1>3. Len(open') + W(ip + 1) = M(ip + 1)
  BY DEF OpenCounted
<1>4. ip \in 1..(ip + 1) /\ ip + 1 \in 1..(ip + 1)
  BY <1>1
<1>5. CASE open' = <<>>
  <2>1. Len(open') = 0
    BY <1>5
  <2>2. M(ip + 1) = W(ip + 1)
    <3> HIDE DEF M, W
    <3> QED
      BY <1>2, <1>3, <1>4, <2>1
  <2>3. Idle(prog, ip + 1)
    BY <2>2 DEF Idle
  <2>4. (ip + 1 + 1)..(ip + 1) = {}
    BY <1>1
  <2>5. M(ip + 1) = M(ip + 1) + scnt'
    <3> HIDE DEF M
    <3> QED
      BY <1>2, <1>4, <1>5
  <2>6. SlotsSinceIdle'
    BY <1>4, <2>3, <2>4, <2>5 DEF SlotsSinceIdle
  <2> QED
    BY <2>6 DEF Room
<1>6. CASE open' # <<>>
  <2>1. Len(open') # 0
    BY <1>6
  <2>2. M(ip + 1) # W(ip + 1)
    <3> HIDE DEF M, W
    <3> QED
      BY <1>1, <1>2, <1>3, <1>4, <2>1
  <2>3. ~Idle(prog, ip + 1)
    BY <2>2 DEF Idle
  <2>4. PICK a \in 1..ip :
           /\ Idle(prog, a)
           /\ \A b \in (a + 1)..ip : ~Idle(prog, b)
           /\ M(ip) = M(a) + scnt
    BY DEF Room, SlotsSinceIdle
  <2>5. a \in 1..(ip + 1) /\ \A b \in (a + 1)..(ip + 1) : b = ip + 1 \/ b \in (a + 1)..ip
    BY <1>1, <2>4
  <2>6. \A b \in (a + 1)..(ip + 1) : ~Idle(prog, b)
    BY <2>3, <2>4, <2>5
  <2>7. M(ip + 1) = M(a) + scnt'
    <3>1. M(ip + 1) + scnt = M(ip) + scnt'
      BY <1>6
    <3>2. M(ip + 1) \in Nat /\ M(ip) \in Nat /\ M(a) \in Nat
      BY <1>2, <1>4, <2>5
    <3>3. M(ip) = M(a) + scnt
      BY <2>4
    <3> HIDE DEF M
    <3> QED
      BY <1>1, <3>1, <3>2, <3>3
  <2>8. SlotsSinceIdle'
    BY <2>4, <2>5, <2>6, <2>7 DEF SlotsSinceIdle
  <2> QED
    BY <2>8 DEF Room
<1> QED
  BY <1>5, <1>6

LEMMA RoomStep ==
    ASSUME SlotsAccounted, Room, [Next]_vars
    PROVE  Room'
<1>1. Control /\ Control' /\ prog' = prog
  BY ControlKept DEF Room
<1>2. /\ ip \in Nat \ {0} /\ scnt \in Nat /\ pcnt \in Nat /\ scnt = pcnt + Len(open)
      /\ open \in Seq(Nat \ {0}) /\ Len(open) \in Nat
  BY SemanticAssumption DEF SlotsAccounted, Counted
<1>3. Len(open) + MadeBefore(prog, "SSendRecvWait", ip) = MadeBefore(prog, "SSendRecvAsync", ip)
  BY DEF Room, OpenCounted
<1>4. ASSUME UNCHANGED <<prog, ip, scnt, open>>
      PROVE  Room'
  BY <1>1, <1>4 DEF Room, OpenCounted, SlotsSinceIdle
<1>5. /\ MadeBefore(prog, "SSendRecvWait", ip) \in Nat /\ MadeBefore(prog, "SSendRecvAsync", ip) \in Nat
      /\ prog[ip].op = "SSendRecvWait" =>
            MadeBefore(prog, "SSendRecvWait", ip + 1) = MadeBefore(prog, "SSendRecvWait", ip) + 1
      /\ prog[ip].op # "SSendRecvWait" =>
            MadeBefore(prog, "SSendRecvWait", ip + 1) = MadeBefore(prog, "SSendRecvWait", ip)
      /\ prog[ip].op = "SSendRecvAsync" =>
            MadeBefore(prog, "SSendRecvAsync", ip + 1) = MadeBefore(prog, "SSendRecvAsync", ip) + 1
      /\ prog[ip].op # "SSendRecvAsync" =>
            MadeBefore(prog, "SSendRecvAsync", ip + 1) = MadeBefore(prog, "SSendRecvAsync", ip)
  <2>1. \A op : /\ MadeBefore(prog, op, ip) \in Nat
                /\ prog[ip].op = op => MadeBefore(prog, op, ip + 1) = MadeBefore(prog, op, ip) + 1
                /\ prog[ip].op # op => MadeBefore(prog, op, ip + 1) = MadeBefore(prog, op, ip)
    BY <1>2, MadeNext
  <2> QED
    BY <2>1
<1>6. CASE SSendRecvAsync
  <2>1. /\ prog[ip].op = "SSendRecvAsync" /\ ip' = ip + 1 /\ scnt' = scnt + 1
        /\ open' = Append(open, ip)
    BY <1>6 DEF SSendRecvAsync, Running
  <2>2. open' \in Seq(Nat \ {0}) /\ Len(open') = Len(open) + 1 /\ open' # <<>>
    BY <1>2, <2>1
  <2>3. OpenCounted'
    BY <1>1, <1>2, <1>3, <1>5, <2>1, <2>2 DEF OpenCounted
  <2>4. MadeBefore(prog, "SSendRecvAsync", ip + 1) + scnt = MadeBefore(prog, "SSendRecvAsync", ip) + scnt'
    BY <1>2, <1>5, <2>1
  <2> QED
    BY <1>1, <1>2, <2>1, <2>2, <2>3, <2>4, RoomNext
<1>7. CASE EndSSendRecv \/ EndCollect
  <2>1. /\ prog[ip].op \notin {"SSendRecvAsync", "SSendRecvWait"}
        /\ ip' = ip + 1 /\ scnt' = scnt /\ open' = open
    <3>1. CASE EndSSendRecv
      BY <1>1, <3>1 DEF EndSSendRecv, Process, Merge, Control
    <3>2. CASE EndCollect
      <4>1. pc = "blocking" /\ scnt' = scnt /\ open' = open
        BY <3>2 DEF EndCollect
      <4>2. ip' = ip + 1
        BY <3>2 DEF EndCollect, Merge
      <4> QED
        BY <1>1, <4>1, <4>2 DEF Control
    <3> QED
      BY <1>7, <3>1, <3>2
  <2>2. OpenCounted'
    BY <1>1, <1>3, <1>5, <2>1 DEF OpenCounted
  <2>3. MadeBefore(prog, "SSendRecvAsync", ip + 1) + scnt = MadeBefore(prog, "SSendRecvAsync", ip) + scnt'
    BY <1>2, <1>5, <2>1
  <2>4. open' = <<>> => scnt' = 0
    BY <2>1, IdleSlots
  <2> QED
    BY <1>1, <1>2, <2>1, <2>2, <2>3, <2>4, RoomNext
<1>8. CASE EndSSendRecvWait
  <2>1. /\ prog[ip].op = "SSendRecvWait" /\ open # <<>> /\ ip' = ip + 1 /\ open' = Tail(open)
        /\ scnt' = Counters(scnt, pcnt)[1]
    BY <1>1, <1>8 DEF EndSSendRecvWait, Process, Merge, Control, SlotsAccounted, Counted
  <2>2. open' \in Seq(Nat \ {0}) /\ Len(open) >= 1 /\ Len(open') = Len(open) - 1
    BY <1>2, <2>1
  <2>3. OpenCounted'
    BY <1>1, <1>2, <1>3, <1>5, <2>1, <2>2 DEF OpenCounted
  <2>4. scnt = pcnt + 1 => scnt' = 0
    BY <2>1 DEF Counters
  <2>5. scnt # pcnt + 1 => scnt' = scnt
    BY <2>1 DEF Counters
  <2>6. open' = <<>> <=> scnt = pcnt + 1
    <3>1. open' = <<>> <=> Len(open') = 0
      BY <2>2
    <3> QED
      BY <1>2, <2>2, <3>1
  <2>7. scnt' \in Nat
    BY <1>2, <2>4, <2>5
  <2>8. open' # <<>> =>
           MadeBefore(prog, "SSendRecvAsync", ip + 1) + scnt = MadeBefore(prog, "SSendRecvAsync", ip) + scnt'
    BY <1>2, <1>5, <2>1, <2>5, <2>6
  <2> QED
    BY <1>1, <1>2, <2>1, <2>2, <2>3, <2>4, <2>6, <2>7, <2>8, RoomNext
<1>9. CASE SSendRecv \/ SSendRecvWait \/ Collect
  BY <1>4, <1>9 DEF SSendRecv, SSendRecvWait, Collect
<1>10. ASSUME NEW m \in left, NEW j \in DOMAIN queue, Receive(m, j) \/ FillIn(m, j)
       PROVE  Room'
  BY <1>4, <1>10 DEF Receive, FillIn
<1>11. ASSUME NEW j \in DOMAIN queue, PostAfterSizes(j)
       PROVE  Room'
  BY <1>4, <1>11 DEF PostAfterSizes
<1>12. CASE Finished \/ UNCHANGED vars
  BY <1>4, <1>12 DEF Finished, vars
<1> QED
  BY <1>6, <1>7, <1>8, <1>9, <1>10, <1>11, <1>12 DEF Next

(* The slots are numbered through until none is queued and start again     *)
(* only then: a call of a program that keeps one queued runs past the      *)
(* arrays as soon as it is number NQUEUE + 1 since, and no call before it  *)
(* does, whatever the program, its results and the kinds of its calls.     *)
THEOREM SlotsCounted == Spec => []SlotsSinceIdle
<1>1. Init => Room
  BY RoomInit
<1>2. SlotsAccounted /\ Room /\ [Next]_vars => Room'
  BY RoomStep
<1>3. Room => SlotsSinceIdle
  BY DEF Room
<1>4. Spec => []SlotsAccounted
  BY Accounted
<1> QED
  BY <1>1, <1>2, <1>3, <1>4, PTL DEF Spec

=============================================================================
