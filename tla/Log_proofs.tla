----------------------------- MODULE Log_proofs -----------------------------
(***************************************************************************)
(* Theorems about Log: what a report says of sends and receives is true,   *)
(* for every number of ranks and slots and every program that is           *)
(* LogDisciplined.                                                         *)
(*                                                                         *)
(* The two lists are emptied at different places: req by execute, by the   *)
(* end of every slot and by the first call queued, s_log by the end of a   *)
(* slot of the barrier protocol only.  They stay in step because a         *)
(* synchronous send keeps its request as long as its call is queued: then  *)
(* only the end of such a slot empties anything.                           *)
(***************************************************************************)
EXTENDS Log, NBXQueue_proofs

\* Call c is queued with the barrier protocol.
Queued(p, c) ==
    \E i \in Slots : Live(p, i) /\ NBX_active[p][i] = "unknown" /\ slotCall[p][i] = c

KnownQueued(p) ==
    InKnown(p) \/ \E i \in Slots : Live(p, i) /\ NBX_active[p][i] # "unknown"

\* Reductions are waited for before an exchange begins or ends.
ReductionOpen(p, c) ==
    /\ c \in 1..(ip[p] - 1) /\ prog[c].op = "reduce"
    /\ \A e \in (c + 1)..(ip[p] - 1) : prog[e].op \notin Executes
    /\ ~Waiting(p)

\* What each request of the vector is for.
RequestsRight(p) ==
    \A r \in req[p] :
        \/ /\ r.op = "issend" /\ r.of.cls = "sparse" /\ r.of.src = p
           /\ r.of.dst \in Proc /\ Queued(p, r.of.call)
        \/ r.op \in {"isend", "irecv"} /\ KnownQueued(p)
        \/ r.op = "reduce" /\ ReductionOpen(p, r.of.call)

Sends(p) == {r \in req[p] : r.op = "issend"}
OneEntry(p) == \A r, s \in Sends(p) : Logged(r.of) = Logged(s.of) => r = s
SendsLogged(p) == s_log[p] = {Logged(r.of) : r \in Sends(p)}
ReceivesLogged(p) == \A e \in r_log[p] : Queued(p, e.call)

\* No call is in a slot and finished.
Unfinished(p) ==
    /\ finished[p] \subseteq 1..(ip[p] - 1)
    /\ \A i \in Slots : Live(p, i) => slotCall[p][i] \notin finished[p]

LogInv(p) ==
    RequestsRight(p) /\ OneEntry(p) /\ SendsLogged(p) /\ ReceivesLogged(p) /\ Unfinished(p)

(* The inductive invariant, beside that of the queue. *)
LogIInv ==
    /\ DOMAIN s_log = Proc /\ DOMAIN r_log = Proc
    /\ \A p \in Proc : LogInv(p)

----------------------------------------------------------------------------
(* One rank at a time.                                                     *)

\* What LogInv looks at.
SameQueue(q) ==
    /\ prog' = prog /\ ip'[q] = ip[q] /\ pc'[q] = pc[q] /\ qcnt'[q] = qcnt[q]
    /\ NBX_active'[q] = NBX_active[q] /\ slotCall'[q] = slotCall[q]
    /\ finished'[q] = finished[q] /\ req'[q] = req[q]
SameLog(q) == s_log'[q] = s_log[q] /\ r_log'[q] = r_log[q]

LEMMA LogUntouched ==
    ASSUME NEW q, SameQueue(q), SameLog(q), LogInv(q)
    PROVE  LogInv(q)'
<1> USE DEF SameQueue, SameLog
<1>1. Waiting(q)' = Waiting(q) /\ InKnown(q)' = InKnown(q)
  BY Zenon DEF Waiting, InKnown
<1>2. \A i \in Slots : Live(q, i)' = Live(q, i)
  BY DEF Live
<1>3. \A c : Queued(q, c)' = Queued(q, c)
  BY <1>2 DEF Queued
<1>4. KnownQueued(q)' = KnownQueued(q)
  BY <1>1, <1>2 DEF KnownQueued
<1>5. \A c : ReductionOpen(q, c)' = ReductionOpen(q, c)
  BY <1>1 DEF ReductionOpen
<1>6. RequestsRight(q)'
  BY <1>3, <1>4, <1>5, Zenon DEF LogInv, RequestsRight
<1>7. Sends(q)' = Sends(q)
  BY DEF Sends
<1>8. OneEntry(q)' /\ SendsLogged(q)'
  BY <1>7, Zenon DEF LogInv, OneEntry, SendsLogged
<1>9. ReceivesLogged(q)'
  BY <1>3, Zenon DEF LogInv, ReceivesLogged
<1>10. Unfinished(q)'
  BY <1>2, Zenon DEF LogInv, Unfinished
<1> QED
  BY <1>6, <1>8, <1>9, <1>10 DEF LogInv

\* A step of rank p, and nobody else's.
LEMMA LogOfRank ==
    ASSUME LogIInv, NEW p \in Proc, \A q \in Proc \ {p} : SameQueue(q) /\ SameLog(q),
           DOMAIN s_log' = Proc, DOMAIN r_log' = Proc, LogInv(p)'
    PROVE  LogIInv'
<1>1. ASSUME NEW q \in Proc, q # p
      PROVE  LogInv(q)'
  BY <1>1, LogUntouched DEF LogIInv
<1> QED
  BY <1>1 DEF LogIInv

\* With no call of the barrier protocol queued there is nothing in the log.
LEMMA NothingLogged ==
    ASSUME NEW p \in Proc, LogInv(p),
           \A i \in Slots : ~(Live(p, i) /\ NBX_active[p][i] = "unknown")
    PROVE  /\ \A c : ~Queued(p, c)
           /\ Sends(p) = {} /\ s_log[p] = {} /\ r_log[p] = {}
<1>1. \A c : ~Queued(p, c)
  BY DEF Queued
<1>2. ASSUME NEW r \in Sends(p)
      PROVE  FALSE
  BY <1>1, <1>2 DEF Sends, LogInv, RequestsRight
<1>3. s_log[p] = {}
  BY <1>2 DEF LogInv, SendsLogged
<1> QED
  BY <1>1, <1>2, <1>3 DEF LogInv, ReceivesLogged

\* The calls that the rank has finished.
LEMMA FinishedType ==
    ASSUME IInv, NEW p \in Proc, LogInv(p)
    PROVE  /\ finished[p] \subseteq Nat /\ ip[p] \in Nat \ {0}
           /\ \A c \in finished[p] : c < ip[p]
<1>1. ip[p] \in Nat \ {0} /\ finished[p] \subseteq 1..(ip[p] - 1)
  BY RankTypes DEF IInv, LogInv, Unfinished
<1> QED
  BY <1>1

\* At an execute nothing of the barrier protocol is queued.
LEMMA ExecutesAlone ==
    ASSUME IInv, LogDisciplined, NEW p \in Proc, ~Waiting(p), ip[p] <= Len(prog),
           prog[ip[p]].op \in Executes
    PROVE  \A i \in Slots : ~(Live(p, i) /\ NBX_active[p][i] = "unknown")
<1> SUFFICES ASSUME NEW i \in Slots, Live(p, i), NBX_active[p][i] = "unknown"
             PROVE  FALSE
  OBVIOUS
<1>1. ~InSync(p)
  BY DEF InSync
<1>2. /\ slotCall[p][i] \in DOMAIN prog /\ prog[slotCall[p][i]].op = "unknown"
      /\ slotCall[p][i] < ip[p] /\ SameBatch(prog, slotCall[p][i], ip[p])
  BY <1>1, LiveUnknown
<1>3. /\ ip[p] \in DOMAIN prog /\ ip[p] \in Nat
      /\ slotCall[p][i] \in 1..(ip[p] - 1)
  BY <1>2, RankTypes, ProgramType DEF IInv
<1>4. ExecuteAlone(prog)
  BY DEF LogDisciplined, IInv
<1> QED
  BY <1>2, <1>3, <1>4 DEF ExecuteAlone, Pending

\* No request of a reduction is held where an exchange begins or ends.
LEMMA NoReduceRequest ==
    ASSUME IInv, LogDisciplined, NEW p \in Proc, LogInv(p), ip[p] <= Len(prog),
           prog[ip[p]].op \in {"unknown", "sync", "wait"}
    PROVE  \A r \in req[p] : r.op # "reduce"
<1> SUFFICES ASSUME NEW r \in req[p], r.op = "reduce"
             PROVE  FALSE
  OBVIOUS
<1>1. ReductionOpen(p, r.of.call)
  BY DEF LogInv, RequestsRight
<1>2. PICK c : c = r.of.call
  OBVIOUS
<1>3. /\ c \in 1..(ip[p] - 1) /\ prog[c].op = "reduce"
      /\ \A e \in (c + 1)..(ip[p] - 1) : prog[e].op \notin Executes
  BY <1>1, <1>2 DEF ReductionOpen
<1>4. ip[p] \in DOMAIN prog /\ c \in DOMAIN prog /\ c < ip[p]
  BY <1>3, RankTypes, ProgramType DEF IInv
<1>5. ReduceExecuted(prog)
  BY ProgramDisciplined DEF IInv, LogDisciplined
<1> QED
  BY <1>3, <1>4, <1>5 DEF ReduceExecuted

----------------------------------------------------------------------------
(* What several actions do alike.                                          *)

\* The slots that a rank has in use stay so.
KeepsSlots(p) ==
    \A i \in Slots : Live(p, i) =>
        Live(p, i)' /\ NBX_active'[p][i] = NBX_active[p][i] /\ slotCall'[p][i] = slotCall[p][i]

\* req is left alone: a rank goes on, in a call or to the next one.
LEMMA LogMovesOn ==
    ASSUME IInv, NEW p \in Proc, LogInv(p), prog' = prog, req'[p] = req[p],
           s_log'[p] = s_log[p], finished'[p] = finished[p],
           \A e \in r_log'[p] : e \in r_log[p] \/ Queued(p, e.call),
           KeepsSlots(p), \A i \in Slots : Live(p, i)' => Live(p, i),
           ~InKnown(p), ~Waiting(p)' \/ \A r \in req[p] : r.op # "reduce",
           \/ ip'[p] = ip[p]
           \/ ip'[p] = ip[p] + 1 /\ prog[ip[p]].op \notin Executes
    PROVE  LogInv(p)'
<1>1. ASSUME NEW c, Queued(p, c)
      PROVE  Queued(p, c)'
  BY <1>1 DEF Queued, KeepsSlots
<1>2. KnownQueued(p) => KnownQueued(p)'
  BY DEF KnownQueued, KeepsSlots
<1>3. ip[p] \in Nat \ {0}
  BY RankTypes DEF IInv
<1>4. ASSUME NEW r \in req[p], r.op = "reduce", ReductionOpen(p, r.of.call)
      PROVE  ReductionOpen(p, r.of.call)'
  <2>1. PICK c : c = r.of.call
    OBVIOUS
  <2>2. /\ c \in 1..(ip[p] - 1) /\ prog[c].op = "reduce"
        /\ \A e \in (c + 1)..(ip[p] - 1) : prog[e].op \notin Executes
    BY <1>4, <2>1 DEF ReductionOpen
  <2>3. ~Waiting(p)'
    BY <1>4
  <2>4. c \in 1..(ip'[p] - 1) /\ \A e \in (c + 1)..(ip'[p] - 1) : prog'[e].op \notin Executes
    BY <1>3, <2>2
  <2>5. ReductionOpen(p, c)'
    BY <2>2, <2>3, <2>4 DEF ReductionOpen
  <2> QED
    BY <1>4, <2>1, <2>2, <2>3, <2>4 DEF ReductionOpen
<1>5. RequestsRight(p)'
  <2> SUFFICES ASSUME NEW r \in req[p]
               PROVE  \/ /\ r.op = "issend" /\ r.of.cls = "sparse" /\ r.of.src = p
                         /\ r.of.dst \in Proc /\ Queued(p, r.of.call)'
                      \/ r.op \in {"isend", "irecv"} /\ KnownQueued(p)'
                      \/ r.op = "reduce" /\ ReductionOpen(p, r.of.call)'
    BY Zenon DEF RequestsRight
  <2> QED
    BY <1>1, <1>2, <1>4, Zenon DEF LogInv, RequestsRight
<1>6. Sends(p)' = Sends(p)
  BY DEF Sends
<1>7. OneEntry(p)' /\ SendsLogged(p)'
  BY <1>6, Zenon DEF LogInv, OneEntry, SendsLogged
<1>8. ReceivesLogged(p)'
  BY <1>1, Zenon DEF LogInv, ReceivesLogged
<1>9. Unfinished(p)'
  <2>1. finished[p] \subseteq 1..(ip'[p] - 1)
    BY <1>3 DEF LogInv, Unfinished
  <2>2. \A i \in Slots : Live(p, i)' => slotCall'[p][i] \notin finished[p]
    BY DEF LogInv, Unfinished, KeepsSlots
  <2> QED
    BY <2>1, <2>2, Zenon DEF Unfinished
<1> QED
  BY <1>5, <1>7, <1>8, <1>9 DEF LogInv

\* Everything is emptied.
LEMMA LogEmptied ==
    ASSUME NEW p \in Proc, req'[p] = {}, s_log'[p] = {}, r_log'[p] = {}, Unfinished(p)'
    PROVE  LogInv(p)'
<1>1. Sends(p)' = {}
  BY DEF Sends
<1> QED
  BY <1>1 DEF LogInv, RequestsRight, OneEntry, SendsLogged, ReceivesLogged

\* send() and recv() for a call with known receivers.
LEMMA LogPosts ==
    ASSUME IInv, NEW p \in Proc, LogInv(p), prog' = prog,
           NEW held, held = req[p] \/ (held = {} /\ Sends(p) = {}),
           \A r \in req'[p] : r \in held \/ r.op \in {"isend", "irecv"},
           held \subseteq req'[p], KnownQueued(p)', KeepsSlots(p),
           held = {} \/ ~Waiting(p)',
           s_log'[p] = s_log[p], r_log'[p] = r_log[p],
           \/ ip'[p] = ip[p]
           \/ ip'[p] = ip[p] + 1 /\ prog[ip[p]].op \notin Executes,
           Unfinished(p)'
    PROVE  LogInv(p)'
<1>1. ASSUME NEW c, Queued(p, c)
      PROVE  Queued(p, c)'
  BY <1>1 DEF Queued, KeepsSlots
<1>3. ip[p] \in Nat \ {0}
  BY RankTypes DEF IInv
<1>4. ASSUME NEW r \in held, r.op = "reduce", ReductionOpen(p, r.of.call)
      PROVE  ReductionOpen(p, r.of.call)'
  <2>1. PICK c : c = r.of.call
    OBVIOUS
  <2>2. /\ c \in 1..(ip[p] - 1) /\ prog[c].op = "reduce"
        /\ \A e \in (c + 1)..(ip[p] - 1) : prog[e].op \notin Executes
    BY <1>4, <2>1 DEF ReductionOpen
  <2>3. ~Waiting(p)'
    BY <1>4
  <2>4. c \in 1..(ip'[p] - 1) /\ \A e \in (c + 1)..(ip'[p] - 1) : prog'[e].op \notin Executes
    BY <1>3, <2>2
  <2> QED
    BY <1>4, <2>1, <2>2, <2>3, <2>4 DEF ReductionOpen
<1>5. RequestsRight(p)'
  <2> SUFFICES ASSUME NEW r \in req'[p]
               PROVE  \/ /\ r.op = "issend" /\ r.of.cls = "sparse" /\ r.of.src = p
                         /\ r.of.dst \in Proc /\ Queued(p, r.of.call)'
                      \/ r.op \in {"isend", "irecv"} /\ KnownQueued(p)'
                      \/ r.op = "reduce" /\ ReductionOpen(p, r.of.call)'
    BY Zenon DEF RequestsRight
  <2>1. CASE r \in held
    <3>1. r \in req[p]
      BY <2>1
    <3> QED
      BY <1>1, <1>4, <2>1, <3>1, Zenon DEF LogInv, RequestsRight
  <2> QED
    BY <2>1
<1>6. Sends(p)' = Sends(p)
  <2>1. ASSUME NEW r
        PROVE  r \in Sends(p)' <=> r \in Sends(p)
    BY DEF Sends
  <2> QED
    BY <2>1
<1>7. OneEntry(p)' /\ SendsLogged(p)'
  BY <1>6, Zenon DEF LogInv, OneEntry, SendsLogged
<1>8. ReceivesLogged(p)'
  BY <1>1, Zenon DEF LogInv, ReceivesLogged
<1> QED
  BY <1>5, <1>7, <1>8 DEF LogInv

----------------------------------------------------------------------------
(* Queueing.                                                               *)

\* The messages of a call that rank p sends, as the log names them.
LEMMA OutgoingLogged ==
    ASSUME NEW p, NEW c, NEW cls, NEW part, NEW cnt
    PROVE  {Logged(m) : m \in Outgoing(p, c, cls, part, cnt)} =
             {[prc |-> s.dst, call |-> c] : s \in {t \in prog[c].sends : t.src = p}}
<1> DEFINE S == {t \in prog[c].sends : t.src = p}
           Message(s) == [cls |-> cls, src |-> p, dst |-> s.dst, sz |-> s.sz, part |-> part,
                          call |-> c, cnt |-> cnt, round |-> posts[p], idx |-> 0]
<1>1. Outgoing(p, c, cls, part, cnt) = {Message(s) : s \in S}
  BY DEF Outgoing
<1>2. \A s \in S : Logged(Message(s)) = [prc |-> s.dst, call |-> c]
  BY DEF Logged
<1> HIDE DEF S, Message
<1>3. {Logged(m) : m \in {Message(s) : s \in S}} = {[prc |-> s.dst, call |-> c] : s \in S}
  BY <1>2
<1> QED
  BY <1>1, <1>3 DEF S

LEMMA RequestsLogged ==
    ASSUME NEW op, NEW S
    PROVE  {Logged(r.of) : r \in Requests(op, S)} = {Logged(m) : m \in S}
<1>1. ASSUME NEW m \in S
      PROVE  \E r \in Requests(op, S) : r.of = m
  <2>1. [op |-> op, of |-> m] \in Requests(op, S)
    BY DEF Requests
  <2> QED
    BY <2>1
<1>2. ASSUME NEW r \in Requests(op, S)
      PROVE  r.of \in S
  BY <1>2 DEF Requests
<1> QED
  BY <1>1, <1>2

\* At most one message between two ranks: its entry tells which it is.
LEMMA OutgoingOnce ==
    ASSUME LogDisciplined, prog \in Programs, NEW p, NEW c \in DOMAIN prog, NEW cnt,
           NEW m \in Outgoing(p, c, "sparse", "data", cnt),
           NEW n \in Outgoing(p, c, "sparse", "data", cnt), Logged(m) = Logged(n)
    PROVE  m = n
<1>1. OneEach(prog)
  BY DEF LogDisciplined
<1>2. PICK s \in {t \in prog[c].sends : t.src = p} :
         m = [cls |-> "sparse", src |-> p, dst |-> s.dst, sz |-> s.sz, part |-> "data", call |-> c,
              cnt |-> cnt, round |-> posts[p], idx |-> 0]
  BY DEF Outgoing
<1>3. PICK u \in {t \in prog[c].sends : t.src = p} :
         n = [cls |-> "sparse", src |-> p, dst |-> u.dst, sz |-> u.sz, part |-> "data", call |-> c,
              cnt |-> cnt, round |-> posts[p], idx |-> 0]
  BY DEF Outgoing
<1>4. s.dst = u.dst
  BY <1>2, <1>3 DEF Logged
<1>5. s = u
  BY <1>1, <1>4 DEF OneEach
<1> QED
  BY <1>2, <1>3, <1>5

LEMMA LogQueueUnknown ==
    ASSUME IInv, LogIInv, LogDisciplined, NEW p \in Proc, QueueUnknown(p), logSend(p), UNCHANGED r_log
    PROVE  LogIInv'
<1>b. PICK slot : slot = qcnt[p] + 1
  OBVIOUS
<1> DEFINE out == Outgoing(p, ip[p], "sparse", "data", NBX_cnt[p] + slot)
           held == IF slot = 0 THEN {} ELSE req[p]
           new == Requests("issend", out)
<1>0. LogInv(p)
  BY DEF LogIInv
<1>1. /\ pc[p] = "app" /\ ip[p] <= Len(prog)
      /\ Call(p).op \in {"unknown", "sync"}
      /\ Call(p).op = "sync" => slot = 0
      /\ slot \in Slots
      /\ UNCHANGED <<prog, finished>>
      /\ ip' = IF Call(p).op = "sync" THEN ip ELSE [ip EXCEPT ![p] = ip[p] + 1]
      /\ pc' = IF Call(p).op = "sync" THEN [pc EXCEPT ![p] = "wait"] ELSE pc
      /\ qcnt' = [qcnt EXCEPT ![p] = slot]
      /\ NBX_active' = [NBX_active EXCEPT ![p][slot] = "unknown"]
      /\ slotCall' = [slotCall EXCEPT ![p][slot] = ip[p]]
      /\ req' = [req EXCEPT ![p] = held \cup new]
  BY <1>b, QueueUnknownEffect
<1>2. /\ qcnt[p] \in Int /\ qcnt[p] >= -1 /\ ip[p] \in Nat \ {0}
      /\ ip[p] \in DOMAIN prog /\ ip[p] \in 1..Len(prog)
      /\ \A i \in Slots : i \in Nat /\ slotCall[p][i] \in Nat
  BY <1>1, RankTypes, ProgramType DEF IInv
<1>3. ~Waiting(p) /\ ~InSync(p) /\ ~InKnown(p)
  BY <1>1 DEF Waiting, InSync, InKnown
<1>4. /\ qcnt'[p] = slot /\ req'[p] = held \cup new
      /\ \A i \in Slots : /\ NBX_active'[p][i] = IF i = slot THEN "unknown" ELSE NBX_active[p][i]
                          /\ slotCall'[p][i] = IF i = slot THEN ip[p] ELSE slotCall[p][i]
  BY <1>1, Domains
<1>5. ip'[p] = ip[p] \/ (ip'[p] = ip[p] + 1 /\ prog[ip[p]].op \notin Executes /\ ~Waiting(p)')
  BY <1>1, Domains DEF Call, Executes, Waiting
<1>6. \A q \in Proc \ {p} : SameQueue(q)
  BY <1>1, Domains DEF SameQueue
<1>7. KeepsSlots(p) /\ Live(p, slot)' /\ \A i \in Slots : Live(p, i)' => i = slot \/ Live(p, i)
  <2>1. ASSUME NEW i \in Slots, Live(p, i)
        PROVE  i # slot /\ i <= slot /\ NBX_active[p][i] # "unactive"
    BY <1>2, <1>b, <2>1 DEF Live
  <2>2. ASSUME NEW i \in Slots, i <= slot, i # slot
        PROVE  i <= qcnt[p]
    BY <1>2, <1>b, <2>2
  <2>3. ASSUME NEW i \in Slots, Live(p, i)
        PROVE  Live(p, i)' /\ NBX_active'[p][i] = NBX_active[p][i] /\ slotCall'[p][i] = slotCall[p][i]
    BY <1>4, <2>1, <2>3 DEF Live
  <2>4. slot <= slot /\ NBX_active'[p][slot] = "unknown"
    BY <1>1, <1>2, <1>4
  <2>5. Live(p, slot)'
    BY <1>4, <2>4 DEF Live
  <2>6. ASSUME NEW i \in Slots, Live(p, i)', i # slot
        PROVE  Live(p, i)
    BY <1>4, <2>2, <2>6 DEF Live
  <2> QED
    BY <2>3, <2>5, <2>6 DEF KeepsSlots
<1>8. ASSUME NEW c, Queued(p, c)
      PROVE  Queued(p, c)' /\ c < ip[p]
  <2>1. PICK i \in Slots : Live(p, i) /\ NBX_active[p][i] = "unknown" /\ slotCall[p][i] = c
    BY <1>8 DEF Queued
  <2>2. c < ip[p]
    BY <1>3, <2>1, LiveUnknown
  <2> QED
    BY <1>7, <2>1, <2>2 DEF Queued, KeepsSlots
<1>a. PICK me : me = ip[p]
  OBVIOUS
<1>9. Queued(p, me)'
  BY <1>1, <1>4, <1>7, <1>a DEF Queued
<1>10. slot = 0 => Sends(p) = {} /\ s_log[p] = {} /\ r_log[p] = {}
  <2> SUFFICES ASSUME slot = 0
               PROVE  Sends(p) = {} /\ s_log[p] = {} /\ r_log[p] = {}
    OBVIOUS
  <2>1. qcnt[p] = -1
    BY <1>2, <1>b
  <2>2. \A i \in Slots : ~Live(p, i)
    BY <2>1, UnreachedLive
  <2> QED
    BY <1>0, <2>2, NothingLogged
<1>11. ASSUME NEW r \in new
       PROVE  /\ r.op = "issend" /\ r.of \in out /\ r = [op |-> "issend", of |-> r.of]
              /\ r.of.cls = "sparse" /\ r.of.src = p /\ r.of.dst \in Proc /\ r.of.call = ip[p]
  <2>1. PICK m \in out : r = [op |-> "issend", of |-> m]
    BY DEF Requests
  <2>2. m.dst \in Proc /\ m.src = p /\ m.cls = "sparse" /\ m.call = ip[p]
    BY <1>2, OutgoingTypes DEF IInv
  <2> QED
    BY <2>1, <2>2
<1> HIDE DEF out, new
<1>12. RequestsRight(p)'
  <2> SUFFICES ASSUME NEW r \in req'[p]
               PROVE  \/ /\ r.op = "issend" /\ r.of.cls = "sparse" /\ r.of.src = p
                         /\ r.of.dst \in Proc /\ Queued(p, r.of.call)'
                      \/ r.op \in {"isend", "irecv"} /\ KnownQueued(p)'
                      \/ r.op = "reduce" /\ ReductionOpen(p, r.of.call)'
    BY Zenon DEF RequestsRight
  <2>1. CASE r \in new
    BY <1>9, <1>11, <1>a, <2>1
  <2>2. CASE r \notin new
    <3>1. r \in req[p] /\ slot # 0
      BY <1>4, <2>2
    <3>2. r.op # "reduce"
      BY <1>0, <1>1, <3>1, NoReduceRequest DEF Call
    <3>3. KnownQueued(p) => KnownQueued(p)'
      BY <1>3, <1>7 DEF KnownQueued, KeepsSlots
    <3> QED
      BY <1>0, <1>8, <3>1, <3>2, <3>3 DEF LogInv, RequestsRight
  <2> QED
    BY <2>1, <2>2
<1>13. \A r : r \in Sends(p)' <=> r \in new \/ r \in Sends(p)
  BY <1>4, <1>10, <1>11 DEF Sends
<1>14. ASSUME NEW r \in Sends(p)
       PROVE  r.of.call < ip[p]
  BY <1>0, <1>8 DEF LogInv, RequestsRight, Sends
<1>15. OneEntry(p)'
  <2> SUFFICES ASSUME NEW r \in Sends(p)', NEW s \in Sends(p)', Logged(r.of) = Logged(s.of)
               PROVE  r = s
    BY Zenon DEF OneEntry
  <2>0. r.of.call = s.of.call
    BY DEF Logged
  <2>1. CASE r \in new /\ s \in new
    <3>1. r.of = s.of
      BY <1>2, <1>11, <2>1, OutgoingOnce DEF out, IInv
    <3> QED
      BY <1>11, <2>1, <3>1
  <2>2. CASE r \in Sends(p) /\ s \in Sends(p)
    BY <1>0, <2>2 DEF LogInv, OneEntry
  <2>3. CASE r \in new /\ s \in Sends(p)
    BY <1>2, <1>11, <1>14, <2>0, <2>3
  <2>4. CASE s \in new /\ r \in Sends(p)
    BY <1>2, <1>11, <1>14, <2>0, <2>4
  <2> QED
    BY <1>13, <2>1, <2>2, <2>3, <2>4
<1>16. SendsLogged(p)'
  <2>1. s_log'[p] = s_log[p] \cup {Logged(m) : m \in out}
    <3>1. s_log'[p] = s_log[p] \cup {Logged(m) : m \in Outgoing(p, ip[p], "sparse", "data", 0)}
      BY DEF logSend, LogIInv
    <3> QED
      BY <3>1, OutgoingLogged, ZenonT(60) DEF out
  <2>2. {Logged(r.of) : r \in new} = {Logged(m) : m \in out}
    BY RequestsLogged DEF new
  <2>3. {Logged(r.of) : r \in Sends(p)'} = {Logged(r.of) : r \in new} \cup {Logged(r.of) : r \in Sends(p)}
    BY <1>13
  <2> QED
    BY <1>0, <2>1, <2>2, <2>3 DEF LogInv, SendsLogged
<1>17. ReceivesLogged(p)'
  BY <1>0, <1>8 DEF LogInv, ReceivesLogged
<1>18. Unfinished(p)'
  <2>1. finished[p] \subseteq Nat /\ \A c \in finished[p] : c < ip[p]
    BY <1>0, FinishedType
  <2>2. finished[p] \subseteq 1..(ip'[p] - 1)
    BY <1>0, <1>2, <1>5 DEF LogInv, Unfinished
  <2>3. ASSUME NEW i \in Slots, Live(p, i)'
        PROVE  slotCall'[p][i] \notin finished[p]
    <3>1. CASE i = slot
      BY <1>2, <1>4, <2>1, <3>1
    <3>2. CASE i # slot
      BY <1>0, <1>4, <1>7, <2>3, <3>2 DEF LogInv, Unfinished
    <3> QED
      BY <3>1, <3>2
  <2> QED
    BY <1>1, <2>2, <2>3, Zenon DEF Unfinished
<1>19. LogInv(p)'
  BY <1>12, <1>15, <1>16, <1>17, <1>18 DEF LogInv
<1>20. DOMAIN s_log' = Proc /\ DOMAIN r_log' = Proc /\ \A q \in Proc \ {p} : SameLog(q)
  BY DEF LogIInv, logSend, SameLog
<1> QED
  BY <1>6, <1>19, <1>20, LogOfRank


----------------------------------------------------------------------------
(* Progress, and the steps that leave the requests alone.                  *)

\* What a rank receives is of a call that it has queued.
LEMMA ReceiptsQueued ==
    ASSUME IInv, LogIInv, NEW p \in Proc, progressCommunication(p), logRecv(p)
    PROVE  /\ DOMAIN r_log' = Proc
           /\ \A q \in Proc \ {p} : r_log'[q] = r_log[q]
           /\ \A e \in r_log'[p] : e \in r_log[p] \/ Queued(p, e.call)
<1> DEFINE fresh == {[prc |-> g.msg.src, call |-> g.call] : g \in got'[p] \ got[p]}
<1>1. ASSUME NEW m \in flight, ProgressReceive(p, m), NEW g \in got'[p] \ got[p]
      PROVE  Queued(p, g.call)
  <2>1. PICK slot : slot = SlotOf(p, m)
    OBVIOUS
  <2>2. /\ slot \in Slots /\ NBX_active[p][slot] = "unknown" /\ slot <= qcnt[p]
        /\ got' = [got EXCEPT ![p] = got[p] \cup
              {[call |-> slotCall[p][slot], part |-> "data", sz |-> m.sz, msg |-> m]}]
    BY <1>1, <2>1 DEF ProgressReceive, Polling
  <2>3. g = [call |-> slotCall[p][slot], part |-> "data", sz |-> m.sz, msg |-> m]
    BY <1>1, <2>2
  <2>4. Live(p, slot)
    BY <2>2 DEF Live
  <2> QED
    BY <2>2, <2>3, <2>4 DEF Queued
<1>2. ASSUME NEW g \in got'[p] \ got[p]
      PROVE  Queued(p, g.call)
  BY <1>1, <1>2 DEF progressCommunication, ProgressForeign, ProgressNothing
<1>3. \A e \in fresh : Queued(p, e.call)
  BY <1>2
<1>4. r_log' = [r_log EXCEPT ![p] = r_log[p] \cup fresh]
  BY DEF logRecv
<1> HIDE DEF fresh
<1> QED
  BY <1>3, <1>4 DEF LogIInv

LEMMA LogUserProgress ==
    ASSUME IInv, LogIInv, NEW p \in Proc, UserProgress(p), logRecv(p), UNCHANGED s_log
    PROVE  LogIInv'
<1>1. /\ pc[p] = "app" /\ ip[p] <= Len(prog) /\ prog[ip[p]].op = "progress"
      /\ progressCommunication(p)
      /\ ip' = [ip EXCEPT ![p] = ip[p] + 1] /\ pc' = pc
  BY DEF UserProgress, Running, Call, NextCall
<1>2. UNCHANGED <<prog, qcnt, NBX_active, req, slotCall, finished>>
  BY <1>1 DEF progressCommunication
<1>3. ip'[p] = ip[p] + 1 /\ \A q \in Proc \ {p} : ip'[q] = ip[q]
  BY <1>1, Domains
<1>4. ~InKnown(p) /\ ~Waiting(p)'
  BY <1>1 DEF InKnown, Waiting
<1>5. KeepsSlots(p) /\ \A i \in Slots : Live(p, i)' => Live(p, i)
  BY <1>2 DEF KeepsSlots, Live
<1>6. prog[ip[p]].op \notin Executes
  BY <1>1 DEF Executes
<1>7. LogInv(p)'
  BY <1>1, <1>2, <1>3, <1>4, <1>5, <1>6, ReceiptsQueued, LogMovesOn DEF LogIInv
<1>8. \A q \in Proc \ {p} : SameQueue(q) /\ SameLog(q)
  BY <1>1, <1>2, <1>3, ReceiptsQueued DEF SameQueue, SameLog
<1> QED
  BY <1>1, <1>7, <1>8, ReceiptsQueued, LogOfRank DEF LogIInv

LEMMA LogWaitProgress ==
    ASSUME IInv, LogIInv, NEW p \in Proc, WaitProgress(p), logRecv(p), UNCHANGED s_log
    PROVE  LogIInv'
<1>1. /\ pc[p] = "wait" /\ progressCommunication(p)
      /\ ip' = ip /\ pc' = [pc EXCEPT ![p] = "test"]
  BY DEF WaitProgress, InSlot
<1>2. UNCHANGED <<prog, qcnt, NBX_active, req, slotCall, finished>>
  BY <1>1 DEF progressCommunication
<1>3. \A q \in Proc \ {p} : pc'[q] = pc[q]
  BY <1>1, Domains
<1>4. Waiting(p) /\ ~InKnown(p)
  BY <1>1 DEF InKnown, Waiting
<1>5. KeepsSlots(p) /\ \A i \in Slots : Live(p, i)' => Live(p, i)
  BY <1>2 DEF KeepsSlots, Live
<1>6. \A r \in req[p] : r.op # "reduce"
  BY <1>4 DEF LogIInv, LogInv, RequestsRight, ReductionOpen
<1>7. LogInv(p)'
  BY <1>1, <1>2, <1>4, <1>5, <1>6, ReceiptsQueued, LogMovesOn DEF LogIInv
<1>8. \A q \in Proc \ {p} : SameQueue(q) /\ SameLog(q)
  BY <1>1, <1>2, <1>3, ReceiptsQueued DEF SameQueue, SameLog
<1> QED
  BY <1>1, <1>7, <1>8, ReceiptsQueued, LogOfRank DEF LogIInv

LEMMA LogWaitAgain ==
    ASSUME IInv, LogIInv, NEW p \in Proc, WaitAgain(p), UNCHANGED <<s_log, r_log>>
    PROVE  LogIInv'
<1>1. /\ pc[p] = "test" /\ pc' = [pc EXCEPT ![p] = "wait"]
      /\ UNCHANGED <<prog, ip, qcnt, NBX_active, req, slotCall, finished>>
  BY DEF WaitAgain
<1>2. \A q \in Proc \ {p} : pc'[q] = pc[q]
  BY <1>1, Domains
<1>3. Waiting(p) /\ ~InKnown(p)
  BY <1>1 DEF InKnown, Waiting
<1>4. KeepsSlots(p) /\ \A i \in Slots : Live(p, i)' => Live(p, i)
  BY <1>1 DEF KeepsSlots, Live
<1>5. \A r \in req[p] : r.op # "reduce"
  BY <1>3 DEF LogIInv, LogInv, RequestsRight, ReductionOpen
<1>6. LogInv(p)'
  BY <1>1, <1>3, <1>4, <1>5, LogMovesOn DEF LogIInv
<1>7. \A q \in Proc \ {p} : SameQueue(q) /\ SameLog(q)
  BY <1>1, <1>2 DEF SameQueue, SameLog
<1> QED
  BY <1>6, <1>7, LogOfRank DEF LogIInv

LEMMA LogRefused ==
    ASSUME IInv, LogIInv, NEW p \in Proc, Refused(p), UNCHANGED <<s_log, r_log>>
    PROVE  LogIInv'
<1>1. /\ pc[p] = "app" /\ prog[ip[p]].op \in {"known", "known_prc", "sync"}
      /\ qcnt[p] + 1 >= NQUEUE \/ qcnt[p] + 1 # 0
      /\ qcnt' = [qcnt EXCEPT ![p] = qcnt[p] + 1]
      /\ ip' = [ip EXCEPT ![p] = ip[p] + 1]
      /\ UNCHANGED <<prog, pc, NBX_active, req, slotCall, finished>>
  BY DEF Refused, Running, Call, NextCall
<1>2. /\ ip'[p] = ip[p] + 1 /\ qcnt'[p] = qcnt[p] + 1
      /\ \A q \in Proc \ {p} : ip'[q] = ip[q] /\ qcnt'[q] = qcnt[q]
  BY <1>1, Domains
<1>3. /\ qcnt[p] \in Int /\ qcnt[p] >= 0 /\ NQUEUE \in Nat \ {0}
      /\ \A i \in Slots : i \in Nat
  BY <1>1, RankTypes, QueueAssumption DEF IInv
<1>4. ~InKnown(p) /\ ~Waiting(p)' /\ prog[ip[p]].op \notin Executes
  BY <1>1 DEF InKnown, Waiting, Executes
<1>5. KeepsSlots(p)
  BY <1>1, <1>2, <1>3 DEF KeepsSlots, Live
<1>6. ASSUME NEW i \in Slots, Live(p, i)'
      PROVE  Live(p, i)
  <2>1. SlotHolds(p, i)
    BY DEF IInv, RankInv, Control
  <2>2. NBX_active[p][i] # "unactive"
    BY <1>1, <1>6 DEF Live
  <2>3. ~(i > qcnt[p])
    BY <1>3, <2>1, <2>2 DEF SlotHolds
  <2> QED
    BY <1>3, <2>2, <2>3 DEF Live
<1>7. LogInv(p)'
  BY <1>1, <1>2, <1>4, <1>5, <1>6, LogMovesOn DEF LogIInv
<1>8. \A q \in Proc \ {p} : SameQueue(q) /\ SameLog(q)
  BY <1>1, <1>2 DEF SameQueue, SameLog
<1> QED
  BY <1>7, <1>8, LogOfRank DEF LogIInv

----------------------------------------------------------------------------
(* The Wait.                                                               *)

\* A rank begins the Wait.
LEMMA LogWait ==
    ASSUME IInv, LogIInv, LogDisciplined, NEW p \in Proc, Wait(p), UNCHANGED <<s_log, r_log>>
    PROVE  LogIInv'
<1>0. LogInv(p)
  BY DEF LogIInv
<1>1. /\ pc[p] = "app" /\ ip[p] <= Len(prog) /\ prog[ip[p]].op = "wait"
      /\ GoOn(p, 0)
      /\ UNCHANGED <<prog, NBX_active, req, slotCall, finished>>
  BY DEF Wait, Running, Call
<1>2. /\ \/ Returns(p) /\ \A i \in Slots : i >= 0 => NBX_active'[p][i] = "unactive"
         \/ \E s \in Slots : GoesOn(p, s)
      /\ \A q \in Proc \ {p} : ip'[q] = ip[q] /\ pc'[q] = pc[q] /\ qcnt'[q] = qcnt[q]
  BY <1>1, GoOnEffect
<1>3. \A r \in req[p] : r.op # "reduce"
  BY <1>0, <1>1, NoReduceRequest
<1>4. ~InKnown(p)
  BY <1>1 DEF InKnown
<1>5. ASSUME NEW s \in Slots, GoesOn(p, s)
      PROVE  LogInv(p)'
  <2>1. ip'[p] = ip[p] /\ qcnt'[p] = qcnt[p]
    BY <1>5 DEF GoesOn
  <2>2. KeepsSlots(p) /\ \A i \in Slots : Live(p, i)' => Live(p, i)
    BY <1>1, <2>1 DEF KeepsSlots, Live
  <2> QED
    BY <1>0, <1>1, <1>3, <1>4, <2>1, <2>2, LogMovesOn
<1>6. ASSUME Returns(p), \A i \in Slots : i >= 0 => NBX_active'[p][i] = "unactive"
      PROVE  LogInv(p)'
  <2>0. \A i \in Slots : i >= 0
    BY SlotsAreNat
  <2>1. \A i \in Slots : NBX_active[p][i] = "unactive"
    BY <1>1, <1>6, <2>0
  <2>2. \A i \in Slots : ~Live(p, i) /\ ~Live(p, i)'
    BY <1>1, <2>1 DEF Live
  <2>3. ~KnownQueued(p) /\ s_log[p] = {} /\ r_log[p] = {} /\ \A c : ~Queued(p, c)
    BY <1>0, <1>4, <2>2, NothingLogged DEF KnownQueued
  <2>4. req[p] = {}
    BY <1>0, <1>3, <2>3 DEF LogInv, RequestsRight
  <2>5. Unfinished(p)'
    <3>1. ip'[p] = ip[p] + 1 /\ ip[p] \in Nat
      BY <1>6, RankTypes DEF Returns, IInv
    <3> QED
      BY <1>0, <1>1, <2>2, <3>1 DEF LogInv, Unfinished
  <2> QED
    BY <1>1, <2>3, <2>4, <2>5, LogEmptied
<1>7. LogInv(p)'
  BY <1>2, <1>5, <1>6
<1>8. \A q \in Proc \ {p} : SameQueue(q) /\ SameLog(q)
  BY <1>1, <1>2 DEF SameQueue, SameLog
<1> QED
  BY <1>7, <1>8, LogOfRank DEF LogIInv

\* The rank goes on, or returns, after a slot: what Unfinished says.
LEMMA SlotFinished ==
    ASSUME IInv, NEW p \in Proc, LogInv(p), NEW slot \in Slots, slot = at[p],
           Waiting(p), ~InSync(p), ip[p] <= Len(prog),
           Held(p) \in 1..Len(prog), Free(p),
           NBX_active' = [NBX_active EXCEPT ![p][slot] = "unactive"], GoOn(p, slot + 1)
    PROVE  /\ Unfinished(p)'
           /\ req'[p] = {}
           /\ \A q \in Proc \ {p} : SameQueue(q)
<1>1. /\ req' = [req EXCEPT ![p] = {}]
      /\ finished' = [finished EXCEPT ![p] = finished[p] \cup {Held(p)}]
      /\ UNCHANGED <<prog, slotCall>>
  BY DEF Free
<1>2. PICK held : held = Held(p)
  OBVIOUS
<1>3. /\ slot + 1 \in Nat /\ ip[p] \in Nat \ {0} /\ qcnt[p] \in Int
      /\ \A i \in Slots : i \in Nat /\ slotCall[p][i] \in Nat
  BY RankTypes DEF IInv
<1>4. /\ \/ ip'[p] = ip[p] /\ qcnt'[p] = qcnt[p]
         \/ ip'[p] = ip[p] + 1 /\ qcnt'[p] = -1
      /\ \A q \in Proc \ {p} : ip'[q] = ip[q] /\ pc'[q] = pc[q] /\ qcnt'[q] = qcnt[q]
  BY <1>3, GoOnEffect DEF GoesOn, Returns
<1>5. /\ req'[p] = {} /\ finished'[p] = finished[p] \cup {held}
      /\ \A q \in Proc \ {p} : /\ req'[q] = req[q] /\ finished'[q] = finished[q]
                               /\ NBX_active'[q] = NBX_active[q]
      /\ \A i \in Slots : NBX_active'[p][i] = IF i = slot THEN "unactive" ELSE NBX_active[p][i]
  BY <1>1, <1>2, Domains
<1>6. ASSUME NEW i \in Slots, Live(p, i)'
      PROVE  Live(p, i) /\ i # slot /\ slotCall'[p][i] = slotCall[p][i]
  <2>1. i <= qcnt'[p] /\ NBX_active'[p][i] # "unactive"
    BY <1>6 DEF Live
  <2>2. i <= qcnt[p]
    BY <1>3, <1>4, <2>1
  <2> QED
    BY <1>1, <1>5, <2>1, <2>2 DEF Live
<1>7. held < ip[p] /\ held \in Nat \ {0}
  <2>1. SlotHolds(p, slot)
    BY DEF IInv, RankInv, Control
  <2>2. held < Behind(p) /\ Behind(p) = ip[p]
    BY <1>2, <2>1 DEF Held, SlotHolds, Behind
  <2> QED
    BY <1>2, <2>2
<1>8. finished'[p] \subseteq 1..(ip'[p] - 1)
  BY <1>3, <1>4, <1>5, <1>7 DEF LogInv, Unfinished
<1>9. ASSUME NEW i \in Slots, Live(p, i)'
      PROVE  slotCall'[p][i] \notin finished'[p]
  <2>1. slotCall[p][i] # held
    <3>1. Live(p, slot)
      \* slots above qcnt are left behind by a blocking call: none but slot 0,
      \* and then nothing is queued.
      <4>1. SlotHolds(p, slot) /\ NBX_active[p][slot] # "unactive"
        BY DEF IInv, RankInv, Control, AtCall
      <4>2. i <= qcnt[p] /\ i \in Nat
        BY <1>3, <1>6, <1>9 DEF Live
      <4>3. ~(slot > qcnt[p])
        BY <4>1, <4>2 DEF SlotHolds
      <4> QED
        BY <1>3, <4>1, <4>3 DEF Live
    <3>2. SlotOrder(p)
      BY DEF IInv, RankInv, Control
    <3>3. Live(p, i) /\ i # slot /\ (i < slot \/ slot < i)
      BY <1>3, <1>6, <1>9
    <3>4. slotCall[p][i] < slotCall[p][slot] \/ slotCall[p][slot] < slotCall[p][i]
      BY <3>1, <3>2, <3>3 DEF SlotOrder
    <3> QED
      BY <1>2, <1>3, <3>4 DEF Held
  <2>2. slotCall[p][i] \notin finished[p]
    BY <1>6, <1>9 DEF LogInv, Unfinished
  <2> QED
    BY <1>5, <1>6, <1>9, <2>1, <2>2
<1>10. Unfinished(p)'
  BY <1>8, <1>9, Zenon DEF Unfinished
<1>11. \A q \in Proc \ {p} : SameQueue(q)
  BY <1>1, <1>4, <1>5 DEF SameQueue
<1> QED
  BY <1>5, <1>10, <1>11

LEMMA LogWaitKnown ==
    ASSUME IInv, LogIInv, LogDisciplined, NEW p \in Proc, WaitKnown(p), UNCHANGED <<s_log, r_log>>
    PROVE  LogIInv'
<1>0. LogInv(p) /\ Disciplined
  BY DEF LogIInv, LogDisciplined
<1>1. /\ pc[p] = "wait" /\ NBX_active[p][at[p]] = "known" /\ Free(p)
      /\ NBX_active' = [NBX_active EXCEPT ![p][at[p]] = "unactive"]
      /\ GoOn(p, at[p] + 1)
  BY DEF WaitKnown, InSlot
<1>2. PICK slot : slot = at[p]
  OBVIOUS
<1>3. /\ Waiting(p) /\ ~InSync(p) /\ slot \in Slots
      /\ ip[p] <= Len(prog) /\ Held(p) \in 1..Len(prog)
      /\ Unreached(p) = {} /\ ~Entered(p)
  BY <1>0, <1>1, <1>2, AtKnown
<1>4. \A i \in Slots : ~(Live(p, i) /\ NBX_active[p][i] = "unknown")
  BY <1>3 DEF Unreached, Entered
<1>5. s_log[p] = {} /\ r_log[p] = {}
  BY <1>0, <1>4, NothingLogged
<1>6. Unfinished(p)' /\ req'[p] = {} /\ \A q \in Proc \ {p} : SameQueue(q)
  BY <1>0, <1>1, <1>2, <1>3, SlotFinished
<1>7. LogInv(p)'
  BY <1>5, <1>6, LogEmptied
<1>8. \A q \in Proc \ {p} : SameLog(q)
  BY DEF SameLog
<1> QED
  BY <1>6, <1>7, <1>8, LogOfRank DEF LogIInv

LEMMA LogWaitUnknown ==
    ASSUME IInv, LogIInv, LogDisciplined, NEW p \in Proc, WaitUnknown(p), clear(p)
    PROVE  LogIInv'
<1>0. LogInv(p)
  BY DEF LogIInv
<1>1. pc[p] = "test" /\ reached[p][at[p]] /\ Free(p)
  BY DEF WaitUnknown, BarrierPassed
<1>2. PICK slot : slot = at[p]
  OBVIOUS
<1>3. /\ Waiting(p) /\ ip[p] <= Len(prog) /\ slot \in Slots /\ Held(p) \in 1..Len(prog)
      /\ ip[p] \in Nat \ {0} /\ Len(prog) \in Nat
  BY <1>1, <1>2, AtUnknown, RankTypes DEF IInv
<1>4. s_log'[p] = {} /\ r_log'[p] = {} /\ DOMAIN s_log' = Proc /\ DOMAIN r_log' = Proc
  BY DEF LogIInv, clear
<1>5. \A q \in Proc \ {p} : SameLog(q)
  BY DEF LogIInv, clear, SameLog
<1>6. CASE prog[ip[p]].op = "sync"
  <2>1. /\ ip'[p] = ip[p] + 1 /\ qcnt'[p] = -1
        /\ finished'[p] = finished[p] \cup {Held(p)} /\ prog' = prog
        /\ InSync(p) /\ StepOf(p)
    BY <1>6, SyncDoneEffect
  <2>2. req' = [req EXCEPT ![p] = {}]
    BY <1>1 DEF Free
  <2>3. req'[p] = {}
    BY <2>2, Domains
  <2>4. finished'[p] \subseteq 1..(ip'[p] - 1)
    <3>1. Held(p) < Behind(p) /\ Behind(p) = ip[p] + 1
      <4>1. SlotHolds(p, slot)
        BY <1>3 DEF IInv, RankInv, Control
      <4> QED
        BY <1>2, <2>1, <4>1 DEF SlotHolds, Held, Behind
    <3>2. PICK held : held = Held(p)
      OBVIOUS
    <3>3. held \in 1..ip[p]
      BY <1>3, <3>1, <3>2
    <3> QED
      BY <1>0, <1>3, <2>1, <3>2, <3>3 DEF LogInv, Unfinished
  <2>5. \A i \in Slots : ~Live(p, i)'
    BY <2>1, SlotsAreNat DEF Live
  <2>6. LogInv(p)'
    BY <1>4, <2>3, <2>4, <2>5, LogEmptied DEF Unfinished
  <2>7. \A q \in Proc \ {p} : SameQueue(q)
    BY <2>1 DEF StepOf, SameRank, SameQueue
  <2> QED
    BY <1>4, <1>5, <2>6, <2>7, LogOfRank
<1>7. CASE prog[ip[p]].op # "sync"
  <2>1. /\ NBX_active' = [NBX_active EXCEPT ![p][slot] = "unactive"]
        /\ GoOn(p, slot + 1)
    BY <1>2, <1>7 DEF WaitUnknown, Call
  <2>2. ~InSync(p)
    BY <1>7 DEF InSync, Call
  <2>3. Unfinished(p)' /\ req'[p] = {} /\ \A q \in Proc \ {p} : SameQueue(q)
    BY <1>0, <1>1, <1>2, <1>3, <2>1, <2>2, SlotFinished
  <2>4. LogInv(p)'
    BY <1>4, <2>3, LogEmptied
  <2> QED
    BY <1>4, <1>5, <2>3, <2>4, LogOfRank
<1> QED
  BY <1>6, <1>7

----------------------------------------------------------------------------
(* Calls with known receivers, execute and reductions.                     *)

\* The requests that send() and recv() add.
LEMMA PostsRequests ==
    ASSUME IInv, NEW p \in Proc, NEW held, NEW c, NEW part, NEW cnt, NEW sizes,
           PostKnown(p, held, c, part, cnt, sizes)
    PROVE  /\ held \subseteq req'[p]
           /\ \A r \in req'[p] : r \in held \/ r.op \in {"isend", "irecv"}
           /\ \A q \in Proc \ {p} : req'[q] = req[q]
<1> DEFINE out == Outgoing(p, c, "known", part, cnt)
           in == Incoming(p, c, part, cnt, sizes)
<1>1. req' = [req EXCEPT ![p] = held \cup Requests("isend", out) \cup Requests("irecv", in)]
  BY DEF PostKnown
<1> HIDE DEF out, in
<1>2. req'[p] = held \cup Requests("isend", out) \cup Requests("irecv", in)
  BY <1>1, Domains
<1>3. \A r \in Requests("isend", out) \cup Requests("irecv", in) : r.op \in {"isend", "irecv"}
  BY DEF Requests
<1> QED
  BY <1>1, <1>2, <1>3, Domains

LEMMA LogQueueKnown ==
    ASSUME IInv, LogIInv, NEW p \in Proc, QueueKnown(p), UNCHANGED <<s_log, r_log>>
    PROVE  LogIInv'
<1>b. PICK slot : slot = qcnt[p] + 1
  OBVIOUS
<1>0. LogInv(p)
  BY DEF LogIInv
<1>1. /\ pc[p] = "app" /\ ip[p] <= Len(prog)
      /\ Call(p).op \in {"known", "known_prc"}
      /\ slot \in Slots
      /\ UNCHANGED <<prog, pc, finished>>
      /\ ip' = [ip EXCEPT ![p] = ip[p] + 1]
      /\ qcnt' = [qcnt EXCEPT ![p] = slot]
      /\ NBX_active' = [NBX_active EXCEPT ![p][slot] = Call(p).op]
      /\ slotCall' = [slotCall EXCEPT ![p][slot] = ip[p]]
  BY <1>b, QueueKnownEffect
<1>2. /\ qcnt[p] \in Int /\ qcnt[p] >= -1 /\ ip[p] \in Nat \ {0}
      /\ \A i \in Slots : i \in Nat /\ slotCall[p][i] \in Nat
  BY RankTypes DEF IInv
<1>3. /\ req[p] \subseteq req'[p]
      /\ \A r \in req'[p] : r \in req[p] \/ r.op \in {"isend", "irecv"}
      /\ \A q \in Proc \ {p} : req'[q] = req[q]
  <2>1. \E part, cnt, sizes : PostKnown(p, req[p], ip[p], part, cnt, sizes)
    BY DEF QueueKnown
  <2> QED
    BY <2>1, PostsRequests
<1>4. /\ qcnt'[p] = slot /\ ip'[p] = ip[p] + 1
      /\ \A i \in Slots : /\ NBX_active'[p][i] = IF i = slot THEN Call(p).op ELSE NBX_active[p][i]
                          /\ slotCall'[p][i] = IF i = slot THEN ip[p] ELSE slotCall[p][i]
  BY <1>1, Domains
<1>5. \A q \in Proc \ {p} : SameQueue(q) /\ SameLog(q)
  BY <1>1, <1>3, Domains DEF SameQueue, SameLog
<1>6. KeepsSlots(p) /\ Live(p, slot)' /\ \A i \in Slots : Live(p, i)' => i = slot \/ Live(p, i)
  <2>1. ASSUME NEW i \in Slots, Live(p, i)
        PROVE  i # slot /\ i <= slot /\ NBX_active[p][i] # "unactive"
    BY <1>2, <1>b, <2>1 DEF Live
  <2>2. ASSUME NEW i \in Slots, i <= slot, i # slot
        PROVE  i <= qcnt[p]
    BY <1>2, <1>b, <2>2
  <2>3. ASSUME NEW i \in Slots, Live(p, i)
        PROVE  Live(p, i)' /\ NBX_active'[p][i] = NBX_active[p][i] /\ slotCall'[p][i] = slotCall[p][i]
    BY <1>4, <2>1, <2>3 DEF Live
  <2>4. slot <= slot /\ NBX_active'[p][slot] # "unactive"
    BY <1>1, <1>2, <1>4
  <2>5. Live(p, slot)'
    BY <1>4, <2>4 DEF Live
  <2>6. ASSUME NEW i \in Slots, Live(p, i)', i # slot
        PROVE  Live(p, i)
    BY <1>4, <2>2, <2>6 DEF Live
  <2> QED
    BY <2>3, <2>5, <2>6 DEF KeepsSlots
<1>7. KnownQueued(p)' /\ ~Waiting(p)'
  <2>1. NBX_active'[p][slot] # "unknown"
    BY <1>1, <1>4
  <2> QED
    BY <1>1, <1>6, <2>1 DEF KnownQueued, Waiting
<1>8. prog[ip[p]].op \notin Executes
  BY <1>1 DEF Call, Executes
<1>9. Unfinished(p)'
  <2>1. finished[p] \subseteq Nat /\ \A c \in finished[p] : c < ip[p]
    BY <1>0, FinishedType
  <2>2. finished[p] \subseteq 1..(ip'[p] - 1)
    BY <1>0, <1>2, <1>4 DEF LogInv, Unfinished
  <2>3. ASSUME NEW i \in Slots, Live(p, i)'
        PROVE  slotCall'[p][i] \notin finished[p]
    <3>1. CASE i = slot
      BY <1>2, <1>4, <2>1, <3>1
    <3>2. CASE i # slot
      BY <1>0, <1>4, <1>6, <2>3, <3>2 DEF LogInv, Unfinished
    <3> QED
      BY <3>1, <3>2
  <2> QED
    BY <1>1, <2>2, <2>3, Zenon DEF Unfinished
<1>10. LogInv(p)'
  <2>1. PICK h : h = req[p]
    OBVIOUS
  <2>2. /\ h = req[p] \/ (h = {} /\ Sends(p) = {})
        /\ \A r \in req'[p] : r \in h \/ r.op \in {"isend", "irecv"}
        /\ h \subseteq req'[p]
        /\ h = {} \/ ~Waiting(p)'
    BY <1>3, <1>7, <2>1
  <2>3. s_log'[p] = s_log[p] /\ r_log'[p] = r_log[p]
    OBVIOUS
  <2> QED
    BY <1>0, <1>1, <1>4, <1>6, <1>7, <1>8, <1>9, <2>2, <2>3, LogPosts
<1> QED
  BY <1>5, <1>10, LogOfRank DEF LogIInv

LEMMA LogWaitSizes ==
    ASSUME IInv, LogIInv, LogDisciplined, NEW p \in Proc, WaitSizes(p), UNCHANGED <<s_log, r_log>>
    PROVE  LogIInv'
<1>0. LogInv(p) /\ Disciplined
  BY DEF LogIInv, LogDisciplined
<1>1. /\ pc[p] = "wait" /\ NBX_active[p][at[p]] = "known_prc"
      /\ PostKnown(p, {}, Held(p), "data", NBX_cnt'[p], sz_recv_tmp[p].val)
      /\ NBX_active' = [NBX_active EXCEPT ![p][at[p]] = "known"]
      /\ UNCHANGED <<prog, ip, pc, qcnt, slotCall, finished>>
  BY DEF WaitSizes, InSlot
<1>2. PICK slot : slot = at[p]
  OBVIOUS
<1>3. slot \in Slots /\ Live(p, slot) /\ Unreached(p) = {} /\ ~Entered(p)
  BY <1>0, <1>1, <1>2, AtKnown
<1>4. \A i \in Slots : ~(Live(p, i) /\ NBX_active[p][i] = "unknown")
  BY <1>3 DEF Unreached, Entered
<1>5. Sends(p) = {} /\ s_log[p] = {} /\ r_log[p] = {}
  BY <1>0, <1>4, NothingLogged
<1>6. /\ \A r \in req'[p] : r.op \in {"isend", "irecv"}
      /\ \A q \in Proc \ {p} : req'[q] = req[q]
  BY <1>1, PostsRequests
<1>7. /\ \A i \in Slots : NBX_active'[p][i] = IF i = slot THEN "known" ELSE NBX_active[p][i]
      /\ \A q \in Proc \ {p} : NBX_active'[q] = NBX_active[q]
  BY <1>1, <1>2, <1>3, Domains
<1>8. \A i \in Slots : Live(p, i)' <=> Live(p, i)
  BY <1>1, <1>2, <1>7 DEF Live
<1>9. KnownQueued(p)'
  BY <1>3, <1>7, <1>8 DEF KnownQueued
<1>10. RequestsRight(p)'
  BY <1>6, <1>9, Zenon DEF RequestsRight
<1>11. Sends(p)' = {}
  BY <1>6 DEF Sends
<1>12. Unfinished(p)'
  BY <1>0, <1>1, <1>8 DEF LogInv, Unfinished
<1>13. LogInv(p)'
  BY <1>5, <1>10, <1>11, <1>12 DEF LogInv, OneEntry, SendsLogged, ReceivesLogged
<1>14. \A q \in Proc \ {p} : SameQueue(q) /\ SameLog(q)
  BY <1>1, <1>6, <1>7 DEF SameQueue, SameLog
<1> QED
  BY <1>13, <1>14, LogOfRank DEF LogIInv

\* A blocking call with known receivers begins, or goes on with the data.
LEMMA LogKnownPosts ==
    ASSUME IInv, LogIInv, NEW p \in Proc,
           NEW held, held = req[p] \/ (held = {} /\ Sends(p) = {}),
           NEW part, NEW cnt, NEW sizes, PostKnown(p, held, ip[p], part, cnt, sizes),
           NEW s \in {"sizes", "data"}, pc' = [pc EXCEPT ![p] = s],
           UNCHANGED <<prog, ip, qcnt, NBX_active, slotCall, finished, s_log, r_log>>
    PROVE  LogIInv'
<1>0. LogInv(p)
  BY DEF LogIInv
<1>1. /\ held \subseteq req'[p]
      /\ \A r \in req'[p] : r \in held \/ r.op \in {"isend", "irecv"}
      /\ \A q \in Proc \ {p} : req'[q] = req[q]
  BY PostsRequests
<1>2. pc'[p] = s /\ \A q \in Proc \ {p} : pc'[q] = pc[q]
  BY Domains
<1>3. KnownQueued(p)' /\ ~Waiting(p)'
  BY <1>2 DEF KnownQueued, InKnown, Waiting
<1>4. \A i \in Slots : Live(p, i)' = Live(p, i)
  BY DEF Live
<1>5. KeepsSlots(p)
  BY <1>4 DEF KeepsSlots
<1>6. Unfinished(p)'
  BY <1>0, <1>4, Zenon DEF LogInv, Unfinished
<1>7. LogInv(p)'
  BY <1>0, <1>1, <1>3, <1>5, <1>6, LogPosts
<1>8. \A q \in Proc \ {p} : SameQueue(q) /\ SameLog(q)
  BY <1>1, <1>2 DEF SameQueue, SameLog
<1> QED
  BY <1>7, <1>8, LogOfRank DEF LogIInv

LEMMA LogStartKnownSync ==
    ASSUME IInv, LogIInv, NEW p \in Proc, StartKnownSync(p), UNCHANGED <<s_log, r_log>>
    PROVE  LogIInv'
<1>1. PICK h : h = req[p]
  OBVIOUS
<1>2. PICK s \in {"sizes", "data"} : pc' = [pc EXCEPT ![p] = s]
  BY DEF StartKnownSync
<1>3. \E part, cnt, sizes : PostKnown(p, h, ip[p], part, cnt, sizes)
  BY <1>1 DEF StartKnownSync
<1>4. ~InKnown(p) /\ UNCHANGED <<prog, ip, qcnt, NBX_active, slotCall, finished>>
  BY DEF StartKnownSync, Running, InKnown
<1> QED
  BY <1>1, <1>2, <1>3, <1>4, LogKnownPosts

\* A rank in a blocking call with known receivers is at an execute.
LEMMA InKnownExecutes ==
    ASSUME IInv, LogIInv, LogDisciplined, NEW p \in Proc, InKnown(p)
    PROVE  /\ ip[p] <= Len(prog) /\ prog[ip[p]].op \in Executes /\ ip[p] \in Nat \ {0}
           /\ Sends(p) = {} /\ s_log[p] = {} /\ r_log[p] = {}
<1>1. AtCall(p) /\ ~Waiting(p) /\ LogInv(p) /\ pc[p] # "app"
  BY DEF IInv, RankInv, Control, LogIInv, InKnown, Waiting
<1>2. ip[p] <= Len(prog) /\ prog[ip[p]].op \in Executes
  BY <1>1 DEF AtCall, Call, Executes
<1> QED
  BY <1>1, <1>2, ExecutesAlone, NothingLogged, RankTypes DEF IInv

LEMMA LogKnownSyncData ==
    ASSUME IInv, LogIInv, LogDisciplined, NEW p \in Proc, KnownSyncData(p), UNCHANGED <<s_log, r_log>>
    PROVE  LogIInv'
<1>1. InKnown(p)
  BY DEF KnownSyncData, InKnown
<1>2. Sends(p) = {}
  BY <1>1, InKnownExecutes
<1>3. /\ PostKnown(p, {}, ip[p], "data", NBX_cnt'[p], sz_recv_tmp[p].val)
      /\ pc' = [pc EXCEPT ![p] = "data"]
      /\ UNCHANGED <<prog, ip, qcnt, NBX_active, slotCall, finished>>
  BY DEF KnownSyncData
<1>4. PICK n : n = NBX_cnt'[p]
  OBVIOUS
<1>5. PICK v : v = sz_recv_tmp[p].val
  OBVIOUS
<1>6. PostKnown(p, {}, ip[p], "data", n, v)
  BY <1>3, <1>4, <1>5
<1> QED
  BY <1>2, <1>3, <1>6, LogKnownPosts

LEMMA LogEndKnownSync ==
    ASSUME IInv, LogIInv, LogDisciplined, NEW p \in Proc, EndKnownSync(p), UNCHANGED <<s_log, r_log>>
    PROVE  LogIInv'
<1>0. LogInv(p)
  BY DEF LogIInv
<1>1. /\ req' = [req EXCEPT ![p] = {}]
      /\ finished' = [finished EXCEPT ![p] = finished[p] \cup {ip[p]}]
      /\ pc' = [pc EXCEPT ![p] = "app"]
      /\ ip' = [ip EXCEPT ![p] = ip[p] + 1]
      /\ UNCHANGED <<prog, qcnt, NBX_active, slotCall>>
      /\ InKnown(p)
  BY DEF EndKnownSync, NextCall, InKnown
<1>2. /\ ip[p] \in Nat \ {0} /\ s_log[p] = {} /\ r_log[p] = {}
  BY <1>1, InKnownExecutes
<1>3. /\ req'[p] = {} /\ finished'[p] = finished[p] \cup {ip[p]} /\ ip'[p] = ip[p] + 1
      /\ \A q \in Proc \ {p} : /\ req'[q] = req[q] /\ finished'[q] = finished[q]
                               /\ pc'[q] = pc[q] /\ ip'[q] = ip[q]
  BY <1>1, Domains
<1>4. finished'[p] \subseteq 1..(ip'[p] - 1)
  BY <1>0, <1>2, <1>3 DEF LogInv, Unfinished
<1>5. ASSUME NEW i \in Slots, Live(p, i)'
      PROVE  slotCall'[p][i] \notin finished'[p]
  <2>1. Live(p, i)
    BY <1>1, <1>5 DEF Live
  <2>2. slotCall[p][i] \notin finished[p]
    BY <1>0, <2>1 DEF LogInv, Unfinished
  <2>3. slotCall[p][i] < ip[p]
    <3>1. SlotHolds(p, i)
      BY DEF IInv, RankInv, Control
    <3>2. ~Waiting(p)
      BY <1>1 DEF InKnown, Waiting
    <3> QED
      BY <3>1, <3>2 DEF SlotHolds, Behind, InSync
  <2> QED
    BY <1>1, <1>2, <1>3, <2>2, <2>3
<1>6. Unfinished(p)'
  BY <1>4, <1>5, Zenon DEF Unfinished
<1>7. LogInv(p)'
  BY <1>2, <1>3, <1>6, LogEmptied
<1>8. \A q \in Proc \ {p} : SameQueue(q) /\ SameLog(q)
  BY <1>1, <1>3 DEF SameQueue, SameLog
<1> QED
  BY <1>7, <1>8, LogOfRank DEF LogIInv

LEMMA LogExecute ==
    ASSUME IInv, LogIInv, LogDisciplined, NEW p \in Proc, Execute(p), UNCHANGED <<s_log, r_log>>
    PROVE  LogIInv'
<1>0. LogInv(p)
  BY DEF LogIInv
<1>1. /\ pc[p] = "app" /\ ip[p] <= Len(prog) /\ prog[ip[p]].op = "execute"
      /\ req' = [req EXCEPT ![p] = {}]
      /\ ip' = [ip EXCEPT ![p] = ip[p] + 1]
      /\ UNCHANGED <<prog, pc, qcnt, NBX_active, slotCall, finished>>
  BY DEF Execute, Running, Call, NextCall
<1>2. ~Waiting(p) /\ prog[ip[p]].op \in Executes /\ ip[p] \in Nat \ {0}
  BY <1>1, RankTypes DEF Waiting, Executes, IInv
<1>3. s_log[p] = {} /\ r_log[p] = {}
  BY <1>0, <1>1, <1>2, ExecutesAlone, NothingLogged
<1>4. /\ req'[p] = {} /\ ip'[p] = ip[p] + 1
      /\ \A q \in Proc \ {p} : req'[q] = req[q] /\ ip'[q] = ip[q]
  BY <1>1, Domains
<1>5. \A i \in Slots : Live(p, i)' = Live(p, i)
  BY <1>1 DEF Live
<1>6. finished'[p] \subseteq 1..(ip'[p] - 1)
  BY <1>0, <1>1, <1>2, <1>4 DEF LogInv, Unfinished
<1>7. Unfinished(p)'
  BY <1>0, <1>1, <1>5, <1>6, Zenon DEF LogInv, Unfinished
<1>8. LogInv(p)'
  BY <1>3, <1>4, <1>7, LogEmptied
<1>9. \A q \in Proc \ {p} : SameQueue(q) /\ SameLog(q)
  BY <1>1, <1>4 DEF SameQueue, SameLog
<1> QED
  BY <1>8, <1>9, LogOfRank DEF LogIInv

LEMMA LogReduce ==
    ASSUME IInv, LogIInv, NEW p \in Proc, Reduce(p), UNCHANGED <<s_log, r_log>>
    PROVE  LogIInv'
<1>0. LogInv(p)
  BY DEF LogIInv
<1>1. PICK r : r = [by |-> p, call |-> ip[p], nth |-> Len(colls[p]) + 1]
  OBVIOUS
<1>2. /\ pc[p] = "app" /\ prog[ip[p]].op = "reduce"
      /\ UNCHANGED <<prog, pc, qcnt, NBX_active, slotCall, finished>>
      /\ ip'[p] = ip[p] + 1
      /\ req'[p] = req[p] \cup Requests("reduce", {r})
      /\ StepOf(p)
  BY <1>1, ReduceEffect
<1>3. PICK new : new = [op |-> "reduce", of |-> r]
  OBVIOUS
<1>4. \A x : x \in req'[p] <=> x \in req[p] \/ x = new
  BY <1>2, <1>3 DEF Requests
<1>5. ip[p] \in Nat \ {0}
  BY RankTypes DEF IInv
<1>6. ~Waiting(p) /\ ~Waiting(p)' /\ InKnown(p)' = InKnown(p)
  BY <1>2 DEF Waiting, InKnown
<1>7. \A i \in Slots : Live(p, i)' = Live(p, i)
  BY <1>2 DEF Live
<1>8. KnownQueued(p)' = KnownQueued(p) /\ \A c : Queued(p, c)' = Queued(p, c)
  BY <1>2, <1>6, <1>7 DEF KnownQueued, Queued
<1>9. ASSUME NEW c, ReductionOpen(p, c)
      PROVE  ReductionOpen(p, c)'
  <2>1. prog[ip[p]].op \notin Executes
    BY <1>2 DEF Executes
  <2> QED
    BY <1>2, <1>5, <1>6, <1>9, <2>1 DEF ReductionOpen
<1>10. ReductionOpen(p, new.of.call)'
  <2>1. PICK c : c = ip[p]
    OBVIOUS
  <2>2. new.of.call = c
    BY <1>1, <1>3, <2>1
  <2>3. /\ c \in 1..(ip'[p] - 1) /\ prog'[c].op = "reduce"
        /\ \A e \in (c + 1)..(ip'[p] - 1) : prog'[e].op \notin Executes
    BY <1>2, <1>5, <2>1
  <2>4. ReductionOpen(p, c)'
    BY <1>6, <2>3 DEF ReductionOpen
  <2> QED
    BY <2>2, <2>3, <2>4, <1>6 DEF ReductionOpen
<1>11. RequestsRight(p)'
  <2> SUFFICES ASSUME NEW x \in req'[p]
               PROVE  \/ /\ x.op = "issend" /\ x.of.cls = "sparse" /\ x.of.src = p
                         /\ x.of.dst \in Proc /\ Queued(p, x.of.call)'
                      \/ x.op \in {"isend", "irecv"} /\ KnownQueued(p)'
                      \/ x.op = "reduce" /\ ReductionOpen(p, x.of.call)'
    BY Zenon DEF RequestsRight
  <2>1. CASE x = new
    <3>1. x.op = "reduce"
      BY <1>3, <2>1
    <3>2. ReductionOpen(p, x.of.call)'
      BY <1>10, <2>1
    <3> QED
      BY <3>1, <3>2
  <2>2. CASE x \in req[p]
    BY <1>0, <1>8, <1>9, <2>2, Zenon DEF LogInv, RequestsRight
  <2> QED
    BY <1>4, <2>1, <2>2
<1>12. Sends(p)' = Sends(p)
  <2>1. new.op # "issend"
    BY <1>3
  <2>2. \A x : x \in Sends(p)' <=> x \in Sends(p)
    BY <1>4, <2>1 DEF Sends
  <2> QED
    BY <2>2
<1>13. OneEntry(p)' /\ SendsLogged(p)'
  BY <1>0, <1>12, Zenon DEF LogInv, OneEntry, SendsLogged
<1>14. ReceivesLogged(p)'
  BY <1>0, <1>8, Zenon DEF LogInv, ReceivesLogged
<1>15. finished'[p] \subseteq 1..(ip'[p] - 1)
  BY <1>0, <1>2, <1>5 DEF LogInv, Unfinished
<1>16. Unfinished(p)'
  BY <1>0, <1>2, <1>7, <1>15, Zenon DEF LogInv, Unfinished
<1>17. LogInv(p)'
  BY <1>11, <1>13, <1>14, <1>16 DEF LogInv
<1>18. \A q \in Proc \ {p} : SameQueue(q) /\ SameLog(q)
  BY <1>2 DEF StepOf, SameRank, SameQueue, SameLog
<1> QED
  BY <1>17, <1>18, LogOfRank DEF LogIInv

\* MPI's own steps, and none.
LEMMA LogStays ==
    ASSUME LogIInv, UNCHANGED <<s_log, r_log>>,
           UNCHANGED <<prog, ip, pc, qcnt, NBX_active, slotCall, finished, req>>
    PROVE  LogIInv'
<1>1. \A q \in Proc : SameQueue(q) /\ SameLog(q)
  BY DEF SameQueue, SameLog
<1>2. \A q \in Proc : LogInv(q)'
  BY <1>1, LogUntouched DEF LogIInv
<1> QED
  BY <1>2 DEF LogIInv

LEMMA LogInitInv ==
    ASSUME LogInit
    PROVE  LogIInv
<1>1. ASSUME NEW p \in Proc
      PROVE  LogInv(p)
  <2>1. req[p] = {} /\ s_log[p] = {} /\ r_log[p] = {} /\ finished[p] = {} /\ qcnt[p] = -1
    BY <1>1 DEF LogInit, Init
  <2>2. \A i \in Slots : ~Live(p, i)
    BY <2>1, SlotsAreNat DEF Live
  <2> QED
    BY <2>1, <2>2 DEF LogInv, RequestsRight, Sends, OneEntry, SendsLogged, ReceivesLogged, Unfinished
<1> QED
  BY <1>1 DEF LogIInv, LogInit

----------------------------------------------------------------------------
(* Counting.                                                               *)

\* There are finitely many entries.
LEMMA EntriesFinite ==
    ASSUME NEW n \in Nat
    PROVE  IsFiniteSet([prc : Proc, call : 0..n])
<1>1. IsFiniteSet(Proc) /\ IsFiniteSet(0..n)
  BY QueueAssumption, FS_Interval
<1>2. IsFiniteSet(Proc \X (0..n))
  BY <1>1, FS_Product, Zenon
<1> DEFINE f == [x \in Proc \X (0..n) |-> [prc |-> x[1], call |-> x[2]]]
<1>3. f \in [Proc \X (0..n) -> [prc : Proc, call : 0..n]]
  OBVIOUS
<1>4. ASSUME NEW e \in [prc : Proc, call : 0..n]
      PROVE  \E x \in Proc \X (0..n) : f[x] = e
  <2>1. <<e.prc, e.call>> \in Proc \X (0..n) /\ f[<<e.prc, e.call>>] = e
    OBVIOUS
  <2> QED
    BY <2>1
<1> HIDE DEF f
<1>5. f \in Surjection(Proc \X (0..n), [prc : Proc, call : 0..n])
  BY <1>3, <1>4, Zenon DEF Surjection
<1> QED
  BY <1>2, <1>5, FS_Surjection, Zenon

\* A map that is one to one, and its finite image.
LEMMA SameSize ==
    ASSUME NEW S, NEW T, IsFiniteSet(T), NEW f \in Injection(S, T), f \in Surjection(S, T)
    PROVE  Cardinality(S) = Cardinality(T)
BY FS_Injection, Zenon

----------------------------------------------------------------------------
(* The theorems.                                                           *)

LEMMA LogStep ==
    ASSUME IInv, LogIInv, LogDisciplined, LogNext
    PROVE  [Next]_vars /\ LogIInv'
<1>1. ASSUME NEW p \in Proc, QueueUnknown(p), logSend(p), UNCHANGED r_log
      PROVE  Next /\ LogIInv'
  BY <1>1, LogQueueUnknown DEF Next, Step
<1>2. ASSUME NEW p \in Proc, UserProgress(p) \/ WaitProgress(p), logRecv(p), UNCHANGED s_log
      PROVE  Next /\ LogIInv'
  BY <1>2, LogUserProgress, LogWaitProgress DEF Next, Step
<1>3. ASSUME NEW p \in Proc, WaitUnknown(p), clear(p)
      PROVE  Next /\ LogIInv'
  BY <1>3, LogWaitUnknown DEF Next, Step
<1>4. ASSUME NEW p \in Proc, UNCHANGED <<s_log, r_log>>,
             \/ QueueKnown(p) \/ Refused(p) \/ Wait(p) \/ WaitSizes(p) \/ WaitKnown(p) \/ WaitAgain(p)
             \/ StartKnownSync(p) \/ KnownSyncData(p) \/ EndKnownSync(p) \/ Reduce(p) \/ Execute(p)
      PROVE  Next /\ LogIInv'
  <2>1. CASE QueueKnown(p) \/ Refused(p) \/ Wait(p) \/ WaitSizes(p)
    BY <1>4, <2>1, LogQueueKnown, LogRefused, LogWait, LogWaitSizes DEF Next, Step
  <2>2. CASE WaitKnown(p) \/ WaitAgain(p) \/ StartKnownSync(p) \/ KnownSyncData(p)
    BY <1>4, <2>2, LogWaitKnown, LogWaitAgain, LogStartKnownSync, LogKnownSyncData DEF Next, Step
  <2>3. CASE EndKnownSync(p) \/ Reduce(p) \/ Execute(p)
    BY <1>4, <2>3, LogEndKnownSync, LogReduce, LogExecute DEF Next, Step
  <2> QED
    BY <1>4, <2>1, <2>2, <2>3
<1>5. ASSUME UNCHANGED <<s_log, r_log>>,
             \/ \E r \in posted, m \in flight : Match(r, m)
             \/ \E r \in reducing : Deliver(r)
             \/ Finished
      PROVE  Next /\ LogIInv'
  <2>1. UNCHANGED <<prog, ip, pc, qcnt, NBX_active, slotCall, finished, req>>
    BY <1>5 DEF Match, Deliver, Finished, vars, rank
  <2> QED
    BY <1>5, <2>1, LogStays DEF Next
<1> QED
  BY <1>1, <1>2, <1>3, <1>4, <1>5 DEF LogNext

(* The log and the requests stay in step with the queue: the synchronous   *)
(* sends that are held are of calls that are queued, each has its entry,   *)
(* and so has every message that was received.                             *)
THEOREM LogInvariant ==
    ASSUME LogDisciplined
    PROVE  LogSpec => [](IInv /\ LogIInv)
<1>1. LogInit => IInv /\ LogIInv
  BY InitInv, LogInitInv DEF LogInit
<1>2. ASSUME IInv, LogIInv, [LogNext]_logVars
      PROVE  IInv' /\ LogIInv'
  <2>1. CASE LogNext
    <3>1. [Next]_vars /\ LogIInv'
      BY <1>2, <2>1, LogStep
    <3>2. IInv'
      BY <1>2, <3>1, NextInv DEF LogDisciplined
    <3> QED
      BY <3>1, <3>2
  <2>2. CASE UNCHANGED logVars
    <3>1. UNCHANGED vars /\ UNCHANGED <<s_log, r_log>>
      BY <2>2 DEF logVars
    <3>2. UNCHANGED <<prog, ip, pc, qcnt, NBX_active, slotCall, finished, req>>
      BY <3>1 DEF vars, rank
    <3> QED
      BY <1>2, <3>1, <3>2, LogStays, StutterStep
  <2> QED
    BY <1>2, <2>1, <2>2
<1> QED
  BY <1>1, <1>2, PTL DEF LogSpec

(* "req and s_log must match": where a report may be written and nothing   *)
(* but calls of the barrier protocol is queued, the requests and the       *)
(* entries of s_log are as many, and of the same sends.                    *)
THEOREM ReportsMatch ==
    ASSUME LogDisciplined
    PROVE  LogSpec => []ReportMatches
<1>1. IInv /\ LogIInv => ReportMatches
  <2> SUFFICES ASSUME IInv, LogIInv, NEW p \in Proc, pc[p] = "test",
                      \A i \in Slots : NBX_active[p][i] \in {"unactive", "unknown"}
               PROVE  NBXreport(p).matches
    BY DEF ReportMatches
  <2>0. LogInv(p)
    BY DEF LogIInv
  <2>1. Waiting(p) /\ ~InKnown(p)
    BY DEF Waiting, InKnown
  <2>2. ~KnownQueued(p)
    BY <2>1 DEF KnownQueued, Live
  <2>3. \A r \in req[p] : r.op = "issend"
    BY <2>0, <2>1, <2>2 DEF LogInv, RequestsRight, ReductionOpen
  <2>4. Sends(p) = req[p]
    BY <2>3 DEF Sends
  <2>5. s_log[p] = {Logged(r.of) : r \in req[p]}
    BY <2>0, <2>4 DEF LogInv, SendsLogged
  <2>6. Cardinality(req[p]) = Cardinality(s_log[p])
    <3> DEFINE entry == [r \in req[p] |-> Logged(r.of)]
    <3>1. IsFiniteSet(s_log[p])
      <4>1. s_log[p] \subseteq [prc : Proc, call : 0..Len(prog)]
        <5> SUFFICES ASSUME NEW r \in req[p]
                     PROVE  Logged(r.of) \in [prc : Proc, call : 0..Len(prog)]
          BY <2>5
        <5>1. r.of.dst \in Proc /\ Queued(p, r.of.call)
          BY <2>0, <2>3 DEF LogInv, RequestsRight
        <5>2. r.of.call \in 0..Len(prog)
          BY <5>1, RankTypes DEF Queued, IInv
        <5> QED
          BY <5>1, <5>2 DEF Logged
      <4>2. Len(prog) \in Nat
        BY ProgramType DEF IInv
      <4> QED
        BY <4>1, <4>2, EntriesFinite, FS_Subset, Zenon
    <3>2. entry \in Injection(req[p], s_log[p]) /\ entry \in Surjection(req[p], s_log[p])
      <4>1. entry \in [req[p] -> s_log[p]]
        BY <2>5
      <4>2. \A r, s \in req[p] : entry[r] = entry[s] => r = s
        BY <2>0, <2>4 DEF LogInv, OneEntry
      <4>3. \A e \in s_log[p] : \E r \in req[p] : entry[r] = e
        BY <2>5
      <4> QED
        BY <4>1, <4>2, <4>3, Zenon DEF Injection, Surjection, IsInjective
    <3> QED
      BY <3>1, <3>2, SameSize, Zenon
  <2>7. {x \in req[p] : x.op = "issend"} = req[p]
    BY <2>3
  <2> QED
    BY <2>5, <2>6, <2>7 DEF NBXreport
<1> QED
  BY <1>1, LogInvariant, PTL

(* A report names every send of the rank that nobody has received yet, and *)
(* no message that was received in a call that has returned.               *)
THEOREM ReportsComplete ==
    ASSUME LogDisciplined
    PROVE  LogSpec => []ReportComplete
<1>1. IInv /\ LogIInv => ReportComplete
  <2> SUFFICES ASSUME IInv, LogIInv, NEW p \in Proc
               PROVE  /\ NBXreport(p).pending =
                           {Logged(m) : m \in {x \in flight : x.src = p /\ x.cls = "sparse"}}
                      /\ \A e \in NBXreport(p).received : e.call \notin finished[p]
    BY DEF ReportComplete
  <2>0. LogInv(p) /\ SendsHeld(p)
    BY DEF LogIInv, IInv, RankInv, UnderWay
  <2>1. NBXreport(p).received = r_log[p]
    BY DEF NBXreport
  <2>2. ASSUME NEW e \in r_log[p]
        PROVE  e.call \notin finished[p]
    BY <2>0, <2>2 DEF LogInv, ReceivesLogged, Queued, Unfinished
  <2> DEFINE out == {x \in flight : x.src = p /\ x.cls = "sparse"}
             open == {x \in req[p] : x.op = "issend" /\ ~Complete(x, flight, posted)}
  <2>3. NBXreport(p).pending = {Logged(r.of) : r \in open} \cap s_log[p]
    BY DEF NBXreport
  <2>4. ASSUME NEW r \in open
        PROVE  r.of \in out /\ Logged(r.of) \in s_log[p]
    <3>1. r \in req[p] /\ r.op = "issend" /\ r.of \in flight
      BY DEF Complete
    <3>2. r.of.cls = "sparse" /\ r.of.src = p
      BY <2>0, <3>1 DEF LogInv, RequestsRight
    <3>3. r \in Sends(p)
      BY <3>1 DEF Sends
    <3>4. Logged(r.of) \in s_log[p]
      BY <2>0, <3>3 DEF LogInv, SendsLogged
    <3> QED
      BY <3>1, <3>2, <3>4
  <2>5. ASSUME NEW m \in out
        PROVE  \E r \in open : r.of = m
    <3>1. [op |-> "issend", of |-> m] \in req[p]
      BY <2>0 DEF SendsHeld
    <3>2. [op |-> "issend", of |-> m] \in open
      BY <3>1 DEF Complete
    <3> QED
      BY <3>2
  <2> HIDE DEF out, open
  <2>6. {Logged(r.of) : r \in open} \cap s_log[p] = {Logged(m) : m \in out}
    <3>1. ASSUME NEW x \in {Logged(r.of) : r \in open}
          PROVE  x \in {Logged(m) : m \in out} /\ x \in s_log[p]
      BY <2>4
    <3>2. ASSUME NEW x \in {Logged(m) : m \in out}
          PROVE  x \in {Logged(r.of) : r \in open}
      BY <2>5
    <3> QED
      BY <3>1, <3>2
  <2> QED
    BY <2>1, <2>2, <2>3, <2>6 DEF out
<1> QED
  BY <1>1, LogInvariant, PTL
=============================================================================
