------------------------- MODULE NBXQueueMatch_proofs -------------------------
(***************************************************************************)
(* Theorems about NBXQueue: every message is received for the call it was  *)
(* sent in, and a completed call has delivered its messages, for every     *)
(* number of ranks and slots, every cycle of the counter and every program *)
(* that is TagsDisciplined.                                                *)
(*                                                                         *)
(* The argument.  All ranks run one program, so the moments they pass are  *)
(* the same, and so are the counter, the slots and the tags at each of     *)
(* them.  A posted receive and the message it takes have the same tag; if  *)
(* they were of different calls, the older of the two would still wait for *)
(* its counterpart, which MPI would have matched first.  A rank that polls *)
(* for call a has not completed a; so no rank has ended an exchange beyond *)
(* a, and until then the numbers in the tags do not come around: a message *)
(* that any rank could send by now and that is in a slot of this rank is   *)
(* of the call that holds the slot.                                        *)
(***************************************************************************)
EXTENDS NBXQueueOrder, NBXQueue_proofs

----------------------------------------------------------------------------
(* The invariant: one rank.                                                *)

KnownOf(c, part) == c \in DOMAIN prog /\ KnownPart(prog, c, part)

\* How far a rank is.  Inside a Wait that is the slot it completes, after the
\* sizes were exchanged a little farther.
Now(p) ==
    <<ip[p],
      CASE Waiting(p) ->
              2 * Held(p) + (IF NBX_active[p][at[p]] = "known" /\ prog[Held(p)].op = "known_prc"
                             THEN 1 ELSE 0)
        [] pc[p] = "sizes" -> 1
        [] pc[p] = "data" -> IF Call(p).op = "known_prc_sync" THEN 2 * ip[p] + 1 ELSE 1
        [] OTHER -> 0>>

\* The number of the next slot, and of those in use.
SlotNumbers(p) ==
    /\ ~InSync(p) => qcnt[p] + 1 = SlotIndex(prog, ip[p])
    /\ \A i \in Slots : Live(p, i) => SlotIndex(prog, slotCall[p][i]) = i

\* The slots hold the calls of the batch that were not refused, each the slot
\* whose number it was given, until the Wait completes them one by one.
SlotCalls(p) ==
    \A c \in 1..(ip[p] - 1) : SameBatch(prog, c, ip[p]) /\ Queued(prog, c) =>
        LET i == SlotIndex(prog, c) IN
        /\ slotCall[p][i] = c
        /\ (Waiting(p) => i >= at[p]) => NBX_active[p][i] # "unactive"

\* Until the Wait comes to it, a call of NBX_KNOWN_PRC exchanges sizes.
SizesFirst(p) ==
    \A i \in Slots :
        Live(p, i) /\ prog[slotCall[p][i]].op = "known_prc" /\ (Waiting(p) => i # at[p])
        => NBX_active[p][i] = "known_prc"

\* What is in the first slot: with an empty queue only what a blocking call of
\* the batch left there.
FirstSlot(p) ==
    /\ ~InSync(p) /\ qcnt[p] = -1 =>
          (NBX_active[p][0] # "unactive" <=> Pending(prog, ip[p], {"sync"}))
    /\ ~InSync(p) /\ qcnt[p] >= 0 =>
          /\ slotCall[p][0] \in 1..(ip[p] - 1) /\ SameBatch(prog, slotCall[p][0], ip[p])
          /\ prog[slotCall[p][0]].op \in Queues /\ SlotIndex(prog, slotCall[p][0]) = 0

Slotted(p) == SlotNumbers(p) /\ SlotCalls(p) /\ SizesFirst(p) /\ FirstSlot(p)

\* The counter, and what it was when the first slot was taken.
Counter(p) == NBX_cnt[p] = CountBefore(prog, Now(p)) % nbx_cycle
Base(p) ==
    qcnt[p] >= 0 => cnt_base[p] = CountBefore(prog, <<slotCall[p][0], 0>>) % nbx_cycle

\* The exchanges of the barrier protocol that the rank is past.
Exchanged(p) ==
    \A c \in DOMAIN prog : Exchange(prog, c) /\ Ends(prog, c, Now(p)) => c \in finished[p]

----------------------------------------------------------------------------
(* The invariant: messages and receives.                                   *)

\* A message of the program.
OfProgram(src, dst, sz, c) == c \in DOMAIN prog /\ [src |-> src, dst |-> dst, sz |-> sz] \in prog[c].sends

SparseMessage(m) ==
    /\ Exchange(prog, m.call) /\ m.part = "data"
    /\ m.cnt = (CountBefore(prog, <<m.call, 0>>) % nbx_cycle) + SlotIndex(prog, m.call)

Did(p, c, part) == Earlier(Stamp(prog, c, part), Now(p))

KnownMessage(m) ==
    /\ KnownOf(m.call, m.part)
    /\ m.cnt = Number(prog, m.call, m.part) % nbx_cycle
    /\ Did(m.src, m.call, m.part)

Message(m) ==
    /\ OfProgram(m.src, m.dst, m.sz, m.call)
    /\ m.idx = 0 /\ m.round \in Nat /\ m.round < posts[m.src]
    /\ \/ m.cls = "sparse" /\ SparseMessage(m)
       \/ m.cls = "known" /\ KnownMessage(m)

Receive(r) ==
    /\ KnownOf(r.call, r.part)
    /\ r.cnt = Number(prog, r.call, r.part) % nbx_cycle
    /\ Did(r.dst, r.call, r.part)
    /\ r.round \in Nat /\ r.round < posts[r.dst]
    /\ \E x \in prog[r.call].sends :
          x.src = r.src /\ x.dst = r.dst /\ (r.part = "data" => r.sz = x.sz)
    /\ r.pos \in DOMAIN Senders(r.dst, r.call) /\ Senders(r.dst, r.call)[r.pos] = r.src
    /\ r.part = "size" => ~Did(r.dst, r.call, "data")

\* Sends and receives of one rank are numbered in the order of their moments,
\* and there is one for each message of the program.
SendOrder ==
    \A m, n \in flight : m.cls = "known" /\ n.cls = "known" /\ m.src = n.src =>
        /\ Earlier(Stamp(prog, m.call, m.part), Stamp(prog, n.call, n.part)) => m.round < n.round
        /\ m.dst = n.dst /\ m.call = n.call /\ m.part = n.part => m = n
ReceiveOrder ==
    \A r, t \in posted : r.dst = t.dst =>
        /\ Earlier(Stamp(prog, r.call, r.part), Stamp(prog, t.call, t.part)) => r.round < t.round
        /\ r.src = t.src /\ r.call = t.call /\ r.part = t.part => r = t

\* The send and the receive of message x of call c.
Sent(c, part, x) ==
    \E m \in flight : /\ m.cls = "known" /\ m.src = x.src /\ m.dst = x.dst
                      /\ m.call = c /\ m.part = part
Awaited(c, part, x) ==
    \E r \in posted : r.src = x.src /\ r.dst = x.dst /\ r.call = c /\ r.part = part

\* Both are under way, or both are done, once both ranks were there.
Paired(c, part, x) ==
    /\ Did(x.src, c, part) /\ ~Did(x.dst, c, part) => Sent(c, part, x)
    /\ Did(x.dst, c, part) /\ ~Did(x.src, c, part) => Awaited(c, part, x)
    /\ Did(x.src, c, part) /\ Did(x.dst, c, part) => (Sent(c, part, x) <=> Awaited(c, part, x))

Pairing ==
    \A c \in DOMAIN prog : \A part \in {"size", "data"} :
        KnownPart(prog, c, part) => \A x \in prog[c].sends : Paired(c, part, x)

----------------------------------------------------------------------------
(* The invariant: what was received.                                       *)

\* Message x of call c was delivered to its receiver for that call.
Got(c, x) ==
    \E g \in got[x.dst] :
        /\ g.call = c /\ g.part = "data" /\ g.sz = x.sz
        /\ g.msg.call = c /\ g.msg.part = "data" /\ g.msg.src = x.src

SparseUnderWay(c, x) ==
    \E m \in flight : /\ m.cls = "sparse" /\ m.call = c
                      /\ m.src = x.src /\ m.dst = x.dst /\ m.sz = x.sz

NothingLost ==
    \A c \in DOMAIN prog : \A x \in prog[c].sends :
        /\ Exchange(prog, c) /\ c < Behind(x.src) => SparseUnderWay(c, x) \/ Got(c, x)
        /\ KnownPart(prog, c, "data") /\ Did(x.dst, c, "data") => Awaited(c, "data", x) \/ Got(c, x)

\* The sizes rank p has asked for and not used: each of them is still to come,
\* at the place where the vector is, or is there.
SizesKnown(p) ==
    \A c \in DOMAIN prog :
        KnownPart(prog, c, "size") /\ Did(p, c, "size") /\ ~Did(p, c, "data") =>
            \A k \in DOMAIN Senders(p, c) :
                /\ k \in DOMAIN sz_recv_tmp[p].val
                /\ \/ \E r \in posted : /\ r.dst = p /\ r.call = c /\ r.part = "size" /\ r.pos = k
                                        /\ r.where = sz_recv_tmp[p].where
                   \/ [src |-> Senders(p, c)[k], dst |-> p, sz |-> sz_recv_tmp[p].val[k]]
                         \in prog[c].sends

Place(p) == Slotted(p) /\ Counter(p) /\ Base(p) /\ Exchanged(p) /\ SizesKnown(p)

Traffic ==
    /\ \A m \in flight : Message(m)
    /\ \A r \in posted : Receive(r)
    /\ SendOrder /\ ReceiveOrder /\ Pairing /\ NothingLost

Kept ==
    /\ posts \in [Proc -> Nat]
    /\ DOMAIN got = Proc
    /\ sz_recv_tmp \in [Proc -> [where : Nat, val : Seq(Nat)]]

(* The invariant; with IInv it is inductive. *)
MInv ==
    /\ Kept
    /\ \A p \in Proc : Place(p)
    /\ Traffic
    /\ QueueRightAssociation /\ QueueDelivered

----------------------------------------------------------------------------
(* Moments, programs, batches.                                             *)

Moments == Int \X Int

LEMMA EarlierOrder ==
    ASSUME NEW s \in Moments, NEW t \in Moments, NEW u \in Moments
    PROVE  /\ ~Earlier(s, s)
           /\ Earlier(s, t) /\ Earlier(t, u) => Earlier(s, u)
           /\ Earlier(s, t) \/ s = t \/ Earlier(t, s)
           /\ ~(Earlier(s, t) /\ Earlier(t, s))
BY DEF Earlier, Moments

LEMMA ProgramOf ==
    ASSUME NEW pr \in Programs
    PROVE  /\ Len(pr) \in Nat
           /\ DOMAIN pr = 1..Len(pr)
           /\ \A c \in 1..Len(pr) :
                /\ pr[c].op \in Ops
                /\ pr[c].sends \subseteq [src : Proc, dst : Proc, sz : Nat \ {0}]
<1> DEFINE Calling == [op : Ops, sends : SUBSET [src : Proc, dst : Proc, sz : Nat \ {0}]]
<1>1. pr \in Seq(Calling)
  BY QueueAssumption
<1>2. \A x \in Calling : /\ x.op \in Ops
                         /\ x.sends \subseteq [src : Proc, dst : Proc, sz : Nat \ {0}]
  OBVIOUS
<1> HIDE DEF Calling
<1>3. Len(pr) \in Nat /\ DOMAIN pr = 1..Len(pr)
  BY <1>1, LenProperties, Zenon
<1>4. \A c \in 1..Len(pr) : pr[c] \in Calling
  BY <1>1, ElementOfSeq, Zenon
<1> QED
  BY <1>2, <1>3, <1>4

\* The Wait of a call ends its batch.
LEMMA WaitOfCall ==
    ASSUME NEW pr \in Programs, NEW c \in DOMAIN pr
    PROVE  /\ WaitOf(pr, c) \in (c + 1)..(Len(pr) + 1)
           /\ WaitOf(pr, c) <= Len(pr) => pr[WaitOf(pr, c)].op = "wait"
           /\ \A i \in (c + 1)..(Len(pr) + 1) : SameBatch(pr, c, i) <=> i <= WaitOf(pr, c)
<1>1. Len(pr) \in Nat /\ c \in 1..Len(pr)
  BY ProgramOf
<1> DEFINE T == {w \in (c + 1)..Len(pr) : pr[w].op = "wait"} \cup {Len(pr) + 1}
<1>2. T \subseteq Nat /\ T # {}
  BY <1>1
<1>3. \E m \in T : \A n \in T : m <= n
  BY <1>2, Smallest, Zenon
<1>4. PICK w : w = WaitOf(pr, c)
  OBVIOUS
<1>5. w \in T /\ \A n \in T : w <= n
  BY <1>3, <1>4, Zenon DEF WaitOf, Min
<1>6. w \in (c + 1)..(Len(pr) + 1) /\ (w <= Len(pr) => pr[w].op = "wait")
  BY <1>1, <1>5
<1>7. \A k \in (c + 1)..Len(pr) : pr[k].op = "wait" => w <= k
  BY <1>5
<1>8. ASSUME NEW i \in (c + 1)..(Len(pr) + 1)
      PROVE  SameBatch(pr, c, i) <=> i <= w
  <2>1. ASSUME i <= w
        PROVE  SameBatch(pr, c, i)
    BY <1>1, <1>6, <1>7, <2>1 DEF SameBatch
  <2>2. ASSUME ~(i <= w)
        PROVE  ~SameBatch(pr, c, i)
    BY <1>1, <1>6, <2>2 DEF SameBatch
  <2> QED
    BY <2>1, <2>2
<1> QED
  BY <1>4, <1>6, <1>8

LEMMA CompletionOf ==
    ASSUME NEW pr \in Programs, NEW c \in DOMAIN pr
    PROVE  /\ Completion(pr, c) \in c..(Len(pr) + 1)
           /\ pr[c].op \notin Queues => Completion(pr, c) = c
           /\ pr[c].op \in Queues =>
                /\ Completion(pr, c) > c
                /\ Completion(pr, c) <= Len(pr) => pr[Completion(pr, c)].op = "wait"
                /\ \A i \in (c + 1)..(Len(pr) + 1) :
                      SameBatch(pr, c, i) <=> i <= Completion(pr, c)
<1>1. Len(pr) \in Nat /\ c \in 1..Len(pr)
  BY ProgramOf
<1>2. CASE pr[c].op \in Queues
  <2>1. Completion(pr, c) = WaitOf(pr, c)
    BY <1>2 DEF Completion
  <2>2. WaitOf(pr, c) \in (c + 1)..(Len(pr) + 1)
    BY WaitOfCall
  <2> QED
    BY <1>1, <1>2, <2>1, <2>2, WaitOfCall
<1>3. CASE pr[c].op \notin Queues
  <2>1. Completion(pr, c) = c
    BY <1>3 DEF Completion
  <2> QED
    BY <1>1, <1>3, <2>1
<1> QED
  BY <1>2, <1>3

----------------------------------------------------------------------------
(* The numbers of the slots.                                               *)

LEMMA SlotIndexType ==
    ASSUME NEW pr, NEW c \in Nat
    PROVE  IsFiniteSet(SlotsBefore(pr, c)) /\ SlotIndex(pr, c) \in Nat
<1>1. IsFiniteSet(1..(c - 1))
  BY FS_Interval
<1>2. SlotsBefore(pr, c) \in SUBSET (1..(c - 1))
  BY DEF SlotsBefore
<1>3. IsFiniteSet(SlotsBefore(pr, c))
  BY <1>1, <1>2, FS_Subset, Zenon
<1> QED
  BY <1>3, FS_CardinalityType, Zenon DEF SlotIndex

LEMMA SlotIndexNext ==
    ASSUME NEW pr, NEW c \in Nat \ {0}
    PROVE  SlotIndex(pr, c + 1) =
             IF pr[c].op = "wait" THEN 0
             ELSE IF Numbered(pr, c) THEN SlotIndex(pr, c) + 1 ELSE SlotIndex(pr, c)
<1>1. IsFiniteSet(SlotsBefore(pr, c)) /\ c \notin SlotsBefore(pr, c)
  BY SlotIndexType DEF SlotsBefore
<1>2. \A a \in 1..(c - 1) : SameBatch(pr, a, c + 1) <=> SameBatch(pr, a, c) /\ pr[c].op # "wait"
  BY DEF SameBatch
<1>3. SameBatch(pr, c, c + 1) /\ 1..((c + 1) - 1) = 1..(c - 1) \cup {c}
  BY DEF SameBatch
<1>4. CASE pr[c].op = "wait"
  <2>1. ~Numbered(pr, c)
    BY <1>4 DEF Numbered, Queues
  <2>2. SlotsBefore(pr, c + 1) = {}
    BY <1>2, <1>3, <1>4, <2>1 DEF SlotsBefore
  <2> QED
    BY <1>4, <2>2, FS_EmptySet DEF SlotIndex
<1>5. CASE pr[c].op # "wait" /\ Numbered(pr, c)
  <2>1. SlotsBefore(pr, c + 1) = SlotsBefore(pr, c) \cup {c}
    BY <1>2, <1>3, <1>5 DEF SlotsBefore
  <2>2. Cardinality(SlotsBefore(pr, c) \cup {c}) = Cardinality(SlotsBefore(pr, c)) + 1
    BY <1>1, FS_AddElement, Zenon
  <2> QED
    BY <1>5, <2>1, <2>2 DEF SlotIndex
<1>6. CASE pr[c].op # "wait" /\ ~Numbered(pr, c)
  <2>1. SlotsBefore(pr, c + 1) = SlotsBefore(pr, c)
    BY <1>2, <1>3, <1>6 DEF SlotsBefore
  <2> QED
    BY <1>6, <2>1 DEF SlotIndex
<1> QED
  BY <1>4, <1>5, <1>6

\* Within a batch the numbers grow.
LEMMA SlotIndexGrows ==
    ASSUME NEW pr, NEW a \in Nat \ {0}, NEW c \in Nat, SameBatch(pr, a, c)
    PROVE  /\ pr[a].op # "wait" => SlotIndex(pr, a) <= SlotIndex(pr, c)
           /\ Numbered(pr, a) => SlotIndex(pr, a) < SlotIndex(pr, c)
<1>1. a < c
  BY DEF SameBatch
<1>2. IsFiniteSet(SlotsBefore(pr, a)) /\ IsFiniteSet(SlotsBefore(pr, c))
  BY SlotIndexType
<1>3. ASSUME pr[a].op # "wait"
      PROVE  SlotsBefore(pr, a) \subseteq SlotsBefore(pr, c)
  <2>1. ASSUME NEW b \in SlotsBefore(pr, a)
        PROVE  b \in SlotsBefore(pr, c)
    <3>1. b \in 1..(a - 1) /\ SameBatch(pr, b, a) /\ Numbered(pr, b)
      BY <2>1 DEF SlotsBefore
    <3>2. SameBatch(pr, b, c)
      BY <1>1, <1>3, <3>1 DEF SameBatch
    <3> QED
      BY <1>1, <3>1, <3>2 DEF SlotsBefore
  <2> QED
    BY <2>1
<1>4. a \notin SlotsBefore(pr, a) /\ (Numbered(pr, a) => a \in SlotsBefore(pr, c) /\ pr[a].op # "wait")
  BY <1>1 DEF SlotsBefore, Numbered, Queues
<1>5. ASSUME pr[a].op # "wait"
      PROVE  SlotIndex(pr, a) <= SlotIndex(pr, c)
  BY <1>2, <1>3, <1>5, FS_Subset, Zenon DEF SlotIndex
<1>6. ASSUME Numbered(pr, a)
      PROVE  SlotIndex(pr, a) < SlotIndex(pr, c)
  <2>1. Cardinality(SlotsBefore(pr, a)) < Cardinality(SlotsBefore(pr, c))
    <3>1. SlotsBefore(pr, a) \subseteq SlotsBefore(pr, c) /\ SlotsBefore(pr, a) # SlotsBefore(pr, c)
      BY <1>3, <1>4, <1>6
    <3>2. /\ Cardinality(SlotsBefore(pr, a)) <= Cardinality(SlotsBefore(pr, c))
          /\ Cardinality(SlotsBefore(pr, a)) = Cardinality(SlotsBefore(pr, c))
                => SlotsBefore(pr, a) = SlotsBefore(pr, c)
      BY <1>2, <3>1, FS_Subset, Zenon
    <3>3. Cardinality(SlotsBefore(pr, a)) \in Nat /\ Cardinality(SlotsBefore(pr, c)) \in Nat
      BY <1>2, FS_CardinalityType, Zenon
    <3> QED
      BY <3>1, <3>2, <3>3
  <2> QED
    BY <2>1 DEF SlotIndex
<1> QED
  BY <1>5, <1>6

\* One batch, one call for each number.
LEMMA SlotIndexTells ==
    ASSUME NEW pr, NEW a \in Nat \ {0}, NEW b \in Nat \ {0}, NEW c \in Nat,
           Numbered(pr, a), Numbered(pr, b), SameBatch(pr, a, c), SameBatch(pr, b, c),
           SlotIndex(pr, a) = SlotIndex(pr, b)
    PROVE  a = b
<1>1. a < c /\ b < c
  BY DEF SameBatch
<1>2. CASE a < b
  <2>1. SameBatch(pr, a, b)
    BY <1>1, <1>2 DEF SameBatch
  <2>2. SlotIndex(pr, a) < SlotIndex(pr, b)
    BY <2>1, SlotIndexGrows
  <2> QED
    BY <2>2, SlotIndexType
<1>3. CASE b < a
  <2>1. SameBatch(pr, b, a)
    BY <1>1, <1>3 DEF SameBatch
  <2>2. SlotIndex(pr, b) < SlotIndex(pr, a)
    BY <2>1, SlotIndexGrows
  <2> QED
    BY <2>2, SlotIndexType
<1> QED
  BY <1>2, <1>3

\* Nothing is queued: the first slot is next.
LEMMA SlotIndexZero ==
    ASSUME NEW pr, NEW c \in Nat \ {0}
    PROVE  SlotIndex(pr, c) = 0 <=> ~Pending(pr, c, Queues)
<1>1. IsFiniteSet(SlotsBefore(pr, c))
  BY SlotIndexType
<1>2. SlotIndex(pr, c) = 0 <=> SlotsBefore(pr, c) = {}
  BY <1>1, FS_EmptySet, Zenon DEF SlotIndex
<1>3. ASSUME NEW a \in SlotsBefore(pr, c)
      PROVE  Pending(pr, c, Queues)
  <2>1. a \in 1..(c - 1) /\ SameBatch(pr, a, c) /\ Numbered(pr, a)
    BY <1>3 DEF SlotsBefore
  <2>2. CASE pr[a].op \in Queues
    BY <2>1, <2>2 DEF Pending
  <2>3. CASE pr[a].op = "sync" /\ Pending(pr, a, Queues)
    <3>1. PICK b \in 1..(a - 1) : pr[b].op \in Queues /\ SameBatch(pr, b, a)
      BY <2>3 DEF Pending
    <3>2. SameBatch(pr, b, c) /\ b \in 1..(c - 1)
      BY <2>1, <2>3, <3>1 DEF SameBatch
    <3> QED
      BY <3>1, <3>2 DEF Pending
  <2> QED
    BY <2>1, <2>2, <2>3 DEF Numbered
<1>4. ASSUME Pending(pr, c, Queues)
      PROVE  SlotsBefore(pr, c) # {}
  BY <1>4 DEF Pending, SlotsBefore, Numbered
<1> QED
  BY <1>2, <1>3, <1>4

----------------------------------------------------------------------------
(* The counter: what counts in each call.                                  *)

LEMMA TicksType ==
    ASSUME NEW pr \in Programs
    PROVE  /\ IsFiniteSet(Ticks(pr))
           /\ \A e \in Ticks(pr) :
                /\ e = <<e[1], e[2]>> /\ e[1] \in DOMAIN pr /\ e[1] \in Nat /\ e[2] \in {1, 2}
                /\ Counts(pr, e[1], e[2])
                /\ TickAt(pr, e) = <<Completion(pr, e[1]), 2 * e[1] + e[2] - 1>>
                /\ TickAt(pr, e) \in Moments
           /\ \A c \in DOMAIN pr, k \in {1, 2} : Counts(pr, c, k) => <<c, k>> \in Ticks(pr)
<1>1. Len(pr) \in Nat /\ DOMAIN pr = 1..Len(pr)
  BY ProgramOf
<1>2. IsFiniteSet(DOMAIN pr)
  BY <1>1, FS_Interval
<1>3. IsFiniteSet({1, 2})
  <2>1. \A k \in Nat : IsFiniteSet(1..k)
    BY FS_Interval
  <2>2. 1..2 = {1, 2}
    OBVIOUS
  <2> QED
    BY <2>1, <2>2
<1>4. IsFiniteSet((DOMAIN pr) \X {1, 2})
  BY <1>2, <1>3, FS_Product, Zenon
<1>5. Ticks(pr) \in SUBSET ((DOMAIN pr) \X {1, 2})
  BY DEF Ticks
<1>6. IsFiniteSet(Ticks(pr))
  BY <1>4, <1>5, FS_Subset, Zenon
<1>7. ASSUME NEW e \in Ticks(pr)
      PROVE  /\ e = <<e[1], e[2]>> /\ e[1] \in DOMAIN pr /\ e[1] \in Nat /\ e[2] \in {1, 2}
             /\ Counts(pr, e[1], e[2])
             /\ TickAt(pr, e) = <<Completion(pr, e[1]), 2 * e[1] + e[2] - 1>>
             /\ TickAt(pr, e) \in Moments
  <2>1. e = <<e[1], e[2]>> /\ e[1] \in DOMAIN pr /\ e[1] \in Nat /\ e[2] \in {1, 2}
    BY <1>1, <1>7 DEF Ticks
  <2>2. Counts(pr, e[1], e[2])
    BY <1>7 DEF Ticks
  <2>3. TickAt(pr, e) = <<Completion(pr, e[1]), 2 * e[1] + e[2] - 1>>
    BY DEF TickAt
  <2>4. Completion(pr, e[1]) \in Int
    BY <1>1, <2>1, CompletionOf
  <2>5. 2 * e[1] + e[2] - 1 \in Int
    BY <2>1
  <2> QED
    BY <2>1, <2>2, <2>3, <2>4, <2>5 DEF Moments
<1>8. ASSUME NEW c \in DOMAIN pr, NEW k \in {1, 2}, Counts(pr, c, k)
      PROVE  <<c, k>> \in Ticks(pr)
  BY <1>8 DEF Ticks
<1> QED
  BY <1>6, <1>7, <1>8

Before(pr, t) == {e \in Ticks(pr) : Earlier(TickAt(pr, e), t)}

LEMMA CounterType ==
    ASSUME NEW pr \in Programs, NEW t
    PROVE  /\ IsFiniteSet(Before(pr, t))
           /\ CountBefore(pr, t) = Cardinality(Before(pr, t)) /\ CountBefore(pr, t) \in Nat
<1>1. Before(pr, t) \in SUBSET Ticks(pr)
  BY DEF Before
<1>2. IsFiniteSet(Before(pr, t))
  BY <1>1, TicksType, FS_Subset, Zenon
<1>3. CountBefore(pr, t) = Cardinality(Before(pr, t))
  BY Zenon DEF CountBefore, Before
<1> QED
  BY <1>2, <1>3, FS_CardinalityType, Zenon

\* Between two moments nothing counts, or one thing does.
SameTicks(pr, s, t) ==
    \A e \in Ticks(pr) : Earlier(TickAt(pr, e), s) <=> Earlier(TickAt(pr, e), t)
OneTick(pr, s, t, e) ==
    /\ e \in Ticks(pr) /\ ~Earlier(TickAt(pr, e), s) /\ Earlier(TickAt(pr, e), t)
    /\ \A f \in Ticks(pr) \ {e} : Earlier(TickAt(pr, f), s) <=> Earlier(TickAt(pr, f), t)

LEMMA SameCount ==
    ASSUME NEW pr \in Programs, NEW s, NEW t, SameTicks(pr, s, t)
    PROVE  CountBefore(pr, s) = CountBefore(pr, t)
<1>1. Before(pr, s) = Before(pr, t)
  BY DEF SameTicks, Before
<1> QED
  BY <1>1, CounterType

LEMMA NextCount ==
    ASSUME NEW pr \in Programs, NEW s, NEW t, NEW e, OneTick(pr, s, t, e)
    PROVE  CountBefore(pr, t) = CountBefore(pr, s) + 1
<1>1. Before(pr, t) = Before(pr, s) \cup {e} /\ e \notin Before(pr, s)
  BY DEF OneTick, Before
<1>2. Cardinality(Before(pr, s) \cup {e}) = Cardinality(Before(pr, s)) + 1
  BY <1>1, CounterType, FS_AddElement, Zenon
<1> QED
  BY <1>1, <1>2, CounterType

LEMMA CounterGrows ==
    ASSUME NEW pr \in Programs, NEW s, NEW t,
           \A e \in Ticks(pr) : Earlier(TickAt(pr, e), s) => Earlier(TickAt(pr, e), t)
    PROVE  CountBefore(pr, s) <= CountBefore(pr, t)
<1>1. Before(pr, s) \subseteq Before(pr, t)
  BY DEF Before
<1>2. Cardinality(Before(pr, s)) <= Cardinality(Before(pr, t))
  BY <1>1, CounterType, FS_Subset, Zenon
<1> QED
  BY <1>2, CounterType

\* What counts in call i: the call itself, or the queued calls of its batch.
LEMMA TicksIn ==
    ASSUME NEW pr \in Programs, NEW e \in Ticks(pr), NEW i, Completion(pr, e[1]) = i
    PROVE  /\ \/ /\ e[1] = i /\ pr[i].op \notin Queues
                 /\ \/ Blocking(pr, i) \/ StaleWait(pr, i)
                    \/ pr[i].op \in {"known_sync", "known_prc_sync"}
              \/ /\ Queued(pr, e[1]) /\ SameBatch(pr, e[1], i)
                 /\ i \in DOMAIN pr => pr[i].op = "wait"
           /\ e[2] = 2 => pr[e[1]].op \in {"known_prc", "known_prc_sync"}
<1>1. e[1] \in DOMAIN pr /\ Counts(pr, e[1], e[2]) /\ Len(pr) \in Nat /\ DOMAIN pr = 1..Len(pr)
  BY TicksType, ProgramOf
<1>2. e[2] = 2 => pr[e[1]].op \in {"known_prc", "known_prc_sync"}
  BY <1>1 DEF Counts
<1>3. CASE pr[e[1]].op \in Queues
  <2>1. Queued(pr, e[1])
    BY <1>1, <1>3 DEF Counts, Blocking, StaleWait, Queues
  <2>2. i \in (e[1] + 1)..(Len(pr) + 1) /\ (i <= Len(pr) => pr[i].op = "wait")
    BY <1>1, <1>3, CompletionOf
  <2>3. SameBatch(pr, e[1], i)
    BY <1>1, <1>3, <2>2, CompletionOf
  <2> QED
    BY <1>1, <1>2, <2>1, <2>2, <2>3
<1>4. CASE pr[e[1]].op \notin Queues
  <2>1. e[1] = i
    BY <1>1, <1>4, CompletionOf
  <2>2. Blocking(pr, i) \/ StaleWait(pr, i) \/ pr[i].op \in {"known_sync", "known_prc_sync"}
    BY <1>1, <1>4, <2>1 DEF Counts, Queued
  <2> QED
    BY <1>2, <1>4, <2>1, <2>2
<1> QED
  BY <1>3, <1>4

\* From one moment to a later one of the same call, or to the next call: only
\* what counts in that call matters.
LEMMA TickShape ==
    ASSUME NEW pr \in Programs, NEW e \in Ticks(pr)
    PROVE  /\ TickAt(pr, e) = <<Completion(pr, e[1]), 2 * e[1] + e[2] - 1>>
           /\ Completion(pr, e[1]) \in Nat
           /\ e[1] \in Nat /\ e[1] >= 1 /\ e[2] \in {1, 2}
<1>1. e[1] \in DOMAIN pr /\ e[1] \in Nat /\ e[2] \in {1, 2} /\ e[1] >= 1
      /\ TickAt(pr, e) = <<Completion(pr, e[1]), 2 * e[1] + e[2] - 1>>
  BY TicksType, ProgramOf
<1>2. Completion(pr, e[1]) \in Nat
  BY <1>1, CompletionOf, ProgramOf
<1> QED
  BY <1>1, <1>2

LEMMA SameTicksInside ==
    ASSUME NEW pr \in Programs, NEW i \in Nat, NEW x \in Nat, NEW y \in Nat, x <= y,
           \A e \in Ticks(pr) : Completion(pr, e[1]) = i =>
              2 * e[1] + e[2] - 1 < x \/ 2 * e[1] + e[2] - 1 >= y
    PROVE  SameTicks(pr, <<i, x>>, <<i, y>>)
<1>1. ASSUME NEW e \in Ticks(pr)
      PROVE  Earlier(TickAt(pr, e), <<i, x>>) <=> Earlier(TickAt(pr, e), <<i, y>>)
  BY <1>1, TickShape DEF Earlier
<1> QED
  BY <1>1 DEF SameTicks

LEMMA SameTicksBeyond ==
    ASSUME NEW pr \in Programs, NEW i \in Nat, NEW x \in Nat,
           \A e \in Ticks(pr) : Completion(pr, e[1]) = i => 2 * e[1] + e[2] - 1 < x
    PROVE  SameTicks(pr, <<i, x>>, <<i + 1, 0>>)
<1>1. ASSUME NEW e \in Ticks(pr)
      PROVE  Earlier(TickAt(pr, e), <<i, x>>) <=> Earlier(TickAt(pr, e), <<i + 1, 0>>)
  BY <1>1, TickShape DEF Earlier
<1> QED
  BY <1>1 DEF SameTicks

LEMMA OneTickInside ==
    ASSUME NEW pr \in Programs, NEW i \in Nat, NEW x \in Nat, NEW y \in Nat,
           NEW b, NEW k, <<b, k>> \in Ticks(pr), Completion(pr, b) = i,
           x <= 2 * b + k - 1, 2 * b + k - 1 < y,
           \A e \in Ticks(pr) : Completion(pr, e[1]) = i =>
              e = <<b, k>> \/ 2 * e[1] + e[2] - 1 < x \/ 2 * e[1] + e[2] - 1 >= y
    PROVE  OneTick(pr, <<i, x>>, <<i, y>>, <<b, k>>)
<1>1. ASSUME NEW e \in Ticks(pr) \ {<<b, k>>}
      PROVE  Earlier(TickAt(pr, e), <<i, x>>) <=> Earlier(TickAt(pr, e), <<i, y>>)
  BY <1>1, TickShape DEF Earlier
<1>2. TickAt(pr, <<b, k>>) = <<i, 2 * b + k - 1>> /\ b \in Nat /\ k \in {1, 2}
  BY TickShape
<1>3. ~Earlier(<<i, 2 * b + k - 1>>, <<i, x>>) /\ Earlier(<<i, 2 * b + k - 1>>, <<i, y>>)
  BY <1>2 DEF Earlier
<1> QED
  BY <1>1, <1>2, <1>3 DEF OneTick

LEMMA OneTickBeyond ==
    ASSUME NEW pr \in Programs, NEW i \in Nat, NEW x \in Nat,
           NEW b, NEW k, <<b, k>> \in Ticks(pr), Completion(pr, b) = i, x <= 2 * b + k - 1,
           \A e \in Ticks(pr) : Completion(pr, e[1]) = i => e = <<b, k>> \/ 2 * e[1] + e[2] - 1 < x
    PROVE  OneTick(pr, <<i, x>>, <<i + 1, 0>>, <<b, k>>)
<1>1. ASSUME NEW e \in Ticks(pr) \ {<<b, k>>}
      PROVE  Earlier(TickAt(pr, e), <<i, x>>) <=> Earlier(TickAt(pr, e), <<i + 1, 0>>)
  BY <1>1, TickShape DEF Earlier
<1>2. TickAt(pr, <<b, k>>) = <<i, 2 * b + k - 1>> /\ b \in Nat /\ k \in {1, 2}
  BY TickShape
<1>3. ~Earlier(<<i, 2 * b + k - 1>>, <<i, x>>) /\ Earlier(<<i, 2 * b + k - 1>>, <<i + 1, 0>>)
  BY <1>2 DEF Earlier
<1> QED
  BY <1>1, <1>2, <1>3 DEF OneTick

----------------------------------------------------------------------------
(* The stamps of the messages.                                             *)

LEMMA StampOf ==
    ASSUME NEW pr \in Programs, NEW c \in DOMAIN pr, NEW part, KnownPart(pr, c, part)
    PROVE  /\ Stamp(pr, c, part) \in Moments
           /\ part \in {"size", "data"}
           /\ pr[c].op \in {"known", "known_prc", "known_sync", "known_prc_sync"}
           /\ pr[c].op \in Queues => Queued(pr, c)
           /\ part = "size" => /\ Stamp(pr, c, part) = <<c, 0>>
                               /\ pr[c].op \in {"known_prc", "known_prc_sync"}
           /\ part = "data" =>
                Stamp(pr, c, part) = IF pr[c].op \in {"known_prc", "known_prc_sync"}
                                     THEN <<Completion(pr, c), 2 * c>> ELSE <<c, 0>>
           /\ Earlier(<<c, 0>>, Stamp(pr, c, part)) \/ Stamp(pr, c, part) = <<c, 0>>
<1>1. c \in Nat /\ c >= 1 /\ Completion(pr, c) \in Nat /\ Completion(pr, c) >= c
  BY CompletionOf, ProgramOf
<1>2. /\ part \in {"size", "data"}
      /\ pr[c].op \in {"known", "known_prc", "known_sync", "known_prc_sync"}
      /\ pr[c].op \in Queues => Queued(pr, c)
      /\ part = "size" => pr[c].op \in {"known_prc", "known_prc_sync"}
  BY DEF KnownPart, Queues
<1>3. Stamp(pr, c, part) = IF part = "data" /\ pr[c].op \in {"known_prc", "known_prc_sync"}
                           THEN <<Completion(pr, c), 2 * c>> ELSE <<c, 0>>
  BY DEF Stamp, Announced
<1>4. <<Completion(pr, c), 2 * c>> \in Moments /\ <<c, 0>> \in Moments
  BY <1>1 DEF Moments
<1>5. Earlier(<<c, 0>>, <<Completion(pr, c), 2 * c>>)
  BY <1>1 DEF Earlier
<1> QED
  BY <1>2, <1>3, <1>4, <1>5

\* A stamp names the call and the part.
LEMMA StampTells ==
    ASSUME NEW pr \in Programs, NEW a \in DOMAIN pr, NEW c \in DOMAIN pr, NEW part, NEW other,
           KnownPart(pr, a, part), KnownPart(pr, c, other),
           Stamp(pr, a, part) = Stamp(pr, c, other)
    PROVE  a = c /\ part = other
<1>1. a \in Nat /\ a >= 1 /\ c \in Nat /\ c >= 1
  BY ProgramOf
<1>2. ASSUME NEW b \in {a, c}, NEW half, KnownPart(pr, b, half)
      PROVE  Announced(pr, b, half) => Stamp(pr, b, half)[2] = 2 * b
  BY <1>2 DEF Stamp
<1>3. ASSUME NEW b \in {a, c}, NEW half, ~Announced(pr, b, half)
      PROVE  Stamp(pr, b, half)[1] = b /\ Stamp(pr, b, half)[2] = 0
  BY <1>3 DEF Stamp
<1>4. a = c /\ (Announced(pr, a, part) <=> Announced(pr, c, other))
  <2>1. Stamp(pr, a, part)[1] = Stamp(pr, c, other)[1] /\ Stamp(pr, a, part)[2] = Stamp(pr, c, other)[2]
    OBVIOUS
  <2>2. 2 * a # 0 /\ 2 * c # 0 /\ (2 * a = 2 * c => a = c)
    BY <1>1
  <2>3. CASE Announced(pr, a, part) /\ Announced(pr, c, other)
    BY <1>2, <2>1, <2>2, <2>3
  <2>4. CASE ~Announced(pr, a, part) /\ ~Announced(pr, c, other)
    BY <1>3, <2>1, <2>4
  <2>5. CASE Announced(pr, a, part) /\ ~Announced(pr, c, other)
    BY <1>2, <1>3, <2>1, <2>2, <2>5
  <2>6. CASE ~Announced(pr, a, part) /\ Announced(pr, c, other)
    BY <1>2, <1>3, <2>1, <2>2, <2>6
  <2> QED
    BY <2>3, <2>4, <2>5, <2>6
<1>5. part \in {"size", "data"} /\ other \in {"size", "data"}
  BY StampOf
<1>6. pr[a].op \notin {"known_prc", "known_prc_sync"} => part = "data" /\ other = "data"
  BY <1>4, StampOf
<1> QED
  BY <1>4, <1>5, <1>6 DEF Announced

SameStamps(pr, s, t) ==
    \A c \in DOMAIN pr : \A part :
        KnownPart(pr, c, part) => (Earlier(Stamp(pr, c, part), s) <=> Earlier(Stamp(pr, c, part), t))
OneStamp(pr, s, t, c, part) ==
    /\ c \in DOMAIN pr /\ KnownPart(pr, c, part)
    /\ ~Earlier(Stamp(pr, c, part), s) /\ Earlier(Stamp(pr, c, part), t)
    /\ \A a \in DOMAIN pr : \A other :
          KnownPart(pr, a, other) /\ (a # c \/ other # part) =>
             (Earlier(Stamp(pr, a, other), s) <=> Earlier(Stamp(pr, a, other), t))

\* What is sent in a call: its own messages, or the data of queued calls.
LEMMA StampShape ==
    ASSUME NEW pr \in Programs, NEW c \in DOMAIN pr, NEW part, KnownPart(pr, c, part)
    PROVE  \E C \in Nat, n \in Nat :
             /\ Stamp(pr, c, part) = <<C, n>>
             /\ \/ C = c /\ n = 0 /\ pr[c].op # "wait" /\ ~Announced(pr, c, part)
                \/ part = "data" /\ pr[c].op = "known_prc_sync" /\ C = c /\ n = 2 * c
                \/ /\ part = "data" /\ pr[c].op = "known_prc" /\ Queued(pr, c)
                   /\ C = Completion(pr, c) /\ n = 2 * c /\ SameBatch(pr, c, C)
                   /\ C \in DOMAIN pr => pr[C].op = "wait"
<1>1. /\ pr[c].op \in {"known", "known_prc", "known_sync", "known_prc_sync"}
      /\ pr[c].op \in Queues => Queued(pr, c)
  BY StampOf
<1>0. c \in Nat /\ Completion(pr, c) \in Nat /\ 2 * c \in Nat
  BY CompletionOf, ProgramOf
<1>2. Stamp(pr, c, part) = IF Announced(pr, c, part) THEN <<Completion(pr, c), 2 * c>> ELSE <<c, 0>>
  BY DEF Stamp
<1>3. CASE ~Announced(pr, c, part)
  BY <1>0, <1>1, <1>2, <1>3
<1>4. CASE Announced(pr, c, part) /\ pr[c].op = "known_prc_sync"
  <2>1. Completion(pr, c) = c
    BY <1>4 DEF Completion, Queues
  <2> QED
    BY <1>0, <1>2, <1>4, <2>1 DEF Announced
<1>5. CASE Announced(pr, c, part) /\ pr[c].op = "known_prc"
  <2>1. pr[c].op \in Queues
    BY <1>5 DEF Queues
  <2>2. Len(pr) \in Nat /\ DOMAIN pr = 1..Len(pr)
    BY ProgramOf
  <2>3. /\ Completion(pr, c) \in (c + 1)..(Len(pr) + 1)
        /\ Completion(pr, c) <= Len(pr) => pr[Completion(pr, c)].op = "wait"
    BY <2>1, <2>2, CompletionOf
  <2>4. SameBatch(pr, c, Completion(pr, c))
    BY <2>1, <2>2, <2>3, CompletionOf
  <2> QED
    BY <1>0, <1>1, <1>2, <1>5, <2>1, <2>2, <2>3, <2>4 DEF Announced
<1> QED
  BY <1>1, <1>3, <1>4, <1>5 DEF Announced

LEMMA SameStampsInside ==
    ASSUME NEW pr \in Programs, NEW i \in Nat, NEW x \in Nat, NEW y \in Nat, x <= y,
           \A c \in DOMAIN pr : \A part : KnownPart(pr, c, part) =>
              \A n \in Nat : Stamp(pr, c, part) = <<i, n>> => n < x \/ n >= y
    PROVE  SameStamps(pr, <<i, x>>, <<i, y>>)
<1>1. ASSUME NEW c \in DOMAIN pr, NEW part, KnownPart(pr, c, part)
      PROVE  Earlier(Stamp(pr, c, part), <<i, x>>) <=> Earlier(Stamp(pr, c, part), <<i, y>>)
  <2>1. PICK C \in Nat, n \in Nat : Stamp(pr, c, part) = <<C, n>>
    BY <1>1, StampShape
  <2>2. C = i => n < x \/ n >= y
    BY <1>1, <2>1
  <2>3. Earlier(<<C, n>>, <<i, x>>) <=> Earlier(<<C, n>>, <<i, y>>)
    BY <2>2 DEF Earlier
  <2> QED
    BY <2>1, <2>3
<1> QED
  BY <1>1 DEF SameStamps

LEMMA SameStampsBeyond ==
    ASSUME NEW pr \in Programs, NEW i \in Nat, NEW x \in Nat,
           \A c \in DOMAIN pr : \A part : KnownPart(pr, c, part) =>
              \A n \in Nat : Stamp(pr, c, part) = <<i, n>> => n < x
    PROVE  SameStamps(pr, <<i, x>>, <<i + 1, 0>>)
<1>1. ASSUME NEW c \in DOMAIN pr, NEW part, KnownPart(pr, c, part)
      PROVE  Earlier(Stamp(pr, c, part), <<i, x>>) <=> Earlier(Stamp(pr, c, part), <<i + 1, 0>>)
  <2>1. PICK C \in Nat, n \in Nat : Stamp(pr, c, part) = <<C, n>>
    BY <1>1, StampShape
  <2>2. C = i => n < x
    BY <1>1, <2>1
  <2>3. Earlier(<<C, n>>, <<i, x>>) <=> Earlier(<<C, n>>, <<i + 1, 0>>)
    BY <2>2 DEF Earlier
  <2> QED
    BY <2>1, <2>3
<1> QED
  BY <1>1 DEF SameStamps

LEMMA OneStampInside ==
    ASSUME NEW pr \in Programs, NEW i \in Nat, NEW x \in Nat, NEW y \in Nat, x <= y,
           NEW a \in DOMAIN pr, NEW half, KnownPart(pr, a, half),
           NEW k \in Nat, Stamp(pr, a, half) = <<i, k>>, x <= k, k < y,
           \A c \in DOMAIN pr : \A part : KnownPart(pr, c, part) =>
              \A n \in Nat : Stamp(pr, c, part) = <<i, n>> => n < x \/ n >= y \/ n = k
    PROVE  OneStamp(pr, <<i, x>>, <<i, y>>, a, half)
<1>1. ASSUME NEW c \in DOMAIN pr, NEW part, KnownPart(pr, c, part), c # a \/ part # half
      PROVE  Earlier(Stamp(pr, c, part), <<i, x>>) <=> Earlier(Stamp(pr, c, part), <<i, y>>)
  <2>1. PICK C \in Nat, n \in Nat : Stamp(pr, c, part) = <<C, n>>
    BY <1>1, StampShape
  <2>2. Stamp(pr, c, part) # Stamp(pr, a, half)
    BY <1>1, StampTells
  <2>3. C = i => n < x \/ n >= y
    BY <1>1, <2>1, <2>2
  <2>4. Earlier(<<C, n>>, <<i, x>>) <=> Earlier(<<C, n>>, <<i, y>>)
    BY <2>3 DEF Earlier
  <2> QED
    BY <2>1, <2>4
<1>2. ~Earlier(<<i, k>>, <<i, x>>) /\ Earlier(<<i, k>>, <<i, y>>)
  BY DEF Earlier
<1> QED
  BY <1>1, <1>2 DEF OneStamp

LEMMA OneStampBeyond ==
    ASSUME NEW pr \in Programs, NEW i \in Nat, NEW x \in Nat,
           NEW a \in DOMAIN pr, NEW half, KnownPart(pr, a, half),
           NEW k \in Nat, Stamp(pr, a, half) = <<i, k>>, x <= k,
           \A c \in DOMAIN pr : \A part : KnownPart(pr, c, part) =>
              \A n \in Nat : Stamp(pr, c, part) = <<i, n>> => n < x \/ n = k
    PROVE  OneStamp(pr, <<i, x>>, <<i + 1, 0>>, a, half)
<1>1. ASSUME NEW c \in DOMAIN pr, NEW part, KnownPart(pr, c, part), c # a \/ part # half
      PROVE  Earlier(Stamp(pr, c, part), <<i, x>>) <=> Earlier(Stamp(pr, c, part), <<i + 1, 0>>)
  <2>1. PICK C \in Nat, n \in Nat : Stamp(pr, c, part) = <<C, n>>
    BY <1>1, StampShape
  <2>2. Stamp(pr, c, part) # Stamp(pr, a, half)
    BY <1>1, StampTells
  <2>3. C = i => n < x
    BY <1>1, <2>1, <2>2
  <2>4. Earlier(<<C, n>>, <<i, x>>) <=> Earlier(<<C, n>>, <<i + 1, 0>>)
    BY <2>3 DEF Earlier
  <2> QED
    BY <2>1, <2>4
<1>2. ~Earlier(<<i, k>>, <<i, x>>) /\ Earlier(<<i, k>>, <<i + 1, 0>>)
  BY DEF Earlier
<1> QED
  BY <1>1, <1>2 DEF OneStamp

LEMMA StampsOfCall ==
    ASSUME NEW pr \in Programs, NEW c \in DOMAIN pr, NEW part, KnownPart(pr, c, part),
           NEW i \in DOMAIN pr, NEW n, Stamp(pr, c, part) = <<i, n>>
    PROVE  /\ pr[i].op # "wait" =>
                /\ c = i
                /\ \/ n = 0 /\ ~Announced(pr, c, part)
                   \/ n = 2 * i /\ part = "data" /\ pr[i].op = "known_prc_sync"
           /\ pr[i].op = "wait" =>
                /\ part = "data" /\ pr[c].op = "known_prc" /\ Queued(pr, c)
                /\ SameBatch(pr, c, i) /\ n = 2 * c
<1>1. PICK C \in Nat, k \in Nat :
         /\ Stamp(pr, c, part) = <<C, k>>
         /\ \/ C = c /\ k = 0 /\ pr[c].op # "wait" /\ ~Announced(pr, c, part)
            \/ part = "data" /\ pr[c].op = "known_prc_sync" /\ C = c /\ k = 2 * c
            \/ /\ part = "data" /\ pr[c].op = "known_prc" /\ Queued(pr, c)
               /\ C = Completion(pr, c) /\ k = 2 * c /\ SameBatch(pr, c, C)
               /\ C \in DOMAIN pr => pr[C].op = "wait"
  BY StampShape
<1>2. C = i /\ k = n
  BY <1>1
<1> QED
  BY <1>1, <1>2

----------------------------------------------------------------------------
(* The moves a rank makes, and what counts or is sent in each of them.     *)

\* A call that neither waits nor is blocking.
LEMMA MovePasses ==
    ASSUME NEW pr \in Programs, NEW i \in DOMAIN pr, ~Blocking(pr, i),
           pr[i].op \notin {"wait", "known_sync", "known_prc_sync"}
    PROVE  /\ SameTicks(pr, <<i, 0>>, <<i + 1, 0>>) /\ SameTicks(pr, <<i, 0>>, <<i, 1>>)
           /\ (\A part : ~KnownPart(pr, i, part)) => SameStamps(pr, <<i, 0>>, <<i + 1, 0>>)
           /\ \A part : KnownPart(pr, i, part) /\ ~Announced(pr, i, part) =>
                 OneStamp(pr, <<i, 0>>, <<i + 1, 0>>, i, part)
<1>1. i \in Nat /\ i >= 1 /\ Len(pr) \in Nat /\ DOMAIN pr = 1..Len(pr)
  BY ProgramOf
<1>2. ASSUME NEW e \in Ticks(pr)
      PROVE  Completion(pr, e[1]) # i
  <2>1. ~StaleWait(pr, i)
    BY DEF StaleWait
  <2> QED
    BY <2>1, TicksIn
<1>3. SameTicks(pr, <<i, 0>>, <<i + 1, 0>>)
  BY <1>1, <1>2, SameTicksBeyond
<1>4. SameTicks(pr, <<i, 0>>, <<i, 1>>)
  BY <1>1, <1>2, SameTicksInside
<1>5. ASSUME NEW c \in DOMAIN pr, NEW part, KnownPart(pr, c, part), NEW n,
             Stamp(pr, c, part) = <<i, n>>
      PROVE  c = i /\ n = 0
  BY <1>5, StampsOfCall
<1>6. ASSUME \A part : ~KnownPart(pr, i, part)
      PROVE  SameStamps(pr, <<i, 0>>, <<i + 1, 0>>)
  <2>1. ASSUME NEW c \in DOMAIN pr, NEW part, KnownPart(pr, c, part), NEW n \in Nat,
               Stamp(pr, c, part) = <<i, n>>
        PROVE  n < 0
    <3>1. c = i
      BY <1>5, <2>1
    <3> QED
      BY <1>6, <2>1, <3>1
  <2> QED
    BY <1>1, <2>1, SameStampsBeyond
<1>7. ASSUME NEW part, KnownPart(pr, i, part), ~Announced(pr, i, part)
      PROVE  OneStamp(pr, <<i, 0>>, <<i + 1, 0>>, i, part)
  <2>1. Stamp(pr, i, part) = <<i, 0>>
    BY <1>7 DEF Stamp
  <2>2. ASSUME NEW c \in DOMAIN pr, NEW other, KnownPart(pr, c, other), NEW n \in Nat,
               Stamp(pr, c, other) = <<i, n>>
        PROVE  n = 0
    BY <1>5, <2>2
  <2>3. PICK z \in Nat : z = 0
    OBVIOUS
  <2>4. OneStamp(pr, <<i, z>>, <<i + 1, 0>>, i, part)
    <3>1. Stamp(pr, i, part) = <<i, z>> /\ z <= z
      BY <2>1, <2>3
    <3>2. \A c \in DOMAIN pr : \A other : KnownPart(pr, c, other) =>
             \A n \in Nat : Stamp(pr, c, other) = <<i, n>> => n < z \/ n = z
      BY <2>2, <2>3
    <3> QED
      BY <1>1, <1>7, <3>1, <3>2, OneStampBeyond
  <2> QED
    BY <2>3, <2>4
<1> QED
  BY <1>3, <1>4, <1>6, <1>7

\* The blocking call of the barrier protocol.
LEMMA MoveBlocking ==
    ASSUME NEW pr \in Programs, NEW i \in DOMAIN pr, Blocking(pr, i)
    PROVE  /\ SameTicks(pr, <<i, 0>>, <<i, 2 * i>>) /\ SameStamps(pr, <<i, 0>>, <<i, 2 * i>>)
           /\ OneTick(pr, <<i, 2 * i>>, <<i + 1, 0>>, <<i, 1>>)
           /\ SameStamps(pr, <<i, 2 * i>>, <<i + 1, 0>>)
<1>1. i \in Nat /\ i >= 1 /\ 2 * i \in Nat /\ Len(pr) \in Nat /\ DOMAIN pr = 1..Len(pr)
      /\ pr[i].op = "sync"
  BY ProgramOf DEF Blocking
<1>2. ASSUME NEW e \in Ticks(pr), Completion(pr, e[1]) = i
      PROVE  e = <<i, 1>> /\ 2 * e[1] + e[2] - 1 = 2 * i
  <2>1. e = <<i, 1>>
    <3>1. e = <<e[1], e[2]>> /\ e[1] \in Nat /\ e[2] \in {1, 2}
      BY TicksType
    <3>2. e[1] = i /\ e[2] # 2
      BY <1>1, <1>2, TicksIn DEF Queues, SameBatch, Queued
    <3> QED
      BY <3>1, <3>2
  <2> QED
    BY <1>1, <2>1
<1>3. <<i, 1>> \in Ticks(pr) /\ Completion(pr, i) = i
  <2>1. Counts(pr, i, 1)
    BY DEF Counts
  <2> QED
    BY <1>1, <2>1, TicksType, CompletionOf DEF Queues
<1>4. SameTicks(pr, <<i, 0>>, <<i, 2 * i>>)
  BY <1>1, <1>2, SameTicksInside
<1>5. OneTick(pr, <<i, 2 * i>>, <<i + 1, 0>>, <<i, 1>>)
  <2>1. 2 * i <= 2 * i + 1 - 1
    BY <1>1
  <2> QED
    BY <1>1, <1>2, <1>3, <2>1, OneTickBeyond
<1>6. ASSUME NEW c \in DOMAIN pr, NEW part, KnownPart(pr, c, part), NEW n
      PROVE  Stamp(pr, c, part) # <<i, n>>
  <2>1. ~KnownPart(pr, i, part)
    BY <1>1 DEF KnownPart
  <2>2. ASSUME Stamp(pr, c, part) = <<i, n>>
        PROVE  c = i
    <3>1. pr[i].op # "wait"
      BY <1>1
    <3> QED
      BY <1>6, <2>2, <3>1, StampsOfCall
  <2> QED
    BY <1>6, <2>1, <2>2
<1>7. SameStamps(pr, <<i, 0>>, <<i, 2 * i>>)
  <2>1. 0 <= 2 * i
    BY <1>1
  <2> QED
    BY <1>1, <1>6, <2>1, SameStampsInside
<1>8. SameStamps(pr, <<i, 2 * i>>, <<i + 1, 0>>)
  BY <1>1, <1>6, SameStampsBeyond
<1> QED
  BY <1>4, <1>5, <1>7, <1>8

\* The blocking calls with known receivers.
LEMMA MoveKnown ==
    ASSUME NEW pr \in Programs, NEW i \in DOMAIN pr,
           pr[i].op \in {"known_sync", "known_prc_sync"}
    PROVE  /\ SameTicks(pr, <<i, 0>>, <<i, 1>>)
           /\ OneStamp(pr, <<i, 0>>, <<i, 1>>, i, IF pr[i].op = "known_sync" THEN "data" ELSE "size")
           /\ pr[i].op = "known_sync" =>
                 /\ OneTick(pr, <<i, 1>>, <<i + 1, 0>>, <<i, 1>>)
                 /\ SameStamps(pr, <<i, 1>>, <<i + 1, 0>>)
           /\ pr[i].op = "known_prc_sync" =>
                 /\ OneTick(pr, <<i, 1>>, <<i, 2 * i + 1>>, <<i, 1>>)
                 /\ OneStamp(pr, <<i, 1>>, <<i, 2 * i + 1>>, i, "data")
                 /\ OneTick(pr, <<i, 2 * i + 1>>, <<i + 1, 0>>, <<i, 2>>)
                 /\ SameStamps(pr, <<i, 2 * i + 1>>, <<i + 1, 0>>)
<1>1. i \in Nat /\ i >= 1 /\ 2 * i \in Nat /\ 2 * i + 1 \in Nat /\ pr[i].op # "wait"
  BY ProgramOf
<1>2. Completion(pr, i) = i
  BY DEF Completion, Queues
<1>3. <<i, 1>> \in Ticks(pr) /\ (pr[i].op = "known_prc_sync" => <<i, 2>> \in Ticks(pr))
  BY TicksType DEF Counts
<1>4. ASSUME NEW e \in Ticks(pr), Completion(pr, e[1]) = i
      PROVE  /\ e[1] = i /\ e \in {<<i, 1>>, <<i, 2>>}
             /\ e = <<i, 1>> => 2 * e[1] + e[2] - 1 = 2 * i
             /\ e = <<i, 2>> => 2 * e[1] + e[2] - 1 = 2 * i + 1
             /\ e = <<i, 2>> => pr[i].op = "known_prc_sync"
  <2>1. e[1] = i /\ e = <<e[1], e[2]>> /\ e[2] \in {1, 2}
    BY <1>1, <1>4, TicksIn, TicksType
  <2>2. e[2] = 2 => pr[i].op = "known_prc_sync"
    BY <1>4, <2>1, TicksIn
  <2> QED
    BY <1>1, <2>1, <2>2
<1>5. SameTicks(pr, <<i, 0>>, <<i, 1>>)
  <2>1. ASSUME NEW e \in Ticks(pr), Completion(pr, e[1]) = i
        PROVE  2 * e[1] + e[2] - 1 >= 1
    BY <1>1, <1>4, <2>1
  <2> QED
    BY <1>1, <2>1, SameTicksInside
<1>6. ASSUME NEW c \in DOMAIN pr, NEW part, KnownPart(pr, c, part), NEW n,
             Stamp(pr, c, part) = <<i, n>>
      PROVE  c = i /\ n \in {0, 2 * i} /\ (pr[i].op = "known_sync" => n = 0)
  BY <1>1, <1>6, StampsOfCall
<1>7. OneStamp(pr, <<i, 0>>, <<i, 1>>, i, IF pr[i].op = "known_sync" THEN "data" ELSE "size")
  <2> DEFINE part == IF pr[i].op = "known_sync" THEN "data" ELSE "size"
  <2>1. KnownPart(pr, i, part) /\ Stamp(pr, i, part) = <<i, 0>>
    BY DEF KnownPart, Stamp, Announced
  <2>2. ASSUME NEW c \in DOMAIN pr, NEW other, KnownPart(pr, c, other), NEW n \in Nat,
               Stamp(pr, c, other) = <<i, n>>
        PROVE  n >= 1 \/ n = 0
    OBVIOUS
  <2> HIDE DEF part
  <2>3. OneStamp(pr, <<i, 0>>, <<i, 1>>, i, part)
    BY <1>1, <2>1, <2>2, OneStampInside
  <2> QED
    BY <2>3 DEF part
<1>8. ASSUME pr[i].op = "known_sync"
      PROVE  /\ OneTick(pr, <<i, 1>>, <<i + 1, 0>>, <<i, 1>>)
             /\ SameStamps(pr, <<i, 1>>, <<i + 1, 0>>)
  <2>1. \A e \in Ticks(pr) : Completion(pr, e[1]) = i => e = <<i, 1>>
    BY <1>4, <1>8
  <2>2. 1 <= 2 * i + 1 - 1
    BY <1>1
  <2>3. OneTick(pr, <<i, 1>>, <<i + 1, 0>>, <<i, 1>>)
    BY <1>1, <1>2, <1>3, <2>1, <2>2, OneTickBeyond
  <2>4. SameStamps(pr, <<i, 1>>, <<i + 1, 0>>)
    BY <1>1, <1>6, <1>8, SameStampsBeyond
  <2> QED
    BY <2>3, <2>4
<1>9. ASSUME pr[i].op = "known_prc_sync"
      PROVE  /\ OneTick(pr, <<i, 1>>, <<i, 2 * i + 1>>, <<i, 1>>)
             /\ OneStamp(pr, <<i, 1>>, <<i, 2 * i + 1>>, i, "data")
             /\ OneTick(pr, <<i, 2 * i + 1>>, <<i + 1, 0>>, <<i, 2>>)
             /\ SameStamps(pr, <<i, 2 * i + 1>>, <<i + 1, 0>>)
  <2>1. OneTick(pr, <<i, 1>>, <<i, 2 * i + 1>>, <<i, 1>>)
    <3>1. 1 <= 2 * i + 1 - 1 /\ 2 * i + 1 - 1 < 2 * i + 1
      BY <1>1
    <3>2. \A e \in Ticks(pr) : Completion(pr, e[1]) = i =>
             e = <<i, 1>> \/ 2 * e[1] + e[2] - 1 < 1 \/ 2 * e[1] + e[2] - 1 >= 2 * i + 1
      BY <1>1, <1>4
    <3> QED
      BY <1>1, <1>2, <1>3, <3>1, <3>2, OneTickInside
  <2>2. OneTick(pr, <<i, 2 * i + 1>>, <<i + 1, 0>>, <<i, 2>>)
    <3>1. 2 * i + 1 <= 2 * i + 2 - 1
      BY <1>1
    <3>2. \A e \in Ticks(pr) : Completion(pr, e[1]) = i =>
             e = <<i, 2>> \/ 2 * e[1] + e[2] - 1 < 2 * i + 1
      BY <1>1, <1>4
    <3> QED
      BY <1>1, <1>2, <1>3, <1>9, <3>1, <3>2, OneTickBeyond
  <2>3. OneStamp(pr, <<i, 1>>, <<i, 2 * i + 1>>, i, "data")
    <3>1. KnownPart(pr, i, "data") /\ Stamp(pr, i, "data") = <<i, 2 * i>>
      BY <1>2, <1>9 DEF KnownPart, Stamp, Announced
    <3>2. 1 <= 2 * i /\ 2 * i < 2 * i + 1 /\ 1 <= 2 * i + 1
      BY <1>1
    <3>3. ASSUME NEW c \in DOMAIN pr, NEW other, KnownPart(pr, c, other), NEW n \in Nat,
                 Stamp(pr, c, other) = <<i, n>>
          PROVE  n < 1 \/ n >= 2 * i + 1 \/ n = 2 * i
      BY <1>6, <3>3
    <3> QED
      BY <1>1, <3>1, <3>2, <3>3, OneStampInside
  <2>4. SameStamps(pr, <<i, 2 * i + 1>>, <<i + 1, 0>>)
    <3>1. \A n : n \in {0, 2 * i} => n < 2 * i + 1
      BY <1>1
    <3> QED
      BY <1>1, <1>6, <3>1, SameStampsBeyond
  <2> QED
    BY <2>1, <2>2, <2>3, <2>4
<1> QED
  BY <1>5, <1>7, <1>8, <1>9

----------------------------------------------------------------------------
(* The moves inside a Wait.                                                *)

\* The calls that the Wait w completes.
InBatch(pr, b, w) == b \in DOMAIN pr /\ Queued(pr, b) /\ SameBatch(pr, b, w)

LEMMA WaitTicks ==
    ASSUME NEW pr \in Programs, NEW w \in DOMAIN pr, pr[w].op = "wait"
    PROVE  /\ \A e \in Ticks(pr) : Completion(pr, e[1]) = w =>
                \/ e = <<w, 1>> /\ StaleWait(pr, w)
                \/ InBatch(pr, e[1], w) /\ (e[2] = 2 => pr[e[1]].op = "known_prc")
           /\ \A b \in DOMAIN pr : InBatch(pr, b, w) =>
                /\ Completion(pr, b) = w /\ <<b, 1>> \in Ticks(pr)
                /\ pr[b].op = "known_prc" => <<b, 2>> \in Ticks(pr)
                /\ ~StaleWait(pr, w)
<1>1. Len(pr) \in Nat /\ DOMAIN pr = 1..Len(pr) /\ w \in Nat /\ w >= 1
  BY ProgramOf
<1>2. ASSUME NEW e \in Ticks(pr), Completion(pr, e[1]) = w
      PROVE  \/ e = <<w, 1>> /\ StaleWait(pr, w)
             \/ InBatch(pr, e[1], w) /\ (e[2] = 2 => pr[e[1]].op = "known_prc")
  <2>1. e[1] \in DOMAIN pr /\ e = <<e[1], e[2]>> /\ e[2] \in {1, 2}
    BY TicksType
  <2>2. CASE e[1] = w
    <3>1. pr[w].op \notin {"known_prc", "known_prc_sync"} /\ ~Blocking(pr, w)
      BY DEF Blocking
    <3>2. ~SameBatch(pr, w, w)
      BY <1>1 DEF SameBatch
    <3>3. StaleWait(pr, w) /\ e[2] # 2
      BY <1>2, <2>2, <3>1, <3>2, TicksIn
    <3> QED
      BY <2>1, <2>2, <3>3
  <2>3. CASE e[1] # w
    <3>1. Queued(pr, e[1]) /\ SameBatch(pr, e[1], w)
      BY <1>2, <2>3, TicksIn
    <3>2. e[2] = 2 => pr[e[1]].op \in {"known_prc", "known_prc_sync"}
      BY <1>2, TicksIn
    <3> QED
      BY <2>1, <3>1, <3>2 DEF InBatch, Queued, Queues
  <2> QED
    BY <2>2, <2>3
<1>3. ASSUME NEW b \in DOMAIN pr, InBatch(pr, b, w)
      PROVE  /\ Completion(pr, b) = w /\ <<b, 1>> \in Ticks(pr)
             /\ pr[b].op = "known_prc" => <<b, 2>> \in Ticks(pr)
             /\ ~StaleWait(pr, w)
  <2>1. pr[b].op \in Queues /\ Queued(pr, b) /\ SameBatch(pr, b, w) /\ b < w /\ b \in 1..(w - 1)
    BY <1>1, <1>3 DEF InBatch, Queued, SameBatch
  <2>2. PICK C : C = Completion(pr, b)
    OBVIOUS
  <2>3. C \in b..(Len(pr) + 1) /\ C > b /\ (SameBatch(pr, b, w) <=> w <= C) /\ SameBatch(pr, b, C)
    BY <1>1, <2>1, <2>2, CompletionOf
  <2>4. ~(w < C)
    BY <1>1, <2>1, <2>3 DEF SameBatch
  <2>5. C = w
    BY <1>1, <2>1, <2>3, <2>4
  <2>6. <<b, 1>> \in Ticks(pr)
    BY <2>1, TicksType DEF Counts
  <2>7. pr[b].op = "known_prc" => <<b, 2>> \in Ticks(pr)
    BY <2>1, TicksType DEF Counts
  <2>8. ~StaleWait(pr, w)
    BY <2>1 DEF StaleWait, Pending
  <2> QED
    BY <2>2, <2>5, <2>6, <2>7, <2>8
<1> QED
  BY <1>2, <1>3

LEMMA WaitStamps ==
    ASSUME NEW pr \in Programs, NEW w \in DOMAIN pr, pr[w].op = "wait",
           NEW c \in DOMAIN pr, NEW part, KnownPart(pr, c, part), NEW n, Stamp(pr, c, part) = <<w, n>>
    PROVE  InBatch(pr, c, w) /\ n = 2 * c /\ part = "data" /\ pr[c].op = "known_prc" /\ c \in Nat
BY StampsOfCall, ProgramOf DEF InBatch

\* The Wait goes to the first of the calls, or to what a blocking call left.
LEMMA MoveWaitBegins ==
    ASSUME NEW pr \in Programs, NEW w \in DOMAIN pr, pr[w].op = "wait", NEW h \in Nat, h <= w,
           \A b \in DOMAIN pr : InBatch(pr, b, w) => h <= b
    PROVE  SameTicks(pr, <<w, 0>>, <<w, 2 * h>>) /\ SameStamps(pr, <<w, 0>>, <<w, 2 * h>>)
<1>1. w \in Nat /\ 2 * h \in Nat /\ 0 <= 2 * h
  BY ProgramOf
<1>2. ASSUME NEW e \in Ticks(pr), Completion(pr, e[1]) = w
      PROVE  2 * e[1] + e[2] - 1 >= 2 * h
  <2>1. e[1] \in Nat /\ e[1] \in DOMAIN pr /\ e[2] \in {1, 2}
    BY TicksType
  <2>2. e[1] = w \/ InBatch(pr, e[1], w)
    BY <1>2, WaitTicks
  <2>3. h <= e[1]
    BY <2>1, <2>2
  <2> QED
    BY <2>1, <2>3
<1>3. SameTicks(pr, <<w, 0>>, <<w, 2 * h>>)
  BY <1>1, <1>2, SameTicksInside
<1>4. ASSUME NEW c \in DOMAIN pr, NEW part, KnownPart(pr, c, part), NEW n \in Nat,
             Stamp(pr, c, part) = <<w, n>>
      PROVE  n >= 2 * h
  <2>1. InBatch(pr, c, w) /\ n = 2 * c /\ c \in Nat
    BY <1>4, WaitStamps
  <2> QED
    BY <2>1
<1>5. SameStamps(pr, <<w, 0>>, <<w, 2 * h>>)
  BY <1>1, <1>4, SameStampsInside
<1> QED
  BY <1>3, <1>5

LEMMA MoveWaitEmpty ==
    ASSUME NEW pr \in Programs, NEW w \in DOMAIN pr, pr[w].op = "wait", ~StaleWait(pr, w),
           \A b \in DOMAIN pr : ~InBatch(pr, b, w)
    PROVE  SameTicks(pr, <<w, 0>>, <<w + 1, 0>>) /\ SameStamps(pr, <<w, 0>>, <<w + 1, 0>>)
<1>1. w \in Nat
  BY ProgramOf
<1>2. ASSUME NEW e \in Ticks(pr)
      PROVE  Completion(pr, e[1]) # w
  BY WaitTicks, TicksType
<1>3. SameTicks(pr, <<w, 0>>, <<w + 1, 0>>)
  BY <1>1, <1>2, SameTicksBeyond
<1>4. ASSUME NEW c \in DOMAIN pr, NEW part, KnownPart(pr, c, part), NEW n \in Nat,
             Stamp(pr, c, part) = <<w, n>>
      PROVE  n < 0
  BY <1>4, WaitStamps
<1>5. SameStamps(pr, <<w, 0>>, <<w + 1, 0>>)
  BY <1>1, <1>4, SameStampsBeyond
<1> QED
  BY <1>3, <1>5

\* From the completed call a to the next one, h, or back to the application.
LEMMA MoveWaitOn ==
    ASSUME NEW pr \in Programs, NEW w \in DOMAIN pr, pr[w].op = "wait",
           NEW a \in DOMAIN pr, InBatch(pr, a, w),
           NEW d \in {0, 1}, d = 1 <=> pr[a].op = "known_prc",
           NEW h \in Nat, a < h, \A b \in DOMAIN pr : InBatch(pr, b, w) => b <= a \/ h <= b
    PROVE  /\ OneTick(pr, <<w, 2 * a + d>>, <<w, 2 * h>>, <<a, 1 + d>>)
           /\ SameStamps(pr, <<w, 2 * a + d>>, <<w, 2 * h>>)
<1>1. w \in Nat /\ a \in Nat /\ 2 * h \in Nat /\ 2 * a + d \in Nat /\ 2 * a + d <= 2 * h
      /\ 2 * a + d <= 2 * a + (1 + d) - 1 /\ 2 * a + (1 + d) - 1 < 2 * h
  BY ProgramOf
<1>2. Completion(pr, a) = w /\ <<a, 1 + d>> \in Ticks(pr) /\ ~StaleWait(pr, w)
  <2>1. /\ Completion(pr, a) = w /\ <<a, 1>> \in Ticks(pr) /\ ~StaleWait(pr, w)
        /\ pr[a].op = "known_prc" => <<a, 2>> \in Ticks(pr)
    BY WaitTicks
  <2>2. 1 + d = IF d = 1 THEN 2 ELSE 1
    OBVIOUS
  <2> QED
    BY <2>1, <2>2
<1>3. ASSUME NEW e \in Ticks(pr), Completion(pr, e[1]) = w
      PROVE  e = <<a, 1 + d>> \/ 2 * e[1] + e[2] - 1 < 2 * a + d \/ 2 * e[1] + e[2] - 1 >= 2 * h
  <2>1. e[1] \in Nat /\ e[1] \in DOMAIN pr /\ e[2] \in {1, 2} /\ e = <<e[1], e[2]>>
    BY TicksType
  <2>2. InBatch(pr, e[1], w) /\ (e[2] = 2 => pr[e[1]].op = "known_prc")
    BY <1>2, <1>3, WaitTicks
  <2>3. CASE e[1] = a
    <3>1. d = 0 => e[2] = 1
      BY <2>1, <2>2, <2>3
    <3> QED
      BY <1>1, <2>1, <2>3, <3>1
  <2>4. CASE e[1] # a
    <3>1. e[1] < a \/ h <= e[1]
      BY <1>1, <2>1, <2>2, <2>4
    <3> QED
      BY <1>1, <2>1, <3>1
  <2> QED
    BY <2>3, <2>4
<1>4. OneTick(pr, <<w, 2 * a + d>>, <<w, 2 * h>>, <<a, 1 + d>>)
  BY <1>1, <1>2, <1>3, OneTickInside
<1>5. ASSUME NEW c \in DOMAIN pr, NEW part, KnownPart(pr, c, part), NEW n \in Nat,
             Stamp(pr, c, part) = <<w, n>>
      PROVE  n < 2 * a + d \/ n >= 2 * h
  <2>1. InBatch(pr, c, w) /\ n = 2 * c /\ c \in Nat /\ pr[c].op = "known_prc"
    BY <1>5, WaitStamps
  <2>2. c <= a \/ h <= c
    BY <2>1
  <2>3. c = a => d = 1
    BY <2>1
  <2> QED
    BY <1>1, <2>1, <2>2, <2>3
<1>6. SameStamps(pr, <<w, 2 * a + d>>, <<w, 2 * h>>)
  BY <1>1, <1>5, SameStampsInside
<1> QED
  BY <1>4, <1>6

LEMMA MoveWaitEnds ==
    ASSUME NEW pr \in Programs, NEW w \in DOMAIN pr, pr[w].op = "wait",
           NEW a \in DOMAIN pr, InBatch(pr, a, w),
           NEW d \in {0, 1}, d = 1 <=> pr[a].op = "known_prc",
           \A b \in DOMAIN pr : InBatch(pr, b, w) => b <= a
    PROVE  /\ OneTick(pr, <<w, 2 * a + d>>, <<w + 1, 0>>, <<a, 1 + d>>)
           /\ SameStamps(pr, <<w, 2 * a + d>>, <<w + 1, 0>>)
<1>1. w \in Nat /\ a \in Nat /\ 2 * a + d \in Nat /\ 2 * a + d <= 2 * a + (1 + d) - 1
  BY ProgramOf
<1>2. Completion(pr, a) = w /\ <<a, 1 + d>> \in Ticks(pr) /\ ~StaleWait(pr, w)
  <2>1. /\ Completion(pr, a) = w /\ <<a, 1>> \in Ticks(pr) /\ ~StaleWait(pr, w)
        /\ pr[a].op = "known_prc" => <<a, 2>> \in Ticks(pr)
    BY WaitTicks
  <2>2. 1 + d = IF d = 1 THEN 2 ELSE 1
    OBVIOUS
  <2> QED
    BY <2>1, <2>2
<1>3. ASSUME NEW e \in Ticks(pr), Completion(pr, e[1]) = w
      PROVE  e = <<a, 1 + d>> \/ 2 * e[1] + e[2] - 1 < 2 * a + d
  <2>1. e[1] \in Nat /\ e[1] \in DOMAIN pr /\ e[2] \in {1, 2} /\ e = <<e[1], e[2]>>
    BY TicksType
  <2>2. InBatch(pr, e[1], w) /\ (e[2] = 2 => pr[e[1]].op = "known_prc")
    BY <1>2, <1>3, WaitTicks
  <2>3. CASE e[1] = a
    <3>1. d = 0 => e[2] = 1
      BY <2>1, <2>2, <2>3
    <3> QED
      BY <1>1, <2>1, <2>3, <3>1
  <2>4. CASE e[1] # a
    <3>1. e[1] < a
      BY <1>1, <2>1, <2>2, <2>4
    <3> QED
      BY <1>1, <2>1, <3>1
  <2> QED
    BY <2>3, <2>4
<1>4. OneTick(pr, <<w, 2 * a + d>>, <<w + 1, 0>>, <<a, 1 + d>>)
  BY <1>1, <1>2, <1>3, OneTickBeyond
<1>5. ASSUME NEW c \in DOMAIN pr, NEW part, KnownPart(pr, c, part), NEW n \in Nat,
             Stamp(pr, c, part) = <<w, n>>
      PROVE  n < 2 * a + d
  <2>1. InBatch(pr, c, w) /\ n = 2 * c /\ c \in Nat /\ pr[c].op = "known_prc"
    BY <1>5, WaitStamps
  <2>2. c <= a /\ (c = a => d = 1)
    BY <2>1
  <2> QED
    BY <1>1, <2>1, <2>2
<1>6. SameStamps(pr, <<w, 2 * a + d>>, <<w + 1, 0>>)
  BY <1>1, <1>5, SameStampsBeyond
<1> QED
  BY <1>4, <1>6

\* A Wait that finds what a blocking call left.
LEMMA MoveWaitStale ==
    ASSUME NEW pr \in Programs, NEW w \in DOMAIN pr, StaleWait(pr, w), NEW h \in Nat, h <= w
    PROVE  /\ OneTick(pr, <<w, 2 * h>>, <<w + 1, 0>>, <<w, 1>>)
           /\ SameStamps(pr, <<w, 2 * h>>, <<w + 1, 0>>)
<1>1. w \in Nat /\ 2 * h \in Nat /\ 2 * h <= 2 * w + 1 - 1 /\ pr[w].op = "wait"
  BY ProgramOf DEF StaleWait
<1>2. Completion(pr, w) = w /\ <<w, 1>> \in Ticks(pr)
  BY <1>1, TicksType DEF Counts, Completion, Queues
<1>3. \A b \in DOMAIN pr : ~InBatch(pr, b, w)
  BY <1>1, WaitTicks
<1>4. \A e \in Ticks(pr) : Completion(pr, e[1]) = w => e = <<w, 1>>
  BY <1>1, <1>3, WaitTicks, TicksType
<1>5. OneTick(pr, <<w, 2 * h>>, <<w + 1, 0>>, <<w, 1>>)
  BY <1>1, <1>2, <1>4, OneTickBeyond
<1>6. ASSUME NEW c \in DOMAIN pr, NEW part, KnownPart(pr, c, part), NEW n \in Nat,
             Stamp(pr, c, part) = <<w, n>>
      PROVE  n < 2 * h
  BY <1>1, <1>3, <1>6, WaitStamps
<1>7. SameStamps(pr, <<w, 2 * h>>, <<w + 1, 0>>)
  BY <1>1, <1>6, SameStampsBeyond
<1> QED
  BY <1>5, <1>7

\* The sizes are there.
LEMMA MoveWaitSizes ==
    ASSUME NEW pr \in Programs, NEW w \in DOMAIN pr, pr[w].op = "wait",
           NEW a \in DOMAIN pr, InBatch(pr, a, w), pr[a].op = "known_prc"
    PROVE  /\ OneTick(pr, <<w, 2 * a>>, <<w, 2 * a + 1>>, <<a, 1>>)
           /\ OneStamp(pr, <<w, 2 * a>>, <<w, 2 * a + 1>>, a, "data")
<1>1. w \in Nat /\ a \in Nat /\ 2 * a \in Nat /\ 2 * a + 1 \in Nat /\ 2 * a <= 2 * a + 1
      /\ 2 * a <= 2 * a + 1 - 1 /\ 2 * a + 1 - 1 < 2 * a + 1 /\ 2 * a <= 2 * a /\ 2 * a < 2 * a + 1
  BY ProgramOf
<1>2. Completion(pr, a) = w /\ <<a, 1>> \in Ticks(pr) /\ ~StaleWait(pr, w)
  BY WaitTicks
<1>3. ASSUME NEW e \in Ticks(pr), Completion(pr, e[1]) = w
      PROVE  e = <<a, 1>> \/ 2 * e[1] + e[2] - 1 < 2 * a \/ 2 * e[1] + e[2] - 1 >= 2 * a + 1
  <2>1. e[1] \in Nat /\ e[2] \in {1, 2} /\ e = <<e[1], e[2]>>
    BY TicksType
  <2> QED
    BY <1>1, <2>1
<1>4. OneTick(pr, <<w, 2 * a>>, <<w, 2 * a + 1>>, <<a, 1>>)
  BY <1>1, <1>2, <1>3, OneTickInside
<1>5. KnownPart(pr, a, "data") /\ Stamp(pr, a, "data") = <<w, 2 * a>>
  BY <1>2 DEF KnownPart, Stamp, Announced, InBatch
<1>6. ASSUME NEW c \in DOMAIN pr, NEW part, KnownPart(pr, c, part), NEW n \in Nat,
             Stamp(pr, c, part) = <<w, n>>
      PROVE  n < 2 * a \/ n >= 2 * a + 1 \/ n = 2 * a
  BY <1>1
<1>7. OneStamp(pr, <<w, 2 * a>>, <<w, 2 * a + 1>>, a, "data")
  BY <1>1, <1>5, <1>6, OneStampInside
<1> QED
  BY <1>4, <1>7

----------------------------------------------------------------------------
(* What the tags demand of a program.                                      *)

LEMMA ProgramTags ==
    ASSUME TagsDisciplined, NEW pr \in Programs
    PROVE  /\ ProgressLast(pr) /\ UnknownFirst(pr)
           /\ CountsAlone(pr) /\ OneSizes(pr) /\ ShortRuns(pr) /\ OneEach(pr)
BY DEF TagsDisciplined, Disciplined

\* The calls of the barrier protocol in one batch start from the same count.
LEMMA CountOfBatch ==
    ASSUME NEW pr \in Programs, CountsAlone(pr), NEW a \in DOMAIN pr, NEW c \in DOMAIN pr,
           SameBatch(pr, a, c), pr[a].op = "unknown", pr[c].op = "unknown"
    PROVE  CountBefore(pr, <<a, 0>>) = CountBefore(pr, <<c, 0>>)
<1>1. /\ a \in Nat /\ c \in Nat /\ a >= 1 /\ a < c
      /\ Len(pr) \in Nat /\ DOMAIN pr = 1..Len(pr)
      /\ \A k \in (a + 1)..(c - 1) : pr[k].op # "wait"
  BY ProgramOf DEF SameBatch
<1>2. ASSUME NEW e \in Ticks(pr), NEW i, i = Completion(pr, e[1]), i >= a, i < c
      PROVE  FALSE
  <2>1. i \in Nat /\ i \in DOMAIN pr /\ e[1] \in Nat /\ e[1] >= 1
    BY <1>1, <1>2, TickShape
  <2>2. pr[i].op # "wait" /\ ~StaleWait(pr, i)
    BY <1>1, <1>2, <2>1 DEF StaleWait
  <2>3. pr[i].op \notin Queues
    BY <1>2, <2>1, <2>2, TicksIn
  <2>4. Blocking(pr, i) \/ pr[i].op \in {"known_sync", "known_prc_sync"}
    BY <1>2, <2>1, <2>2, TicksIn
  <2>5. a < i
    BY <1>1, <1>2, <2>1, <2>3 DEF Queues
  <2>6. pr[i].op \in {"sync", "known_sync", "known_prc_sync"}
    BY <2>4 DEF Blocking
  <2> QED
    BY <1>1, <1>2, <2>1, <2>5, <2>6 DEF CountsAlone
<1>3. ASSUME NEW e \in Ticks(pr)
      PROVE  Earlier(TickAt(pr, e), <<a, 0>>) <=> Earlier(TickAt(pr, e), <<c, 0>>)
  <2>1. PICK C \in Nat : C = Completion(pr, e[1])
    BY TickShape
  <2>2. ~(C >= a /\ C < c)
    BY <1>2, <2>1
  <2>3. PICK n \in Int : TickAt(pr, e) = <<C, n>> /\ n >= 0
    <3>1. e[1] \in Nat /\ e[1] >= 1 /\ e[2] \in {1, 2}
          /\ TickAt(pr, e) = <<C, 2 * e[1] + e[2] - 1>>
      BY <2>1, TickShape
    <3>2. 2 * e[1] + e[2] - 1 \in Int /\ 2 * e[1] + e[2] - 1 >= 0
      BY <3>1
    <3> QED
      BY <3>1, <3>2
  <2> QED
    BY <1>1, <2>2, <2>3 DEF Earlier
<1> QED
  BY <1>3, SameCount DEF SameTicks

LEMMA EndsAt ==
    ASSUME NEW pr \in Programs, NEW a \in DOMAIN pr, Exchange(pr, a)
    PROVE  /\ <<a, 1>> \in Ticks(pr)
           /\ TickAt(pr, <<a, 1>>) = <<Completion(pr, a), 2 * a>>
           /\ Completion(pr, a) \in Nat /\ Completion(pr, a) >= a /\ a \in Nat /\ a >= 1
           /\ Completion(pr, a) = LastPolled(pr, a)
           /\ pr[a].op \in {"sync", "unknown"} /\ Numbered(pr, a) = (pr[a].op = "unknown")
<1>1. a \in Nat /\ a >= 1
  BY ProgramOf
<1>2. Counts(pr, a, 1) /\ pr[a].op \in {"sync", "unknown"}
  BY DEF Exchange, Counts, Blocking
<1>3. <<a, 1>> \in Ticks(pr)
  BY <1>2, TicksType
<1>4. TickAt(pr, <<a, 1>>) = <<Completion(pr, a), 2 * a>>
  BY <1>1 DEF TickAt
<1>5. Completion(pr, a) = LastPolled(pr, a)
  BY <1>2 DEF Completion, LastPolled, Queues
<1>6. Numbered(pr, a) = (pr[a].op = "unknown")
  BY <1>2 DEF Numbered, Exchange, Blocking, Queues
<1>7. Completion(pr, a) \in Nat /\ Completion(pr, a) >= a
  BY CompletionOf, ProgramOf
<1> QED
  BY <1>1, <1>2, <1>3, <1>4, <1>5, <1>6, <1>7

\* While a call of the barrier protocol is queued, all that has a number of a
\* slot before it is one too and counts before it ends.
LEMMA SlotsCount ==
    ASSUME NEW pr \in Programs, UnknownFirst(pr), CountsAlone(pr),
           NEW a \in DOMAIN pr, Exchange(pr, a), NEW b \in SlotsBefore(pr, a)
    PROVE  /\ b \in DOMAIN pr /\ b \in Nat /\ b >= 1 /\ b < a
           /\ <<b, 1>> \in Ticks(pr)
           /\ TickAt(pr, <<b, 1>>) = <<Completion(pr, a), 2 * b>>
           /\ Completion(pr, a) > a
<1>1. /\ b \in DOMAIN pr /\ b \in Nat /\ b >= 1 /\ b < a /\ a \in Nat
      /\ SameBatch(pr, b, a) /\ Numbered(pr, b)
      /\ Len(pr) \in Nat /\ DOMAIN pr = 1..Len(pr)
  BY ProgramOf DEF SlotsBefore
<1>2. Pending(pr, a, Queues)
  <2>1. SlotIndex(pr, a) # 0
    BY <1>1, SlotIndexGrows, SlotIndexType
  <2> QED
    BY <1>1, <2>1, SlotIndexZero
<1>3. pr[a].op = "unknown" /\ Queued(pr, a)
  BY <1>2 DEF Exchange, Blocking
<1>4. ASSUME NEW k \in 1..(a - 1), SameBatch(pr, k, a), pr[k].op \in Queues
      PROVE  pr[k].op = "unknown"
  BY <1>1, <1>3, <1>4 DEF UnknownFirst, Queues
<1>5. pr[b].op \in Queues
  <2>1. SUFFICES ASSUME pr[b].op = "sync", Pending(pr, b, Queues)
                 PROVE  FALSE
    BY <1>1 DEF Numbered
  <2>2. PICK k \in 1..(b - 1) : pr[k].op \in Queues /\ SameBatch(pr, k, b)
    BY <2>1 DEF Pending
  <2>3. SameBatch(pr, k, a)
    BY <1>1, <2>1, <2>2 DEF SameBatch
  <2>4. pr[k].op = "unknown" /\ k \in DOMAIN pr /\ k < b
    BY <1>1, <1>4, <2>2, <2>3
  <2> QED
    BY <1>1, <1>3, <2>1, <2>3, <2>4 DEF CountsAlone
<1>6. SlotIndex(pr, b) < NQUEUE
  <2>1. SlotIndex(pr, b) < SlotIndex(pr, a) /\ SlotIndex(pr, a) < NQUEUE
    BY <1>1, <1>3, SlotIndexGrows DEF Queued
  <2>2. SlotIndex(pr, b) \in Nat /\ SlotIndex(pr, a) \in Nat
    BY <1>1, SlotIndexType
  <2> QED
    BY <2>1, <2>2, QueueAssumption
<1>7. <<b, 1>> \in Ticks(pr)
  BY <1>1, <1>5, <1>6, TicksType DEF Counts, Queued
<1>8. Completion(pr, b) = Completion(pr, a) /\ Completion(pr, a) > a
  <2>1. PICK A, B : A = Completion(pr, a) /\ B = Completion(pr, b)
    OBVIOUS
  <2>2. /\ A \in a..(Len(pr) + 1) /\ A > a /\ (A <= Len(pr) => pr[A].op = "wait")
        /\ \A i \in (a + 1)..(Len(pr) + 1) : SameBatch(pr, a, i) <=> i <= A
    BY <1>3, <2>1, CompletionOf DEF Queues
  <2>3. /\ B \in b..(Len(pr) + 1) /\ B > b /\ (B <= Len(pr) => pr[B].op = "wait")
        /\ \A i \in (b + 1)..(Len(pr) + 1) : SameBatch(pr, b, i) <=> i <= B
    BY <1>1, <1>5, <2>1, CompletionOf
  <2>4. SameBatch(pr, a, A) /\ SameBatch(pr, b, B) /\ A \in Nat /\ B \in Nat
    BY <1>1, <2>2, <2>3
  <2>5. a < B
    <3>1. a <= B /\ pr[a].op # "wait"
      BY <1>1, <1>3, <2>3
    <3> QED
      BY <1>1, <2>3, <2>4, <3>1
  <2>6. ~(A < B)
    BY <1>1, <2>2, <2>3, <2>4, <2>5 DEF SameBatch
  <2>7. ~(B < A)
    BY <1>1, <2>2, <2>3, <2>4, <2>5 DEF SameBatch
  <2> QED
    BY <2>1, <2>2, <2>4, <2>6, <2>7
<1>9. TickAt(pr, <<b, 1>>) = <<Completion(pr, a), 2 * b>>
  BY <1>1, <1>8 DEF TickAt
<1> QED
  BY <1>1, <1>7, <1>8, <1>9

\* Until call a ends, NBX_cnt counts for a and for each slot before it.
LEMMA CountToEnd ==
    ASSUME NEW pr \in Programs, UnknownFirst(pr), CountsAlone(pr),
           NEW a \in DOMAIN pr, Exchange(pr, a), NEW t \in Moments, Ends(pr, a, t)
    PROVE  CountBefore(pr, t) >= CountBefore(pr, <<a, 0>>) + SlotIndex(pr, a) + 1
<1>1. /\ <<a, 1>> \in Ticks(pr) /\ TickAt(pr, <<a, 1>>) = <<Completion(pr, a), 2 * a>>
      /\ Completion(pr, a) \in Nat /\ Completion(pr, a) >= a /\ a \in Nat /\ a >= 1
  BY EndsAt
<1>2. Earlier(<<Completion(pr, a), 2 * a>>, t)
  BY <1>1 DEF Ends
<1> DEFINE S == SlotsBefore(pr, a)
           f == [b \in S |-> <<b, 1>>]
           New == {<<b, 1>> : b \in S} \cup {<<a, 1>>}
           Old == Before(pr, <<a, 0>>)
<1>3. IsFiniteSet(S) /\ a \notin S /\ Cardinality(S) = SlotIndex(pr, a) /\ SlotIndex(pr, a) \in Nat
  <2>1. a \notin S
    BY <1>1 DEF SlotsBefore
  <2> QED
    BY <1>1, <2>1, SlotIndexType DEF SlotIndex
<1>4. IsFiniteSet({<<b, 1>> : b \in S}) /\ Cardinality({<<b, 1>> : b \in S}) = Cardinality(S)
  <2>1. f \in Bijection(S, {<<b, 1>> : b \in S})
    <3>1. f \in [S -> {<<b, 1>> : b \in S}]
      OBVIOUS
    <3>2. \A x, y \in S : f[x] = f[y] => x = y
      OBVIOUS
    <3>3. \A z \in {<<b, 1>> : b \in S} : \E x \in S : f[x] = z
      OBVIOUS
    <3> HIDE DEF f, S
    <3> QED
      BY <3>1, <3>2, <3>3 DEF Bijection, Injection, Surjection, IsInjective
  <2>2. ExistsBijection(S, {<<b, 1>> : b \in S})
    BY <2>1, Zenon DEF ExistsBijection
  <2> HIDE DEF S, f
  <2> QED
    BY <1>3, <2>2, FS_Bijection, Zenon
<1>5. ASSUME NEW e \in New
      PROVE  e \in Before(pr, t) /\ e \notin Old
  <2>1. PICK b : e = <<b, 1>> /\ (b \in S \/ b = a)
    OBVIOUS
  <2> HIDE DEF S, New
  <2>2. /\ b \in Nat /\ b <= a /\ <<b, 1>> \in Ticks(pr)
        /\ TickAt(pr, <<b, 1>>) = <<Completion(pr, a), 2 * b>>
        /\ b # a => Completion(pr, a) > a
    <3>1. CASE b = a
      BY <1>1, <3>1
    <3>2. CASE b \in S
      BY <1>1, <3>2, SlotsCount DEF S
    <3> QED
      BY <2>1, <3>1, <3>2
  <2>3. Earlier(<<Completion(pr, a), 2 * b>>, t)
    BY <1>1, <1>2, <2>2 DEF Earlier, Moments
  <2>4. ~Earlier(<<Completion(pr, a), 2 * b>>, <<a, 0>>)
    BY <1>1, <2>2 DEF Earlier
  <2> QED
    BY <2>1, <2>2, <2>3, <2>4 DEF Before
<1>6. Old \subseteq Before(pr, t)
  <2>1. ASSUME NEW e \in Ticks(pr), Earlier(TickAt(pr, e), <<a, 0>>)
        PROVE  Earlier(TickAt(pr, e), t)
    <3>1. Earlier(<<a, 0>>, <<Completion(pr, a), 2 * a>>)
      BY <1>1 DEF Earlier
    <3>2. TickAt(pr, e) \in Moments /\ <<a, 0>> \in Moments /\ <<Completion(pr, a), 2 * a>> \in Moments
      BY <1>1, TicksType DEF Moments
    <3> QED
      BY <1>2, <2>1, <3>1, <3>2, EarlierOrder
  <2> QED
    BY <2>1 DEF Before
<1>7. <<a, 1>> \notin {<<b, 1>> : b \in S}
  BY <1>3
<1> HIDE DEF S, f, Old
<1>8. IsFiniteSet(New) /\ Cardinality(New) = SlotIndex(pr, a) + 1
  <2>1. PICK T : T = {<<b, 1>> : b \in S}
    OBVIOUS
  <2>2. IsFiniteSet(T \cup {<<a, 1>>}) /\ Cardinality(T \cup {<<a, 1>>}) = Cardinality(T) + 1
    BY <1>4, <1>7, <2>1, FS_AddElement, Zenon
  <2> QED
    BY <1>3, <1>4, <2>1, <2>2
<1> HIDE DEF New
<1>9. IsFiniteSet(Old) /\ Cardinality(Old) = CountBefore(pr, <<a, 0>>) /\ CountBefore(pr, <<a, 0>>) \in Nat
  BY CounterType DEF Old
<1>10. New \cap Old = {} /\ New \cup Old \subseteq Before(pr, t)
  BY <1>5, <1>6
<1>11. Cardinality(New \cup Old) = Cardinality(New) + Cardinality(Old) - Cardinality(New \cap Old)
  BY <1>8, <1>9, FS_Union, Zenon
<1>12. Cardinality(New \cap Old) = 0
  BY <1>10, FS_EmptySet, Zenon
<1>13. /\ Cardinality(New \cup Old) <= Cardinality(Before(pr, t))
       /\ CountBefore(pr, t) = Cardinality(Before(pr, t))
  BY <1>10, CounterType, FS_Subset, Zenon
<1>14. CountBefore(pr, t) \in Nat
  BY CounterType
<1> QED
  BY <1>3, <1>8, <1>9, <1>11, <1>12, <1>13, <1>14

----------------------------------------------------------------------------
(* Numbers that come around.                                               *)

LEMMA DivMod ==
    ASSUME NEW n \in Nat \ {0}, NEW x \in Nat
    PROVE  \E q \in Nat, r \in 0..(n - 1) : x = (n * q) + r /\ (x % n) = r
<1>1. x = (n * (x \div n)) + (x % n)
  OBVIOUS
<1>2. (x \div n) \in Nat
  OBVIOUS
<1>3. (x % n) \in 0..(n - 1)
  OBVIOUS
<1> QED
  BY <1>1, <1>2, <1>3

LEMMA ModOf ==
    ASSUME NEW n \in Nat \ {0}, NEW q \in Int, NEW r \in 0..(n - 1)
    PROVE  (((n * q) + r) % n) = r
OBVIOUS

LEMMA ModNext ==
    ASSUME NEW n \in Nat \ {0}, NEW x \in Nat
    PROVE  (((x % n) + 1) % n) = ((x + 1) % n)
<1>1. PICK q \in Nat, r \in 0..(n - 1) : x = (n * q) + r /\ (x % n) = r
  BY DivMod
<1>2. CASE r + 1 < n
  <2>1. PICK s \in 0..(n - 1) : s = r + 1
    BY <1>2
  <2>2. (((n * q) + s) % n) = s /\ (((n * 0) + s) % n) = s
    BY ModOf
  <2>3. x + 1 = (n * q) + s /\ s = (n * 0) + s
    BY <1>1, <2>1
  <2> QED
    BY <1>1, <2>1, <2>2, <2>3
<1>3. CASE r + 1 >= n
  <2>1. 0 \in 0..(n - 1) /\ r + 1 = n
    BY <1>3
  <2>2. (((n * (q + 1)) + 0) % n) = 0 /\ (((n * 1) + 0) % n) = 0
    BY <2>1, ModOf
  <2>3. n * (q + 1) = (n * q) + n
    OBVIOUS
  <2>4. x + 1 = (n * (q + 1)) + 0 /\ r + 1 = (n * 1) + 0
    BY <1>1, <2>1, <2>3
  <2> QED
    BY <1>1, <2>2, <2>4
<1> QED
  BY <1>2, <1>3

\* Two numbers less than n apart: the difference of the remainders tells it.
LEMMA TagApart ==
    ASSUME NEW n \in Nat \ {0}, NEW x \in Nat, NEW y \in Nat, NEW j \in Nat, NEW k \in Nat,
           y >= x + j + 1, y + k < x + n
    PROVE  ((y % n) + k) - (x % n) # j
<1>1. PICK q \in Nat, r \in 0..(n - 1) : x = (n * q) + r /\ (x % n) = r
  BY DivMod
<1>2. PICK p \in Nat, s \in 0..(n - 1) : y = (n * p) + s /\ (y % n) = s
  BY DivMod
<1>3. SUFFICES ASSUME (s + k) - r = j
               PROVE  FALSE
  BY <1>1, <1>2
<1>4. PICK d \in Int : d = p - q
  OBVIOUS
<1>5. (n * p) - (n * q) = n * d
  BY <1>4
<1>6. n * d >= k + 1 /\ j + (n * d) < n
  BY <1>1, <1>2, <1>3, <1>5
<1>7. CASE d <= 0
  <2>1. n * d <= 0
    BY <1>7
  <2> QED
    BY <1>6, <2>1
<1>8. CASE d >= 1
  <2>1. n * d >= n
    BY <1>8
  <2> QED
    BY <1>6, <2>1
<1> QED
  BY <1>4, <1>7, <1>8

----------------------------------------------------------------------------
(* A tag that would fall into the slot of another call.                    *)

LEMMA OtherSlot ==
    ASSUME TagsDisciplined, NEW pr \in Programs, NEW a \in DOMAIN pr, NEW c \in DOMAIN pr, a # c,
           Exchange(pr, a), Exchange(pr, c),
           \/ WithinReach(pr, a, <<c, 0>>)
           \/ /\ pr[a].op = "unknown" /\ pr[c].op = "unknown"
              /\ SameBatch(pr, a, c) \/ SameBatch(pr, c, a)
    PROVE  ((CountBefore(pr, <<c, 0>>) % nbx_cycle) + SlotIndex(pr, c))
               - (CountBefore(pr, <<a, 0>>) % nbx_cycle) # SlotIndex(pr, a)
<1>1. /\ a \in Nat /\ a >= 1 /\ c \in Nat /\ c >= 1
      /\ UnknownFirst(pr) /\ CountsAlone(pr) /\ ShortRuns(pr) /\ nbx_cycle \in Nat \ {0}
  BY ProgramOf, ProgramTags, QueueAssumption
<1>2. PICK X \in Nat, Y \in Nat, j \in Nat, k \in Nat :
         /\ X = CountBefore(pr, <<a, 0>>) /\ Y = CountBefore(pr, <<c, 0>>)
         /\ j = SlotIndex(pr, a) /\ k = SlotIndex(pr, c)
  BY <1>1, CounterType, SlotIndexType
<1>3. CASE WithinReach(pr, a, <<c, 0>>)
  <2>1. Ends(pr, a, <<c, 0>>) /\ <<c, 0>> \in Moments
    BY <1>1, <1>3 DEF WithinReach, Moments
  <2>2. Y >= X + j + 1
    BY <1>1, <1>2, <2>1, CountToEnd
  <2>3. Y + k < X + nbx_cycle
    BY <1>1, <1>2, <1>3 DEF ShortRuns
  <2>4. ((Y % nbx_cycle) + k) - (X % nbx_cycle) # j
    BY <1>1, <2>2, <2>3, TagApart
  <2> QED
    BY <1>2, <2>4
<1>4. CASE /\ pr[a].op = "unknown" /\ pr[c].op = "unknown"
           /\ SameBatch(pr, a, c) \/ SameBatch(pr, c, a)
  <2>1. X = Y
    BY <1>1, <1>2, <1>4, CountOfBatch
  <2>2. Numbered(pr, a) /\ Numbered(pr, c)
    BY <1>4 DEF Numbered, Queues
  <2>3. j # k
    BY <1>1, <1>2, <1>4, <2>2, SlotIndexGrows
  <2>4. (X % nbx_cycle) \in Int
    BY <1>1
  <2> QED
    BY <1>2, <2>1, <2>3, <2>4
<1> QED
  BY <1>3, <1>4

LEMMA KnownElsewhere ==
    ASSUME TagsDisciplined, NEW pr \in Programs, NEW a \in DOMAIN pr, NEW c \in DOMAIN pr, NEW part,
           Exchange(pr, a), KnownPart(pr, c, part), WithinReach(pr, a, Stamp(pr, c, part))
    PROVE  (Number(pr, c, part) % nbx_cycle) - (CountBefore(pr, <<a, 0>>) % nbx_cycle)
               # SlotIndex(pr, a)
<1>1. /\ a \in Nat /\ a >= 1
      /\ UnknownFirst(pr) /\ CountsAlone(pr) /\ ShortRuns(pr) /\ nbx_cycle \in Nat \ {0}
  BY ProgramOf, ProgramTags, QueueAssumption
<1>2. PICK t \in Moments : t = Stamp(pr, c, part)
  BY StampOf
<1>3. Number(pr, c, part) = CountBefore(pr, <<t[1], t[2] + 1>>)
  BY <1>2 DEF Number
<1>4. PICK X \in Nat, Y \in Nat, j \in Nat, Z \in Nat :
         /\ X = CountBefore(pr, <<a, 0>>) /\ Y = CountBefore(pr, <<t[1], t[2] + 1>>)
         /\ j = SlotIndex(pr, a) /\ Z = CountBefore(pr, t)
  BY <1>1, CounterType, SlotIndexType
<1>5. Z <= Y
  <2>1. ASSUME NEW e \in Ticks(pr), Earlier(TickAt(pr, e), t)
        PROVE  Earlier(TickAt(pr, e), <<t[1], t[2] + 1>>)
    BY <2>1, TicksType DEF Earlier, Moments
  <2> QED
    BY <1>4, <2>1, CounterGrows
<1>6. Z >= X + j + 1
  BY <1>1, <1>2, <1>4, CountToEnd DEF WithinReach
<1>7. part \in {"size", "data"}
  BY StampOf
<1>8. Y < X + nbx_cycle
  BY <1>1, <1>2, <1>3, <1>4, <1>7 DEF ShortRuns
<1>9. Y >= X + j + 1 /\ Y + 0 < X + nbx_cycle /\ 0 \in Nat
  BY <1>5, <1>6, <1>8
<1>10. ((Y % nbx_cycle) + 0) - (X % nbx_cycle) # j
  BY <1>1, <1>9, TagApart
<1>11. (Y % nbx_cycle) + 0 = (Y % nbx_cycle)
  BY <1>1
<1> QED
  BY <1>3, <1>4, <1>10, <1>11

\* Sizes under way are of one call at a time.
LEMMA OneWindow ==
    ASSUME TagsDisciplined, NEW pr \in Programs, NEW t \in Moments,
           NEW a \in DOMAIN pr, NEW c \in DOMAIN pr,
           KnownPart(pr, a, "size"), KnownPart(pr, c, "size"),
           Earlier(Stamp(pr, a, "size"), t), ~Earlier(Stamp(pr, a, "data"), t),
           Earlier(Stamp(pr, c, "size"), t), ~Earlier(Stamp(pr, c, "data"), t)
    PROVE  a = c
<1>1. OneSizes(pr)
  BY ProgramTags
<1>2. ASSUME NEW x \in DOMAIN pr, KnownPart(pr, x, "size"),
             Earlier(Stamp(pr, x, "size"), t), ~Earlier(Stamp(pr, x, "data"), t)
      PROVE  /\ x \in Nat /\ x >= 1
             /\ Earlier(<<x, 0>>, t) /\ ~Earlier(<<Completion(pr, x), 2 * x>>, t)
             /\ Completion(pr, x) \in Nat
             /\ pr[x].op \in {"known_prc", "known_prc_sync"}
  <2>1. Stamp(pr, x, "size") = <<x, 0>> /\ pr[x].op \in {"known_prc", "known_prc_sync"}
    BY <1>2, StampOf
  <2>2. KnownPart(pr, x, "data")
    BY <1>2, <2>1 DEF KnownPart
  <2>3. Stamp(pr, x, "data") = <<Completion(pr, x), 2 * x>>
    BY <2>1 DEF Stamp, Announced
  <2> QED
    <3>1. x \in Nat /\ x >= 1
      BY ProgramOf
    <3>2. Completion(pr, x) \in Nat
      BY <3>1, CompletionOf, ProgramOf
    <3> QED
      BY <1>2, <2>1, <2>3, <3>1, <3>2
<1>3. ASSUME NEW x \in {a, c}, NEW y \in {a, c}, x < y
      PROVE  FALSE
  <2>1. /\ x \in DOMAIN pr /\ y \in DOMAIN pr /\ x \in Nat /\ y \in Nat /\ x >= 1
        /\ Earlier(<<y, 0>>, t) /\ ~Earlier(<<Completion(pr, x), 2 * x>>, t)
        /\ Completion(pr, x) \in Nat
        /\ pr[x].op \in {"known_prc", "known_prc_sync"}
        /\ pr[y].op \in {"known_prc", "known_prc_sync"}
    BY <1>2
  <2>2. y <= Completion(pr, x)
    BY <2>1 DEF Earlier, Moments
  <2>3. pr[x].op = "known_prc"
    <3>1. pr[x].op = "known_prc_sync" => Completion(pr, x) = x
      BY DEF Completion, Queues
    <3> QED
      BY <1>3, <2>1, <2>2, <3>1
  <2>4. SameBatch(pr, x, y)
    <3>1. y \in (x + 1)..(Len(pr) + 1)
      BY <1>3, <2>1, ProgramOf
    <3> QED
      BY <2>1, <2>2, <2>3, <3>1, CompletionOf DEF Queues
  <2> QED
    BY <1>1, <2>1, <2>3, <2>4 DEF OneSizes
<1>4. a \in Nat /\ c \in Nat
  BY ProgramOf
<1> QED
  BY <1>3, <1>4

----------------------------------------------------------------------------
(* How far a rank is.                                                      *)

SizesDone(p) == NBX_active[p][at[p]] = "known" /\ prog[Held(p)].op = "known_prc"

LEMMA NowShape ==
    ASSUME NEW p \in Proc, IInv
    PROVE  /\ pc[p] = "app" => Now(p) = <<ip[p], 0>>
           /\ Waiting(p) => Now(p) = <<ip[p], 2 * Held(p) + (IF SizesDone(p) THEN 1 ELSE 0)>>
           /\ pc[p] = "sizes" => Now(p) = <<ip[p], 1>>
           /\ pc[p] = "data" =>
                Now(p) = <<ip[p], IF prog[ip[p]].op = "known_prc_sync" THEN 2 * ip[p] + 1 ELSE 1>>
           /\ \E n \in Nat : Now(p) = <<ip[p], n>>
           /\ Now(p) \in Moments
<1>1. ip[p] \in Nat /\ at[p] \in Slots /\ pc[p] \in {"app", "wait", "test", "sizes", "data"}
  BY RankTypes DEF IInv
<1>2. Held(p) \in Nat
  BY <1>1, RankTypes DEF IInv, Held
<1>3. /\ pc[p] = "app" => Now(p) = <<ip[p], 0>>
      /\ Waiting(p) => Now(p) = <<ip[p], 2 * Held(p) + (IF SizesDone(p) THEN 1 ELSE 0)>>
      /\ pc[p] = "sizes" => Now(p) = <<ip[p], 1>>
      /\ pc[p] = "data" =>
           Now(p) = <<ip[p], IF prog[ip[p]].op = "known_prc_sync" THEN 2 * ip[p] + 1 ELSE 1>>
  BY DEF Now, Waiting, SizesDone, Call
<1>4. /\ 2 * Held(p) + (IF SizesDone(p) THEN 1 ELSE 0) \in Nat
      /\ (IF prog[ip[p]].op = "known_prc_sync" THEN 2 * ip[p] + 1 ELSE 1) \in Nat
  BY <1>1, <1>2
<1>5. \E n \in Nat : Now(p) = <<ip[p], n>>
  BY <1>1, <1>3, <1>4 DEF Waiting
<1> QED
  BY <1>1, <1>3, <1>5 DEF Moments

LEMMA NowNext ==
    ASSUME NEW p \in Proc, prog' = prog
    PROVE  /\ pc'[p] = "app" => Now(p)' = <<ip'[p], 0>>
           /\ \A i, a : pc'[p] \in {"wait", "test"} /\ at'[p] = i /\ slotCall'[p][i] = a =>
                Now(p)' = <<ip'[p], 2 * a + (IF NBX_active'[p][i] = "known" /\ prog[a].op = "known_prc"
                                             THEN 1 ELSE 0)>>
           /\ pc'[p] = "sizes" => Now(p)' = <<ip'[p], 1>>
           /\ \A i : pc'[p] = "data" /\ ip'[p] = i =>
                Now(p)' = <<i, IF prog[i].op = "known_prc_sync" THEN 2 * i + 1 ELSE 1>>
BY DEF Now, Waiting, Held, Call

LEMMA NowStays ==
    ASSUME NEW q \in Proc, prog' = prog, SameRank(q)
    PROVE  Now(q)' = Now(q)
BY DEF Now, Waiting, Held, Call, SameRank

----------------------------------------------------------------------------
(* Steps that leave the messages alone.                                    *)

\* The same sends and receives are done.
SameDone ==
    \A q \in Proc : \A c \in DOMAIN prog : \A part :
        KnownPart(prog, c, part) => (Did(q, c, part)' <=> Did(q, c, part))

\* Rank p sent, and posted the receives for, a part of a call.
OneDone(p, a, half) ==
    /\ a \in DOMAIN prog /\ KnownPart(prog, a, half) /\ ~Did(p, a, half)
    /\ \A q \in Proc : \A c \in DOMAIN prog : \A part :
          KnownPart(prog, c, part) =>
             (Did(q, c, part)' <=> Did(q, c, part) \/ (q = p /\ c = a /\ part = half))

LEMMA DoneStays ==
    ASSUME NEW p \in Proc, prog' = prog, \A q \in Proc \ {p} : Now(q)' = Now(q),
           NEW t, t = Now(p)', SameStamps(prog, Now(p), t)
    PROVE  SameDone
<1>1. ASSUME NEW q \in Proc, NEW c \in DOMAIN prog, NEW part, KnownPart(prog, c, part)
      PROVE  Did(q, c, part)' <=> Did(q, c, part)
  <2>1. Did(q, c, part)' <=> Earlier(Stamp(prog, c, part), Now(q)')
    BY DEF Did
  <2>2. CASE q = p
    BY <1>1, <2>1, <2>2 DEF SameStamps, Did
  <2>3. CASE q # p
    BY <1>1, <2>1, <2>3 DEF Did
  <2> QED
    BY <2>2, <2>3
<1> QED
  BY <1>1 DEF SameDone

LEMMA DoneOne ==
    ASSUME NEW p \in Proc, prog' = prog, \A q \in Proc \ {p} : Now(q)' = Now(q),
           NEW t, t = Now(p)', NEW a, NEW half, OneStamp(prog, Now(p), t, a, half)
    PROVE  OneDone(p, a, half)
<1>1. a \in DOMAIN prog /\ KnownPart(prog, a, half) /\ ~Did(p, a, half)
  BY DEF OneStamp, Did
<1>2. ASSUME NEW q \in Proc, NEW c \in DOMAIN prog, NEW part, KnownPart(prog, c, part)
      PROVE  Did(q, c, part)' <=> Did(q, c, part) \/ (q = p /\ c = a /\ part = half)
  <2>1. Did(q, c, part)' <=> Earlier(Stamp(prog, c, part), Now(q)')
    BY DEF Did
  <2>2. CASE q = p /\ c = a /\ part = half
    BY <2>1, <2>2 DEF OneStamp
  <2>3. CASE q = p /\ ~(c = a /\ part = half)
    BY <1>2, <2>1, <2>3 DEF OneStamp, Did
  <2>4. CASE q # p
    BY <1>2, <2>1, <2>4 DEF Did
  <2> QED
    BY <2>2, <2>3, <2>4
<1> QED
  BY <1>1, <1>2 DEF OneDone

\* No exchange of the barrier protocol was begun.
SameBegun ==
    \A q \in Proc : \A c \in DOMAIN prog : Exchange(prog, c) /\ c < Behind(q)' => c < Behind(q)

LEMMA TrafficStays ==
    ASSUME IInv, Traffic, prog' = prog, SameDone, SameBegun,
           UNCHANGED <<flight, posted, got, posts>>
    PROVE  Traffic'
<1>1. ASSUME NEW m \in flight
      PROVE  Message(m)'
  <2>1. Message(m) /\ m.src \in Proc
    BY DEF Traffic, IInv, TypeOK
  <2>2. KnownMessage(m) => KnownMessage(m)'
    BY <2>1 DEF KnownMessage, KnownOf, SameDone
  <2>3. SparseMessage(m) => SparseMessage(m)'
    BY DEF SparseMessage
  <2>4. OfProgram(m.src, m.dst, m.sz, m.call)'
    BY <2>1 DEF OfProgram, Message
  <2> QED
    BY <2>1, <2>2, <2>3, <2>4 DEF Message
<1>2. ASSUME NEW r \in posted
      PROVE  Receive(r)'
  <2>1. Receive(r) /\ r.dst \in Proc
    BY DEF Traffic, IInv, TypeOK
  <2>2. KnownPart(prog, r.call, r.part) /\ r.call \in DOMAIN prog
    BY <2>1 DEF Receive, KnownOf
  <2>3. Did(r.dst, r.call, r.part)'
    BY <2>1, <2>2 DEF Receive, SameDone
  <2>4. r.part = "size" => ~Did(r.dst, r.call, "data")'
    <3>1. r.part = "size" => KnownPart(prog, r.call, "data")
      BY <2>2 DEF KnownPart
    <3> QED
      BY <2>1, <2>2, <3>1 DEF Receive, SameDone
  <2>5. r.pos \in DOMAIN Senders(r.dst, r.call)' /\ Senders(r.dst, r.call)'[r.pos] = r.src
    BY <2>1 DEF Receive, Senders
  <2> QED
    BY <2>1, <2>3, <2>4, <2>5 DEF Receive, KnownOf
<1>3. SendOrder' /\ ReceiveOrder'
  BY DEF Traffic, SendOrder, ReceiveOrder
<1>4. Pairing'
  <2>1. ASSUME NEW c \in DOMAIN prog, NEW part \in {"size", "data"}, KnownPart(prog, c, part),
               NEW x \in prog[c].sends
        PROVE  Paired(c, part, x)'
    <3>1. Paired(c, part, x)
      BY <2>1 DEF Traffic, Pairing
    <3>2. x.src \in Proc /\ x.dst \in Proc
      BY ProgramType DEF IInv
    <3>3. /\ Did(x.src, c, part)' <=> Did(x.src, c, part)
          /\ Did(x.dst, c, part)' <=> Did(x.dst, c, part)
      BY <2>1, <3>2 DEF SameDone
    <3>4. Sent(c, part, x)' = Sent(c, part, x) /\ Awaited(c, part, x)' = Awaited(c, part, x)
      BY DEF Sent, Awaited
    <3> QED
      BY <3>1, <3>3, <3>4 DEF Paired
  <2> QED
    BY <2>1 DEF Pairing
<1>5. NothingLost'
  <2>1. ASSUME NEW c \in DOMAIN prog, NEW x \in prog[c].sends
        PROVE  /\ Exchange(prog, c) /\ c < Behind(x.src)' => SparseUnderWay(c, x)' \/ Got(c, x)'
               /\ KnownPart(prog, c, "data") /\ Did(x.dst, c, "data")'
                    => Awaited(c, "data", x)' \/ Got(c, x)'
    <3>1. /\ Exchange(prog, c) /\ c < Behind(x.src) => SparseUnderWay(c, x) \/ Got(c, x)
          /\ KnownPart(prog, c, "data") /\ Did(x.dst, c, "data") => Awaited(c, "data", x) \/ Got(c, x)
      BY DEF Traffic, NothingLost
    <3>2. x.src \in Proc /\ x.dst \in Proc
      BY ProgramType DEF IInv
    <3>3. SparseUnderWay(c, x)' = SparseUnderWay(c, x) /\ Awaited(c, "data", x)' = Awaited(c, "data", x)
          /\ Got(c, x)' = Got(c, x)
      BY DEF SparseUnderWay, Awaited, Got
    <3>4. KnownPart(prog, c, "data") => (Did(x.dst, c, "data")' <=> Did(x.dst, c, "data"))
      BY <3>2 DEF SameDone
    <3>5. Exchange(prog, c) /\ c < Behind(x.src)' => c < Behind(x.src)
      BY <3>2 DEF SameBegun
    <3> QED
      BY <3>1, <3>3, <3>4, <3>5
  <2> QED
    BY <2>1 DEF NothingLost
<1> QED
  BY <1>1, <1>2, <1>3, <1>4, <1>5 DEF Traffic

----------------------------------------------------------------------------
(* What a step of rank p has to keep.                                      *)

SameOthers(p) ==
    \A q \in Proc \ {p} : /\ NBX_cnt'[q] = NBX_cnt[q] /\ cnt_base'[q] = cnt_base[q]
                          /\ sz_recv_tmp'[q] = sz_recv_tmp[q]

LEMMA SizesStay ==
    ASSUME IInv, NEW p \in Proc, SizesKnown(p), prog' = prog, SameDone,
           sz_recv_tmp'[p] = sz_recv_tmp[p], \A r \in posted : r.dst = p => r \in posted'
    PROVE  SizesKnown(p)'
<1>1. ASSUME NEW c \in DOMAIN prog, KnownPart(prog, c, "size"), Did(p, c, "size")',
             ~Did(p, c, "data")', NEW k \in DOMAIN Senders(p, c)
      PROVE  /\ k \in DOMAIN sz_recv_tmp'[p].val
             /\ \/ \E r \in posted' : /\ r.dst = p /\ r.call = c /\ r.part = "size" /\ r.pos = k
                                      /\ r.where = sz_recv_tmp'[p].where
                \/ [src |-> Senders(p, c)[k], dst |-> p, sz |-> sz_recv_tmp'[p].val[k]]
                      \in prog[c].sends
  <2>1. KnownPart(prog, c, "data")
    BY <1>1 DEF KnownPart
  <2>2. Did(p, c, "size") /\ ~Did(p, c, "data")
    BY <1>1, <2>1 DEF SameDone
  <2>3. /\ k \in DOMAIN sz_recv_tmp[p].val
        /\ \/ \E r \in posted : /\ r.dst = p /\ r.call = c /\ r.part = "size" /\ r.pos = k
                                /\ r.where = sz_recv_tmp[p].where
           \/ [src |-> Senders(p, c)[k], dst |-> p, sz |-> sz_recv_tmp[p].val[k]]
                 \in prog[c].sends
    BY <1>1, <2>2 DEF SizesKnown
  <2> QED
    BY <2>3
<1>2. \A c : Senders(p, c)' = Senders(p, c)
  BY DEF Senders
<1> QED
  BY <1>1, <1>2 DEF SizesKnown

LEMMA RankStays ==
    ASSUME IInv, NEW q \in Proc, Place(q), prog' = prog, SameRank(q),
           NBX_cnt'[q] = NBX_cnt[q], cnt_base'[q] = cnt_base[q]
    PROVE  /\ Slotted(q)' /\ Base(q)' /\ Counter(q)' /\ Exchanged(q)'
           /\ Now(q)' = Now(q)
<1>1. /\ Waiting(q)' = Waiting(q) /\ InSync(q)' = InSync(q)
      /\ \A i \in Slots : Live(q, i)' = Live(q, i)
  BY SameWhereabouts
<1>2. Now(q)' = Now(q)
  BY NowStays
<1>3. SlotNumbers(q)'
  BY <1>1 DEF Place, Slotted, SlotNumbers, SameRank
<1>4. SlotCalls(q)'
  BY <1>1 DEF Place, Slotted, SlotCalls, SameRank
<1>5. SizesFirst(q)'
  BY <1>1 DEF Place, Slotted, SizesFirst, SameRank
<1>6. FirstSlot(q)'
  BY <1>1 DEF Place, Slotted, FirstSlot, SameRank
<1>7. Counter(q)'
  BY <1>2 DEF Place, Counter
<1>8. Base(q)'
  BY DEF Place, Base, SameRank
<1>9. Exchanged(q)'
  BY <1>2 DEF Place, Exchanged, SameRank
<1> QED
  BY <1>2, <1>3, <1>4, <1>5, <1>6, <1>7, <1>8, <1>9 DEF Slotted

LEMMA PlaceStays ==
    ASSUME IInv, NEW q \in Proc, Place(q), prog' = prog, SameRank(q),
           NBX_cnt'[q] = NBX_cnt[q], cnt_base'[q] = cnt_base[q], sz_recv_tmp'[q] = sz_recv_tmp[q],
           \A r \in posted : r.dst = q => r \in posted'
    PROVE  Place(q)'
<1>1. /\ Slotted(q)' /\ Base(q)' /\ Counter(q)' /\ Exchanged(q)'
      /\ Now(q)' = Now(q)
  BY RankStays
<1>2. SizesKnown(q)'
  <2>1. ASSUME NEW c \in DOMAIN prog, NEW part
        PROVE  Did(q, c, part)' <=> Did(q, c, part)
    BY <1>1 DEF Did
  <2>2. ASSUME NEW c \in DOMAIN prog, KnownPart(prog, c, "size"), Did(q, c, "size")',
               ~Did(q, c, "data")', NEW k \in DOMAIN Senders(q, c)
        PROVE  /\ k \in DOMAIN sz_recv_tmp'[q].val
               /\ \/ \E r \in posted' : /\ r.dst = q /\ r.call = c /\ r.part = "size" /\ r.pos = k
                                        /\ r.where = sz_recv_tmp'[q].where
                  \/ [src |-> Senders(q, c)[k], dst |-> q, sz |-> sz_recv_tmp'[q].val[k]]
                        \in prog[c].sends
    <3>1. /\ k \in DOMAIN sz_recv_tmp[q].val
          /\ \/ \E r \in posted : /\ r.dst = q /\ r.call = c /\ r.part = "size" /\ r.pos = k
                                  /\ r.where = sz_recv_tmp[q].where
             \/ [src |-> Senders(q, c)[k], dst |-> q, sz |-> sz_recv_tmp[q].val[k]]
                   \in prog[c].sends
      BY <2>1, <2>2 DEF Place, SizesKnown
    <3> QED
      BY <3>1
  <2>3. \A c : Senders(q, c)' = Senders(q, c)
    BY DEF Senders
  <2> QED
    BY <2>2, <2>3 DEF SizesKnown
<1> QED
  BY <1>1, <1>2 DEF Place

\* The parts of the invariant, after a step of rank p.
LEMMA RankMoves ==
    ASSUME IInv, MInv, NEW p \in Proc, StepOf(p), SameOthers(p), posted \subseteq posted',
           Place(p)', Kept', Traffic',
           \A q \in Proc : got[q] \subseteq got'[q],
           \A q \in Proc : \A g \in got'[q] \ got[q] : g.call = g.msg.call /\ g.part = g.msg.part,
           \A c \in finished'[p] \ finished[p] : \A x \in prog[c].sends : x.dst = p => Got(c, x)'
    PROVE  MInv'
<1>1. prog' = prog /\ \A q \in Proc \ {p} : SameRank(q)
  BY DEF StepOf
<1>2. \A q \in Proc : Place(q)'
  <2>1. ASSUME NEW q \in Proc, q # p
        PROVE  Place(q)'
    <3>1. SameRank(q) /\ Place(q)
      BY <1>1, <2>1 DEF MInv
    <3>2. NBX_cnt'[q] = NBX_cnt[q] /\ cnt_base'[q] = cnt_base[q] /\ sz_recv_tmp'[q] = sz_recv_tmp[q]
      BY <2>1 DEF SameOthers
    <3> QED
      BY <1>1, <3>1, <3>2, PlaceStays
  <2> QED
    BY <2>1
<1>3. QueueRightAssociation'
  <2>1. ASSUME NEW q \in Proc, NEW g \in got'[q]
        PROVE  g.call = g.msg.call /\ g.part = g.msg.part
    BY DEF MInv, QueueRightAssociation
  <2> QED
    BY <2>1 DEF QueueRightAssociation
<1>4. QueueDelivered'
  <2>1. ASSUME NEW q \in Proc, NEW c \in finished'[q], NEW x \in prog[c].sends, x.dst = q
        PROVE  \E g \in got'[q] :
                 /\ g.call = c /\ g.part = "data" /\ g.sz = x.sz
                 /\ g.msg.call = c /\ g.msg.part = "data" /\ g.msg.src = x.src
    <3>1. CASE c \in finished[q]
      <4>1. PICK g \in got[q] :
               /\ g.call = c /\ g.part = "data" /\ g.sz = x.sz
               /\ g.msg.call = c /\ g.msg.part = "data" /\ g.msg.src = x.src
        BY <2>1, <3>1 DEF MInv, QueueDelivered
      <4> QED
        BY <4>1
    <3>2. CASE c \notin finished[q]
      <4>1. q = p
        BY <1>1, <2>1, <3>2 DEF SameRank
      <4>2. Got(c, x)'
        BY <2>1, <3>2, <4>1
      <4> QED
        BY <2>1, <4>2 DEF Got
    <3> QED
      BY <3>1, <3>2
  <2> QED
    BY <1>1, <2>1 DEF QueueDelivered
<1> QED
  BY <1>2, <1>3, <1>4 DEF MInv

\* The counter, when nothing counts and when something does.
LEMMA CounterStays ==
    ASSUME prog \in Programs, NEW p \in Proc, prog' = prog, Counter(p), Exchanged(p),
           NEW t, t = Now(p)', SameTicks(prog, Now(p), t),
           NBX_cnt'[p] = NBX_cnt[p], finished[p] \subseteq finished'[p]
    PROVE  Counter(p)' /\ Exchanged(p)'
<1>1. CountBefore(prog, t) = CountBefore(prog, Now(p))
  BY SameCount
<1>2. Counter(p)'
  BY <1>1 DEF Counter
<1>3. ASSUME NEW c \in DOMAIN prog, Exchange(prog, c), Ends(prog, c, t)
      PROVE  c \in finished'[p]
  <2>1. <<c, 1>> \in Ticks(prog)
    BY <1>3, EndsAt
  <2>2. Ends(prog, c, Now(p))
    BY <1>3, <2>1 DEF Ends, SameTicks
  <2> QED
    BY <1>3, <2>2 DEF Exchanged
<1>4. Exchanged(p)'
  BY <1>3 DEF Exchanged
<1> QED
  BY <1>2, <1>4

LEMMA CounterCounts ==
    ASSUME prog \in Programs, NEW p \in Proc, prog' = prog, Counter(p), Exchanged(p),
           NEW t, t = Now(p)', NEW a, NEW k, OneTick(prog, Now(p), t, <<a, k>>),
           NBX_cnt'[p] = NextCnt(NBX_cnt[p]), finished[p] \subseteq finished'[p],
           k = 1 /\ a \in DOMAIN prog /\ Exchange(prog, a) => a \in finished'[p]
    PROVE  Counter(p)' /\ Exchanged(p)'
<1>1. CountBefore(prog, t) = CountBefore(prog, Now(p)) + 1 /\ CountBefore(prog, Now(p)) \in Nat
  BY NextCount, CounterType
<1>2. Counter(p)'
  <2>1. (((CountBefore(prog, Now(p)) % nbx_cycle) + 1) % nbx_cycle)
           = ((CountBefore(prog, Now(p)) + 1) % nbx_cycle)
    BY <1>1, ModNext, QueueAssumption
  <2>2. NBX_cnt'[p] = (((CountBefore(prog, Now(p)) % nbx_cycle) + 1) % nbx_cycle)
    BY DEF Counter, NextCnt
  <2> QED
    BY <1>1, <2>1, <2>2 DEF Counter
<1>3. ASSUME NEW c \in DOMAIN prog, Exchange(prog, c), Ends(prog, c, t)
      PROVE  c \in finished'[p]
  <2>1. <<c, 1>> \in Ticks(prog)
    BY <1>3, EndsAt
  <2>2. CASE <<c, 1>> = <<a, k>>
    BY <1>3, <2>2
  <2>3. CASE <<c, 1>> # <<a, k>>
    <3>1. Ends(prog, c, Now(p))
      BY <1>3, <2>1, <2>3 DEF Ends, OneTick
    <3> QED
      BY <1>3, <3>1 DEF Exchanged
  <2> QED
    BY <2>2, <2>3
<1>4. Exchanged(p)'
  BY <1>3 DEF Exchanged
<1> QED
  BY <1>2, <1>4

----------------------------------------------------------------------------
(* The slots of a rank after each kind of step.                            *)

LEMMA NotSync ==
    ASSUME NEW p \in Proc, ~Waiting(p)
    PROVE  ~InSync(p)
BY DEF InSync

LEMMA SlotsInPlace ==
    ASSUME NEW p \in Proc, Slotted(p), Base(p), prog' = prog, ip'[p] = ip[p], qcnt'[p] = qcnt[p],
           at'[p] = at[p], NBX_active'[p] = NBX_active[p], slotCall'[p] = slotCall[p],
           cnt_base'[p] = cnt_base[p], Waiting(p)' <=> Waiting(p)
    PROVE  Slotted(p)' /\ Base(p)'
<1>1. InSync(p)' <=> InSync(p)
  BY DEF InSync, Call
<1>2. \A i \in Slots : Live(p, i)' <=> Live(p, i)
  BY DEF Live
<1>3. SlotNumbers(p)'
  BY <1>1, <1>2 DEF Slotted, SlotNumbers
<1>4. SlotCalls(p)'
  BY DEF Slotted, SlotCalls
<1>5. SizesFirst(p)'
  BY <1>2 DEF Slotted, SizesFirst
<1>6. FirstSlot(p)'
  BY <1>1 DEF Slotted, FirstSlot
<1>7. Base(p)'
  BY DEF Base
<1> QED
  BY <1>3, <1>4, <1>5, <1>6, <1>7 DEF Slotted

\* The next call, which takes no slot and is given no number.
LEMMA SlotsMoveOn ==
    ASSUME IInv, NEW p \in Proc, Slotted(p), Base(p), prog' = prog, ip[p] <= Len(prog),
           prog[ip[p]].op \notin Queues \cup {"sync", "wait"},
           ip'[p] = ip[p] + 1, qcnt'[p] = qcnt[p],
           NBX_active'[p] = NBX_active[p], slotCall'[p] = slotCall[p], cnt_base'[p] = cnt_base[p],
           ~Waiting(p), ~Waiting(p)'
    PROVE  Slotted(p)' /\ Base(p)'
<1>1. PICK i \in Nat \ {0} : i = ip[p]
  BY RankTypes DEF IInv
<1>2. /\ ~InSync(p) /\ ~InSync(p)' /\ \A j \in Slots : Live(p, j)' <=> Live(p, j)
  BY DEF InSync, Live
<1>3. SlotIndex(prog, i + 1) = SlotIndex(prog, i)
  BY <1>1, SlotIndexNext DEF Numbered
<1>4. \A c \in 1..i : SameBatch(prog, c, i + 1) /\ prog[c].op \in Queues =>
          c \in 1..(i - 1) /\ SameBatch(prog, c, i)
  BY <1>1 DEF SameBatch
<1>5. SlotNumbers(p)'
  BY <1>1, <1>2, <1>3 DEF Slotted, SlotNumbers
<1>6. SlotCalls(p)'
  <2>1. ASSUME NEW c \in 1..i, SameBatch(prog, c, i + 1), Queued(prog, c)
        PROVE  /\ slotCall[p][SlotIndex(prog, c)] = c
               /\ NBX_active[p][SlotIndex(prog, c)] # "unactive"
    <3>1. c \in 1..(i - 1) /\ SameBatch(prog, c, i)
      BY <1>4, <2>1 DEF Queued
    <3> QED
      BY <1>1, <2>1, <3>1 DEF Slotted, SlotCalls
  <2> QED
    BY <1>1, <2>1 DEF SlotCalls
<1>7. SizesFirst(p)'
  BY <1>2 DEF Slotted, SizesFirst
<1>8. FirstSlot(p)'
  <2>1. Pending(prog, i + 1, {"sync"}) <=> Pending(prog, i, {"sync"})
    BY <1>1, PendingNext
  <2>2. ASSUME qcnt[p] >= 0
        PROVE  slotCall[p][0] \in 1..i /\ SameBatch(prog, slotCall[p][0], i + 1)
    <3>1. slotCall[p][0] \in 1..(i - 1) /\ SameBatch(prog, slotCall[p][0], i)
      BY <1>1, <1>2, <2>2 DEF Slotted, FirstSlot
    <3> QED
      BY <1>1, <3>1, SameBatchNext
  <2>3. qcnt[p] = -1 => (NBX_active[p][0] # "unactive" <=> Pending(prog, i + 1, {"sync"}))
    BY <1>1, <1>2, <2>1 DEF Slotted, FirstSlot
  <2>4. qcnt[p] >= 0 => /\ prog[slotCall[p][0]].op \in Queues
                        /\ SlotIndex(prog, slotCall[p][0]) = 0
    BY <1>2 DEF Slotted, FirstSlot
  <2> QED
    BY <1>1, <2>2, <2>3, <2>4 DEF FirstSlot
<1>9. Base(p)'
  BY DEF Base
<1> QED
  BY <1>5, <1>6, <1>7, <1>8, <1>9 DEF Slotted

\* A call that is refused: its number is lost.
LEMMA SlotsRefused ==
    ASSUME IInv, NEW p \in Proc, Slotted(p), Base(p), prog' = prog, ip[p] <= Len(prog),
           \/ prog[ip[p]].op \in {"known", "known_prc"} /\ qcnt[p] + 1 >= NQUEUE
           \/ prog[ip[p]].op = "sync" /\ qcnt[p] + 1 # 0,
           ip'[p] = ip[p] + 1, qcnt'[p] = qcnt[p] + 1,
           NBX_active'[p] = NBX_active[p], slotCall'[p] = slotCall[p], cnt_base'[p] = cnt_base[p],
           ~Waiting(p), ~Waiting(p)'
    PROVE  Slotted(p)' /\ Base(p)'
<1>1. PICK i \in Nat \ {0} : i = ip[p]
  BY RankTypes DEF IInv
<1>2. ~InSync(p) /\ ~InSync(p)' /\ qcnt[p] \in Int /\ qcnt[p] >= 0 /\ NQUEUE \in Nat \ {0}
  BY RankTypes, QueueAssumption DEF IInv, InSync
<1>3. \A j \in Slots : NBX_active[p][j] # "unactive" => j <= qcnt[p] /\ j \in Nat
  <2>1. ASSUME NEW j \in Slots, NBX_active[p][j] # "unactive"
        PROVE  j <= qcnt[p] /\ j \in Nat
    <3>1. SlotHolds(p, j) /\ j \in Nat
      BY SlotsAreNat DEF IInv, RankInv, Control
    <3> QED
      BY <1>2, <2>1, <3>1 DEF SlotHolds
  <2> QED
    BY <2>1
<1>4. \A j \in Slots : Live(p, j)' <=> Live(p, j)
  BY <1>2, <1>3 DEF Live
<1>5. Pending(prog, i, Queues)
  BY <1>1, <1>2, QueuedOrNot
<1>6. Numbered(prog, i) /\ prog[i].op # "wait"
  BY <1>1, <1>5 DEF Numbered, Queues
<1>7. SlotIndex(prog, i + 1) = SlotIndex(prog, i) + 1 /\ SlotIndex(prog, i) = qcnt[p] + 1
  BY <1>1, <1>2, <1>6, SlotIndexNext DEF Slotted, SlotNumbers
<1>8. SlotNumbers(p)'
  BY <1>1, <1>2, <1>4, <1>7 DEF Slotted, SlotNumbers
<1>9. SlotCalls(p)'
  <2>1. ASSUME NEW c \in 1..i, SameBatch(prog, c, i + 1), Queued(prog, c)
        PROVE  /\ slotCall[p][SlotIndex(prog, c)] = c
               /\ NBX_active[p][SlotIndex(prog, c)] # "unactive"
    <3>1. c # i
      BY <1>1, <1>2, <1>7, <2>1 DEF Queued, Queues
    <3>2. c \in 1..(i - 1) /\ SameBatch(prog, c, i)
      BY <1>1, <2>1, <3>1 DEF SameBatch
    <3> QED
      BY <1>1, <2>1, <3>2 DEF Slotted, SlotCalls
  <2> QED
    BY <1>1, <2>1 DEF SlotCalls
<1>10. SizesFirst(p)'
  BY <1>4 DEF Slotted, SizesFirst
<1>11. FirstSlot(p)'
  <2>1. /\ slotCall[p][0] \in 1..(i - 1) /\ SameBatch(prog, slotCall[p][0], i)
        /\ prog[slotCall[p][0]].op \in Queues /\ SlotIndex(prog, slotCall[p][0]) = 0
    BY <1>1, <1>2 DEF Slotted, FirstSlot
  <2>2. slotCall[p][0] \in 1..i /\ SameBatch(prog, slotCall[p][0], i + 1)
    BY <1>1, <1>6, <2>1, SameBatchNext
  <2> QED
    BY <1>1, <1>2, <2>1, <2>2 DEF FirstSlot
<1>12. Base(p)'
  BY <1>2 DEF Base
<1> QED
  BY <1>8, <1>9, <1>10, <1>11, <1>12 DEF Slotted

\* A call that is queued.
LEMMA SlotsQueued ==
    ASSUME IInv, NEW p \in Proc, Slotted(p), Base(p), Counter(p), prog' = prog,
           pc[p] = "app", pc'[p] = "app", ip[p] <= Len(prog), prog[ip[p]].op \in Queues,
           NEW slot \in Slots, slot = qcnt[p] + 1,
           ip'[p] = ip[p] + 1, qcnt'[p] = slot,
           \A j \in Slots : /\ NBX_active'[p][j] = IF j = slot THEN prog[ip[p]].op ELSE NBX_active[p][j]
                            /\ slotCall'[p][j] = IF j = slot THEN ip[p] ELSE slotCall[p][j],
           cnt_base'[p] = IF slot = 0 THEN NBX_cnt[p] ELSE cnt_base[p]
    PROVE  Slotted(p)' /\ Base(p)'
<1>1. PICK i \in Nat \ {0} : i = ip[p]
  BY RankTypes DEF IInv
<1>2. /\ ~Waiting(p) /\ ~Waiting(p)' /\ ~InSync(p) /\ ~InSync(p)' /\ qcnt[p] \in Int /\ qcnt[p] >= -1
      /\ NQUEUE \in Nat \ {0} /\ slot \in Nat /\ 0 \in Slots
  BY RankTypes, QueueAssumption, SlotsAreNat DEF IInv, InSync, Waiting
<1>3. \A j \in Slots : j # slot /\ NBX_active[p][j] # "unactive" => Live(p, j)
  BY <1>2, FreshSlot
<1>4. Numbered(prog, i) /\ prog[i].op # "wait"
  BY <1>1 DEF Numbered, Queues
<1>5. SlotIndex(prog, i + 1) = slot + 1 /\ SlotIndex(prog, i) = slot
  <2>1. SlotIndex(prog, i) = slot
    BY <1>1, <1>2 DEF Slotted, SlotNumbers
  <2>2. SlotIndex(prog, i + 1) = SlotIndex(prog, i) + 1
    BY <1>4, SlotIndexNext
  <2> QED
    BY <2>1, <2>2
<1>6. \A j \in Slots : Live(p, j)' => j = slot \/ Live(p, j)
  BY <1>3 DEF Live
<1>7. SlotNumbers(p)'
  <2>1. \A j \in Slots : Live(p, j)' => SlotIndex(prog, slotCall'[p][j]) = j
    BY <1>1, <1>5, <1>6 DEF Slotted, SlotNumbers
  <2> QED
    BY <1>1, <1>5, <2>1 DEF SlotNumbers
<1>8. SlotCalls(p)'
  <2>1. ASSUME NEW c \in 1..i, SameBatch(prog, c, i + 1), Queued(prog, c)
        PROVE  /\ slotCall'[p][SlotIndex(prog, c)] = c
               /\ NBX_active'[p][SlotIndex(prog, c)] # "unactive"
    <3>1. CASE c = i
      BY <1>1, <1>5, <3>1 DEF Queues
    <3>2. CASE c # i
      <4>1. c \in 1..(i - 1) /\ SameBatch(prog, c, i)
        BY <1>1, <2>1, <3>2 DEF SameBatch
      <4>2. SlotIndex(prog, c) < slot /\ SlotIndex(prog, c) \in Nat
        <5>1. Numbered(prog, c)
          BY <2>1 DEF Queued, Numbered
        <5> QED
          BY <1>1, <1>5, <4>1, <5>1, SlotIndexGrows, SlotIndexType
      <4>3. SlotIndex(prog, c) \in Slots /\ SlotIndex(prog, c) # slot
        BY <1>2, <4>2 DEF Slots
      <4>4. slotCall[p][SlotIndex(prog, c)] = c /\ NBX_active[p][SlotIndex(prog, c)] # "unactive"
        BY <1>1, <1>2, <2>1, <4>1 DEF Slotted, SlotCalls
      <4> QED
        BY <4>3, <4>4
    <3> QED
      BY <3>1, <3>2
  <2> QED
    BY <1>1, <2>1 DEF SlotCalls
<1>9. SizesFirst(p)'
  <2>1. ASSUME NEW j \in Slots, Live(p, j)', prog[slotCall'[p][j]].op = "known_prc"
        PROVE  NBX_active'[p][j] = "known_prc"
    <3>1. CASE j = slot
      BY <1>1, <2>1, <3>1
    <3>2. CASE j # slot
      BY <1>2, <1>6, <2>1, <3>2 DEF Slotted, SizesFirst
    <3> QED
      BY <3>1, <3>2
  <2> QED
    BY <2>1 DEF SizesFirst
<1>10. FirstSlot(p)'
  <2>1. /\ slotCall'[p][0] \in 1..i /\ SameBatch(prog, slotCall'[p][0], i + 1)
        /\ prog[slotCall'[p][0]].op \in Queues /\ SlotIndex(prog, slotCall'[p][0]) = 0
    <3>1. CASE slot = 0
      BY <1>1, <1>2, <1>5, <3>1 DEF SameBatch
    <3>2. CASE slot # 0
      <4>1. slotCall'[p][0] = slotCall[p][0] /\ qcnt[p] >= 0
        BY <1>2, <3>2
      <4>2. /\ slotCall[p][0] \in 1..(i - 1) /\ SameBatch(prog, slotCall[p][0], i)
            /\ prog[slotCall[p][0]].op \in Queues /\ SlotIndex(prog, slotCall[p][0]) = 0
        BY <1>1, <1>2, <4>1 DEF Slotted, FirstSlot
      <4> QED
        BY <1>1, <1>4, <4>1, <4>2, SameBatchNext
    <3> QED
      BY <3>1, <3>2
  <2> QED
    BY <1>1, <1>2, <2>1 DEF FirstSlot
<1>11. Base(p)'
  <2>1. CASE slot = 0
    <3>1. Now(p) = <<i, 0>>
      BY <1>1, NowShape
    <3>2. cnt_base'[p] = CountBefore(prog, <<i, 0>>) % nbx_cycle
      BY <2>1, <3>1 DEF Counter
    <3>3. slotCall'[p][0] = i
      BY <1>1, <1>2, <2>1
    <3> QED
      BY <3>2, <3>3 DEF Base
  <2>2. CASE slot # 0
    <3>1. slotCall'[p][0] = slotCall[p][0] /\ qcnt[p] >= 0 /\ cnt_base'[p] = cnt_base[p]
      BY <1>2, <2>2
    <3> QED
      BY <3>1 DEF Base
  <2> QED
    BY <2>1, <2>2
<1> QED
  BY <1>7, <1>8, <1>9, <1>10, <1>11 DEF Slotted

\* The blocking call of the barrier protocol takes the first slot.
LEMMA SlotsBlocking ==
    ASSUME IInv, NEW p \in Proc, Slotted(p), Counter(p), prog' = prog,
           pc[p] = "app", pc'[p] = "wait", ip[p] <= Len(prog), prog[ip[p]].op = "sync",
           qcnt[p] = -1, ip'[p] = ip[p], qcnt'[p] = 0,
           \A j \in Slots : /\ NBX_active'[p][j] = IF j = 0 THEN "unknown" ELSE NBX_active[p][j]
                            /\ slotCall'[p][j] = IF j = 0 THEN ip[p] ELSE slotCall[p][j],
           cnt_base'[p] = NBX_cnt[p]
    PROVE  Slotted(p)' /\ Base(p)'
<1>1. PICK i \in Nat \ {0} : i = ip[p]
  BY RankTypes DEF IInv
<1>2. ~InSync(p) /\ InSync(p)' /\ Waiting(p)' /\ 0 \in Slots /\ Slots \subseteq Nat
  BY SlotsAreNat DEF InSync, Waiting, Call
<1>3. ~Pending(prog, i, Queues)
  BY <1>1, <1>2, QueuedOrNot
<1>4. SlotIndex(prog, i) = 0
  BY <1>3, SlotIndexZero
<1>5. SlotNumbers(p)'
  <2>1. ASSUME NEW j \in Slots, Live(p, j)'
        PROVE  SlotIndex(prog, slotCall'[p][j]) = j
    <3>1. j = 0
      BY <1>2, <2>1 DEF Live
    <3> QED
      BY <1>1, <1>4, <3>1
  <2> QED
    BY <1>2, <2>1 DEF SlotNumbers
<1>6. SlotCalls(p)'
  BY <1>1, <1>3 DEF SlotCalls, Pending, Queued
<1>7. SizesFirst(p)'
  <2>1. ASSUME NEW j \in Slots, Live(p, j)'
        PROVE  prog[slotCall'[p][j]].op # "known_prc"
    <3>1. j = 0
      BY <1>2, <2>1 DEF Live
    <3> QED
      BY <3>1
  <2> QED
    BY <2>1 DEF SizesFirst
<1>8. FirstSlot(p)'
  BY <1>2 DEF FirstSlot
<1>9. Base(p)'
  <2>1. Now(p) = <<i, 0>>
    BY <1>1, NowShape
  <2>2. cnt_base'[p] = CountBefore(prog, <<i, 0>>) % nbx_cycle
    BY <2>1 DEF Counter
  <2> QED
    BY <1>1, <1>2, <2>2 DEF Base
<1> QED
  BY <1>5, <1>6, <1>7, <1>8, <1>9 DEF Slotted

\* ... and leaves it marked.
LEMMA SlotsLeft ==
    ASSUME IInv, NEW p \in Proc, Slotted(p), prog' = prog, ip[p] <= Len(prog), InSync(p),
           ip'[p] = ip[p] + 1, pc'[p] = "app", qcnt'[p] = -1,
           NBX_active'[p] = NBX_active[p], slotCall'[p] = slotCall[p]
    PROVE  Slotted(p)' /\ Base(p)'
<1>1. PICK i \in Nat \ {0} : i = ip[p]
  BY RankTypes DEF IInv
<1>2. /\ ~InSync(p)' /\ ~Waiting(p)' /\ 0 \in Slots /\ Slots \subseteq Nat
      /\ prog[i].op = "sync" /\ AtCall(p)
  BY <1>1, SlotsAreNat DEF InSync, Waiting, Call, IInv, RankInv, Control
<1>3. ~Pending(prog, i, Queues) /\ NBX_active[p][0] # "unactive"
  BY <1>1, <1>2 DEF AtCall, InSync
<1>4. SlotIndex(prog, i + 1) = 0 /\ ~Pending(prog, i + 1, Queues) /\ Pending(prog, i + 1, {"sync"})
  BY <1>2, <1>3, PendingNext, SlotIndexZero DEF Queues
<1>5. \A j \in Slots : ~Live(p, j)'
  BY <1>2 DEF Live
<1>6. SlotNumbers(p)'
  BY <1>1, <1>4, <1>5 DEF SlotNumbers
<1>7. SlotCalls(p)'
  BY <1>1, <1>4 DEF SlotCalls, Pending, Queued
<1>8. SizesFirst(p)'
  BY <1>5 DEF SizesFirst
<1>9. FirstSlot(p)'
  BY <1>1, <1>3, <1>4 DEF FirstSlot
<1>10. Base(p)'
  BY DEF Base
<1> QED
  BY <1>6, <1>7, <1>8, <1>9, <1>10 DEF Slotted

\* The Wait goes on with slot s.
LEMMA SlotsOn ==
    ASSUME IInv, NEW p \in Proc, Slotted(p), Base(p), prog' = prog, prog[ip[p]].op = "wait",
           NEW s, GoesOn(p, s), Waiting(p) => at[p] < s,
           \A i \in Slots : i < s => NBX_active'[p][i] = "unactive",
           \A i \in Slots : i >= s => NBX_active'[p][i] = NBX_active[p][i],
           slotCall'[p] = slotCall[p], cnt_base'[p] = cnt_base[p]
    PROVE  Slotted(p)' /\ Base(p)'
<1>1. PICK i \in Nat \ {0} : i = ip[p]
  BY RankTypes DEF IInv
<1>2. /\ ~InSync(p) /\ ~InSync(p)' /\ Waiting(p)' /\ s \in Slots /\ s \in Nat /\ 0 \in Slots
      /\ Slots \subseteq Nat /\ ip'[p] = i /\ qcnt'[p] = qcnt[p] /\ at'[p] = s
      /\ NBX_active'[p][s] # "unactive" /\ at[p] \in Nat
  BY <1>1, SlotsAreNat, RankTypes DEF InSync, Waiting, Call, GoesOn, IInv
<1>3. \A j \in Slots : Live(p, j)' => Live(p, j) /\ j >= s
  BY <1>2 DEF Live
<1>4. SlotNumbers(p)'
  BY <1>1, <1>2, <1>3 DEF Slotted, SlotNumbers
<1>5. SlotCalls(p)'
  <2>1. ASSUME NEW c \in 1..(i - 1), SameBatch(prog, c, i), Queued(prog, c)
        PROVE  /\ slotCall[p][SlotIndex(prog, c)] = c
               /\ SlotIndex(prog, c) >= s => NBX_active'[p][SlotIndex(prog, c)] # "unactive"
    <3>1. /\ slotCall[p][SlotIndex(prog, c)] = c
          /\ (Waiting(p) => SlotIndex(prog, c) >= at[p]) =>
                NBX_active[p][SlotIndex(prog, c)] # "unactive"
      BY <1>1, <2>1 DEF Slotted, SlotCalls
    <3>2. SlotIndex(prog, c) \in Slots /\ SlotIndex(prog, c) \in Nat
      BY <2>1, SlotIndexType, QueueAssumption DEF Queued, Slots
    <3> QED
      BY <1>2, <3>1, <3>2
  <2> QED
    BY <1>2, <2>1 DEF SlotCalls
<1>6. SizesFirst(p)'
  <2>1. ASSUME NEW j \in Slots, Live(p, j)', prog[slotCall[p][j]].op = "known_prc", j # s
        PROVE  NBX_active'[p][j] = "known_prc"
    <3>1. Live(p, j) /\ j >= s /\ (Waiting(p) => j # at[p])
      BY <1>2, <1>3, <2>1
    <3> QED
      BY <2>1, <3>1 DEF Slotted, SizesFirst
  <2> QED
    BY <1>2, <2>1 DEF SizesFirst
<1>7. FirstSlot(p)'
  <2>1. ASSUME qcnt[p] = -1
        PROVE  NBX_active'[p][0] # "unactive" <=> Pending(prog, i, {"sync"})
    <3>1. SlotHolds(p, s) /\ NBX_active[p][s] # "unactive"
      BY <1>2 DEF IInv, RankInv, Control
    <3>2. s = 0
      BY <1>2, <2>1, <3>1 DEF SlotHolds
    <3> QED
      BY <1>1, <1>2, <2>1, <3>2 DEF Slotted, FirstSlot
  <2>2. qcnt[p] >= 0 =>
          /\ slotCall[p][0] \in 1..(i - 1) /\ SameBatch(prog, slotCall[p][0], i)
          /\ prog[slotCall[p][0]].op \in Queues /\ SlotIndex(prog, slotCall[p][0]) = 0
    BY <1>1, <1>2 DEF Slotted, FirstSlot
  <2> QED
    BY <1>2, <2>1, <2>2 DEF FirstSlot
<1>8. Base(p)'
  BY <1>2 DEF Base
<1> QED
  BY <1>4, <1>5, <1>6, <1>7, <1>8 DEF Slotted

\* ... or returns.
LEMMA SlotsFreed ==
    ASSUME IInv, NEW p \in Proc, prog' = prog, prog[ip[p]].op = "wait", Returns(p),
           \A i \in Slots : NBX_active'[p][i] = "unactive"
    PROVE  Slotted(p)' /\ Base(p)'
<1>1. PICK i \in Nat \ {0} : i = ip[p]
  BY RankTypes DEF IInv
<1>2. /\ ~InSync(p)' /\ ~Waiting(p)' /\ 0 \in Slots /\ Slots \subseteq Nat
      /\ ip'[p] = i + 1 /\ qcnt'[p] = -1
  BY <1>1, SlotsAreNat DEF InSync, Waiting, Returns
<1>3. SlotIndex(prog, i + 1) = 0 /\ ~Pending(prog, i + 1, Queues) /\ ~Pending(prog, i + 1, {"sync"})
  BY <1>1, PendingNext, SlotIndexNext DEF Queues
<1>4. \A j \in Slots : ~Live(p, j)'
  BY DEF Live
<1>5. SlotNumbers(p)'
  BY <1>2, <1>3, <1>4 DEF SlotNumbers
<1>6. SlotCalls(p)'
  BY <1>2, <1>3 DEF SlotCalls, Pending, Queued
<1>7. SizesFirst(p)'
  BY <1>4 DEF SizesFirst
<1>8. FirstSlot(p)'
  BY <1>2, <1>3 DEF FirstSlot
<1>9. Base(p)'
  BY <1>2 DEF Base
<1> QED
  BY <1>5, <1>6, <1>7, <1>8, <1>9 DEF Slotted

\* The sizes of the slot at[p] are there.
LEMMA SlotsAnnounced ==
    ASSUME IInv, NEW p \in Proc, Slotted(p), Base(p), prog' = prog, ip'[p] = ip[p],
           qcnt'[p] = qcnt[p], at'[p] = at[p], pc'[p] = pc[p], Waiting(p),
           NBX_active[p][at[p]] = "known_prc",
           \A j \in Slots : NBX_active'[p][j] = IF j = at[p] THEN "known" ELSE NBX_active[p][j],
           slotCall'[p] = slotCall[p], cnt_base'[p] = cnt_base[p]
    PROVE  Slotted(p)' /\ Base(p)'
<1>1. PICK s \in Slots : s = at[p]
  BY RankTypes DEF IInv
<1>2. (InSync(p)' <=> InSync(p)) /\ Waiting(p)'
  BY DEF InSync, Call, Waiting
<1>3. \A j \in Slots : NBX_active'[p][j] = "unactive" <=> NBX_active[p][j] = "unactive"
  BY <1>1
<1>4. \A j \in Slots : Live(p, j)' <=> Live(p, j)
  BY <1>3 DEF Live
<1>5. SlotNumbers(p)'
  BY <1>2, <1>4 DEF Slotted, SlotNumbers
<1>6. SlotCalls(p)'
  <2>1. \A c : Queued(prog, c) /\ c \in Nat => SlotIndex(prog, c) \in Slots
    BY SlotIndexType, QueueAssumption DEF Queued, Slots
  <2>2. ip[p] \in Nat
    BY RankTypes DEF IInv
  <2> QED
    BY <1>2, <1>3, <2>1, <2>2 DEF Slotted, SlotCalls
<1>7. SizesFirst(p)'
  BY <1>1, <1>2, <1>4 DEF Slotted, SizesFirst
<1>8. FirstSlot(p)'
  BY <1>2, <1>3, SlotsAreNat DEF Slotted, FirstSlot
<1>9. Base(p)'
  BY DEF Base
<1> QED
  BY <1>5, <1>6, <1>7, <1>8, <1>9 DEF Slotted

----------------------------------------------------------------------------
(* The Wait comes to the calls of its batch in their order.                *)

LEMMA IndexOrder ==
    ASSUME prog \in Programs, NEW w \in Nat, NEW a, NEW b, InBatch(prog, a, w), InBatch(prog, b, w)
    PROVE  /\ a \in Nat \ {0} /\ b \in Nat \ {0} /\ a < w /\ b < w
           /\ SlotIndex(prog, a) \in Slots /\ SlotIndex(prog, a) \in Nat
           /\ SlotIndex(prog, a) < SlotIndex(prog, b) => a < b
           /\ SlotIndex(prog, a) = SlotIndex(prog, b) => a = b
<1>1. a \in Nat \ {0} /\ b \in Nat \ {0} /\ a < w /\ b < w
  BY ProgramType DEF InBatch, SameBatch
<1>2. SlotIndex(prog, a) \in Nat /\ SlotIndex(prog, b) \in Nat /\ SlotIndex(prog, a) \in Slots
  BY <1>1, SlotIndexType, QueueAssumption DEF InBatch, Queued, Slots
<1>3. Numbered(prog, a) /\ Numbered(prog, b) /\ SameBatch(prog, a, w) /\ SameBatch(prog, b, w)
  BY DEF InBatch, Queued, Numbered
<1>4. ASSUME SlotIndex(prog, a) = SlotIndex(prog, b)
      PROVE  a = b
  BY <1>1, <1>3, <1>4, SlotIndexTells
<1>5. ASSUME SlotIndex(prog, a) < SlotIndex(prog, b), ~(a < b)
      PROVE  FALSE
  <2>1. CASE a = b
    BY <1>2, <1>5, <2>1
  <2>2. CASE b < a
    <3>1. SameBatch(prog, b, a)
      BY <1>1, <1>3, <2>2 DEF SameBatch
    <3>2. SlotIndex(prog, b) < SlotIndex(prog, a)
      BY <1>1, <1>3, <3>1, SlotIndexGrows
    <3> QED
      BY <1>2, <1>5, <3>2
  <2> QED
    BY <1>1, <1>5, <2>1, <2>2
<1> QED
  BY <1>1, <1>2, <1>4, <1>5

\* What the slots hold when the batch ends.
LEMMA SlotsOfBatch ==
    ASSUME IInv, NEW p \in Proc, Slotted(p), ip[p] <= Len(prog), prog[ip[p]].op = "wait"
    PROVE  /\ \A i \in Slots : Live(p, i) =>
                InBatch(prog, slotCall[p][i], ip[p]) /\ SlotIndex(prog, slotCall[p][i]) = i
           /\ \A b : InBatch(prog, b, ip[p]) =>
                \E i \in Slots : /\ i = SlotIndex(prog, b) /\ slotCall[p][i] = b
                                 /\ (Waiting(p) => i >= at[p]) => NBX_active[p][i] # "unactive"
           /\ \A i \in Slots : NBX_active[p][i] # "unactive" /\ ~Live(p, i) =>
                /\ i = 0 /\ qcnt[p] = -1 /\ NBX_active[p][i] = "unknown"
                /\ slotCall[p][i] \in finished[p] /\ prog[slotCall[p][i]].op = "sync"
                /\ slotCall[p][i] < ip[p] /\ slotCall[p][i] \in Nat
                /\ StaleWait(prog, ip[p])
           /\ qcnt[p] = -1 => \A b : ~InBatch(prog, b, ip[p])
<1>1. PICK w \in Nat \ {0} : w = ip[p]
  BY RankTypes DEF IInv
<1>2. /\ ~InSync(p) /\ NQUEUE \in Nat \ {0} /\ Slots \subseteq Nat /\ prog \in Programs /\ w \in DOMAIN prog
      /\ DOMAIN prog = 1..Len(prog) /\ Len(prog) \in Nat /\ qcnt[p] \in Int
  BY <1>1, QueueAssumption, SlotsAreNat, RankTypes, ProgramType DEF InSync, Call, IInv
<1>3. ASSUME NEW i \in Slots, Live(p, i)
      PROVE  InBatch(prog, slotCall[p][i], w) /\ SlotIndex(prog, slotCall[p][i]) = i
  <2>1. SlotHolds(p, i) /\ slotCall[p][i] \in 0..Len(prog)
    BY RankTypes DEF IInv, RankInv, Control
  <2>2. /\ SameBatch(prog, slotCall[p][i], w) /\ slotCall[p][i] # 0
        /\ NBX_active[p][i] \in KindOf(prog[slotCall[p][i]].op)
    BY <1>1, <1>2, <1>3, <2>1 DEF SlotHolds, Live
  <2>3. prog[slotCall[p][i]].op \in Queues
    BY <2>2 DEF KindOf, Queues
  <2>4. SlotIndex(prog, slotCall[p][i]) = i
    BY <1>3 DEF Slotted, SlotNumbers
  <2>5. i < NQUEUE
    BY <1>2 DEF Slots
  <2>6. slotCall[p][i] \in DOMAIN prog
    BY <1>2, <2>1, <2>2
  <2> QED
    BY <2>2, <2>3, <2>4, <2>5, <2>6 DEF InBatch, Queued
<1>4. ASSUME NEW b, InBatch(prog, b, w)
      PROVE  \E i \in Slots : /\ i = SlotIndex(prog, b) /\ slotCall[p][i] = b
                              /\ (Waiting(p) => i >= at[p]) => NBX_active[p][i] # "unactive"
  <2>1. SlotIndex(prog, b) \in Slots /\ b \in 1..(w - 1) /\ SameBatch(prog, b, w) /\ Queued(prog, b)
    BY <1>2, <1>4, IndexOrder DEF InBatch
  <2> QED
    BY <1>1, <2>1 DEF Slotted, SlotCalls
<1>5. qcnt[p] = -1 <=> ~Pending(prog, w, Queues)
  BY <1>1, <1>2, QueuedOrNot
<1>6. ASSUME qcnt[p] = -1, NEW b, InBatch(prog, b, w)
      PROVE  FALSE
  <2>1. b \in 1..(w - 1) /\ SameBatch(prog, b, w) /\ prog[b].op \in Queues
    BY <1>2, <1>6, IndexOrder DEF InBatch, Queued
  <2> QED
    BY <1>5, <1>6, <2>1 DEF Pending
<1>7. ASSUME NEW i \in Slots, NBX_active[p][i] # "unactive", ~Live(p, i)
      PROVE  /\ i = 0 /\ qcnt[p] = -1 /\ NBX_active[p][i] = "unknown"
             /\ slotCall[p][i] \in finished[p] /\ prog[slotCall[p][i]].op = "sync"
             /\ slotCall[p][i] < w /\ slotCall[p][i] \in Nat /\ StaleWait(prog, w)
  <2>1. SlotHolds(p, i) /\ i > qcnt[p] /\ slotCall[p][i] \in Nat
    <3>1. i \in Int
      BY <1>2
    <3> QED
      BY <1>2, <1>7, <3>1, RankTypes DEF IInv, RankInv, Control, Live
  <2>2. /\ i = 0 /\ qcnt[p] = -1 /\ NBX_active[p][i] = "unknown"
        /\ slotCall[p][i] \in finished[p] /\ prog[slotCall[p][i]].op = "sync"
    BY <1>7, <2>1 DEF SlotHolds
  <2>3. slotCall[p][i] < w
    BY <1>1, <1>2, <2>1 DEF SlotHolds, Behind
  <2>4. Pending(prog, w, {"sync"})
    BY <1>1, <1>2, <1>7, <2>2 DEF Slotted, FirstSlot
  <2> QED
    BY <1>1, <1>5, <2>1, <2>2, <2>3, <2>4 DEF StaleWait
<1> QED
  BY <1>1, <1>3, <1>4, <1>6, <1>7

\* Where the rank is in a Wait that goes on with slot s.
LEMMA NowOn ==
    ASSUME IInv, NEW p \in Proc, Slotted(p), ip[p] <= Len(prog), prog[ip[p]].op = "wait", prog' = prog,
           NEW s, GoesOn(p, s), Waiting(p) => at[p] < s,
           NBX_active'[p][s] = NBX_active[p][s], slotCall'[p] = slotCall[p]
    PROVE  /\ Now(p)' = <<ip[p], 2 * slotCall[p][s]>>
           /\ s \in Slots /\ NBX_active[p][s] # "unactive"
           /\ slotCall[p][s] \in Nat /\ slotCall[p][s] < ip[p]
<1>1. PICK h \in Nat : h = slotCall[p][s]
  BY RankTypes DEF GoesOn, IInv
<1>2. s \in Slots /\ NBX_active[p][s] # "unactive" /\ at[p] \in Nat /\ s \in Nat
  BY SlotsAreNat, RankTypes DEF GoesOn, IInv
<1>3. CASE Live(p, s)
  <2>1. InBatch(prog, h, ip[p])
    BY <1>1, <1>2, <1>3, SlotsOfBatch
  <2>2. ~(NBX_active[p][s] = "known" /\ prog[h].op = "known_prc")
    <3>1. Waiting(p) => s # at[p]
      BY <1>2
    <3> QED
      BY <1>1, <1>2, <1>3, <3>1 DEF Slotted, SizesFirst
  <2>3. Now(p)' = <<ip[p], 2 * h + (IF NBX_active[p][s] = "known" /\ prog[h].op = "known_prc" THEN 1 ELSE 0)>>
    BY <1>1, NowNext DEF GoesOn
  <2>4. h < ip[p]
    BY <2>1 DEF InBatch, SameBatch
  <2> QED
    BY <1>1, <1>2, <2>2, <2>3, <2>4
<1>4. CASE ~Live(p, s)
  <2>1. prog[h].op = "sync" /\ h < ip[p]
    BY <1>1, <1>2, <1>4, SlotsOfBatch
  <2>2. Now(p)' = <<ip[p], 2 * h + (IF NBX_active[p][s] = "known" /\ prog[h].op = "known_prc" THEN 1 ELSE 0)>>
    BY <1>1, NowNext DEF GoesOn
  <2> QED
    BY <1>1, <1>2, <2>1, <2>2
<1> QED
  BY <1>3, <1>4

\* The Wait begins.
LEMMA WaitBegins ==
    ASSUME IInv, NEW p \in Proc, Slotted(p), Base(p), pc[p] = "app", ip[p] <= Len(prog),
           prog[ip[p]].op = "wait", prog' = prog, NBX_active'[p] = NBX_active[p],
           slotCall'[p] = slotCall[p], cnt_base'[p] = cnt_base[p],
           \/ Returns(p) /\ \A i \in Slots : NBX_active[p][i] = "unactive"
           \/ \E s \in Slots : /\ GoesOn(p, s)
                               /\ \A i \in Slots : i < s => NBX_active[p][i] = "unactive"
    PROVE  /\ Slotted(p)' /\ Base(p)'
           /\ \E t : /\ t = Now(p)' /\ SameTicks(prog, Now(p), t) /\ SameStamps(prog, Now(p), t)
<1>1. PICK w \in Nat \ {0} : w = ip[p]
  BY RankTypes DEF IInv
<1>2. /\ ~Waiting(p) /\ Now(p) = <<w, 0>> /\ prog \in Programs /\ w \in DOMAIN prog
      /\ Slots \subseteq Nat /\ ~InSync(p) /\ qcnt[p] \in Int /\ qcnt[p] >= -1 /\ 0 \in Slots
  BY <1>1, NowShape, ProgramType, SlotsAreNat, RankTypes DEF Waiting, InSync, IInv
<1>3. CASE Returns(p) /\ \A i \in Slots : NBX_active[p][i] = "unactive"
  <2>1. ASSUME NEW b \in DOMAIN prog, InBatch(prog, b, w)
        PROVE  FALSE
    BY <1>1, <1>2, <1>3, <2>1, SlotsOfBatch, SMTT(30)
  <2>2. ~StaleWait(prog, w)
    <3>1. ASSUME StaleWait(prog, w)
          PROVE  FALSE
      <4>1. qcnt[p] = -1 /\ Pending(prog, w, {"sync"})
        BY <1>1, <1>2, <3>1, QueuedOrNot DEF StaleWait
      <4> QED
        BY <1>1, <1>2, <1>3, <4>1 DEF Slotted, FirstSlot
    <3> QED
      BY <3>1
  <2>3. SameTicks(prog, <<w, 0>>, <<w + 1, 0>>) /\ SameStamps(prog, <<w, 0>>, <<w + 1, 0>>)
    BY <1>1, <1>2, <2>1, <2>2, MoveWaitEmpty
  <2>4. Now(p)' = <<w + 1, 0>>
    BY <1>1, <1>3, NowNext DEF Returns
  <2>5. \A i \in Slots : NBX_active'[p][i] = "unactive"
    BY <1>3
  <2>6. Slotted(p)' /\ Base(p)'
    BY <1>3, <2>5, SlotsFreed
  <2> QED
    BY <1>2, <2>3, <2>4, <2>6
<1>4. ASSUME NEW s \in Slots, GoesOn(p, s),
             \A i \in Slots : i < s => NBX_active[p][i] = "unactive"
      PROVE  /\ Slotted(p)' /\ Base(p)'
             /\ \E t : /\ t = Now(p)' /\ SameTicks(prog, Now(p), t) /\ SameStamps(prog, Now(p), t)
  <2>1. PICK h \in Nat : h = slotCall[p][s]
    BY RankTypes DEF IInv
  <2>2. Now(p)' = <<w, 2 * h>> /\ h < w /\ NBX_active[p][s] # "unactive"
    BY <1>1, <1>2, <1>4, <2>1, NowOn
  <2>3. ASSUME NEW b \in DOMAIN prog, InBatch(prog, b, w)
        PROVE  h <= b
    <3>1. PICK j \in Slots : j = SlotIndex(prog, b) /\ slotCall[p][j] = b /\ NBX_active[p][j] # "unactive"
      BY <1>1, <1>2, <2>3, SlotsOfBatch, SMTT(30)
    <3>2. j >= s /\ j \in Nat /\ s \in Nat
      BY <1>2, <1>4, <3>1
    <3>3. Live(p, s)
      BY <1>1, <1>2, <2>2, <2>3, SlotsOfBatch
    <3>4. InBatch(prog, h, w) /\ SlotIndex(prog, h) = s
      BY <1>1, <1>2, <2>1, <3>3, SlotsOfBatch
    <3>5. h < b \/ h = b
      BY <1>2, <2>3, <3>1, <3>2, <3>4, IndexOrder
    <3> QED
      BY <2>1, <3>5
  <2>4. SameTicks(prog, <<w, 0>>, <<w, 2 * h>>) /\ SameStamps(prog, <<w, 0>>, <<w, 2 * h>>)
    <3>1. h <= w
      BY <1>1, <2>1, <2>2
    <3>2. prog \in Programs /\ w \in DOMAIN prog /\ prog[w].op = "wait"
      BY <1>1, <1>2
    <3> QED
      BY <2>1, <2>3, <3>1, <3>2, MoveWaitBegins
  <2>5. /\ \A i \in Slots : i < s => NBX_active'[p][i] = "unactive"
        /\ \A i \in Slots : i >= s => NBX_active'[p][i] = NBX_active[p][i]
    BY <1>4
  <2>6. Slotted(p)' /\ Base(p)'
    BY <1>2, <1>4, <2>5, SlotsOn
  <2> QED
    BY <1>2, <2>2, <2>4, <2>6
<1> QED
  BY <1>3, <1>4

\* The Wait has completed its slot, and goes on or returns.
LEMMA WaitMoves ==
    ASSUME IInv, NEW p \in Proc, Slotted(p), Base(p), Waiting(p), ip[p] <= Len(prog),
           prog[ip[p]].op = "wait", prog' = prog, NBX_active[p][at[p]] \in {"known", "unknown"},
           \A i \in Slots : i < at[p] => NBX_active[p][i] = "unactive",
           \A i \in Slots : NBX_active'[p][i] = IF i = at[p] THEN "unactive" ELSE NBX_active[p][i],
           slotCall'[p] = slotCall[p], cnt_base'[p] = cnt_base[p],
           \/ Returns(p) /\ \A i \in Slots : i >= at[p] + 1 => NBX_active'[p][i] = "unactive"
           \/ \E s \in Slots :
                 /\ GoesOn(p, s)
                 /\ \A i \in Slots : i >= at[p] + 1 /\ i < s => NBX_active'[p][i] = "unactive"
    PROVE  /\ Slotted(p)' /\ Base(p)'
           /\ \E t, b, k : /\ t = Now(p)' /\ OneTick(prog, Now(p), t, <<b, k>>)
                           /\ SameStamps(prog, Now(p), t)
                           /\ Exchange(prog, b) => b = Held(p)
<1>1. PICK w \in Nat \ {0}, o \in Slots, a \in Nat : w = ip[p] /\ o = at[p] /\ a = slotCall[p][o]
  <2>1. ip[p] \in Nat \ {0} /\ at[p] \in Slots
    BY RankTypes DEF IInv
  <2>2. slotCall[p][at[p]] \in Nat
    BY <2>1, RankTypes DEF IInv
  <2> QED
    BY <2>1, <2>2
<1>2. PICK d \in {0, 1} : d = IF SizesDone(p) THEN 1 ELSE 0
  OBVIOUS
<1>3. /\ Now(p) = <<w, 2 * a + d>> /\ prog \in Programs /\ w \in DOMAIN prog /\ Held(p) = a
      /\ Slots \subseteq Nat /\ ~InSync(p) /\ qcnt[p] \in Int /\ qcnt[p] >= -1 /\ 0 \in Slots
      /\ o \in Nat /\ NBX_active[p][o] \in {"known", "unknown"}
  BY <1>1, <1>2, NowShape, ProgramType, SlotsAreNat, RankTypes DEF InSync, Call, IInv, Held
<1>6. o \in Nat /\ Slots \subseteq Nat /\ prog[w].op = "wait"
  BY <1>1, <1>3
<1>7. /\ \A i \in Slots : i < o => NBX_active[p][i] = "unactive"
      /\ \A i \in Slots : NBX_active'[p][i] = IF i = o THEN "unactive" ELSE NBX_active[p][i]
  BY <1>1
<1>8. /\ \A i \in Slots : Live(p, i) =>
            InBatch(prog, slotCall[p][i], w) /\ SlotIndex(prog, slotCall[p][i]) = i
      /\ \A b : InBatch(prog, b, w) =>
            \E i \in Slots : /\ i = SlotIndex(prog, b) /\ slotCall[p][i] = b
                             /\ i >= o => NBX_active[p][i] # "unactive"
      /\ \A i \in Slots : NBX_active[p][i] # "unactive" /\ ~Live(p, i) =>
            /\ i = 0 /\ qcnt[p] = -1 /\ NBX_active[p][i] = "unknown"
            /\ prog[slotCall[p][i]].op = "sync" /\ slotCall[p][i] < w /\ StaleWait(prog, w)
      /\ qcnt[p] = -1 => \A b : ~InBatch(prog, b, w)
  <2>1. \A i \in Slots : Live(p, i) =>
            InBatch(prog, slotCall[p][i], w) /\ SlotIndex(prog, slotCall[p][i]) = i
    BY <1>1, SlotsOfBatch
  <2>2. ASSUME NEW b, InBatch(prog, b, w)
        PROVE  \E i \in Slots : /\ i = SlotIndex(prog, b) /\ slotCall[p][i] = b
                                /\ i >= o => NBX_active[p][i] # "unactive"
    <3>1. InBatch(prog, b, ip[p])
      BY <1>1, <2>2
    <3>2. PICK i \in Slots : /\ i = SlotIndex(prog, b) /\ slotCall[p][i] = b
                             /\ (Waiting(p) => i >= at[p]) => NBX_active[p][i] # "unactive"
      BY <3>1, SlotsOfBatch
    <3> QED
      BY <1>1, <3>2
  <2>3. \A i \in Slots : NBX_active[p][i] # "unactive" /\ ~Live(p, i) =>
            /\ i = 0 /\ qcnt[p] = -1 /\ NBX_active[p][i] = "unknown"
            /\ prog[slotCall[p][i]].op = "sync" /\ slotCall[p][i] < w /\ StaleWait(prog, w)
    BY <1>1, SlotsOfBatch
  <2>4. qcnt[p] = -1 => \A b : ~InBatch(prog, b, w)
    BY <1>1, SlotsOfBatch
  <2> QED
    BY <2>1, <2>2, <2>3, <2>4
<1>4. CASE Live(p, o)
  <2>1. InBatch(prog, a, w) /\ SlotIndex(prog, a) = o /\ a \in DOMAIN prog
    BY <1>1, <1>4, <1>8 DEF InBatch
  <2>2. d = 1 <=> prog[a].op = "known_prc"
    <3>1. CASE NBX_active[p][o] = "known"
      BY <1>1, <1>2, <1>3, <3>1 DEF SizesDone
    <3>2. CASE NBX_active[p][o] = "unknown"
      <4>1. prog[a].op = "unknown"
        BY <1>1, <1>3, <1>4, <3>2, LiveUnknown
      <4> QED
        BY <1>1, <1>2, <3>2, <4>1 DEF SizesDone
    <3> QED
      BY <1>3, <3>1, <3>2
  <2>3. CASE Returns(p) /\ \A i \in Slots : i >= o + 1 => NBX_active'[p][i] = "unactive"
    <3>1. \A i \in Slots : NBX_active'[p][i] = "unactive"
      <4>1. ASSUME NEW i \in Slots
            PROVE  NBX_active'[p][i] = "unactive"
        <5>1. i \in Nat
          BY <1>3
        <5>2. CASE i < o
          BY <1>6, <1>7, <5>1, <5>2
        <5>3. CASE i = o
          BY <1>1, <5>3
        <5>4. CASE i >= o + 1
          BY <2>3, <5>4
        <5> QED
          BY <1>6, <5>1, <5>2, <5>3, <5>4
      <4> QED
        BY <4>1
    <3>2. Slotted(p)' /\ Base(p)'
      BY <2>3, <3>1, SlotsFreed
    <3>3. ASSUME NEW b \in DOMAIN prog, InBatch(prog, b, w)
          PROVE  b <= a
      <4>1. PICK j \in Slots :
               /\ j = SlotIndex(prog, b) /\ slotCall[p][j] = b
               /\ j >= o => NBX_active[p][j] # "unactive"
        BY <3>3, <1>8
      <4>2. j <= o /\ j \in Nat
        BY <1>6, <1>7, <2>3, <4>1
      <4>3. b < a \/ b = a
        BY <1>3, <2>1, <3>3, <4>1, <4>2, IndexOrder
      <4>4. a \in Nat /\ b \in Nat
        BY <1>3, <2>1, <3>3, IndexOrder
      <4> QED
        BY <4>3, <4>4
    <3>4. /\ OneTick(prog, <<w, 2 * a + d>>, <<w + 1, 0>>, <<a, 1 + d>>)
          /\ SameStamps(prog, <<w, 2 * a + d>>, <<w + 1, 0>>)
      BY <1>1, <1>3, <2>1, <2>2, <3>3, MoveWaitEnds
    <3>5. Now(p)' = <<w + 1, 0>>
      BY <1>1, <2>3, NowNext DEF Returns
    <3> QED
      BY <1>3, <3>2, <3>4, <3>5
  <2>4. ASSUME NEW s \in Slots, GoesOn(p, s),
               \A i \in Slots : i >= o + 1 /\ i < s => NBX_active'[p][i] = "unactive"
        PROVE  /\ Slotted(p)' /\ Base(p)'
               /\ \E t, b, k : /\ t = Now(p)' /\ OneTick(prog, Now(p), t, <<b, k>>)
                               /\ SameStamps(prog, Now(p), t)
                               /\ Exchange(prog, b) => b = Held(p)
    <3>1. o < s /\ s \in Nat
      <4>1. NBX_active'[p][s] # "unactive" /\ s \in Nat
        BY <1>3, <2>4 DEF GoesOn
      <4> QED
        BY <1>1, <1>3, <4>1, SMTT(30)
    <3>2. /\ \A i \in Slots : i < s => NBX_active'[p][i] = "unactive"
          /\ \A i \in Slots : i >= s => NBX_active'[p][i] = NBX_active[p][i]
      <4>1. ASSUME NEW i \in Slots
            PROVE  /\ i < s => NBX_active'[p][i] = "unactive"
                   /\ i >= s => NBX_active'[p][i] = NBX_active[p][i]
        <5>1. i \in Nat
          BY <1>3
        <5>2. CASE i < o
          BY <1>6, <1>7, <3>1, <5>1, <5>2
        <5>3. CASE i = o
          BY <1>6, <1>7, <3>1, <5>3
        <5>4. CASE i >= o + 1
          BY <1>6, <1>7, <2>4, <3>1, <5>1, <5>4
        <5> QED
          BY <1>6, <5>1, <5>2, <5>3, <5>4
      <4> QED
        BY <4>1
    <3>3. Slotted(p)' /\ Base(p)'
      BY <1>1, <2>4, <3>1, <3>2, SlotsOn
    <3>4. PICK h \in Nat : h = slotCall[p][s]
      BY RankTypes DEF IInv
    <3>5. NBX_active'[p][s] = NBX_active[p][s]
      BY <3>1, <3>2
    <3>6. Now(p)' = <<w, 2 * h>> /\ h < w /\ NBX_active[p][s] # "unactive"
      BY <1>1, <2>4, <3>1, <3>4, <3>5, NowOn
    <3>7. Live(p, s)
      BY <2>1, <3>6, <1>8
    <3>8. InBatch(prog, h, w) /\ SlotIndex(prog, h) = s
      BY <3>4, <3>7, <1>8
    <3>9. a < h
      BY <1>3, <2>1, <3>1, <3>8, IndexOrder
    <3>10. ASSUME NEW b \in DOMAIN prog, InBatch(prog, b, w)
           PROVE  b <= a \/ h <= b
      <4>1. PICK j \in Slots :
               /\ j = SlotIndex(prog, b) /\ slotCall[p][j] = b
               /\ j >= o => NBX_active[p][j] # "unactive"
        BY <3>10, <1>8
      <4>2. j <= o \/ j >= s
        BY <1>6, <1>7, <3>1, <3>2, <4>1
      <4>3. b < a \/ b = a \/ h < b \/ h = b
        BY <1>3, <2>1, <3>8, <3>10, <4>1, <4>2, IndexOrder
      <4>4. a \in Nat /\ b \in Nat /\ h \in Nat
        BY <1>3, <2>1, <3>8, <3>10, IndexOrder
      <4> QED
        BY <4>3, <4>4
    <3>11. /\ OneTick(prog, <<w, 2 * a + d>>, <<w, 2 * h>>, <<a, 1 + d>>)
           /\ SameStamps(prog, <<w, 2 * a + d>>, <<w, 2 * h>>)
      BY <1>1, <1>3, <2>1, <2>2, <3>9, <3>10, MoveWaitOn
    <3> QED
      BY <1>3, <3>3, <3>6, <3>11
  <2> QED
    BY <1>1, <2>3, <2>4
<1>5. CASE ~Live(p, o)
  <2>1. /\ o = 0 /\ qcnt[p] = -1 /\ NBX_active[p][o] = "unknown" /\ prog[a].op = "sync" /\ a < w
        /\ StaleWait(prog, w)
    <3>1. NBX_active[p][o] # "unactive"
      BY <1>3
    <3>2. /\ o = 0 /\ qcnt[p] = -1 /\ NBX_active[p][o] = "unknown"
          /\ prog[slotCall[p][o]].op = "sync" /\ slotCall[p][o] < w /\ StaleWait(prog, w)
      BY <1>5, <1>8, <3>1
    <3> QED
      BY <1>1, <3>2
  <2>2. d = 0
    BY <1>1, <1>2, <2>1 DEF SizesDone
  <2>3. \A i \in Slots : i # o => NBX_active[p][i] = "unactive"
    <3>1. ASSUME NEW i \in Slots, i # o, NBX_active[p][i] # "unactive"
          PROVE  FALSE
      <4>1. ~Live(p, i)
        BY <1>3, <2>1 DEF Live
      <4> QED
        BY <2>1, <3>1, <4>1, <1>8
    <3> QED
      BY <3>1
  <2>4. \A i \in Slots : NBX_active'[p][i] = "unactive"
    BY <1>1, <2>3
  <2>5. Returns(p)
    BY <2>4 DEF GoesOn
  <2>6. Slotted(p)' /\ Base(p)'
    BY <2>4, <2>5, SlotsFreed
  <2>7. Now(p)' = <<w + 1, 0>>
    BY <1>1, <2>5, NowNext DEF Returns
  <2>8. OneTick(prog, <<w, 2 * a>>, <<w + 1, 0>>, <<w, 1>>) /\ SameStamps(prog, <<w, 2 * a>>, <<w + 1, 0>>)
    BY <1>1, <1>3, <2>1, MoveWaitStale
  <2>9. Now(p) = <<w, 2 * a>>
    BY <1>1, <1>3, <2>2
  <2>10. ~Exchange(prog, w)
    BY <1>1 DEF Exchange, Blocking
  <2> QED
    BY <2>6, <2>7, <2>8, <2>9, <2>10
<1> QED
  BY <1>4, <1>5

----------------------------------------------------------------------------
(* Steps that send, receive and post nothing.                              *)

LEMMA KnownDelivered ==
    ASSUME Traffic, NEW p \in Proc, Quiet(p), NEW c \in DOMAIN prog, KnownPart(prog, c, "data"),
           Did(p, c, "data"), NEW x \in prog[c].sends, x.dst = p
    PROVE  Got(c, x)
<1>1. Awaited(c, "data", x) \/ Got(c, x)
  BY DEF Traffic, NothingLost
<1>2. ~Awaited(c, "data", x)
  BY DEF Awaited, Quiet
<1> QED
  BY <1>1, <1>2

LEMMA ExchangeDelivered ==
    ASSUME IInv', Traffic', prog' = prog, NEW p \in Proc, NEW c \in DOMAIN prog, c \in finished'[p],
           Exchange(prog, c), NEW x \in prog[c].sends
    PROVE  Got(c, x)'
<1>1. prog[c].op \in {"unknown", "sync"}
  BY DEF Exchange, Blocking
<1>2. Passed(c)'
  BY <1>1 DEF IInv, Completed
<1>3. x.src \in Proc
  BY ProgramType DEF IInv
<1>4. c < Behind(x.src)'
  BY <1>2, <1>3 DEF Passed
<1>5. SparseUnderWay(c, x)' \/ Got(c, x)'
  BY <1>4 DEF Traffic, NothingLost
<1>6. ASSUME NEW m \in flight', m.cls = "sparse", m.call = c, m.src = x.src
      PROVE  FALSE
  <2>1. SendsHeld(x.src)'
    BY <1>3 DEF IInv, RankInv, UnderWay
  <2>2. \E i \in Unreached(x.src)' : slotCall'[x.src][i] = c
    BY <1>6, <2>1 DEF SendsHeld
  <2>3. PICK i \in Slots : /\ slotCall'[x.src][i] = c /\ NBX_active'[x.src][i] = "unknown"
                           /\ ~reached'[x.src][i]
    BY <2>2 DEF Unreached
  <2> QED
    BY <1>2, <1>3, <2>3 DEF Passed
<1>7. ~SparseUnderWay(c, x)'
  BY <1>6 DEF SparseUnderWay
<1> QED
  BY <1>5, <1>7

LEMMA BegunStays ==
    ASSUME IInv, NEW p \in Proc, StepOf(p),
           Behind(p)' = Behind(p) \/ (Behind(p)' = Behind(p) + 1 /\ ~Exchange(prog, Behind(p)))
    PROVE  SameBegun
<1>1. ASSUME NEW q \in Proc, NEW c \in DOMAIN prog, Exchange(prog, c), c < Behind(q)'
      PROVE  c < Behind(q)
  <2>1. Behind(q) \in Nat /\ c \in Nat
    BY RankTypes, ProgramType DEF IInv
  <2>2. CASE q = p
    <3>1. c # Behind(p) \/ Behind(p)' = Behind(p)
      BY <1>1
    <3> QED
      BY <1>1, <2>1, <2>2, <3>1
  <2>3. CASE q # p
    BY <1>1, <2>3, SameWhereabouts DEF StepOf
  <2> QED
    BY <2>2, <2>3
<1> QED
  BY <1>1 DEF SameBegun

LEMMA OthersNow ==
    ASSUME NEW p \in Proc, StepOf(p)
    PROVE  \A q \in Proc \ {p} : Now(q)' = Now(q)
<1>1. ASSUME NEW q \in Proc \ {p}
      PROVE  Now(q)' = Now(q)
  <2>1. SameRank(q) /\ prog' = prog
    BY DEF StepOf
  <2> QED
    BY <2>1, NowStays
<1> QED
  BY <1>1

\* Traffic, after a step of rank p in which nothing is sent or received.
LEMMA TrafficKept ==
    ASSUME IInv, Traffic, NEW p \in Proc, StepOf(p),
           UNCHANGED <<flight, posted, got, posts>>,
           NEW t, t = Now(p)', SameStamps(prog, Now(p), t),
           Behind(p)' = Behind(p) \/ (Behind(p)' = Behind(p) + 1 /\ ~Exchange(prog, Behind(p)))
    PROVE  Traffic' /\ SameDone
<1>1. prog' = prog
  BY DEF StepOf
<1>2. SameDone
  BY <1>1, OthersNow, DoneStays
<1>3. SameBegun
  BY BegunStays
<1> QED
  BY <1>1, <1>2, <1>3, TrafficStays

LEMMA QuietMoves ==
    ASSUME IInv, MInv, NEW p \in Proc, StepOf(p),
           UNCHANGED <<flight, posted, got, posts, sz_recv_tmp>>,
           \A q \in Proc \ {p} : NBX_cnt'[q] = NBX_cnt[q] /\ cnt_base'[q] = cnt_base[q],
           Slotted(p)', Base(p)', Counter(p)', Exchanged(p)', Traffic', SameDone,
           \A c \in finished'[p] \ finished[p] : \A x \in prog[c].sends : x.dst = p => Got(c, x)'
    PROVE  MInv'
<1>1. prog' = prog
  BY DEF StepOf
<1>2. SizesKnown(p)'
  BY <1>1, SizesStay DEF MInv, Place
<1>3. Place(p)'
  BY <1>2 DEF Place
<1>4. Kept'
  BY DEF MInv, Kept
<1>5. SameOthers(p)
  BY DEF SameOthers
<1>6. /\ \A q \in Proc : got[q] \subseteq got'[q]
      /\ \A q \in Proc : \A g \in got'[q] \ got[q] : g.call = g.msg.call /\ g.part = g.msg.part
  OBVIOUS
<1> QED
  BY <1>3, <1>4, <1>5, <1>6, RankMoves

\* A call of no other kind has messages with known receivers.
LEMMA NotKnown ==
    ASSUME NEW pr, NEW c, pr[c].op \notin {"known", "known_prc", "known_sync", "known_prc_sync"}
    PROVE  \A part : ~KnownPart(pr, c, part)
BY DEF KnownPart

LEMMA RefusedMatch ==
    ASSUME IInv, MInv, NEW p \in Proc, Refused(p)
    PROVE  MInv'
<1>1. PICK i \in Nat \ {0} : i = ip[p]
  BY RankTypes DEF IInv
<1>2. /\ pc[p] = "app" /\ i <= Len(prog)
      /\ \/ prog[i].op \in {"known", "known_prc"} /\ qcnt[p] + 1 >= NQUEUE
         \/ prog[i].op = "sync" /\ qcnt[p] + 1 # 0
      /\ qcnt' = [qcnt EXCEPT ![p] = qcnt[p] + 1]
      /\ ip' = [ip EXCEPT ![p] = i + 1]
      /\ UNCHANGED <<prog, pc, at, NBX_cnt, cnt_base, NBX_active, reached, bar_req, req, sz_recv_tmp,
                     slotCall, finished, got, posts, flight, posted, colls, reducing>>
  BY <1>1 DEF Refused, Running, Call, NextCall
<1>3. ip'[p] = i + 1 /\ pc'[p] = "app" /\ qcnt'[p] = qcnt[p] + 1
  BY <1>2, Domains
<1>4. ~Waiting(p) /\ ~Waiting(p)' /\ ~InSync(p) /\ ~InSync(p)' /\ Behind(p) = i /\ Behind(p)' = i + 1
  BY <1>1, <1>2, <1>3 DEF Waiting, InSync, Behind
<1>5. StepOf(p)
  <2>1. \A q \in Proc \ {p} : SameRank(q)
    BY <1>2, Domains DEF SameRank
  <2>2. Len(colls'[p]) >= Len(colls[p])
    BY <1>2, RankTypes DEF IInv
  <2> QED
    BY <1>2, <2>1, <2>2 DEF StepOf
<1>6. Place(p) /\ Slotted(p) /\ Base(p) /\ Counter(p) /\ Exchanged(p) /\ Traffic
  BY DEF MInv, Place
<1>7. Slotted(p)' /\ Base(p)'
  BY <1>1, <1>2, <1>3, <1>4, <1>6, SlotsRefused
<1>8. i \in DOMAIN prog /\ prog \in Programs
  BY <1>1, <1>2, ProgramType DEF IInv
<1>9. qcnt[p] + 1 = SlotIndex(prog, i) /\ (qcnt[p] = -1 <=> ~Pending(prog, i, Queues)) /\ qcnt[p] \in Int
  BY <1>1, <1>4, <1>6, QueuedOrNot, RankTypes DEF Slotted, SlotNumbers, IInv
<1>10. ~Blocking(prog, i) /\ ~Exchange(prog, i) /\ \A part : ~KnownPart(prog, i, part)
  <2>1. prog[i].op = "sync" => Pending(prog, i, Queues)
    BY <1>2, <1>9
  <2>2. prog[i].op \in {"known", "known_prc"} => ~Queued(prog, i)
    BY <1>2, <1>9, QueueAssumption DEF Queued
  <2> QED
    BY <1>2, <2>1, <2>2 DEF Blocking, Exchange, KnownPart
<1>11. SameTicks(prog, <<i, 0>>, <<i + 1, 0>>) /\ SameStamps(prog, <<i, 0>>, <<i + 1, 0>>)
  BY <1>2, <1>8, <1>10, MovePasses
<1>12. Now(p) = <<i, 0>>
  BY <1>1, <1>2, NowShape
<1>13. PICK t : t = Now(p)'
  OBVIOUS
<1>14. t = <<i + 1, 0>>
  BY <1>2, <1>3, <1>13, NowNext
<1>15. SameTicks(prog, Now(p), t) /\ SameStamps(prog, Now(p), t)
  BY <1>11, <1>12, <1>14
<1>16. Counter(p)' /\ Exchanged(p)'
  BY <1>2, <1>6, <1>8, <1>13, <1>15, CounterStays
<1>17. Traffic' /\ SameDone
  BY <1>2, <1>4, <1>5, <1>6, <1>10, <1>13, <1>15, TrafficKept
<1> QED
  BY <1>2, <1>5, <1>7, <1>16, <1>17, QuietMoves

\* A call that neither exchanges nor waits for an exchange.
LEMMA PassesOn ==
    ASSUME IInv, MInv, NEW p \in Proc, StepOf(p), pc[p] = "app", pc'[p] = "app", ip[p] <= Len(prog),
           prog[ip[p]].op \in {"progress", "reduce", "execute"},
           ip'[p] = ip[p] + 1, qcnt'[p] = qcnt[p], NBX_active'[p] = NBX_active[p],
           slotCall'[p] = slotCall[p], cnt_base'[p] = cnt_base[p], NBX_cnt'[p] = NBX_cnt[p],
           finished'[p] = finished[p]
    PROVE  /\ Slotted(p)' /\ Base(p)' /\ Counter(p)' /\ Exchanged(p)'
           /\ SameDone /\ SameBegun
<1>1. PICK i \in Nat \ {0} : i = ip[p]
  BY RankTypes DEF IInv
<1>2. prog' = prog
  BY DEF StepOf
<1>3. ~Waiting(p) /\ ~Waiting(p)' /\ ~InSync(p) /\ ~InSync(p)' /\ Behind(p) = i /\ Behind(p)' = i + 1
  BY <1>1, <1>2 DEF Waiting, InSync, Behind
<1>4. Slotted(p) /\ Base(p) /\ Counter(p) /\ Exchanged(p)
  BY DEF MInv, Place
<1>5. Slotted(p)' /\ Base(p)'
  BY <1>1, <1>2, <1>3, <1>4, SlotsMoveOn DEF Queues
<1>6. i \in DOMAIN prog /\ prog \in Programs
  BY <1>1, <1>2, ProgramType DEF IInv
<1>7. ~Blocking(prog, i) /\ ~Exchange(prog, i) /\ \A part : ~KnownPart(prog, i, part)
  BY <1>1 DEF Blocking, Exchange, KnownPart
<1>8. SameTicks(prog, <<i, 0>>, <<i + 1, 0>>) /\ SameStamps(prog, <<i, 0>>, <<i + 1, 0>>)
  BY <1>1, <1>6, <1>7, MovePasses
<1>9. Now(p) = <<i, 0>>
  BY <1>1, NowShape
<1>10. PICK t : t = Now(p)'
  OBVIOUS
<1>11. t = <<i + 1, 0>>
  BY <1>1, <1>2, <1>10, NowNext
<1>12. SameTicks(prog, Now(p), t) /\ SameStamps(prog, Now(p), t)
  BY <1>8, <1>9, <1>11
<1>13. Counter(p)' /\ Exchanged(p)'
  BY <1>2, <1>4, <1>6, <1>10, <1>12, CounterStays
<1>14. SameDone
  BY <1>2, <1>10, <1>12, OthersNow, DoneStays
<1>15. SameBegun
  BY <1>3, <1>7, BegunStays
<1> QED
  BY <1>5, <1>13, <1>14, <1>15

\* A rank that stays where it is in the Wait.
LEMMA StaysThere ==
    ASSUME IInv, MInv, NEW p \in Proc, StepOf(p), Waiting(p), pc'[p] \in {"wait", "test"},
           ip'[p] = ip[p], qcnt'[p] = qcnt[p], at'[p] = at[p], NBX_active'[p] = NBX_active[p],
           slotCall'[p] = slotCall[p], cnt_base'[p] = cnt_base[p], NBX_cnt'[p] = NBX_cnt[p],
           finished'[p] = finished[p]
    PROVE  /\ Slotted(p)' /\ Base(p)' /\ Counter(p)' /\ Exchanged(p)'
           /\ SameDone /\ SameBegun
<1>1. prog' = prog
  BY DEF StepOf
<1>2. Waiting(p)' /\ (InSync(p)' <=> InSync(p))
  BY <1>1 DEF Waiting, InSync, Call
<1>3. Slotted(p) /\ Base(p) /\ Counter(p) /\ Exchanged(p) /\ prog \in Programs
  BY DEF MInv, Place, IInv
<1>4. Slotted(p)' /\ Base(p)'
  BY <1>1, <1>2, <1>3, SlotsInPlace
<1>5. PICK t : t = Now(p)'
  OBVIOUS
<1>6. t = Now(p)
  BY <1>1, <1>2, <1>5 DEF Now, Held, Waiting
<1>7. SameTicks(prog, Now(p), t) /\ SameStamps(prog, Now(p), t)
  BY <1>6 DEF SameTicks, SameStamps
<1>8. Counter(p)' /\ Exchanged(p)'
  BY <1>1, <1>3, <1>5, <1>7, CounterStays
<1>9. SameDone
  BY <1>1, <1>5, <1>7, OthersNow, DoneStays
<1>10. Behind(p)' = Behind(p)
  BY <1>2 DEF Behind
<1>11. SameBegun
  BY <1>10, BegunStays
<1> QED
  BY <1>4, <1>8, <1>9, <1>11

LEMMA ReduceMatch ==
    ASSUME IInv, MInv, NEW p \in Proc, Reduce(p)
    PROVE  MInv'
<1>1. /\ pc[p] = "app" /\ ip[p] <= Len(prog) /\ prog[ip[p]].op = "reduce" /\ StepOf(p)
      /\ UNCHANGED <<prog, pc, qcnt, NBX_active, slotCall, finished, flight, posted>>
      /\ ip'[p] = ip[p] + 1
  BY ReduceEffect
<1>2. UNCHANGED <<NBX_cnt, cnt_base, sz_recv_tmp, got, posts>>
  BY DEF Reduce
<1>3. Slotted(p)' /\ Base(p)' /\ Counter(p)' /\ Exchanged(p)' /\ SameDone /\ SameBegun
  BY <1>1, <1>2, PassesOn
<1>4. Traffic'
  BY <1>1, <1>2, <1>3, TrafficStays DEF MInv
<1> QED
  BY <1>1, <1>2, <1>3, <1>4, QuietMoves

LEMMA ExecuteMatch ==
    ASSUME IInv, MInv, NEW p \in Proc, Execute(p)
    PROVE  MInv'
<1>1. /\ pc[p] = "app" /\ ip[p] <= Len(prog) /\ prog[ip[p]].op = "execute"
      /\ ip' = [ip EXCEPT ![p] = ip[p] + 1] /\ req' = [req EXCEPT ![p] = {}]
      /\ UNCHANGED <<prog, pc, at, NBX_cnt, cnt_base, qcnt, NBX_active, reached, bar_req,
                     sz_recv_tmp, slotCall, finished, got, posts, flight, posted, colls, reducing>>
  BY DEF Execute, Running, Call, NextCall, mpi
<1>2. ip'[p] = ip[p] + 1 /\ pc'[p] = "app"
  BY <1>1, Domains
<1>3. StepOf(p)
  <2>1. \A q \in Proc \ {p} : SameRank(q)
    BY <1>1, Domains DEF SameRank
  <2>2. Len(colls'[p]) >= Len(colls[p])
    BY <1>1, RankTypes DEF IInv
  <2>3. DOMAIN req' = DOMAIN req
    BY <1>1
  <2> QED
    BY <1>1, <2>1, <2>2, <2>3 DEF StepOf
<1>4. Slotted(p)' /\ Base(p)' /\ Counter(p)' /\ Exchanged(p)' /\ SameDone /\ SameBegun
  BY <1>1, <1>2, <1>3, PassesOn
<1>5. Traffic'
  BY <1>1, <1>4, TrafficStays DEF MInv
<1> QED
  BY <1>1, <1>3, <1>4, <1>5, QuietMoves

LEMMA WaitAgainMatch ==
    ASSUME IInv, MInv, NEW p \in Proc, WaitAgain(p)
    PROVE  MInv'
<1>1. /\ pc[p] = "test" /\ pc' = [pc EXCEPT ![p] = "wait"]
      /\ UNCHANGED <<prog, ip, at, NBX_cnt, cnt_base, qcnt, NBX_active, reached, bar_req, req,
                     sz_recv_tmp, slotCall, finished, got, posts, flight, posted, colls, reducing>>
  BY DEF WaitAgain
<1>2. Waiting(p) /\ pc'[p] = "wait"
  BY <1>1, Domains DEF Waiting
<1>3. StepOf(p)
  <2>1. \A q \in Proc \ {p} : SameRank(q)
    BY <1>1, Domains DEF SameRank
  <2>2. Len(colls'[p]) >= Len(colls[p])
    BY <1>1, RankTypes DEF IInv
  <2> QED
    BY <1>1, <2>1, <2>2 DEF StepOf
<1>4. Slotted(p)' /\ Base(p)' /\ Counter(p)' /\ Exchanged(p)' /\ SameDone /\ SameBegun
  BY <1>1, <1>2, <1>3, StaysThere
<1>5. Traffic'
  BY <1>1, <1>4, TrafficStays DEF MInv
<1> QED
  BY <1>1, <1>3, <1>4, <1>5, QuietMoves

LEMMA WaitMatch ==
    ASSUME IInv, MInv, NEW p \in Proc, Wait(p)
    PROVE  MInv'
<1>1. /\ pc[p] = "app" /\ ip[p] <= Len(prog) /\ prog[ip[p]].op = "wait" /\ GoOn(p, 0)
      /\ UNCHANGED <<prog, NBX_active, NBX_cnt, cnt_base, reached, bar_req, req, sz_recv_tmp,
                     slotCall, finished, got, posts, flight, posted, colls, reducing>>
  BY DEF Wait, Running, Call
<1>2. /\ \/ Returns(p) /\ \A i \in Slots : i >= 0 => NBX_active'[p][i] = "unactive"
         \/ \E s \in Slots : /\ GoesOn(p, s)
                             /\ \A i \in Slots : i >= 0 /\ i < s => NBX_active'[p][i] = "unactive"
      /\ \A q \in Proc \ {p} : ip'[q] = ip[q] /\ pc'[q] = pc[q] /\ at'[q] = at[q] /\ qcnt'[q] = qcnt[q]
  BY <1>1, GoOnEffect
<1>3. \A i \in Slots : i >= 0
  BY SlotsAreNat
<1>4. \/ Returns(p) /\ \A i \in Slots : NBX_active[p][i] = "unactive"
      \/ \E s \in Slots : /\ GoesOn(p, s)
                          /\ \A i \in Slots : i < s => NBX_active[p][i] = "unactive"
  BY <1>1, <1>2, <1>3
<1>5. StepOf(p)
  <2>1. \A q \in Proc \ {p} : SameRank(q)
    BY <1>1, <1>2 DEF SameRank
  <2>2. Len(colls'[p]) >= Len(colls[p])
    BY <1>1, RankTypes DEF IInv
  <2> QED
    BY <1>1, <2>1, <2>2 DEF StepOf
<1>6. Slotted(p) /\ Base(p) /\ Counter(p) /\ Exchanged(p) /\ Traffic /\ prog \in Programs
  BY DEF MInv, Place, IInv
<1>7. /\ Slotted(p)' /\ Base(p)'
      /\ \E t : t = Now(p)' /\ SameTicks(prog, Now(p), t) /\ SameStamps(prog, Now(p), t)
  BY <1>1, <1>4, <1>6, WaitBegins
<1>8. PICK t : t = Now(p)' /\ SameTicks(prog, Now(p), t) /\ SameStamps(prog, Now(p), t)
  BY <1>7
<1>9. Counter(p)' /\ Exchanged(p)'
  BY <1>1, <1>6, <1>8, CounterStays
<1>10. Behind(p)' = Behind(p) \/ (Behind(p)' = Behind(p) + 1 /\ ~Exchange(prog, Behind(p)))
  <2>1. ~InSync(p) /\ Behind(p) = ip[p] /\ ~Exchange(prog, ip[p])
    BY <1>1 DEF InSync, Call, Behind, Exchange, Blocking
  <2>2. CASE Returns(p)
    BY <1>1, <2>1, <2>2 DEF Returns, Behind, InSync, Waiting
  <2>3. ASSUME NEW s, GoesOn(p, s)
        PROVE  Behind(p)' = Behind(p)
    BY <1>1, <2>1, <2>3 DEF GoesOn, Behind, InSync, Call
  <2> QED
    BY <1>4, <2>1, <2>2, <2>3
<1>11. Traffic' /\ SameDone
  BY <1>1, <1>5, <1>6, <1>8, <1>10, TrafficKept
<1> QED
  BY <1>1, <1>5, <1>7, <1>9, <1>11, QuietMoves

LEMMA EndKnownSyncMatch ==
    ASSUME IInv, MInv, NEW p \in Proc, EndKnownSync(p)
    PROVE  MInv'
<1>1. PICK i \in Nat \ {0} : i = ip[p]
  BY RankTypes DEF IInv
<1>2. /\ pc[p] = "data" /\ execute(p)
      /\ NBX_cnt' = [NBX_cnt EXCEPT ![p] = NextCnt(NBX_cnt[p])]
      /\ req' = [req EXCEPT ![p] = {}]
      /\ finished' = [finished EXCEPT ![p] = finished[p] \cup {i}]
      /\ pc' = [pc EXCEPT ![p] = "app"]
      /\ ip' = [ip EXCEPT ![p] = i + 1]
      /\ UNCHANGED <<prog, at, cnt_base, qcnt, NBX_active, reached, bar_req, sz_recv_tmp, slotCall,
                     got, posts, flight, posted, colls, reducing>>
  BY <1>1 DEF EndKnownSync, mpi, NextCall
<1>3. /\ NBX_cnt'[p] = NextCnt(NBX_cnt[p]) /\ finished'[p] = finished[p] \cup {i}
      /\ pc'[p] = "app" /\ ip'[p] = i + 1
      /\ \A q \in Proc \ {p} : NBX_cnt'[q] = NBX_cnt[q]
  <2>1. DOMAIN NBX_cnt = Proc
    BY DEF IInv, TypeOK
  <2> QED
    BY <1>2, <2>1, Domains
<1>4. i \in DOMAIN prog /\ prog \in Programs /\ prog[i].op \in {"known_sync", "known_prc_sync"}
      /\ i <= Len(prog)
  <2>1. AtCall(p)
    BY DEF IInv, RankInv, Control
  <2>2. i <= Len(prog) /\ prog[i].op \in {"known_sync", "known_prc_sync"}
    BY <1>1, <1>2, <2>1 DEF AtCall, InKnown, Call
  <2> QED
    BY <2>2, ProgramType DEF IInv
<1>5. StepOf(p)
  <2>1. ASSUME NEW q \in Proc \ {p}
        PROVE  SameRank(q)
    BY <1>2, Domains DEF SameRank
  <2>2. Len(colls'[p]) >= Len(colls[p])
    BY <1>2, RankTypes DEF IInv
  <2>3. DOMAIN req' = DOMAIN req
    BY <1>2
  <2> QED
    BY <1>2, <2>1, <2>2, <2>3 DEF StepOf
<1>6. Slotted(p) /\ Base(p) /\ Counter(p) /\ Exchanged(p) /\ Traffic
  BY DEF MInv, Place
<1>7. ~Waiting(p) /\ ~Waiting(p)' /\ ~InSync(p) /\ ~InSync(p)' /\ Behind(p) = i /\ Behind(p)' = i + 1
  BY <1>1, <1>2, <1>3 DEF Waiting, InSync, Behind
<1>8. Slotted(p)' /\ Base(p)'
  BY <1>1, <1>2, <1>3, <1>4, <1>6, <1>7, SlotsMoveOn DEF Queues
<1>9. Now(p) = <<i, IF prog[i].op = "known_prc_sync" THEN 2 * i + 1 ELSE 1>>
  BY <1>1, <1>2, NowShape
<1>10. PICK t : t = Now(p)'
  OBVIOUS
<1>11. t = <<i + 1, 0>>
  BY <1>2, <1>3, <1>10, NowNext
<1>12. (\E k : OneTick(prog, Now(p), t, <<i, k>>)) /\ SameStamps(prog, Now(p), t)
  <2>1. CASE prog[i].op = "known_sync"
    BY <1>4, <1>9, <1>11, <2>1, MoveKnown
  <2>2. CASE prog[i].op = "known_prc_sync"
    BY <1>4, <1>9, <1>11, <2>2, MoveKnown
  <2> QED
    BY <1>4, <2>1, <2>2
<1>13. PICK k : OneTick(prog, Now(p), t, <<i, k>>)
  BY <1>12
<1>14. Counter(p)' /\ Exchanged(p)'
  BY <1>2, <1>3, <1>4, <1>6, <1>10, <1>13, CounterCounts
<1>15. ~Exchange(prog, i)
  BY <1>4 DEF Exchange, Blocking
<1>16. Traffic' /\ SameDone
  BY <1>2, <1>5, <1>6, <1>7, <1>10, <1>12, <1>15, TrafficKept
<1>17. ASSUME NEW c \in finished'[p] \ finished[p], NEW x \in prog[c].sends, x.dst = p
       PROVE  Got(c, x)'
  <2>1. c = i
    BY <1>3, <1>17
  <2>2. Quiet(p)
    BY <1>2, ExecuteQuiet
  <2>3. KnownPart(prog, i, "data")
    BY <1>4 DEF KnownPart
  <2>4. Did(p, i, "data")
    <3>1. Stamp(prog, i, "data") = IF prog[i].op = "known_prc_sync" THEN <<i, 2 * i>> ELSE <<i, 0>>
      BY <1>4 DEF Stamp, Announced, Completion, Queues
    <3> QED
      BY <1>4, <1>9, <3>1 DEF Did, Earlier
  <2>5. Got(c, x)
    BY <1>4, <1>6, <1>17, <2>1, <2>2, <2>3, <2>4, KnownDelivered
  <2> QED
    BY <1>2, <2>5 DEF Got
<1> QED
  BY <1>2, <1>3, <1>5, <1>8, <1>14, <1>16, <1>17, QuietMoves

\* A slot of the Wait is complete.
LEMMA SlotFreed ==
    ASSUME IInv, MInv, NEW p \in Proc, NEW slot \in Slots, slot = at[p],
           ip[p] <= Len(prog), prog[ip[p]].op = "wait", Waiting(p),
           NBX_active[p][at[p]] \in {"known", "unknown"},
           Free(p), NBX_active' = [NBX_active EXCEPT ![p][slot] = "unactive"],
           GoOn(p, slot + 1), bar_req' \in [Proc -> Nat],
           \A q \in Proc \ {p} : bar_req'[q] = bar_req[q],
           \A i \in Slots : i < slot => NBX_active[p][i] = "unactive",
           Unreached(p) = {}, Quiet(p),
           Entered(p) => \A q \in Proc : Len(colls[q]) >= Count(prog, Behind(p)),
           Held(p) \in 1..Len(prog)
    PROVE  /\ StepOf(p) /\ finished'[p] = finished[p] \cup {Held(p)}
           /\ UNCHANGED <<flight, posted, got, posts, sz_recv_tmp>>
           /\ \A q \in Proc \ {p} : NBX_cnt'[q] = NBX_cnt[q] /\ cnt_base'[q] = cnt_base[q]
           /\ Slotted(p)' /\ Base(p)' /\ Counter(p)' /\ Exchanged(p)' /\ Traffic' /\ SameDone
<1>1. StepOf(p) /\ finished'[p] = finished[p] \cup {Held(p)}
  BY SlotDone
<1>2. /\ NBX_cnt' = [NBX_cnt EXCEPT ![p] = NextCnt(NBX_cnt[p])]
      /\ UNCHANGED <<prog, cnt_base, sz_recv_tmp, slotCall, got, posts, flight, posted>>
  BY DEF Free
<1>3. NBX_cnt'[p] = NextCnt(NBX_cnt[p]) /\ \A q \in Proc \ {p} : NBX_cnt'[q] = NBX_cnt[q]
  <2>1. DOMAIN NBX_cnt = Proc
    BY DEF IInv, TypeOK
  <2> QED
    BY <1>2, <2>1
<1>4. slot \in Nat /\ slot + 1 \in Nat
  BY SlotsAreNat
<1>5. /\ \/ Returns(p) /\ \A i \in Slots : i >= slot + 1 => NBX_active'[p][i] = "unactive"
         \/ \E s \in Slots :
              /\ GoesOn(p, s)
              /\ \A i \in Slots : i >= slot + 1 /\ i < s => NBX_active'[p][i] = "unactive"
      /\ \A q \in Proc \ {p} : ip'[q] = ip[q] /\ pc'[q] = pc[q] /\ at'[q] = at[q] /\ qcnt'[q] = qcnt[q]
      /\ ip' \in [Proc -> 1..(Len(prog) + 1)]
      /\ pc' \in [Proc -> {"app", "wait", "test", "sizes", "data"}]
      /\ at' \in [Proc -> Slots]
      /\ qcnt' \in [Proc -> -1..Len(prog)]
  BY <1>4, GoOnEffect
<1>6. \A i \in Slots : NBX_active'[p][i] = IF i = slot THEN "unactive" ELSE NBX_active[p][i]
  BY Domains
<1>7. Slotted(p) /\ Base(p) /\ Counter(p) /\ Exchanged(p) /\ Traffic /\ prog \in Programs
  BY DEF MInv, Place, IInv
<1>8. /\ Slotted(p)' /\ Base(p)'
      /\ \E t, b, k : /\ t = Now(p)' /\ OneTick(prog, Now(p), t, <<b, k>>)
                      /\ SameStamps(prog, Now(p), t)
                      /\ Exchange(prog, b) => b = Held(p)
  <2>1. \/ Returns(p) /\ \A i \in Slots : i >= at[p] + 1 => NBX_active'[p][i] = "unactive"
        \/ \E s \in Slots :
             /\ GoesOn(p, s)
             /\ \A i \in Slots : i >= at[p] + 1 /\ i < s => NBX_active'[p][i] = "unactive"
    BY <1>5
  <2>2. /\ \A i \in Slots : i < at[p] => NBX_active[p][i] = "unactive"
        /\ \A i \in Slots : NBX_active'[p][i] = IF i = at[p] THEN "unactive" ELSE NBX_active[p][i]
    BY <1>6
  <2>3. prog' = prog /\ slotCall'[p] = slotCall[p] /\ cnt_base'[p] = cnt_base[p]
    BY <1>2
  <2> QED
    BY <1>7, <2>1, <2>2, <2>3, WaitMoves
<1>9. PICK t, b, k : /\ t = Now(p)' /\ OneTick(prog, Now(p), t, <<b, k>>)
                     /\ SameStamps(prog, Now(p), t)
                     /\ Exchange(prog, b) => b = Held(p)
  BY <1>8
<1>10. Counter(p)' /\ Exchanged(p)'
  BY <1>1, <1>2, <1>3, <1>7, <1>9, CounterCounts
<1>11. Behind(p)' = Behind(p) \/ (Behind(p)' = Behind(p) + 1 /\ ~Exchange(prog, Behind(p)))
  <2>1. ~InSync(p) /\ Behind(p) = ip[p] /\ ~Exchange(prog, ip[p])
    BY DEF InSync, Call, Behind, Exchange, Blocking
  <2>2. CASE Returns(p)
    BY <1>2, <2>1, <2>2 DEF Returns, Behind, InSync, Waiting
  <2>3. ASSUME NEW s, GoesOn(p, s)
        PROVE  Behind(p)' = Behind(p)
    BY <1>2, <2>1, <2>3 DEF GoesOn, Behind, InSync, Call
  <2> QED
    BY <1>5, <2>1, <2>2, <2>3
<1>12. Traffic' /\ SameDone
  BY <1>1, <1>2, <1>7, <1>9, <1>11, TrafficKept
<1> QED
  BY <1>1, <1>2, <1>3, <1>8, <1>10, <1>12

LEMMA WaitKnownMatch ==
    ASSUME IInv, MInv, Disciplined, NEW p \in Proc, WaitKnown(p)
    PROVE  MInv'
<1>1. /\ pc[p] = "wait" /\ NBX_active[p][at[p]] = "known" /\ execute(p) /\ Free(p)
      /\ NBX_active' = [NBX_active EXCEPT ![p][at[p]] = "unactive"]
      /\ GoOn(p, at[p] + 1) /\ bar_req' = bar_req
  BY DEF WaitKnown, InSlot
<1>2. PICK slot : slot = at[p]
  OBVIOUS
<1>3. PICK c : c = Held(p)
  OBVIOUS
<1>4. /\ Waiting(p) /\ slot \in Slots /\ Live(p, slot)
      /\ ip[p] <= Len(prog) /\ prog[ip[p]].op = "wait"
      /\ c \in 1..Len(prog) /\ prog[c].op \in {"known", "known_prc"}
      /\ \A i \in Slots : i < slot => NBX_active[p][i] = "unactive"
      /\ Unreached(p) = {} /\ ~Entered(p)
  BY <1>1, <1>2, <1>3, AtKnown
<1>5. Quiet(p)
  BY <1>1, ExecuteQuiet
<1>6. bar_req' \in [Proc -> Nat]
  BY <1>1 DEF IInv, TypeOK
<1>7. /\ StepOf(p) /\ finished'[p] = finished[p] \cup {c}
      /\ UNCHANGED <<flight, posted, got, posts, sz_recv_tmp>>
      /\ \A q \in Proc \ {p} : NBX_cnt'[q] = NBX_cnt[q] /\ cnt_base'[q] = cnt_base[q]
      /\ Slotted(p)' /\ Base(p)' /\ Counter(p)' /\ Exchanged(p)' /\ Traffic' /\ SameDone
  BY <1>1, <1>2, <1>3, <1>4, <1>5, <1>6, SlotFreed
<1>8. ASSUME NEW x \in prog[c].sends, x.dst = p
      PROVE  Got(c, x)'
  <2>1. PICK w \in Nat \ {0} : w = ip[p]
    BY RankTypes DEF IInv
  <2>2. InBatch(prog, c, w)
    <3>1. Slotted(p) /\ c = slotCall[p][slot]
      BY <1>2, <1>3 DEF MInv, Place, Held
    <3> QED
      BY <1>4, <2>1, <3>1, SlotsOfBatch
  <2>3. w \in DOMAIN prog /\ prog \in Programs /\ c \in DOMAIN prog /\ c \in Nat /\ c < w
    BY <1>4, <2>1, <2>2, ProgramType DEF IInv, InBatch, SameBatch
  <2>4. KnownPart(prog, c, "data")
    BY <1>4, <2>2 DEF KnownPart, InBatch
  <2>5. Now(p) = <<w, 2 * c + (IF SizesDone(p) THEN 1 ELSE 0)>>
    BY <1>3, <1>4, <2>1, NowShape
  <2>6. SizesDone(p) <=> prog[c].op = "known_prc"
    BY <1>1, <1>3 DEF SizesDone
  <2>7. Completion(prog, c) = w
    BY <1>4, <2>1, <2>2, <2>3, WaitTicks
  <2>8. Stamp(prog, c, "data") = IF prog[c].op = "known_prc" THEN <<w, 2 * c>> ELSE <<c, 0>>
    BY <1>4, <2>7 DEF Stamp, Announced
  <2>9. Did(p, c, "data")
    <3>1. CASE prog[c].op = "known_prc"
      BY <2>3, <2>5, <2>6, <2>8, <3>1 DEF Did, Earlier
    <3>2. CASE prog[c].op # "known_prc"
      BY <2>3, <2>5, <2>8, <3>2 DEF Did, Earlier
    <3> QED
      BY <3>1, <3>2
  <2>10. Got(c, x)
    BY <1>5, <1>8, <2>3, <2>4, <2>9, KnownDelivered DEF MInv
  <2> QED
    BY <1>7, <2>10 DEF Got
<1>9. \A d \in finished'[p] \ finished[p] : \A x \in prog[d].sends : x.dst = p => Got(d, x)'
  BY <1>7, <1>8
<1> QED
  BY <1>7, <1>9, QuietMoves

LEMMA WaitUnknownMatch ==
    ASSUME IInv, IInv', MInv, NEW p \in Proc, WaitUnknown(p), prog[ip[p]].op # "sync"
    PROVE  MInv'
<1>1. /\ pc[p] = "test" /\ reached[p][at[p]] /\ BarrierComplete(Calls, bar_req[p])
      /\ Free(p)
      /\ bar_req' = [bar_req EXCEPT ![p] = 0]
      /\ NBX_active' = [NBX_active EXCEPT ![p][at[p]] = "unactive"]
      /\ GoOn(p, at[p] + 1)
  BY DEF WaitUnknown, BarrierPassed, Call
<1>2. PICK slot : slot = at[p]
  OBVIOUS
<1>3. PICK c : c = Held(p)
  OBVIOUS
<1>4. /\ Waiting(p) /\ slot \in Slots /\ NBX_active[p][slot] = "unknown"
      /\ ip[p] <= Len(prog)
      /\ c \in 1..Len(prog) /\ c = slotCall[p][slot]
      /\ \A i \in Slots : i < slot => NBX_active[p][i] = "unactive"
      /\ Unreached(p) = {}
      /\ Live(p, slot) => Entered(p)
      /\ ~Live(p, slot) => c \in finished[p]
      /\ Quiet(p)
  BY <1>1, <1>2, <1>3, AtUnknown DEF Held
<1>5. prog[ip[p]].op = "wait" /\ ~InSync(p) /\ Behind(p) = ip[p]
  <2>1. ~InSync(p)
    BY DEF InSync, Call
  <2>2. AtCall(p)
    BY DEF IInv, RankInv, Control
  <2> QED
    BY <1>4, <2>1, <2>2 DEF AtCall, Behind, Call
<1>6. Entered(p) => \A q \in Proc : Len(colls[q]) >= Count(prog, Behind(p))
  BY <1>1, <1>4, SeenByAll
<1>7. bar_req' \in [Proc -> Nat] /\ \A q \in Proc \ {p} : bar_req'[q] = bar_req[q]
  BY <1>1 DEF IInv, TypeOK
<1>8. /\ StepOf(p) /\ finished'[p] = finished[p] \cup {c}
      /\ UNCHANGED <<flight, posted, got, posts, sz_recv_tmp>>
      /\ \A q \in Proc \ {p} : NBX_cnt'[q] = NBX_cnt[q] /\ cnt_base'[q] = cnt_base[q]
      /\ Slotted(p)' /\ Base(p)' /\ Counter(p)' /\ Exchanged(p)' /\ Traffic' /\ SameDone
  <2>1. /\ slot \in Slots /\ slot = at[p] /\ ip[p] <= Len(prog) /\ prog[ip[p]].op = "wait"
        /\ Waiting(p) /\ NBX_active[p][at[p]] \in {"known", "unknown"}
        /\ Held(p) \in 1..Len(prog) /\ Held(p) = c
    BY <1>2, <1>3, <1>4, <1>5
  <2>2. /\ Free(p) /\ NBX_active' = [NBX_active EXCEPT ![p][slot] = "unactive"]
        /\ GoOn(p, slot + 1)
    BY <1>1, <1>2
  <2>3. /\ \A i \in Slots : i < slot => NBX_active[p][i] = "unactive"
        /\ Unreached(p) = {} /\ Quiet(p)
    BY <1>4
  <2> QED
    BY <1>6, <1>7, <2>1, <2>2, <2>3, SlotFreed
<1>9. ASSUME Live(p, slot), NEW x \in prog[c].sends
      PROVE  Got(c, x)'
  <2>1. InBatch(prog, c, ip[p])
    BY <1>4, <1>5, <1>9, SlotsOfBatch DEF MInv, Place
  <2>2. prog[c].op = "unknown" /\ c \in DOMAIN prog
    BY <1>4, <1>5, <1>9, LiveUnknown
  <2>3. Exchange(prog, c)
    BY <2>1, <2>2 DEF Exchange, InBatch
  <2> QED
    BY <1>8, <1>9, <2>2, <2>3, ExchangeDelivered DEF StepOf
<1>10. \A d \in finished'[p] \ finished[p] : \A x \in prog[d].sends : x.dst = p => Got(d, x)'
  BY <1>4, <1>8, <1>9
<1> QED
  BY <1>8, <1>10, QuietMoves

LEMMA SyncDoneMatch ==
    ASSUME IInv, IInv', MInv, NEW p \in Proc, WaitUnknown(p), prog[ip[p]].op = "sync"
    PROVE  MInv'
<1>1. PICK i \in Nat \ {0} : i = ip[p]
  BY RankTypes DEF IInv
<1>2. /\ pc[p] = "test" /\ Waiting(p) /\ InSync(p)
      /\ prog' = prog /\ flight' = flight /\ posted' = posted
      /\ ip'[p] = i + 1 /\ pc'[p] = "app" /\ qcnt'[p] = -1
      /\ NBX_active' = NBX_active /\ slotCall' = slotCall
      /\ finished'[p] = finished[p] \cup {Held(p)} /\ StepOf(p)
  BY <1>1, SyncDoneEffect
<1>3. /\ NBX_cnt' = [NBX_cnt EXCEPT ![p] = NextCnt(NBX_cnt[p])]
      /\ UNCHANGED <<cnt_base, sz_recv_tmp, got, posts>>
  BY DEF WaitUnknown, Free
<1>4. NBX_cnt'[p] = NextCnt(NBX_cnt[p]) /\ \A q \in Proc \ {p} : NBX_cnt'[q] = NBX_cnt[q]
  <2>1. DOMAIN NBX_cnt = Proc
    BY DEF IInv, TypeOK
  <2> QED
    BY <1>3, <2>1
<1>5. Slotted(p) /\ Base(p) /\ Counter(p) /\ Exchanged(p) /\ Traffic
  BY DEF MInv, Place
<1>6. AtCall(p) /\ prog[i].op = "sync"
  BY <1>1 DEF IInv, RankInv, Control
<1>7. /\ i \in DOMAIN prog /\ i <= Len(prog) /\ prog \in Programs /\ Blocking(prog, i)
      /\ at[p] = 0 /\ qcnt[p] = 0 /\ NBX_active[p][0] = "unknown"
  <2>1. i <= Len(prog) /\ at[p] = 0 /\ qcnt[p] = 0 /\ ~Pending(prog, i, Queues)
        /\ NBX_active[p][0] = "unknown"
    BY <1>1, <1>2, <1>6 DEF AtCall
  <2> QED
    BY <1>6, <2>1, ProgramType DEF IInv, Blocking
<1>8. Held(p) = i
  <2>1. 0 \in Slots /\ Live(p, 0)
    BY <1>7, SlotsAreNat DEF Live
  <2> QED
    BY <1>1, <1>2, <1>7, <2>1, LiveUnknown DEF Held
<1>9. Slotted(p)' /\ Base(p)'
  BY <1>1, <1>2, <1>5, <1>7, SlotsLeft
<1>10. Now(p) = <<i, 2 * i>>
  BY <1>1, <1>2, <1>6, <1>8, NowShape DEF SizesDone
<1>11. PICK t : t = Now(p)'
  OBVIOUS
<1>12. t = <<i + 1, 0>>
  BY <1>2, <1>11, NowNext
<1>13. OneTick(prog, Now(p), t, <<i, 1>>) /\ SameStamps(prog, Now(p), t)
  BY <1>7, <1>10, <1>12, MoveBlocking
<1>14. Counter(p)' /\ Exchanged(p)'
  BY <1>2, <1>4, <1>5, <1>7, <1>8, <1>11, <1>13, CounterCounts
<1>15. Behind(p)' = Behind(p)
  BY <1>1, <1>2 DEF Behind, InSync, Waiting
<1>16. Traffic' /\ SameDone
  BY <1>2, <1>3, <1>5, <1>11, <1>13, <1>15, TrafficKept
<1>17. ASSUME NEW c \in finished'[p] \ finished[p], NEW x \in prog[c].sends
       PROVE  Got(c, x)'
  <2>1. c = i
    BY <1>2, <1>8, <1>17
  <2>2. Exchange(prog, i)
    BY <1>7 DEF Exchange
  <2> QED
    BY <1>2, <1>7, <1>16, <1>17, <2>1, <2>2, ExchangeDelivered
<1> QED
  BY <1>2, <1>3, <1>4, <1>9, <1>14, <1>16, <1>17, QuietMoves
----------------------------------------------------------------------------
(* What a rank that polls sees.                                            *)

\* The call whose slot is polled.
LEMMA PolledCall ==
    ASSUME IInv, MInv, TagsDisciplined, NEW p \in Proc, NEW j \in Slots, j <= qcnt[p],
           NBX_active[p][j] = "unknown", NEW a, a = slotCall[p][j]
    PROVE  /\ a \in DOMAIN prog /\ a \in Nat \ {0} /\ Exchange(prog, a) /\ SlotIndex(prog, a) = j
           /\ cnt_base[p] = CountBefore(prog, <<a, 0>>) % nbx_cycle
           /\ a <= ip[p] /\ a < Behind(p)
           /\ InSync(p) => a = ip[p] /\ prog[a].op = "sync" /\ j = 0
           /\ ~InSync(p) => prog[a].op = "unknown" /\ a < ip[p] /\ SameBatch(prog, a, ip[p])
<1>1. Live(p, j)
  BY DEF Live
<1>2. /\ a \in DOMAIN prog /\ a < Behind(p)
      /\ ~InSync(p) => prog[a].op = "unknown" /\ a < ip[p] /\ SameBatch(prog, a, ip[p])
      /\ InSync(p) => a = ip[p] /\ j = 0
  BY <1>1, LiveUnknown
<1>3. prog \in Programs /\ a \in Nat \ {0} /\ DOMAIN prog = 1..Len(prog) /\ Len(prog) \in Nat
  BY <1>2, ProgramType DEF IInv
<1>4. ip[p] \in Nat \ {0} /\ qcnt[p] \in Int /\ j \in Nat
  BY RankTypes DEF IInv
<1>5. Slotted(p) /\ Base(p)
  BY DEF MInv, Place
<1>6. SlotIndex(prog, a) = j
  BY <1>1, <1>5 DEF Slotted, SlotNumbers
<1>7. InSync(p) => prog[ip[p]].op = "sync" /\ ~Pending(prog, ip[p], Queues)
  <2>1. AtCall(p)
    BY DEF IInv, RankInv, Control
  <2> QED
    BY <2>1 DEF AtCall, InSync, Call
<1>8. Exchange(prog, a)
  <2>1. j < NQUEUE
    BY <1>4, QueueAssumption DEF Slots
  <2>2. CASE InSync(p)
    BY <1>2, <1>7, <2>2 DEF Exchange, Blocking
  <2>3. CASE ~InSync(p)
    BY <1>2, <1>6, <2>1, <2>3 DEF Exchange, Queued, Queues
  <2> QED
    BY <2>2, <2>3
<1>9. a <= ip[p]
  BY <1>2, <1>3, <1>4
<1>10. cnt_base[p] = CountBefore(prog, <<slotCall[p][0], 0>>) % nbx_cycle
  <2>1. qcnt[p] >= 0
    BY <1>4
  <2> QED
    BY <1>5, <2>1 DEF Base
<1>11. CountBefore(prog, <<slotCall[p][0], 0>>) = CountBefore(prog, <<a, 0>>)
  <2>1. CASE j = 0
    BY <2>1
  <2>2. CASE j # 0
    <3>1. ~InSync(p)
      BY <1>2, <2>2
    <3>2. PICK s : s = slotCall[p][0]
      OBVIOUS
    <3>3. /\ s \in 1..(ip[p] - 1) /\ SameBatch(prog, s, ip[p])
          /\ prog[s].op \in Queues /\ SlotIndex(prog, s) = 0
      <4>1. FirstSlot(p) /\ qcnt[p] >= 0
        BY <1>4, <1>5 DEF Slotted
      <4> QED
        BY <3>1, <3>2, <4>1 DEF FirstSlot
    <3>4. s \in Nat \ {0} /\ s < ip[p]
      BY <1>4, <3>3
    <3>5. s < a
      <4>1. s # a
        BY <1>6, <2>2, <3>3
      <4>2. ~(a < s)
        <5> SUFFICES ASSUME a < s
                     PROVE  FALSE
          OBVIOUS
        <5>1. SameBatch(prog, a, s)
          BY <1>2, <1>3, <1>4, <3>1, <3>4, SameBatchWithin
        <5>2. prog[a].op # "wait"
          BY <1>2, <3>1
        <5>3. SlotIndex(prog, a) <= SlotIndex(prog, s)
          BY <1>3, <3>4, <5>1, <5>2, SlotIndexGrows
        <5> QED
          BY <1>4, <1>6, <2>2, <3>3, <5>3
      <4> QED
        BY <1>3, <3>4, <4>1, <4>2
    <3>6. SameBatch(prog, s, a)
      BY <1>2, <1>3, <1>4, <3>1, <3>3, <3>4, <3>5, SameBatchWithin
    <3>7. s \in DOMAIN prog
      BY <1>2, <1>3, <3>4, <3>5
    <3>8. UnknownFirst(prog) /\ CountsAlone(prog)
      BY <1>3, ProgramTags
    <3>9. prog[s].op = "unknown" /\ prog[a].op = "unknown"
      BY <1>2, <3>1, <3>3, <3>6, <3>7, <3>8 DEF UnknownFirst, Queues
    <3> QED
      BY <1>2, <1>3, <3>2, <3>6, <3>7, <3>8, <3>9, CountOfBatch
  <2> QED
    BY <2>1, <2>2
<1> QED
  BY <1>2, <1>3, <1>6, <1>7, <1>8, <1>9, <1>10, <1>11

\* A rank in progressCommunication.
Polls(p) ==
    \/ pc[p] = "app" /\ ip[p] <= Len(prog) /\ prog[ip[p]].op = "progress"
    \/ pc[p] = "wait" /\ NBX_active[p][at[p]] = "unknown"

\* It has not ended the call of a slot that it polls.
LEMMA NotEnded ==
    ASSUME IInv, MInv, TagsDisciplined, NEW p \in Proc, Polls(p), NEW j \in Slots, j <= qcnt[p],
           NBX_active[p][j] = "unknown", NEW a, a = slotCall[p][j]
    PROVE  /\ ~Ends(prog, a, Now(p))
           /\ Completion(prog, a) \in Nat /\ Completion(prog, a) >= ip[p]
           /\ InSync(p) => Now(p) = <<a, 2 * a>>
           /\ ~InSync(p) /\ Waiting(p) =>
                /\ prog[ip[p]].op = "wait" /\ ip[p] \in DOMAIN prog
                /\ Completion(prog, a) = ip[p]
<1>1. /\ a \in DOMAIN prog /\ a \in Nat \ {0} /\ Exchange(prog, a) /\ SlotIndex(prog, a) = j
      /\ cnt_base[p] = CountBefore(prog, <<a, 0>>) % nbx_cycle
      /\ a <= ip[p] /\ a < Behind(p)
      /\ InSync(p) => a = ip[p] /\ prog[a].op = "sync" /\ j = 0
      /\ ~InSync(p) => prog[a].op = "unknown" /\ a < ip[p] /\ SameBatch(prog, a, ip[p])
  BY PolledCall
<1>2. prog \in Programs /\ DOMAIN prog = 1..Len(prog) /\ Len(prog) \in Nat
  BY ProgramType DEF IInv
<1>3. ip[p] \in Nat \ {0} /\ ip[p] <= Len(prog) + 1 /\ at[p] \in Slots /\ at[p] \in Nat /\ j \in Nat
      /\ qcnt[p] \in Int
  BY <1>2, RankTypes DEF IInv
<1>4. AtCall(p) /\ SlotOrder(p)
  BY DEF IInv, RankInv, Control
<1>5. PICK C \in Nat : C = Completion(prog, a)
  BY <1>1, <1>2, EndsAt
<1>6. TickAt(prog, <<a, 1>>) = <<C, 2 * a>>
  BY <1>1, <1>2, <1>5, EndsAt
<1>7. C >= ip[p]
  <2>1. CASE InSync(p)
    BY <1>1, <1>2, <1>5, <2>1, EndsAt
  <2>2. CASE ~InSync(p)
    <3>1. prog[a].op \in Queues /\ ip[p] \in (a + 1)..(Len(prog) + 1)
      BY <1>1, <1>2, <1>3, <2>2 DEF Queues
    <3>2. ip[p] <= Completion(prog, a)
      BY <1>1, <1>2, <2>2, <3>1, CompletionOf
    <3> QED
      BY <1>5, <3>2
  <2> QED
    BY <2>1, <2>2
<1>8. ASSUME InSync(p)
      PROVE  C = a /\ Now(p) = <<a, 2 * a>>
  <2>1. C = a
    BY <1>1, <1>2, <1>5, <1>8, CompletionOf DEF Queues
  <2>2. Held(p) = a /\ Waiting(p)
    BY <1>1, <1>4, <1>8 DEF Held, AtCall, InSync
  <2>3. ~SizesDone(p)
    BY <1>1, <1>8, <2>2 DEF SizesDone
  <2> QED
    BY <1>1, <1>8, <2>1, <2>2, <2>3, NowShape
<1>9. ASSUME ~InSync(p), Waiting(p)
      PROVE  prog[ip[p]].op = "wait" /\ ip[p] \in DOMAIN prog /\ C = ip[p]
  <2>1. prog[ip[p]].op = "wait" /\ ip[p] \in DOMAIN prog
    BY <1>2, <1>3, <1>4, <1>9 DEF AtCall, Waiting, InSync, Call
  <2>2. ~(ip[p] < C)
    <3> SUFFICES ASSUME ip[p] < C
                 PROVE  FALSE
      OBVIOUS
    <3>1. prog[a].op \in Queues
      BY <1>1, <1>9 DEF Queues
    <3>2. C \in (a + 1)..(Len(prog) + 1)
      BY <1>1, <1>2, <1>3, <1>5, <3>1, CompletionOf
    <3>3. SameBatch(prog, a, C)
      BY <1>1, <1>2, <1>5, <3>1, <3>2, CompletionOf
    <3>4. prog[ip[p]].op # "wait"
      BY <1>1, <1>3, <1>9, <3>3, SameBatchWithin
    <3> QED
      BY <2>1, <3>4
  <2> QED
    BY <1>3, <1>7, <2>1, <2>2
<1>10. ~Ends(prog, a, Now(p))
  <2>1. CASE InSync(p)
    BY <1>1, <1>6, <1>8, <2>1 DEF Ends, Earlier
  <2>2. CASE ~InSync(p) /\ Waiting(p)
    <3>1. NBX_active[p][at[p]] = "unknown"
      BY <2>2 DEF Polls, Waiting
    <3>2. ~SizesDone(p)
      BY <3>1 DEF SizesDone
    <3>3. at[p] <= j
      <4>1. ~(j < at[p])
        BY <1>4, <2>2 DEF AtCall
      <4> QED
        BY <1>3, <4>1
    <3>4. PICK h : h = Held(p)
      OBVIOUS
    <3>5. h \in Nat /\ h <= a
      <4>1. CASE at[p] = j
        BY <1>1, <3>4, <4>1 DEF Held
      <4>2. CASE at[p] # j
        <5>1. at[p] < j /\ Live(p, at[p]) /\ Live(p, j)
          BY <1>3, <3>1, <3>3, <4>2 DEF Live
        <5>2. slotCall[p][at[p]] < slotCall[p][j]
          BY <1>3, <1>4, <5>1 DEF SlotOrder
        <5>3. slotCall[p][at[p]] \in 0..Len(prog)
          BY <1>2, <1>3, RankTypes DEF IInv
        <5> QED
          BY <1>1, <1>2, <3>4, <5>2, <5>3 DEF Held
      <4> QED
        BY <4>1, <4>2
    <3>6. Now(p) = <<ip[p], 2 * h>>
      BY <2>2, <3>2, <3>4, <3>5, NowShape
    <3> QED
      BY <1>1, <1>3, <1>6, <1>7, <3>5, <3>6 DEF Ends, Earlier
  <2>3. CASE ~Waiting(p)
    <3>1. Now(p) = <<ip[p], 0>>
      BY <2>3, NowShape DEF Polls, Waiting
    <3> QED
      BY <1>1, <1>3, <1>6, <1>7, <3>1 DEF Ends, Earlier
  <2> QED
    BY <2>1, <2>2, <2>3
<1> QED
  BY <1>5, <1>7, <1>8, <1>9, <1>10

\* No rank has ended an exchange that another has not begun.
LEMMA NotBeyond ==
    ASSUME IInv, MInv, NEW p \in Proc, NEW q \in Proc, NEW e \in DOMAIN prog, Exchange(prog, e),
           e >= Behind(p), NEW t \in Moments, ~Earlier(Now(q), t)
    PROVE  ~Ends(prog, e, t)
<1> SUFFICES ASSUME Ends(prog, e, t)
             PROVE  FALSE
  OBVIOUS
<1>1. prog \in Programs
  BY DEF IInv
<1>2. PICK s \in Moments : s = TickAt(prog, <<e, 1>>)
  BY <1>1, EndsAt DEF Moments
<1>3. PICK n \in Moments : n = Now(q)
  BY NowShape
<1>4. Earlier(s, n)
  BY <1>2, <1>3, EarlierOrder DEF Ends
<1>5. Ends(prog, e, Now(q))
  BY <1>2, <1>3, <1>4 DEF Ends
<1>6. Exchanged(q)
  BY DEF MInv, Place
<1>7. e \in finished[q]
  BY <1>5, <1>6 DEF Exchanged
<1>8. prog[e].op \in {"unknown", "sync"}
  BY <1>1, EndsAt
<1>9. Passed(e)
  BY <1>7, <1>8 DEF IInv, Completed
<1>10. e < Behind(p)
  BY <1>9 DEF Passed
<1>11. e \in Nat /\ Behind(p) \in Nat
  BY <1>1, RankTypes, EndsAt DEF IInv
<1> QED
  BY <1>10, <1>11
\* What call a holds, how far it is completed, and that others are not beyond.
LEMMA PolledReach ==
    ASSUME IInv, MInv, TagsDisciplined, NEW p \in Proc, Polls(p), NEW j \in Slots, j <= qcnt[p],
           NBX_active[p][j] = "unknown", NEW a, a = slotCall[p][j],
           NEW q \in Proc, NEW t \in Moments, ~Earlier(Now(q), t), Ends(prog, a, t)
    PROVE  WithinReach(prog, a, t)
<1>1. /\ a \in DOMAIN prog /\ a \in Nat \ {0} /\ Exchange(prog, a) /\ SlotIndex(prog, a) = j
      /\ cnt_base[p] = CountBefore(prog, <<a, 0>>) % nbx_cycle
      /\ a <= ip[p] /\ a < Behind(p)
      /\ InSync(p) => a = ip[p] /\ prog[a].op = "sync" /\ j = 0
      /\ ~InSync(p) => prog[a].op = "unknown" /\ a < ip[p] /\ SameBatch(prog, a, ip[p])
  BY PolledCall
<1>2. prog \in Programs /\ DOMAIN prog = 1..Len(prog) /\ Len(prog) \in Nat
  BY ProgramType DEF IInv
<1>3. ip[p] \in Nat \ {0}
  BY <1>2, RankTypes DEF IInv
<1>4. Completion(prog, a) \in Nat /\ Completion(prog, a) >= ip[p]
  BY NotEnded
<1>5. Completion(prog, a) = LastPolled(prog, a)
  BY <1>1, <1>2, EndsAt
<1>6. \A e \in DOMAIN prog : e > LastPolled(prog, a) => e >= Behind(p)
  BY <1>2, <1>3, <1>4, <1>5 DEF Behind
<1>7. \A e \in DOMAIN prog : Exchange(prog, e) /\ e > LastPolled(prog, a) => ~Ends(prog, e, t)
  BY <1>6, NotBeyond
<1> QED
  BY <1>7 DEF WithinReach

\* No probe shows a message with a known receiver in a slot that is polled.
LEMMA KnownNotPolled ==
    ASSUME IInv, MInv, TagsDisciplined, NEW p \in Proc, Polls(p), NEW m \in Visible(p),
           m.cls = "known", NEW j \in Slots, j <= qcnt[p], NBX_active[p][j] = "unknown"
    PROVE  SlotOf(p, m) # j
<1> SUFFICES ASSUME SlotOf(p, m) = j
             PROVE  FALSE
  OBVIOUS
<1>1. m \in flight /\ m.dst = p /\ \A r \in posted : ~Takes(r, m)
  BY DEF Visible, Probeable
<1>2. Message(m)
  BY <1>1 DEF MInv, Traffic
<1>3. PICK c \in DOMAIN prog, part \in {"size", "data"} : c = m.call /\ part = m.part
  BY <1>2 DEF Message, KnownMessage, KnownOf, KnownPart
<1>4. /\ KnownPart(prog, c, part)
      /\ m.cnt = Number(prog, c, part) % nbx_cycle
      /\ Did(m.src, c, part)
  BY <1>2, <1>3 DEF Message, KnownMessage, KnownOf
<1>5. PICK x \in prog[c].sends : x = [src |-> m.src, dst |-> p, sz |-> m.sz]
  BY <1>1, <1>2, <1>3 DEF Message, OfProgram
<1>6. m.src \in Proc
  BY <1>1 DEF IInv, TypeOK
<1>7. prog \in Programs /\ DOMAIN prog = 1..Len(prog) /\ Len(prog) \in Nat
  BY ProgramType DEF IInv
<1>8. ~Did(p, c, part)
  <2> SUFFICES ASSUME Did(p, c, part)
               PROVE  FALSE
    OBVIOUS
  <2>1. Pairing
    BY DEF MInv, Traffic
  <2>2. Paired(c, part, x)
    BY <1>4, <1>5, <2>1 DEF Pairing
  <2>3. Sent(c, part, x)
    BY <1>1, <1>3, <1>5 DEF Sent
  <2>4. Awaited(c, part, x)
    BY <1>4, <1>5, <2>2, <2>3 DEF Paired
  <2>5. PICK r \in posted : r.src = m.src /\ r.dst = p /\ r.call = c /\ r.part = part
    BY <1>5, <2>4 DEF Awaited
  <2>6. Receive(r)
    BY <2>5 DEF MInv, Traffic
  <2>7. r.cnt = m.cnt
    BY <1>4, <2>5, <2>6 DEF Receive
  <2> QED
    BY <1>1, <2>5, <2>7 DEF Takes
<1>9. PICK t : t = Stamp(prog, c, part)
  OBVIOUS
<1>10. t \in Moments
  BY <1>4, <1>7, <1>9, StampOf
<1>11. PICK s \in Proc : s = m.src
  BY <1>6
<1>12. ~Earlier(t, Now(p)) /\ Earlier(t, Now(s))
  BY <1>4, <1>8, <1>9, <1>11 DEF Did
<1>13. ~Earlier(Now(s), t)
  <2>1. PICK n \in Moments : n = Now(s)
    BY NowShape
  <2> QED
    BY <1>10, <1>12, <2>1, EarlierOrder
<1>14. PICK a : a = slotCall[p][j]
  OBVIOUS
<1>15. /\ a \in DOMAIN prog /\ a \in Nat \ {0} /\ Exchange(prog, a) /\ SlotIndex(prog, a) = j
       /\ cnt_base[p] = CountBefore(prog, <<a, 0>>) % nbx_cycle
       /\ a <= ip[p] /\ a < Behind(p)
       /\ InSync(p) => a = ip[p] /\ prog[a].op = "sync" /\ j = 0
       /\ ~InSync(p) => prog[a].op = "unknown" /\ a < ip[p] /\ SameBatch(prog, a, ip[p])
  BY <1>14, PolledCall
<1>16. /\ Completion(prog, a) \in Nat /\ Completion(prog, a) >= ip[p]
       /\ InSync(p) => Now(p) = <<a, 2 * a>>
       /\ ~InSync(p) /\ Waiting(p) =>
             /\ prog[ip[p]].op = "wait" /\ ip[p] \in DOMAIN prog
             /\ Completion(prog, a) = ip[p]
  BY <1>14, NotEnded
<1>17. PICK C \in Nat : C = Completion(prog, a)
  BY <1>16
<1>18. PICK i \in Nat, n \in Nat : t = <<i, n>>
  BY <1>4, <1>7, <1>9, StampShape
<1>19. ip[p] \in Nat \ {0} /\ ip[p] <= Len(prog) + 1
  BY <1>7, RankTypes DEF IInv
<1>20. PICK k \in Nat : Now(p) = <<ip[p], k>>
  BY NowShape
<1>21. ip[p] <= i
  BY <1>12, <1>18, <1>19, <1>20 DEF Earlier
<1>22. i \in DOMAIN prog
  <2>1. PICK l \in Nat : Now(s) = <<ip[s], l>>
    BY NowShape
  <2>2. ip[s] \in Nat \ {0} /\ ip[s] <= Len(prog) + 1
    BY <1>7, RankTypes DEF IInv
  <2>3. i <= ip[s]
    BY <1>12, <1>18, <2>1, <2>2 DEF Earlier
  <2>4. ASSUME ip[s] = Len(prog) + 1
        PROVE  i < ip[s]
    <3>1. pc[s] = "app"
      <4>1. AtCall(s)
        BY DEF IInv, RankInv, Control
      <4> QED
        BY <1>7, <2>2, <2>4, <4>1 DEF AtCall
    <3>2. Now(s) = <<ip[s], 0>>
      BY <3>1, NowShape
    <3> QED
      BY <1>12, <1>18, <2>2, <3>2 DEF Earlier
  <2> QED
    BY <1>7, <1>19, <1>21, <2>2, <2>3, <2>4
<1>23. prog[c].op \notin {"unknown", "sync"}
  BY <1>4 DEF KnownPart
<1>24. c \in Nat \ {0}
  BY <1>7
<1>25. ASSUME ~InSync(p), i = C
       PROVE  n > 2 * a
  <2>1. prog[a].op \in Queues
    BY <1>15, <1>25 DEF Queues
  <2>2. prog[i].op = "wait"
    BY <1>7, <1>15, <1>17, <1>22, <1>25, <2>1, CompletionOf
  <2>3. InBatch(prog, c, i) /\ n = 2 * c /\ part = "data" /\ prog[c].op = "known_prc" /\ c \in Nat
    BY <1>4, <1>7, <1>9, <1>18, <1>22, <2>2, WaitStamps, ZenonT(60)
  <2>4. SameBatch(prog, c, i) /\ c < i
    BY <1>24, <2>3 DEF InBatch, SameBatch
  <2>5. ~(c < a)
    <3> SUFFICES ASSUME c < a
                 PROVE  FALSE
      OBVIOUS
    <3>1. a < i
      BY <1>15, <1>19, <1>21, <1>25
    <3>2. SameBatch(prog, c, a)
      BY <1>15, <1>24, <2>4, <3>1, SameBatchWithin
    <3>3. UnknownFirst(prog)
      BY <1>7, ProgramTags
    <3> QED
      BY <1>15, <1>25, <2>3, <3>2, <3>3 DEF UnknownFirst
  <2>6. c # a
    BY <1>15, <1>25, <2>3
  <2> QED
    BY <1>15, <1>24, <2>3, <2>5, <2>6
<1>26. ASSUME ~InSync(p), i < C
       PROVE  FALSE
  <2>1. prog[a].op \in Queues /\ a < i
    BY <1>15, <1>19, <1>21, <1>26 DEF Queues
  <2>2. C \in (a + 1)..(Len(prog) + 1)
    BY <1>7, <1>15, <1>17, <2>1, CompletionOf
  <2>3. SameBatch(prog, a, C)
    BY <1>7, <1>15, <1>17, <2>1, <2>2, CompletionOf
  <2>4. SameBatch(prog, a, i) /\ prog[i].op # "wait"
    BY <1>15, <1>26, <2>1, <2>3, SameBatchWithin
  <2>5. c = i
    <3>1. Stamp(prog, c, part) = <<i, n>>
      BY <1>9, <1>18
    <3> QED
      BY <1>4, <1>7, <1>22, <2>4, <3>1, StampsOfCall
  <2>6. ~Waiting(p)
    BY <1>16, <1>17, <1>19, <1>21, <1>26
  <2>7. pc[p] = "app" /\ prog[ip[p]].op = "progress" /\ ip[p] \in DOMAIN prog
    BY <1>7, <1>19, <2>6 DEF Polls, Waiting
  <2>8. ip[p] # c
    BY <1>4, <2>7 DEF KnownPart
  <2>9. a < ip[p] /\ ip[p] < c
    BY <1>15, <1>19, <1>21, <1>26, <2>5, <2>8
  <2>10. ProgressLast(prog)
    BY <1>7, ProgramTags
  <2>11. prog[c].op \notin Queues \cup {"reduce", "known_sync", "known_prc_sync"}
    BY <1>15, <1>26, <2>4, <2>5, <2>7, <2>9, <2>10 DEF ProgressLast
  <2> QED
    BY <1>4, <2>11 DEF KnownPart, Queues
<1>27. ASSUME InSync(p)
       PROVE  Earlier(<<C, 2 * a>>, t)
  <2>1. C = a
    BY <1>7, <1>15, <1>17, <1>27, CompletionOf DEF Queues
  <2>2. ~Earlier(t, <<a, 2 * a>>)
    BY <1>12, <1>16, <1>27
  <2>3. i # a
    <3> SUFFICES ASSUME i = a
                 PROVE  FALSE
      OBVIOUS
    <3>1. prog[i].op # "wait"
      BY <1>15, <1>27
    <3>2. c = i
      <4>1. Stamp(prog, c, part) = <<i, n>>
        BY <1>9, <1>18
      <4> QED
        BY <1>4, <1>7, <1>22, <3>1, <4>1, StampsOfCall
    <3> QED
      BY <1>15, <1>23, <1>27, <3>2
  <2> QED
    BY <1>15, <1>18, <2>1, <2>2, <2>3 DEF Earlier
<1>28. Earlier(<<C, 2 * a>>, t)
  <2>1. CASE InSync(p)
    BY <1>27, <2>1
  <2>2. CASE ~InSync(p)
    <3>1. i > C \/ (i = C /\ n > 2 * a)
      BY <1>25, <1>26, <2>2
    <3> QED
      BY <1>15, <1>18, <3>1 DEF Earlier
  <2> QED
    BY <2>1, <2>2
<1>29. Ends(prog, a, t)
  BY <1>7, <1>15, <1>17, <1>28, EndsAt DEF Ends
<1>30. WithinReach(prog, a, t)
  BY <1>10, <1>13, <1>14, <1>29, PolledReach
<1>31. (Number(prog, c, part) % nbx_cycle) - (CountBefore(prog, <<a, 0>>) % nbx_cycle)
          # SlotIndex(prog, a)
  BY <1>4, <1>7, <1>9, <1>15, <1>30, KnownElsewhere
<1> QED
  BY <1>4, <1>15, <1>31 DEF SlotOf

\* A message of the barrier protocol in the slot is of the call in the slot.
LEMMA SparsePolled ==
    ASSUME IInv, MInv, TagsDisciplined, NEW p \in Proc, Polls(p), NEW m \in flight,
           m.cls = "sparse", NEW j \in Slots, j <= qcnt[p], NBX_active[p][j] = "unknown",
           SlotOf(p, m) = j
    PROVE  m.call = slotCall[p][j] /\ m.part = "data"
<1>1. Message(m)
  BY DEF MInv, Traffic
<1>2. PICK c \in DOMAIN prog : c = m.call
  BY <1>1 DEF Message, OfProgram
<1>3. /\ Exchange(prog, c) /\ m.part = "data"
      /\ m.cnt = (CountBefore(prog, <<c, 0>>) % nbx_cycle) + SlotIndex(prog, c)
  BY <1>1, <1>2 DEF Message, SparseMessage
<1>4. PICK a : a = slotCall[p][j]
  OBVIOUS
<1> SUFFICES ASSUME c # a
             PROVE  FALSE
  BY <1>2, <1>3, <1>4
<1>5. /\ a \in DOMAIN prog /\ a \in Nat \ {0} /\ Exchange(prog, a) /\ SlotIndex(prog, a) = j
      /\ cnt_base[p] = CountBefore(prog, <<a, 0>>) % nbx_cycle
      /\ a <= ip[p] /\ a < Behind(p)
      /\ InSync(p) => a = ip[p] /\ prog[a].op = "sync" /\ j = 0
      /\ ~InSync(p) => prog[a].op = "unknown" /\ a < ip[p] /\ SameBatch(prog, a, ip[p])
  BY <1>4, PolledCall
<1>6. ((CountBefore(prog, <<c, 0>>) % nbx_cycle) + SlotIndex(prog, c))
         - (CountBefore(prog, <<a, 0>>) % nbx_cycle) = SlotIndex(prog, a)
  BY <1>3, <1>5 DEF SlotOf
<1>7. prog \in Programs /\ DOMAIN prog = 1..Len(prog) /\ Len(prog) \in Nat /\ c \in Nat \ {0}
  BY ProgramType DEF IInv
<1>8. PICK s \in Proc : s = m.src
  BY DEF IInv, TypeOK
<1>9. PICK i \in Unreached(s) : slotCall[s][i] = c
  <2>1. SendsHeld(s)
    BY DEF IInv, RankInv, UnderWay
  <2> QED
    BY <1>2, <1>8, <2>1 DEF SendsHeld
<1>10. i \in Slots /\ Live(s, i) /\ NBX_active[s][i] = "unknown" /\ ~reached[s][i]
  BY <1>9, UnreachedLive DEF Unreached
<1>11. c < Behind(s)
  BY <1>9, <1>10, LiveUnknown
<1>12. ~Passed(c)
  BY <1>9, <1>10 DEF Passed
<1>13. prog[c].op \in {"unknown", "sync"} /\ prog[a].op \in {"unknown", "sync"}
  BY <1>3, <1>5, <1>7, EndsAt
<1>14. ~Ends(prog, c, Now(p))
  <2>1. c \notin finished[p]
    BY <1>12, <1>13 DEF IInv, Completed
  <2>2. Exchanged(p)
    BY DEF MInv, Place
  <2> QED
    BY <1>3, <2>1, <2>2 DEF Exchanged
<1>15. ip[p] \in Nat \ {0} /\ ip[p] <= Len(prog) + 1 /\ ip[s] \in Nat \ {0}
  BY <1>7, RankTypes DEF IInv
<1>16. CASE c < a
  <2>1. PICK k \in Nat : Now(p) = <<ip[p], k>>
    BY NowShape
  <2>2. PICK C \in Nat : C = Completion(prog, c)
    BY <1>3, <1>7, EndsAt
  <2>3. ~(C < ip[p])
    <3>1. TickAt(prog, <<c, 1>>) = <<C, 2 * c>>
      BY <1>3, <1>7, <2>2, EndsAt
    <3> QED
      BY <1>14, <2>1, <3>1 DEF Ends, Earlier
  <2>4. prog[c].op = "unknown"
    <3>1. prog[c].op # "sync"
      <4> SUFFICES ASSUME prog[c].op = "sync"
                   PROVE  FALSE
        OBVIOUS
      <4>1. C = c
        BY <1>7, <2>2, CompletionOf DEF Queues
      <4> QED
        BY <1>5, <1>7, <1>15, <1>16, <2>3, <4>1
    <3> QED
      BY <1>13, <3>1
  <2>5. SameBatch(prog, c, ip[p])
    <3>1. ip[p] \in (c + 1)..(Len(prog) + 1) /\ prog[c].op \in Queues
      BY <1>5, <1>7, <1>15, <1>16, <2>4 DEF Queues
    <3>2. ip[p] <= Completion(prog, c)
      BY <1>15, <2>2, <2>3
    <3> QED
      BY <1>7, <3>1, <3>2, CompletionOf
  <2>6. ~InSync(p)
    <3> SUFFICES ASSUME InSync(p)
                 PROVE  FALSE
      OBVIOUS
    <3>1. ~Pending(prog, ip[p], Queues)
      BY DEF IInv, RankInv, Control, AtCall
    <3>2. c \in 1..(ip[p] - 1)
      BY <1>5, <1>7, <1>15, <1>16
    <3> QED
      BY <2>4, <2>5, <3>1, <3>2 DEF Pending, Queues
  <2>7. SameBatch(prog, c, a) /\ prog[a].op = "unknown"
    BY <1>5, <1>7, <1>15, <1>16, <2>5, <2>6, SameBatchWithin
  <2> QED
    BY <1>3, <1>5, <1>6, <1>7, <2>4, <2>7, OtherSlot
<1>17. CASE c > a
  <2>1. CASE SameBatch(prog, a, c) /\ prog[a].op = "unknown" /\ prog[c].op = "unknown"
    BY <1>3, <1>5, <1>6, <1>7, <2>1, OtherSlot
  <2>2. CASE ~(SameBatch(prog, a, c) /\ prog[a].op = "unknown" /\ prog[c].op = "unknown")
    <3>1. PICK C \in Nat : C = Completion(prog, a)
      BY <1>5, <1>7, EndsAt
    <3>2. C < c
      <4>1. CASE prog[a].op = "sync"
        <5>1. C = a
          BY <1>5, <1>7, <3>1, <4>1, CompletionOf DEF Queues
        <5> QED
          BY <1>17, <5>1
      <4>2. CASE prog[a].op = "unknown"
        <5> SUFFICES ASSUME ~(C < c)
                     PROVE  FALSE
          OBVIOUS
        <5>1. c \in (a + 1)..(Len(prog) + 1) /\ prog[a].op \in Queues
          BY <1>5, <1>7, <1>17, <4>2 DEF Queues
        <5>2. c <= Completion(prog, a)
          BY <1>7, <3>1
        <5>3. SameBatch(prog, a, c)
          BY <1>5, <1>7, <5>1, <5>2, CompletionOf
        <5>4. prog[c].op = "sync"
          BY <1>13, <2>2, <4>2, <5>3
        <5>5. a \in 1..(c - 1)
          BY <1>5, <1>7, <1>17
        <5>6. Pending(prog, c, Queues)
          BY <5>1, <5>3, <5>5 DEF Pending
        <5> QED
          BY <1>3, <5>4, <5>6 DEF Exchange, Blocking
      <4> QED
        BY <1>13, <4>1, <4>2
    <3>3. PICK t \in Moments : t = <<c, 0>>
      <4>1. c \in Int /\ 0 \in Int
        BY <1>7
      <4>2. <<c, 0>> \in Moments
        BY <4>1 DEF Moments
      <4> QED
        BY <4>2
    <3>4. Ends(prog, a, t)
      <4>1. TickAt(prog, <<a, 1>>) = <<C, 2 * a>>
        BY <1>5, <1>7, <3>1, EndsAt
      <4> QED
        BY <3>2, <3>3, <4>1 DEF Ends, Earlier
    <3>5. ~Earlier(Now(s), t)
      <4>1. PICK l \in Nat : Now(s) = <<ip[s], l>>
        BY NowShape
      <4>2. c <= ip[s]
        BY <1>7, <1>11, <1>15 DEF Behind
      <4> QED
        BY <1>7, <1>15, <3>3, <4>1, <4>2 DEF Earlier
    <3>6. WithinReach(prog, a, t)
      BY <1>4, <3>4, <3>5, PolledReach
    <3>7. WithinReach(prog, a, <<c, 0>>)
      BY <3>3, <3>6
    <3> QED
      BY <1>3, <1>5, <1>6, <1>7, <3>7, OtherSlot
  <2> QED
    BY <2>1, <2>2
<1> QED
  BY <1>5, <1>7, <1>16, <1>17
----------------------------------------------------------------------------
(* progressCommunication.                                                  *)
LEMMA SparseReceived ==
    ASSUME IInv, Traffic, prog' = prog, SameDone, SameBegun,
           NEW p \in Proc, NEW m \in flight, m.cls = "sparse", m.part = "data", m.dst = p,
           flight' = flight \ {m}, posted' = posted, posts' = posts, DOMAIN got = Proc,
           got' = [got EXCEPT ![p] =
                      @ \cup {[call |-> m.call, part |-> "data", sz |-> m.sz, msg |-> m]}]
    PROVE  Traffic'
<1>1. ASSUME NEW n \in flight'
      PROVE  Message(n)'
  <2>1. Message(n) /\ n.src \in Proc
    BY <1>1 DEF Traffic, IInv, TypeOK
  <2>2. KnownMessage(n) => KnownMessage(n)'
    BY <2>1 DEF KnownMessage, KnownOf, SameDone
  <2>3. SparseMessage(n) => SparseMessage(n)'
    BY DEF SparseMessage
  <2>4. OfProgram(n.src, n.dst, n.sz, n.call)'
    BY <2>1 DEF OfProgram, Message
  <2> QED
    BY <2>1, <2>2, <2>3, <2>4 DEF Message
<1>2. ASSUME NEW r \in posted
      PROVE  Receive(r)'
  <2>1. Receive(r) /\ r.dst \in Proc
    BY DEF Traffic, IInv, TypeOK
  <2>2. KnownPart(prog, r.call, r.part) /\ r.call \in DOMAIN prog
    BY <2>1 DEF Receive, KnownOf
  <2>3. Did(r.dst, r.call, r.part)'
    BY <2>1, <2>2 DEF Receive, SameDone
  <2>4. r.part = "size" => ~Did(r.dst, r.call, "data")'
    <3>1. r.part = "size" => KnownPart(prog, r.call, "data")
      BY <2>2 DEF KnownPart
    <3> QED
      BY <2>1, <2>2, <3>1 DEF Receive, SameDone
  <2>5. r.pos \in DOMAIN Senders(r.dst, r.call)' /\ Senders(r.dst, r.call)'[r.pos] = r.src
    BY <2>1 DEF Receive, Senders
  <2> QED
    BY <2>1, <2>3, <2>4, <2>5 DEF Receive, KnownOf
<1>3. SendOrder' /\ ReceiveOrder'
  BY DEF Traffic, SendOrder, ReceiveOrder
<1>4. Pairing'
  <2>1. ASSUME NEW c \in DOMAIN prog, NEW part \in {"size", "data"}, KnownPart(prog, c, part),
               NEW x \in prog[c].sends
        PROVE  Paired(c, part, x)'
    <3>1. Paired(c, part, x)
      BY <2>1 DEF Traffic, Pairing
    <3>2. x.src \in Proc /\ x.dst \in Proc
      BY ProgramType DEF IInv
    <3>3. /\ Did(x.src, c, part)' <=> Did(x.src, c, part)
          /\ Did(x.dst, c, part)' <=> Did(x.dst, c, part)
      BY <2>1, <3>2 DEF SameDone
    <3>4. Sent(c, part, x)' <=> Sent(c, part, x)
      BY DEF Sent
    <3>5. Awaited(c, part, x)' <=> Awaited(c, part, x)
      BY DEF Awaited
    <3> QED
      BY <3>1, <3>3, <3>4, <3>5 DEF Paired
  <2> QED
    BY <2>1 DEF Pairing
<1>5. NothingLost'
  <2>1. ASSUME NEW c \in DOMAIN prog, NEW x \in prog[c].sends
        PROVE  /\ Exchange(prog, c) /\ c < Behind(x.src)' => SparseUnderWay(c, x)' \/ Got(c, x)'
               /\ KnownPart(prog, c, "data") /\ Did(x.dst, c, "data")'
                    => Awaited(c, "data", x)' \/ Got(c, x)'
    <3>1. /\ Exchange(prog, c) /\ c < Behind(x.src) => SparseUnderWay(c, x) \/ Got(c, x)
          /\ KnownPart(prog, c, "data") /\ Did(x.dst, c, "data") => Awaited(c, "data", x) \/ Got(c, x)
      BY DEF Traffic, NothingLost
    <3>2. x.src \in Proc /\ x.dst \in Proc
      BY ProgramType DEF IInv
    <3>3. \A q \in Proc : got[q] \subseteq got'[q]
      OBVIOUS
    <3>4. Got(c, x) => Got(c, x)'
      BY <3>2, <3>3 DEF Got
    <3>5. SparseUnderWay(c, x) => SparseUnderWay(c, x)' \/ Got(c, x)'
      <4> SUFFICES ASSUME NEW n \in flight, n.cls = "sparse", n.call = c,
                          n.src = x.src, n.dst = x.dst, n.sz = x.sz
                   PROVE  SparseUnderWay(c, x)' \/ Got(c, x)'
        BY DEF SparseUnderWay
      <4>1. CASE n # m
        <5>1. n \in flight'
          BY <4>1
        <5> QED
          BY <5>1 DEF SparseUnderWay
      <4>2. CASE n = m
        <5>1. PICK g : g = [call |-> m.call, part |-> "data", sz |-> m.sz, msg |-> m]
          OBVIOUS
        <5>2. g \in got'[p] /\ x.dst = p
          BY <4>2, <5>1
        <5>3. /\ g.call = c /\ g.part = "data" /\ g.sz = x.sz
              /\ g.msg.call = c /\ g.msg.part = "data" /\ g.msg.src = x.src
          BY <4>2, <5>1
        <5> QED
          BY <5>2, <5>3 DEF Got
      <4> QED
        BY <4>1, <4>2
    <3>6. Awaited(c, "data", x)' <=> Awaited(c, "data", x)
      BY DEF Awaited
    <3>7. KnownPart(prog, c, "data") => (Did(x.dst, c, "data")' <=> Did(x.dst, c, "data"))
      BY <3>2 DEF SameDone
    <3>8. Exchange(prog, c) /\ c < Behind(x.src)' => c < Behind(x.src)
      BY <3>2 DEF SameBegun
    <3> QED
      BY <3>1, <3>4, <3>5, <3>6, <3>7, <3>8
  <2> QED
    BY <2>1 DEF NothingLost
<1> QED
  BY <1>1, <1>2, <1>3, <1>4, <1>5 DEF Traffic

LEMMA ProgressTraffic ==
    ASSUME IInv, MInv, TagsDisciplined, NEW p \in Proc, Polls(p), progressCommunication(p),
           SameDone, SameBegun
    PROVE  /\ Traffic' /\ Kept' /\ posted' = posted
           /\ \A q \in Proc : got[q] \subseteq got'[q]
           /\ \A q \in Proc : \A g \in got'[q] \ got[q] : g.call = g.msg.call /\ g.part = g.msg.part
<1>1. UNCHANGED <<prog, posts, sz_recv_tmp>>
  BY DEF progressCommunication
<1>2. Traffic /\ Kept
  BY DEF MInv
<1>3. CASE UNCHANGED <<flight, posted, got>>
  <2>1. Traffic'
    BY <1>1, <1>2, <1>3, TrafficStays
  <2>2. Kept'
    BY <1>1, <1>2, <1>3 DEF Kept
  <2> QED
    BY <1>3, <2>1, <2>2
<1>4. ASSUME NEW m \in flight, ProgressReceive(p, m)
      PROVE  /\ Traffic' /\ Kept' /\ posted' = posted
             /\ \A q \in Proc : got[q] \subseteq got'[q]
             /\ \A q \in Proc : \A g \in got'[q] \ got[q] :
                   g.call = g.msg.call /\ g.part = g.msg.part
  <2>1. PICK j : j = SlotOf(p, m)
    OBVIOUS
  <2>2. /\ m \in Visible(p) /\ j \in Slots /\ NBX_active[p][j] = "unknown" /\ j <= qcnt[p]
        /\ flight' = flight \ {m} /\ posted' = posted
        /\ got' = [got EXCEPT ![p] =
                     @ \cup {[call |-> slotCall[p][j], part |-> "data", sz |-> m.sz, msg |-> m]}]
    BY <1>4, <2>1 DEF ProgressReceive, Polling
  <2>3. m.dst = p
    BY <2>2 DEF Visible, Probeable
  <2>4. m.cls # "known"
    BY <2>1, <2>2, KnownNotPolled
  <2>5. m.cls = "sparse"
    BY <1>2, <2>4 DEF Traffic, Message
  <2>6. m.call = slotCall[p][j] /\ m.part = "data"
    BY <2>1, <2>2, <2>5, SparsePolled
  <2>7. DOMAIN got = Proc
    BY <1>2 DEF Kept
  <2>8. PICK g : g = [call |-> m.call, part |-> "data", sz |-> m.sz, msg |-> m]
    OBVIOUS
  <2>9. got' = [got EXCEPT ![p] = @ \cup {g}]
    BY <2>2, <2>6, <2>8
  <2>10. Traffic'
    BY <1>1, <1>2, <2>2, <2>3, <2>5, <2>6, <2>7, <2>8, <2>9, SparseReceived
  <2>11. Kept'
    BY <1>1, <1>2, <2>9 DEF Kept
  <2>12. \A q \in Proc : got'[q] = IF q = p THEN got[p] \cup {g} ELSE got[q]
    BY <2>7, <2>9
  <2>13. g.call = g.msg.call /\ g.part = g.msg.part
    BY <2>6, <2>8
  <2> QED
    BY <2>2, <2>10, <2>11, <2>12, <2>13
<1> QED
  BY <1>3, <1>4 DEF progressCommunication, ProgressForeign, ProgressNothing

LEMMA UserProgressMatch ==
    ASSUME IInv, MInv, TagsDisciplined, NEW p \in Proc, UserProgress(p)
    PROVE  MInv'
<1>1. /\ pc[p] = "app" /\ ip[p] <= Len(prog) /\ prog[ip[p]].op = "progress"
      /\ ip' = [ip EXCEPT ![p] = ip[p] + 1] /\ pc' = pc /\ progressCommunication(p)
  BY DEF UserProgress, Running, Call, NextCall
<1>2. UNCHANGED <<prog, at, NBX_cnt, cnt_base, qcnt, NBX_active, sz_recv_tmp, slotCall, finished>>
  BY <1>1 DEF progressCommunication
<1>3. ip'[p] = ip[p] + 1 /\ DOMAIN ip' = Proc /\ DOMAIN pc' = Proc
      /\ \A q \in Proc \ {p} : ip'[q] = ip[q] /\ pc'[q] = pc[q]
  BY <1>1, Domains
<1>4. PICK now : Progressed(p, now)
  BY <1>1, ProgressEffect
<1>5. StepOf(p)
  BY <1>3, <1>4, ProgressStepOf
<1>6. Slotted(p)' /\ Base(p)' /\ Counter(p)' /\ Exchanged(p)' /\ SameDone /\ SameBegun
  BY <1>1, <1>2, <1>3, <1>5, PassesOn
<1>7. Polls(p)
  BY <1>1 DEF Polls
<1>8. /\ Traffic' /\ Kept' /\ posted' = posted
      /\ \A q \in Proc : got[q] \subseteq got'[q]
      /\ \A q \in Proc : \A g \in got'[q] \ got[q] : g.call = g.msg.call /\ g.part = g.msg.part
  BY <1>1, <1>6, <1>7, ProgressTraffic
<1>9. Place(p)'
  <2>1. SizesKnown(p)
    BY DEF MInv, Place
  <2>2. SizesKnown(p)'
    BY <1>2, <1>6, <1>8, <2>1, SizesStay
  <2> QED
    BY <1>6, <2>2 DEF Place
<1>10. SameOthers(p)
  BY <1>2 DEF SameOthers
<1>11. finished'[p] \ finished[p] = {}
  BY <1>2
<1> QED
  BY <1>5, <1>8, <1>9, <1>10, <1>11, RankMoves

LEMMA WaitProgressMatch ==
    ASSUME IInv, MInv, TagsDisciplined, NEW p \in Proc, WaitProgress(p)
    PROVE  MInv'
<1>1. /\ pc[p] = "wait" /\ NBX_active[p][at[p]] = "unknown"
      /\ ip' = ip /\ pc' = [pc EXCEPT ![p] = "test"] /\ progressCommunication(p)
  BY DEF WaitProgress, InSlot
<1>2. UNCHANGED <<prog, at, NBX_cnt, cnt_base, qcnt, NBX_active, sz_recv_tmp, slotCall, finished>>
  BY <1>1 DEF progressCommunication
<1>3. pc'[p] = "test" /\ DOMAIN ip' = Proc /\ DOMAIN pc' = Proc
      /\ \A q \in Proc \ {p} : ip'[q] = ip[q] /\ pc'[q] = pc[q]
  BY <1>1, Domains
<1>4. PICK now : Progressed(p, now)
  BY <1>1, ProgressEffect
<1>5. StepOf(p)
  BY <1>3, <1>4, ProgressStepOf
<1>6. Slotted(p)' /\ Base(p)' /\ Counter(p)' /\ Exchanged(p)' /\ SameDone /\ SameBegun
  <2>1. Waiting(p)
    BY <1>1 DEF Waiting
  <2> QED
    BY <1>1, <1>2, <1>3, <1>5, <2>1, StaysThere
<1>7. Polls(p)
  BY <1>1 DEF Polls
<1>8. /\ Traffic' /\ Kept' /\ posted' = posted
      /\ \A q \in Proc : got[q] \subseteq got'[q]
      /\ \A q \in Proc : \A g \in got'[q] \ got[q] : g.call = g.msg.call /\ g.part = g.msg.part
  BY <1>1, <1>6, <1>7, ProgressTraffic
<1>9. Place(p)'
  <2>1. SizesKnown(p)
    BY DEF MInv, Place
  <2>2. SizesKnown(p)'
    BY <1>2, <1>6, <1>8, <2>1, SizesStay
  <2> QED
    BY <1>6, <2>2 DEF Place
<1>10. SameOthers(p)
  BY <1>2 DEF SameOthers
<1>11. finished'[p] \ finished[p] = {}
  BY <1>2
<1> QED
  BY <1>5, <1>8, <1>9, <1>10, <1>11, RankMoves
----------------------------------------------------------------------------
(* The calls of the barrier protocol.                                      *)
LEMMA OutgoingShape ==
    ASSUME prog \in Programs, NEW p \in Proc, NEW c \in DOMAIN prog, NEW cls, NEW part, NEW cnt
    PROVE  /\ \A m \in Outgoing(p, c, cls, part, cnt) :
                /\ m.cls = cls /\ m.part = part /\ m.call = c /\ m.cnt = cnt
                /\ m.src = p /\ m.dst \in Proc /\ m.round = posts[p] /\ m.idx = 0
                /\ OfProgram(m.src, m.dst, m.sz, m.call)
           /\ \A x \in prog[c].sends : x.src = p =>
                \E m \in Outgoing(p, c, cls, part, cnt) :
                   m.dst = x.dst /\ m.sz = x.sz
           /\ \A m, n \in Outgoing(p, c, cls, part, cnt) : m.dst = n.dst /\ m.sz = n.sz => m = n
<1>1. prog[c].sends \subseteq [src : Proc, dst : Proc, sz : Nat \ {0}]
  BY ProgramType
<1>2. ASSUME NEW m \in Outgoing(p, c, cls, part, cnt)
      PROVE  /\ m.cls = cls /\ m.part = part /\ m.call = c /\ m.cnt = cnt
             /\ m.src = p /\ m.dst \in Proc /\ m.round = posts[p] /\ m.idx = 0
             /\ OfProgram(m.src, m.dst, m.sz, m.call)
             /\ m = [cls |-> cls, src |-> p, dst |-> m.dst, sz |-> m.sz, part |-> part,
                     call |-> c, cnt |-> cnt, round |-> posts[p], idx |-> 0]
  <2>1. PICK s \in prog[c].sends :
           /\ s.src = p
           /\ m = [cls |-> cls, src |-> p, dst |-> s.dst, sz |-> s.sz, part |-> part,
                   call |-> c, cnt |-> cnt, round |-> posts[p], idx |-> 0]
    BY <1>2 DEF Outgoing
  <2>2. s = [src |-> p, dst |-> s.dst, sz |-> s.sz] /\ s.dst \in Proc
    BY <1>1, <2>1
  <2> QED
    BY <2>1, <2>2 DEF OfProgram
<1>3. ASSUME NEW x \in prog[c].sends, x.src = p
      PROVE  \E m \in Outgoing(p, c, cls, part, cnt) : m.dst = x.dst /\ m.sz = x.sz
  <2>1. PICK m : m = [cls |-> cls, src |-> p, dst |-> x.dst, sz |-> x.sz, part |-> part,
                      call |-> c, cnt |-> cnt, round |-> posts[p], idx |-> 0]
    OBVIOUS
  <2>2. m \in Outgoing(p, c, cls, part, cnt)
    BY <1>3, <2>1 DEF Outgoing
  <2> QED
    BY <2>1, <2>2
<1>4. ASSUME NEW m \in Outgoing(p, c, cls, part, cnt), NEW n \in Outgoing(p, c, cls, part, cnt),
             m.dst = n.dst, m.sz = n.sz
      PROVE  m = n
  <2>1. m = [cls |-> cls, src |-> p, dst |-> m.dst, sz |-> m.sz, part |-> part,
             call |-> c, cnt |-> cnt, round |-> posts[p], idx |-> 0]
    BY <1>2
  <2>2. n = [cls |-> cls, src |-> p, dst |-> n.dst, sz |-> n.sz, part |-> part,
             call |-> c, cnt |-> cnt, round |-> posts[p], idx |-> 0]
    BY <1>2
  <2> QED
    BY <1>4, <2>1, <2>2
<1> QED
  BY <1>2, <1>3, <1>4

LEMMA SparseSent ==
    ASSUME IInv, Traffic, prog' = prog, SameDone, posts \in [Proc -> Nat],
           NEW p \in Proc, NEW i \in DOMAIN prog, Exchange(prog, i), NEW cnt,
           cnt = (CountBefore(prog, <<i, 0>>) % nbx_cycle) + SlotIndex(prog, i),
           flight' = flight \cup Outgoing(p, i, "sparse", "data", cnt),
           posted' = posted, got' = got, posts' = [posts EXCEPT ![p] = @ + 1],
           Behind(p) = i, Behind(p)' = i + 1, \A q \in Proc \ {p} : Behind(q)' = Behind(q)
    PROVE  Traffic'
<1> DEFINE out == Outgoing(p, i, "sparse", "data", cnt)
<1>1. /\ \A m \in out :
           /\ m.cls = "sparse" /\ m.part = "data" /\ m.call = i /\ m.cnt = cnt
           /\ m.src = p /\ m.dst \in Proc /\ m.round = posts[p] /\ m.idx = 0
           /\ OfProgram(m.src, m.dst, m.sz, m.call)
      /\ \A x \in prog[i].sends : x.src = p =>
           \E m \in out : m.dst = x.dst /\ m.sz = x.sz
  BY OutgoingShape DEF IInv
<1>2. flight' = flight \cup out
  OBVIOUS
<1> HIDE DEF out
<1>3. \A q \in Proc : posts[q] \in Nat /\ posts'[q] \in Nat /\ posts[q] <= posts'[q]
  OBVIOUS
<1>4. posts'[p] = posts[p] + 1
  OBVIOUS
<1>5. ASSUME NEW n \in flight
      PROVE  Message(n)'
  <2>1. Message(n) /\ n.src \in Proc
    BY DEF Traffic, IInv, TypeOK
  <2>2. KnownMessage(n) => KnownMessage(n)'
    BY <2>1 DEF KnownMessage, KnownOf, SameDone
  <2>3. SparseMessage(n) => SparseMessage(n)'
    BY DEF SparseMessage
  <2>4. OfProgram(n.src, n.dst, n.sz, n.call)'
    BY <2>1 DEF OfProgram, Message
  <2>5. n.round \in Nat /\ n.round < posts'[n.src] /\ n.idx = 0
    BY <1>3, <2>1 DEF Message
  <2> QED
    BY <2>1, <2>2, <2>3, <2>4, <2>5 DEF Message
<1>6. ASSUME NEW n \in out
      PROVE  Message(n)'
  <2>1. OfProgram(n.src, n.dst, n.sz, n.call)'
    BY <1>1 DEF OfProgram
  <2>2. SparseMessage(n)'
    BY <1>1 DEF SparseMessage
  <2>3. n.round \in Nat /\ n.round < posts'[n.src] /\ n.idx = 0
    BY <1>1, <1>3, <1>4
  <2> QED
    BY <1>1, <2>1, <2>2, <2>3 DEF Message
<1>7. ASSUME NEW r \in posted
      PROVE  Receive(r)'
  <2>1. Receive(r) /\ r.dst \in Proc
    BY DEF Traffic, IInv, TypeOK
  <2>2. KnownPart(prog, r.call, r.part) /\ r.call \in DOMAIN prog
    BY <2>1 DEF Receive, KnownOf
  <2>3. Did(r.dst, r.call, r.part)'
    BY <2>1, <2>2 DEF Receive, SameDone
  <2>4. r.part = "size" => ~Did(r.dst, r.call, "data")'
    <3>1. r.part = "size" => KnownPart(prog, r.call, "data")
      BY <2>2 DEF KnownPart
    <3> QED
      BY <2>1, <2>2, <3>1 DEF Receive, SameDone
  <2>5. r.pos \in DOMAIN Senders(r.dst, r.call)' /\ Senders(r.dst, r.call)'[r.pos] = r.src
    BY <2>1 DEF Receive, Senders
  <2>6. r.round \in Nat /\ r.round < posts'[r.dst]
    BY <1>3, <2>1 DEF Receive
  <2> QED
    BY <2>1, <2>3, <2>4, <2>5, <2>6 DEF Receive, KnownOf
<1>8. SendOrder' /\ ReceiveOrder'
  <2>1. \A m \in flight' : m.cls = "known" => m \in flight
    BY <1>1, <1>2
  <2> QED
    BY <2>1 DEF Traffic, SendOrder, ReceiveOrder
<1>9. Pairing'
  <2>1. ASSUME NEW c \in DOMAIN prog, NEW part \in {"size", "data"}, KnownPart(prog, c, part),
               NEW x \in prog[c].sends
        PROVE  Paired(c, part, x)'
    <3>1. Paired(c, part, x)
      BY <2>1 DEF Traffic, Pairing
    <3>2. x.src \in Proc /\ x.dst \in Proc
      BY ProgramType DEF IInv
    <3>3. /\ Did(x.src, c, part)' <=> Did(x.src, c, part)
          /\ Did(x.dst, c, part)' <=> Did(x.dst, c, part)
      BY <2>1, <3>2 DEF SameDone
    <3>4. Sent(c, part, x)' <=> Sent(c, part, x)
      BY <1>1, <1>2 DEF Sent
    <3>5. Awaited(c, part, x)' <=> Awaited(c, part, x)
      BY DEF Awaited
    <3> QED
      BY <3>1, <3>3, <3>4, <3>5 DEF Paired
  <2> QED
    BY <2>1 DEF Pairing
<1>10. NothingLost'
  <2>1. ASSUME NEW c \in DOMAIN prog, NEW x \in prog[c].sends
        PROVE  /\ Exchange(prog, c) /\ c < Behind(x.src)' => SparseUnderWay(c, x)' \/ Got(c, x)'
               /\ KnownPart(prog, c, "data") /\ Did(x.dst, c, "data")'
                    => Awaited(c, "data", x)' \/ Got(c, x)'
    <3>1. /\ Exchange(prog, c) /\ c < Behind(x.src) => SparseUnderWay(c, x) \/ Got(c, x)
          /\ KnownPart(prog, c, "data") /\ Did(x.dst, c, "data") => Awaited(c, "data", x) \/ Got(c, x)
      BY DEF Traffic, NothingLost
    <3>2. x.src \in Proc /\ x.dst \in Proc
      BY ProgramType DEF IInv
    <3>3. Got(c, x)' <=> Got(c, x)
      BY DEF Got
    <3>4. SparseUnderWay(c, x) => SparseUnderWay(c, x)'
      BY <1>2 DEF SparseUnderWay
    <3>5. Awaited(c, "data", x)' <=> Awaited(c, "data", x)
      BY DEF Awaited
    <3>6. KnownPart(prog, c, "data") => (Did(x.dst, c, "data")' <=> Did(x.dst, c, "data"))
      BY <3>2 DEF SameDone
    <3>7. x.src = p /\ c = i => SparseUnderWay(c, x)'
      BY <1>1, <1>2 DEF SparseUnderWay
    <3>8. c < Behind(x.src)' => c < Behind(x.src) \/ (x.src = p /\ c = i)
      <4>1. c \in Nat /\ i \in Nat
        BY ProgramType DEF IInv
      <4> QED
        BY <3>2, <4>1
    <3> QED
      BY <3>1, <3>3, <3>4, <3>5, <3>6, <3>7, <3>8
  <2> QED
    BY <2>1 DEF NothingLost
<1> QED
  BY <1>2, <1>5, <1>6, <1>7, <1>8, <1>9, <1>10 DEF Traffic

LEMMA QueueUnknownMatch ==
    ASSUME IInv, MInv, NEW p \in Proc, QueueUnknown(p)
    PROVE  MInv'
<1>1. PICK slot : slot = qcnt[p] + 1
  OBVIOUS
<1>2. /\ pc[p] = "app" /\ ip[p] <= Len(prog) /\ prog[ip[p]].op \in {"unknown", "sync"}
      /\ prog[ip[p]].op = "sync" => slot = 0
      /\ slot \in Slots
      /\ UNCHANGED <<prog, NBX_cnt, finished, bar_req, colls, posted, reducing>>
      /\ ip' = IF prog[ip[p]].op = "sync" THEN ip ELSE [ip EXCEPT ![p] = ip[p] + 1]
      /\ pc' = IF prog[ip[p]].op = "sync" THEN [pc EXCEPT ![p] = "wait"] ELSE pc
      /\ at' = [at EXCEPT ![p] = 0]
      /\ qcnt' = [qcnt EXCEPT ![p] = slot]
      /\ NBX_active' = [NBX_active EXCEPT ![p][slot] = "unknown"]
      /\ slotCall' = [slotCall EXCEPT ![p][slot] = ip[p]]
      /\ cnt_base' = [cnt_base EXCEPT ![p] = IF slot = 0 THEN NBX_cnt[p] ELSE cnt_base[p]]
      /\ reached' = [reached EXCEPT ![p][slot] = FALSE]
      /\ flight' = flight \cup Outgoing(p, ip[p], "sparse", "data", NBX_cnt[p] + slot)
  BY <1>1, QueueUnknownEffect DEF Call
<1>3. UNCHANGED <<got, sz_recv_tmp>> /\ posts' = [posts EXCEPT ![p] = @ + 1]
      /\ \E R : req' = [req EXCEPT ![p] = R]
  BY DEF QueueUnknown, Occupy, queue_all_sends
<1>4. PICK i \in Nat \ {0} : i = ip[p]
  BY RankTypes DEF IInv
<1>5. i \in DOMAIN prog /\ prog \in Programs
  BY <1>2, <1>4, ProgramType DEF IInv
<1>6. Slotted(p) /\ Base(p) /\ Counter(p) /\ Exchanged(p) /\ SizesKnown(p) /\ Traffic /\ Kept
  BY DEF MInv, Place
<1>7. ~Waiting(p) /\ ~InSync(p) /\ Behind(p) = i /\ Now(p) = <<i, 0>>
  BY <1>2, <1>4, NowShape DEF Waiting, InSync, Behind
<1>8. slot = SlotIndex(prog, i)
  BY <1>1, <1>4, <1>6, <1>7 DEF Slotted, SlotNumbers
<1>9. qcnt[p] \in Int /\ slot \in Nat /\ slot < NQUEUE
  BY <1>2, RankTypes, QueueAssumption DEF IInv, Slots
<1>10. prog[i].op = "sync" => Blocking(prog, i)
  <2>1. qcnt[p] = -1 <=> ~Pending(prog, i, Queues)
    BY <1>4, <1>7, QueuedOrNot
  <2> QED
    BY <1>1, <1>2, <1>4, <1>9, <2>1 DEF Blocking
<1>11. Exchange(prog, i)
  BY <1>2, <1>4, <1>8, <1>9, <1>10 DEF Exchange, Queued, Queues
<1>12. /\ qcnt'[p] = slot
       /\ \A j \in Slots : /\ NBX_active'[p][j] = IF j = slot THEN "unknown" ELSE NBX_active[p][j]
                           /\ slotCall'[p][j] = IF j = slot THEN i ELSE slotCall[p][j]
       /\ cnt_base'[p] = IF slot = 0 THEN NBX_cnt[p] ELSE cnt_base[p]
       /\ \A q \in Proc \ {p} : cnt_base'[q] = cnt_base[q] /\ SameRank(q)
  <2>1. DOMAIN cnt_base = Proc
    BY DEF IInv, TypeOK
  <2>2. \A j \in Slots : NBX_active'[p][j] = IF j = slot THEN "unknown" ELSE NBX_active[p][j]
    BY <1>2, Domains, SlotSet
  <2>3. \A j \in Slots : slotCall'[p][j] = IF j = slot THEN i ELSE slotCall[p][j]
    BY <1>2, <1>4, Domains, SlotSet
  <2>4. \A q \in Proc \ {p} : ip'[q] = ip[q] /\ pc'[q] = pc[q]
    BY <1>2
  <2>5. \A q \in Proc \ {p} : req'[q] = req[q]
    BY <1>3
  <2>6. \A q \in Proc \ {p} : SameRank(q)
    BY <1>2, <2>4, <2>5 DEF SameRank
  <2> QED
    BY <1>2, <2>1, <2>2, <2>3, <2>6, Domains
<1>13. StepOf(p)
  <2>1. \A m \in flight' : m.src # p => m \in flight
    BY <1>2, <1>4, <1>5, OutgoingShape
  <2>2. Len(colls'[p]) >= Len(colls[p])
    BY <1>2, RankTypes DEF IInv
  <2>3. DOMAIN req' = DOMAIN req
    BY <1>3
  <2> QED
    BY <1>2, <1>12, <2>1, <2>2, <2>3 DEF StepOf
<1>14. Slotted(p)' /\ Base(p)' /\ Behind(p)' = i + 1
       /\ \E t : t = Now(p)' /\ SameTicks(prog, Now(p), t) /\ SameStamps(prog, Now(p), t)
  <2>1. CASE prog[i].op = "unknown"
    <3>1. ip'[p] = ip[p] + 1 /\ pc'[p] = "app"
      BY <1>2, <1>4, <2>1, Domains
    <3>2. Slotted(p)' /\ Base(p)'
      BY <1>1, <1>2, <1>4, <1>6, <1>12, <2>1, <3>1, SlotsQueued DEF Queues
    <3>3. Behind(p)' = i + 1
      BY <1>4, <3>1 DEF Behind, InSync, Waiting
    <3>4. \A part : ~KnownPart(prog, i, part)
      BY <2>1 DEF KnownPart
    <3>5. ~Blocking(prog, i)
      BY <2>1 DEF Blocking
    <3>6. SameTicks(prog, <<i, 0>>, <<i + 1, 0>>) /\ SameStamps(prog, <<i, 0>>, <<i + 1, 0>>)
      BY <1>5, <2>1, <3>4, <3>5, MovePasses
    <3>7. PICK t : t = Now(p)'
      OBVIOUS
    <3>8. t = <<i + 1, 0>>
      BY <1>2, <1>4, <3>1, <3>7, NowNext
    <3> QED
      BY <1>7, <3>2, <3>3, <3>6, <3>7, <3>8
  <2>2. CASE prog[i].op = "sync"
    <3>1. ip'[p] = ip[p] /\ pc'[p] = "wait" /\ at'[p] = 0 /\ slot = 0 /\ qcnt[p] = -1
      BY <1>1, <1>2, <1>4, <1>9, <2>2, Domains
    <3>2. Slotted(p)' /\ Base(p)'
      <4>1. /\ \A j \in Slots : /\ NBX_active'[p][j] = IF j = 0 THEN "unknown" ELSE NBX_active[p][j]
                                /\ slotCall'[p][j] = IF j = 0 THEN ip[p] ELSE slotCall[p][j]
            /\ cnt_base'[p] = NBX_cnt[p] /\ qcnt'[p] = 0
        BY <1>4, <1>12, <3>1
      <4>2. prog' = prog /\ prog[ip[p]].op = "sync"
        BY <1>2, <1>4, <2>2
      <4> QED
        BY <1>2, <1>6, <3>1, <4>1, <4>2, SlotsBlocking
    <3>3. Behind(p)' = i + 1
      BY <1>2, <1>4, <2>2, <3>1 DEF Behind, InSync, Waiting, Call
    <3>4. SameTicks(prog, <<i, 0>>, <<i, 2 * i>>) /\ SameStamps(prog, <<i, 0>>, <<i, 2 * i>>)
      BY <1>5, <1>10, <2>2, MoveBlocking
    <3>5. PICK t : t = Now(p)'
      OBVIOUS
    <3>6. t = <<i, 2 * i>>
      <4>1. slotCall'[p][0] = i /\ NBX_active'[p][0] = "unknown"
        BY <1>12, <3>1, SlotsAreNat
      <4>2. t = <<ip'[p], 2 * i + (IF NBX_active'[p][0] = "known" /\ prog[i].op = "known_prc"
                                   THEN 1 ELSE 0)>>
        BY <1>2, <3>1, <3>5, <4>1, NowNext
      <4> QED
        BY <1>4, <3>1, <4>1, <4>2
    <3> QED
      BY <1>7, <3>2, <3>3, <3>4, <3>5, <3>6
  <2> QED
    BY <1>2, <1>4, <2>1, <2>2
<1>15. PICK t : t = Now(p)' /\ SameTicks(prog, Now(p), t) /\ SameStamps(prog, Now(p), t)
  BY <1>14
<1>16. Counter(p)' /\ Exchanged(p)'
  BY <1>2, <1>5, <1>6, <1>15, CounterStays
<1>17. SameDone
  BY <1>2, <1>13, <1>15, OthersNow, DoneStays
<1>18. Traffic'
  <2>1. PICK cnt : cnt = NBX_cnt[p] + slot
    OBVIOUS
  <2>2. cnt = (CountBefore(prog, <<i, 0>>) % nbx_cycle) + SlotIndex(prog, i)
    BY <1>6, <1>7, <1>8, <2>1 DEF Counter
  <2>3. flight' = flight \cup Outgoing(p, i, "sparse", "data", cnt)
    BY <1>2, <1>4, <2>1
  <2>4. \A q \in Proc \ {p} : Behind(q)' = Behind(q)
    BY <1>2, <1>12, SameWhereabouts
  <2>5. posts \in [Proc -> Nat]
    BY <1>6 DEF Kept
  <2> QED
    BY <1>2, <1>3, <1>5, <1>6, <1>7, <1>11, <1>14, <1>17, <2>2, <2>3, <2>4, <2>5, SparseSent
<1>19. Kept'
  BY <1>3, <1>6 DEF Kept
<1>20. Place(p)'
  <2>1. SizesKnown(p)'
    BY <1>2, <1>3, <1>6, <1>17, SizesStay
  <2> QED
    BY <1>14, <1>16, <2>1 DEF Place
<1>21. SameOthers(p)
  BY <1>2, <1>3, <1>12 DEF SameOthers
<1> QED
  BY <1>2, <1>3, <1>13, <1>18, <1>19, <1>20, <1>21, RankMoves
----------------------------------------------------------------------------
(* Sends and receives of calls with known receivers.                       *)

\* prc_recv names each sender once.
LEMMA SendersList ==
    ASSUME prog \in Programs, NEW p \in Proc, NEW c \in DOMAIN prog
    PROVE  /\ Len(Senders(p, c)) \in Nat /\ DOMAIN Senders(p, c) = 1..Len(Senders(p, c))
           /\ \A k, l \in DOMAIN Senders(p, c) : Senders(p, c)[k] = Senders(p, c)[l] => k = l
           /\ \A k \in DOMAIN Senders(p, c) : \E x \in prog[c].sends :
                 x.dst = p /\ x.src = Senders(p, c)[k]
           /\ \A x \in prog[c].sends : x.dst = p =>
                 \E k \in DOMAIN Senders(p, c) : Senders(p, c)[k] = x.src
<1> DEFINE S == {s.src : s \in {t \in prog[c].sends : t.dst = p}}
<1>1. S \subseteq Proc
  BY ProgramType
<1>2. IsFiniteSet(S)
  BY <1>1, QueueAssumption, FS_Subset, Zenon
<1>3. Senders(p, c) = SetToSeq(S)
  BY DEF Senders
<1>4. \A y \in S : \E x \in prog[c].sends : x.dst = p /\ x.src = y
  OBVIOUS
<1>5. \A x \in prog[c].sends : x.dst = p => x.src \in S
  OBVIOUS
<1> HIDE DEF S
<1>6. /\ Cardinality(S) \in Nat
      /\ SetToSeq(S) \in [1..Cardinality(S) -> S]
      /\ IsInjective(SetToSeq(S))
  BY <1>2, SetToSeqLists, Zenon
<1>7. PICK n \in Nat : n = Cardinality(S)
  BY <1>6
<1>8. PICK f : f = SetToSeq(S)
  OBVIOUS
<1>9. f \in [1..n -> S] /\ IsInjective(f)
  BY <1>6, <1>7, <1>8
<1>10. \A k, l \in 1..n : f[k] = f[l] => k = l
  BY <1>9 DEF IsInjective
<1>11. f \in Injection(1..n, S)
  BY <1>9, Zenon DEF Injection
<1>12. Cardinality(1..n) = n /\ IsFiniteSet(1..n)
  <2>1. 1 \in Int /\ n \in Int
    OBVIOUS
  <2>2. IsFiniteSet(1..n) /\ Cardinality(1..n) = IF 1 > n THEN 0 ELSE n - 1 + 1
    BY <2>1, FS_Interval, Zenon
  <2> QED
    BY <2>2
<1>13. f \in Surjection(1..n, S)
  BY <1>2, <1>7, <1>11, <1>12, FS_Injection, Zenon
<1>14. \A y \in S : \E k \in 1..n : f[k] = y
  BY <1>13, Zenon DEF Surjection
<1>15. Len(f) = n /\ DOMAIN f = 1..n
  <2>1. f \in Seq(S)
    BY <1>9
  <2> QED
    BY <1>9, <2>1
<1>16. Senders(p, c) = f
  BY <1>3, <1>8
<1> QED
  BY <1>4, <1>5, <1>9, <1>10, <1>14, <1>15, <1>16

LEMMA IncomingShape ==
    ASSUME prog \in Programs, NEW p \in Proc, NEW c \in DOMAIN prog, NEW part, NEW cnt, NEW sizes
    PROVE  /\ \A r \in Incoming(p, c, part, cnt, sizes) :
                /\ r.dst = p /\ r.part = part /\ r.call = c /\ r.cnt = cnt /\ r.round = posts[p]
                /\ r.where = sz_recv_tmp'[p].where
                /\ r.pos \in DOMAIN Senders(p, c) /\ r.src = Senders(p, c)[r.pos]
                /\ r.sz = sizes[r.pos]
           /\ \A k \in DOMAIN Senders(p, c) :
                \E r \in Incoming(p, c, part, cnt, sizes) : r.pos = k /\ r.src = Senders(p, c)[k]
           /\ \A r, t \in Incoming(p, c, part, cnt, sizes) : r.src = t.src => r = t
<1>1. ASSUME NEW r \in Incoming(p, c, part, cnt, sizes)
      PROVE  /\ r.dst = p /\ r.part = part /\ r.call = c /\ r.cnt = cnt /\ r.round = posts[p]
             /\ r.where = sz_recv_tmp'[p].where
             /\ r.pos \in DOMAIN Senders(p, c) /\ r.src = Senders(p, c)[r.pos]
             /\ r.sz = sizes[r.pos]
             /\ r = [dst |-> p, src |-> Senders(p, c)[r.pos], part |-> part, call |-> c, cnt |-> cnt,
                     sz |-> sizes[r.pos], pos |-> r.pos, where |-> sz_recv_tmp'[p].where,
                     round |-> posts[p]]
  <2>1. PICK i \in DOMAIN Senders(p, c) :
           r = [dst |-> p, src |-> Senders(p, c)[i], part |-> part, call |-> c, cnt |-> cnt,
                sz |-> sizes[i], pos |-> i, where |-> sz_recv_tmp'[p].where, round |-> posts[p]]
    BY <1>1 DEF Incoming
  <2>2. r.pos = i
    BY <2>1
  <2> QED
    BY <2>1, <2>2
<1>2. ASSUME NEW k \in DOMAIN Senders(p, c)
      PROVE  \E r \in Incoming(p, c, part, cnt, sizes) : r.pos = k /\ r.src = Senders(p, c)[k]
  <2>1. PICK r :
           r = [dst |-> p, src |-> Senders(p, c)[k], part |-> part, call |-> c, cnt |-> cnt,
                sz |-> sizes[k], pos |-> k, where |-> sz_recv_tmp'[p].where, round |-> posts[p]]
    OBVIOUS
  <2>2. r \in Incoming(p, c, part, cnt, sizes)
    BY <2>1 DEF Incoming
  <2> QED
    BY <2>1, <2>2
<1>3. ASSUME NEW r \in Incoming(p, c, part, cnt, sizes), NEW t \in Incoming(p, c, part, cnt, sizes),
             r.src = t.src
      PROVE  r = t
  <2>1. r.pos \in DOMAIN Senders(p, c) /\ t.pos \in DOMAIN Senders(p, c)
        /\ Senders(p, c)[r.pos] = Senders(p, c)[t.pos]
    BY <1>1, <1>3
  <2>2. r.pos = t.pos
    BY <2>1, SendersList
  <2>3. r = [dst |-> p, src |-> Senders(p, c)[r.pos], part |-> part, call |-> c, cnt |-> cnt,
             sz |-> sizes[r.pos], pos |-> r.pos, where |-> sz_recv_tmp'[p].where,
             round |-> posts[p]]
    BY <1>1
  <2>4. t = [dst |-> p, src |-> Senders(p, c)[t.pos], part |-> part, call |-> c, cnt |-> cnt,
             sz |-> sizes[t.pos], pos |-> t.pos, where |-> sz_recv_tmp'[p].where,
             round |-> posts[p]]
    BY <1>1
  <2> QED
    BY <2>2, <2>3, <2>4
<1> QED
  BY <1>1, <1>2, <1>3

\* What was done before has an earlier stamp than what is done now.
LEMMA DoneBefore ==
    ASSUME IInv, NEW p \in Proc, NEW a \in DOMAIN prog, NEW half, NEW c \in DOMAIN prog, NEW part,
           KnownPart(prog, a, half), KnownPart(prog, c, part), Did(p, a, half), ~Did(p, c, part)
    PROVE  /\ Earlier(Stamp(prog, a, half), Stamp(prog, c, part))
           /\ ~Earlier(Stamp(prog, c, part), Stamp(prog, a, half))
<1>1. prog \in Programs
  BY DEF IInv
<1>2. PICK s \in Moments : s = Stamp(prog, a, half)
  BY <1>1, StampOf
<1>3. PICK t \in Moments : t = Stamp(prog, c, part)
  BY <1>1, StampOf
<1>4. PICK n \in Moments : n = Now(p)
  BY NowShape
<1>5. Earlier(s, n) /\ ~Earlier(t, n)
  BY <1>2, <1>3, <1>4 DEF Did
<1>6. Earlier(s, t) /\ ~Earlier(t, s)
  BY <1>5, EarlierOrder
<1> QED
  BY <1>2, <1>3, <1>6
\* send() and recv() for a part of a call of rank p.
LEMMA PostTraffic ==
    ASSUME IInv, Traffic, prog' = prog, OneEach(prog), posts \in [Proc -> Nat], SameBegun,
           NEW p \in Proc, NEW c \in DOMAIN prog, NEW part \in {"size", "data"}, KnownPart(prog, c, part),
           OneDone(p, c, part), NEW cnt, NEW sizes, NEW held, PostKnown(p, held, c, part, cnt, sizes),
           cnt = Number(prog, c, part) % nbx_cycle,
           posts' = [posts EXCEPT ![p] = @ + 1], got' = got,
           part = "data" => \A k \in DOMAIN Senders(p, c) :
              [src |-> Senders(p, c)[k], dst |-> p, sz |-> sizes[k]] \in prog[c].sends,
           part = "data" => \A r \in posted : r.dst = p /\ r.call = c => r.part # "size"
    PROVE  Traffic'
<1> DEFINE out == Outgoing(p, c, "known", part, cnt)
           in == Incoming(p, c, part, cnt, sizes)
<1>0. prog \in Programs
  BY DEF IInv
<1>1. /\ \A m \in out :
           /\ m.cls = "known" /\ m.part = part /\ m.call = c /\ m.cnt = cnt
           /\ m.src = p /\ m.dst \in Proc /\ m.round = posts[p] /\ m.idx = 0
           /\ OfProgram(m.src, m.dst, m.sz, m.call)
      /\ \A x \in prog[c].sends : x.src = p => \E m \in out : m.dst = x.dst /\ m.sz = x.sz
      /\ \A m, n \in out : m.dst = n.dst /\ m.sz = n.sz => m = n
  BY <1>0, OutgoingShape
<1>2. /\ \A r \in in :
           /\ r.dst = p /\ r.part = part /\ r.call = c /\ r.cnt = cnt /\ r.round = posts[p]
           /\ r.where = sz_recv_tmp'[p].where
           /\ r.pos \in DOMAIN Senders(p, c) /\ r.src = Senders(p, c)[r.pos]
           /\ r.sz = sizes[r.pos]
      /\ \A k \in DOMAIN Senders(p, c) : \E r \in in : r.pos = k /\ r.src = Senders(p, c)[k]
      /\ \A r, t \in in : r.src = t.src => r = t
  BY <1>0, IncomingShape
<1>3. flight' = flight \cup out /\ posted' = posted \cup in
  BY DEF PostKnown
<1> HIDE DEF out, in
<1>4. \A q \in Proc : posts[q] \in Nat /\ posts'[q] \in Nat /\ posts[q] <= posts'[q]
  OBVIOUS
<1>5. posts'[p] = posts[p] + 1
  OBVIOUS
<1>6. /\ ~Did(p, c, part)
      /\ \A q \in Proc : \A a \in DOMAIN prog : \A half :
            KnownPart(prog, a, half) =>
               (Did(q, a, half)' <=> Did(q, a, half) \/ (q = p /\ a = c /\ half = part))
  BY DEF OneDone
<1>7. ASSUME NEW m \in flight
      PROVE  Message(m) /\ m.src \in Proc /\ m.dst \in Proc
  BY DEF Traffic, IInv, TypeOK
<1>8. ASSUME NEW r \in posted
      PROVE  Receive(r) /\ r.src \in Proc /\ r.dst \in Proc
  BY DEF Traffic, IInv, TypeOK
<1>9. \A m, n \in out : m.dst = n.dst => m = n
  <2> SUFFICES ASSUME NEW m \in out, NEW n \in out, m.dst = n.dst
               PROVE  m = n
    OBVIOUS
  <2>1. PICK x \in prog[c].sends : x = [src |-> p, dst |-> m.dst, sz |-> m.sz]
    BY <1>1 DEF OfProgram
  <2>2. PICK y \in prog[c].sends : y = [src |-> p, dst |-> n.dst, sz |-> n.sz]
    BY <1>1 DEF OfProgram
  <2>3. x = y
    BY <2>1, <2>2 DEF OneEach
  <2> QED
    BY <1>1, <2>1, <2>2, <2>3
<1>10. ASSUME NEW n \in flight
       PROVE  Message(n)'
  <2>1. Message(n) /\ n.src \in Proc
    BY <1>7
  <2>2. KnownMessage(n) => KnownMessage(n)'
    BY <1>6, <2>1 DEF KnownMessage, KnownOf
  <2>3. SparseMessage(n) => SparseMessage(n)'
    BY DEF SparseMessage
  <2>4. OfProgram(n.src, n.dst, n.sz, n.call)'
    BY <2>1 DEF OfProgram, Message
  <2>5. n.round \in Nat /\ n.round < posts'[n.src] /\ n.idx = 0
    BY <1>4, <2>1 DEF Message
  <2> QED
    BY <2>1, <2>2, <2>3, <2>4, <2>5 DEF Message
<1>11. ASSUME NEW n \in out
       PROVE  Message(n)'
  <2>1. OfProgram(n.src, n.dst, n.sz, n.call)'
    BY <1>1 DEF OfProgram
  <2>2. Did(p, c, part)'
    BY <1>6
  <2>3. n.src = p /\ n.call = c /\ n.part = part /\ n.cnt = Number(prog, c, part) % nbx_cycle
    BY <1>1
  <2>4. KnownMessage(n)'
    BY <2>2, <2>3 DEF KnownMessage, KnownOf
  <2>5. n.round \in Nat /\ n.round < posts'[n.src] /\ n.idx = 0
    BY <1>1, <1>4, <1>5
  <2> QED
    BY <1>1, <2>1, <2>4, <2>5 DEF Message
<1>12. ASSUME NEW r \in posted
       PROVE  Receive(r)'
  <2>1. Receive(r) /\ r.dst \in Proc
    BY <1>8
  <2>2. KnownPart(prog, r.call, r.part) /\ r.call \in DOMAIN prog
    BY <2>1 DEF Receive, KnownOf
  <2>3. Did(r.dst, r.call, r.part)'
    BY <1>6, <2>1, <2>2 DEF Receive
  <2>4. r.part = "size" => ~Did(r.dst, r.call, "data")'
    <3> SUFFICES ASSUME r.part = "size"
                 PROVE  ~Did(r.dst, r.call, "data")'
      OBVIOUS
    <3>1. KnownPart(prog, r.call, "data")
      BY <2>2 DEF KnownPart
    <3>2. ~Did(r.dst, r.call, "data")
      BY <2>1 DEF Receive
    <3>3. ~(r.dst = p /\ r.call = c /\ part = "data")
      OBVIOUS
    <3> QED
      BY <1>6, <2>1, <2>2, <3>1, <3>2, <3>3
  <2>5. r.pos \in DOMAIN Senders(r.dst, r.call)' /\ Senders(r.dst, r.call)'[r.pos] = r.src
    BY <2>1 DEF Receive, Senders
  <2>6. r.round \in Nat /\ r.round < posts'[r.dst]
    BY <1>4, <2>1 DEF Receive
  <2> QED
    BY <2>1, <2>3, <2>4, <2>5, <2>6 DEF Receive, KnownOf
<1>13. ASSUME NEW r \in in
       PROVE  Receive(r)'
  <2>1. /\ r.dst = p /\ r.part = part /\ r.call = c /\ r.cnt = cnt /\ r.round = posts[p]
        /\ r.pos \in DOMAIN Senders(p, c) /\ r.src = Senders(p, c)[r.pos]
        /\ r.sz = sizes[r.pos]
    BY <1>2
  <2>2. Did(p, c, part)'
    BY <1>6
  <2>3. part = "size" => ~Did(p, c, "data")'
    <3> SUFFICES ASSUME part = "size"
                 PROVE  ~Did(p, c, "data")'
      OBVIOUS
    <3>1. KnownPart(prog, c, "data")
      BY DEF KnownPart
    <3>2. ~Did(p, c, "data")
      <4> SUFFICES ASSUME Did(p, c, "data")
                   PROVE  FALSE
        OBVIOUS
      <4>1. Earlier(Stamp(prog, c, "data"), Stamp(prog, c, part))
        BY <1>6, <3>1, DoneBefore
      <4>2. PICK s \in Moments : s = Stamp(prog, c, "data")
        BY <1>0, <3>1, StampOf
      <4>3. PICK t \in Moments : t = Stamp(prog, c, part)
        BY <1>0, StampOf
      <4>4. t = <<c, 0>>
        BY <1>0, <4>3, StampOf
      <4>5. Earlier(t, s) \/ s = t
        BY <1>0, <3>1, <4>2, <4>4, StampOf
      <4> QED
        BY <4>1, <4>2, <4>3, <4>5, EarlierOrder
    <3> QED
      BY <1>6, <3>1, <3>2
  <2>4. \E x \in prog[c].sends : x.src = r.src /\ x.dst = p /\ (part = "data" => r.sz = x.sz)
    <3>1. CASE part = "data"
      <4>1. PICK x \in prog[c].sends : x = [src |-> Senders(p, c)[r.pos], dst |-> p, sz |-> sizes[r.pos]]
        BY <2>1, <3>1
      <4> QED
        BY <2>1, <4>1
    <3>2. CASE part # "data"
      BY <1>0, <2>1, <3>2, SendersList
    <3> QED
      BY <3>1, <3>2
  <2>5. r.pos \in DOMAIN Senders(p, c)' /\ Senders(p, c)'[r.pos] = r.src
    BY <2>1 DEF Senders
  <2>6. r.round \in Nat /\ r.round < posts'[p]
    BY <1>4, <1>5, <2>1
  <2> QED
    BY <2>1, <2>2, <2>3, <2>4, <2>5, <2>6 DEF Receive, KnownOf
<1>14. ASSUME NEW m \in flight, m.cls = "known", m.src = p
       PROVE  /\ m.call \in DOMAIN prog /\ KnownPart(prog, m.call, m.part) /\ Did(p, m.call, m.part)
              /\ ~(m.call = c /\ m.part = part)
              /\ ~Earlier(Stamp(prog, c, part), Stamp(prog, m.call, m.part))
              /\ m.round < posts[p]
  <2>1. /\ m.call \in DOMAIN prog /\ KnownPart(prog, m.call, m.part) /\ Did(p, m.call, m.part)
        /\ m.round < posts[p]
    BY <1>7, <1>14 DEF Message, KnownMessage, KnownOf
  <2>2. ~(m.call = c /\ m.part = part)
    BY <1>6, <2>1
  <2> QED
    BY <1>6, <2>1, <2>2, DoneBefore
<1>15. SendOrder'
  <2> SUFFICES ASSUME NEW m \in flight', NEW n \in flight', m.cls = "known", n.cls = "known",
                      m.src = n.src
               PROVE  /\ Earlier(Stamp(prog, m.call, m.part), Stamp(prog, n.call, n.part))
                             => m.round < n.round
                      /\ m.dst = n.dst /\ m.call = n.call /\ m.part = n.part => m = n
    BY DEF SendOrder
  <2>1. CASE m \in flight /\ n \in flight
    BY <2>1 DEF Traffic, SendOrder
  <2>2. CASE m \in flight /\ n \in out
    <3>1. n.src = p /\ n.call = c /\ n.part = part /\ n.round = posts[p]
      BY <1>1, <2>2
    <3>2. m.round < posts[p] /\ ~(m.call = c /\ m.part = part)
      BY <1>14, <2>2, <3>1
    <3> QED
      BY <3>1, <3>2
  <2>3. CASE m \in out /\ n \in flight
    <3>1. m.src = p /\ m.call = c /\ m.part = part
      BY <1>1, <2>3
    <3>2. ~(n.call = c /\ n.part = part) /\ ~Earlier(Stamp(prog, c, part), Stamp(prog, n.call, n.part))
      BY <1>14, <2>3, <3>1
    <3> QED
      BY <3>1, <3>2
  <2>4. CASE m \in out /\ n \in out
    <3>1. m.call = c /\ m.part = part /\ n.call = c /\ n.part = part
      BY <1>1, <2>4
    <3>2. ~Earlier(Stamp(prog, c, part), Stamp(prog, c, part))
      <4>1. PICK t \in Moments : t = Stamp(prog, c, part)
        BY <1>0, StampOf
      <4> QED
        BY <4>1, EarlierOrder
    <3> QED
      BY <1>9, <2>4, <3>1, <3>2
  <2> QED
    BY <1>3, <2>1, <2>2, <2>3, <2>4
<1>16. ASSUME NEW r \in posted, r.dst = p
       PROVE  /\ r.call \in DOMAIN prog /\ KnownPart(prog, r.call, r.part) /\ Did(p, r.call, r.part)
              /\ ~(r.call = c /\ r.part = part)
              /\ ~Earlier(Stamp(prog, c, part), Stamp(prog, r.call, r.part))
              /\ r.round < posts[p]
  <2>1. /\ r.call \in DOMAIN prog /\ KnownPart(prog, r.call, r.part) /\ Did(p, r.call, r.part)
        /\ r.round < posts[p]
    BY <1>8, <1>16 DEF Receive, KnownOf
  <2>2. ~(r.call = c /\ r.part = part)
    BY <1>6, <2>1
  <2> QED
    BY <1>6, <2>1, <2>2, DoneBefore
<1>17. ReceiveOrder'
  <2> SUFFICES ASSUME NEW r \in posted', NEW t \in posted', r.dst = t.dst
               PROVE  /\ Earlier(Stamp(prog, r.call, r.part), Stamp(prog, t.call, t.part))
                             => r.round < t.round
                      /\ r.src = t.src /\ r.call = t.call /\ r.part = t.part => r = t
    BY DEF ReceiveOrder
  <2>1. CASE r \in posted /\ t \in posted
    BY <2>1 DEF Traffic, ReceiveOrder
  <2>2. CASE r \in posted /\ t \in in
    <3>1. t.dst = p /\ t.call = c /\ t.part = part /\ t.round = posts[p]
      BY <1>2, <2>2
    <3>2. r.round < posts[p] /\ ~(r.call = c /\ r.part = part)
      BY <1>16, <2>2, <3>1
    <3> QED
      BY <3>1, <3>2
  <2>3. CASE r \in in /\ t \in posted
    <3>1. r.dst = p /\ r.call = c /\ r.part = part
      BY <1>2, <2>3
    <3>2. ~(t.call = c /\ t.part = part) /\ ~Earlier(Stamp(prog, c, part), Stamp(prog, t.call, t.part))
      BY <1>16, <2>3, <3>1
    <3> QED
      BY <3>1, <3>2
  <2>4. CASE r \in in /\ t \in in
    <3>1. r.call = c /\ r.part = part /\ t.call = c /\ t.part = part
      BY <1>2, <2>4
    <3>2. ~Earlier(Stamp(prog, c, part), Stamp(prog, c, part))
      <4>1. PICK u \in Moments : u = Stamp(prog, c, part)
        BY <1>0, StampOf
      <4> QED
        BY <4>1, EarlierOrder
    <3> QED
      BY <1>2, <2>4, <3>1, <3>2
  <2> QED
    BY <1>3, <2>1, <2>2, <2>3, <2>4
<1>18. ASSUME NEW x \in prog[c].sends, x.src = p
       PROVE  Sent(c, part, x)'
  <2>1. PICK m \in out : m.dst = x.dst
    BY <1>1, <1>18
  <2> QED
    BY <1>1, <1>3, <1>18, <2>1 DEF Sent
<1>19. ASSUME NEW x \in prog[c].sends, x.dst = p
       PROVE  Awaited(c, part, x)'
  <2>1. PICK k \in DOMAIN Senders(p, c) : Senders(p, c)[k] = x.src
    BY <1>0, <1>19, SendersList
  <2>2. PICK r \in in : r.src = x.src
    BY <1>2, <2>1
  <2> QED
    BY <1>2, <1>3, <1>19, <2>2 DEF Awaited
<1>20. Pairing'
  <2>1. ASSUME NEW a \in DOMAIN prog, NEW half \in {"size", "data"}, KnownPart(prog, a, half),
               NEW x \in prog[a].sends
        PROVE  Paired(a, half, x)'
    <3>1. Paired(a, half, x)
      BY <2>1 DEF Traffic, Pairing
    <3>2. x.src \in Proc /\ x.dst \in Proc
      BY ProgramType DEF IInv
    <3>3. /\ Did(x.src, a, half)' <=> Did(x.src, a, half) \/ (x.src = p /\ a = c /\ half = part)
          /\ Did(x.dst, a, half)' <=> Did(x.dst, a, half) \/ (x.dst = p /\ a = c /\ half = part)
      BY <1>6, <2>1, <3>2
    <3>4. /\ Sent(a, half, x) => Sent(a, half, x)'
          /\ Awaited(a, half, x) => Awaited(a, half, x)'
      BY <1>3 DEF Sent, Awaited
    <3>5. ~(x.src = p /\ a = c /\ half = part) => (Sent(a, half, x)' => Sent(a, half, x))
      BY <1>1, <1>3 DEF Sent
    <3>6. ~(x.dst = p /\ a = c /\ half = part) => (Awaited(a, half, x)' => Awaited(a, half, x))
      BY <1>2, <1>3 DEF Awaited
    <3>7. /\ x.src = p /\ a = c /\ half = part => Sent(a, half, x)' /\ ~Did(x.src, a, half)
          /\ x.dst = p /\ a = c /\ half = part => Awaited(a, half, x)' /\ ~Did(x.dst, a, half)
      BY <1>6, <1>18, <1>19
    <3> QED
      BY <3>1, <3>3, <3>4, <3>5, <3>6, <3>7 DEF Paired
  <2> QED
    BY <2>1 DEF Pairing
<1>21. NothingLost'
  <2>1. ASSUME NEW a \in DOMAIN prog, NEW x \in prog[a].sends
        PROVE  /\ Exchange(prog, a) /\ a < Behind(x.src)' => SparseUnderWay(a, x)' \/ Got(a, x)'
               /\ KnownPart(prog, a, "data") /\ Did(x.dst, a, "data")'
                    => Awaited(a, "data", x)' \/ Got(a, x)'
    <3>1. /\ Exchange(prog, a) /\ a < Behind(x.src) => SparseUnderWay(a, x) \/ Got(a, x)
          /\ KnownPart(prog, a, "data") /\ Did(x.dst, a, "data") => Awaited(a, "data", x) \/ Got(a, x)
      BY DEF Traffic, NothingLost
    <3>2. x.src \in Proc /\ x.dst \in Proc
      BY ProgramType DEF IInv
    <3>3. Got(a, x)' <=> Got(a, x)
      BY DEF Got
    <3>4. SparseUnderWay(a, x) => SparseUnderWay(a, x)'
      BY <1>3 DEF SparseUnderWay
    <3>5. Awaited(a, "data", x) => Awaited(a, "data", x)'
      BY <1>3 DEF Awaited
    <3>6. KnownPart(prog, a, "data") =>
            (Did(x.dst, a, "data")' <=> Did(x.dst, a, "data") \/ (x.dst = p /\ a = c /\ part = "data"))
      BY <1>6, <3>2
    <3>7. x.dst = p /\ a = c /\ part = "data" => Awaited(a, "data", x)'
      BY <1>19
    <3>8. Exchange(prog, a) /\ a < Behind(x.src)' => a < Behind(x.src)
      BY <3>2 DEF SameBegun
    <3> QED
      BY <3>1, <3>3, <3>4, <3>5, <3>6, <3>7, <3>8
  <2> QED
    BY <2>1 DEF NothingLost
<1> QED
  BY <1>3, <1>10, <1>11, <1>12, <1>13, <1>15, <1>17, <1>20, <1>21 DEF Traffic
(* The sizes.                                                              *)
LEMMA SizesUsed ==
    ASSUME IInv, NEW p \in Proc, SizesKnown(p), prog' = prog, NEW c \in DOMAIN prog,
           OneDone(p, c, "data"), sz_recv_tmp'[p] = sz_recv_tmp[p], posted \subseteq posted'
    PROVE  SizesKnown(p)'
<1>1. ASSUME NEW a \in DOMAIN prog, KnownPart(prog, a, "size"), Did(p, a, "size")',
             ~Did(p, a, "data")', NEW k \in DOMAIN Senders(p, a)
      PROVE  /\ k \in DOMAIN sz_recv_tmp'[p].val
             /\ \/ \E r \in posted' : /\ r.dst = p /\ r.call = a /\ r.part = "size" /\ r.pos = k
                                      /\ r.where = sz_recv_tmp'[p].where
                \/ [src |-> Senders(p, a)[k], dst |-> p, sz |-> sz_recv_tmp'[p].val[k]]
                      \in prog[a].sends
  <2>1. KnownPart(prog, a, "data")
    BY <1>1 DEF KnownPart
  <2>2. Did(p, a, "size") /\ ~Did(p, a, "data")
    BY <1>1, <2>1 DEF OneDone
  <2>3. /\ k \in DOMAIN sz_recv_tmp[p].val
        /\ \/ \E r \in posted : /\ r.dst = p /\ r.call = a /\ r.part = "size" /\ r.pos = k
                                /\ r.where = sz_recv_tmp[p].where
           \/ [src |-> Senders(p, a)[k], dst |-> p, sz |-> sz_recv_tmp[p].val[k]]
                 \in prog[a].sends
    BY <1>1, <2>2 DEF SizesKnown
  <2> QED
    BY <2>3
<1>2. \A a : Senders(p, a)' = Senders(p, a)
  BY DEF Senders
<1> QED
  BY <1>1, <1>2 DEF SizesKnown

LEMMA ResizedType ==
    ASSUME NEW v \in [where : Nat, val : Seq(Nat)], NEW n \in Nat, NEW w \in Resized(v, n)
    PROVE  /\ w \in [where : Nat, val : Seq(Nat)]
           /\ 1..n \subseteq DOMAIN w.val
<1>1. CASE n <= Len(v.val)
  BY <1>1 DEF Resized
<1>2. CASE ~(n <= Len(v.val))
  <2>1. PICK e \in {v.where, v.where + 1} :
           w = [where |-> e, val |-> [i \in 1..n |-> IF i <= Len(v.val) THEN v.val[i] ELSE 0]]
    BY <1>2 DEF Resized
  <2>2. PICK f : f = [i \in 1..n |-> IF i <= Len(v.val) THEN v.val[i] ELSE 0]
    OBVIOUS
  <2>3. f \in [1..n -> Nat]
    <3>1. ASSUME NEW i \in 1..n
          PROVE  (IF i <= Len(v.val) THEN v.val[i] ELSE 0) \in Nat
      <4>1. v.val \in Seq(Nat)
        OBVIOUS
      <4> QED
        BY <4>1
    <3> QED
      BY <2>2, <3>1
  <2>4. f \in Seq(Nat) /\ DOMAIN f = 1..n
    BY <2>3
  <2>5. e \in Nat
    OBVIOUS
  <2> QED
    BY <2>1, <2>2, <2>4, <2>5
<1> QED
  BY <1>1, <1>2

LEMMA SizesAsked ==
    ASSUME IInv, TagsDisciplined, NEW p \in Proc, prog' = prog, NEW c \in DOMAIN prog,
           KnownPart(prog, c, "size"), OneDone(p, c, "size"), NEW t \in Moments, t = Now(p)',
           sz_recv_tmp[p] \in [where : Nat, val : Seq(Nat)],
           sz_recv_tmp'[p] \in Resized(sz_recv_tmp[p], Len(Senders(p, c))),
           NEW cnt, NEW sizes, posted' = posted \cup Incoming(p, c, "size", cnt, sizes)
    PROVE  SizesKnown(p)'
<1>1. prog \in Programs
  BY DEF IInv
<1>2. KnownPart(prog, c, "data")
  BY DEF KnownPart
<1>3. ~Did(p, c, "size") /\ Did(p, c, "size")'
  BY DEF OneDone
<1>4. ~Did(p, c, "data")'
  <2>1. ~Did(p, c, "data")
    <3> SUFFICES ASSUME Did(p, c, "data")
                 PROVE  FALSE
      OBVIOUS
    <3>1. Earlier(Stamp(prog, c, "data"), Stamp(prog, c, "size"))
      BY <1>2, <1>3, DoneBefore
    <3>2. PICK s \in Moments : s = Stamp(prog, c, "data")
      BY <1>1, <1>2, StampOf
    <3>3. PICK u \in Moments : u = Stamp(prog, c, "size")
      BY <1>1, StampOf
    <3>4. u = <<c, 0>>
      BY <1>1, <3>3, StampOf
    <3>5. Earlier(u, s) \/ s = u
      BY <1>1, <1>2, <3>2, <3>4, StampOf
    <3> QED
      BY <3>1, <3>2, <3>3, <3>5, EarlierOrder
  <2> QED
    BY <1>2, <2>1 DEF OneDone
<1>5. Earlier(Stamp(prog, c, "size"), t) /\ ~Earlier(Stamp(prog, c, "data"), t)
  BY <1>3, <1>4 DEF Did
<1>6. ASSUME NEW a \in DOMAIN prog, KnownPart(prog, a, "size"), Did(p, a, "size")',
             ~Did(p, a, "data")', NEW k \in DOMAIN Senders(p, a)
      PROVE  /\ k \in DOMAIN sz_recv_tmp'[p].val
             /\ \/ \E r \in posted' : /\ r.dst = p /\ r.call = a /\ r.part = "size" /\ r.pos = k
                                      /\ r.where = sz_recv_tmp'[p].where
                \/ [src |-> Senders(p, a)[k], dst |-> p, sz |-> sz_recv_tmp'[p].val[k]]
                      \in prog[a].sends
  <2>1. Earlier(Stamp(prog, a, "size"), t) /\ ~Earlier(Stamp(prog, a, "data"), t)
    BY <1>6 DEF Did
  <2>2. a = c
    BY <1>1, <1>5, <1>6, <2>1, OneWindow
  <2>3. Len(Senders(p, c)) \in Nat /\ DOMAIN Senders(p, c) = 1..Len(Senders(p, c))
    BY <1>1, SendersList
  <2>4. k \in DOMAIN sz_recv_tmp'[p].val
    BY <1>6, <2>2, <2>3, ResizedType
  <2>5. PICK r \in Incoming(p, c, "size", cnt, sizes) : r.pos = k
    BY <1>1, <1>6, <2>2, IncomingShape
  <2>6. r.dst = p /\ r.part = "size" /\ r.call = c /\ r.where = sz_recv_tmp'[p].where
    BY <1>1, IncomingShape
  <2> QED
    BY <2>2, <2>4, <2>5, <2>6
<1>7. \A a : Senders(p, a)' = Senders(p, a)
  BY DEF Senders
<1> QED
  BY <1>6, <1>7 DEF SizesKnown

LEMMA SizesAnnounced ==
    ASSUME prog \in Programs, NEW p \in Proc, NEW c \in DOMAIN prog, NEW k \in DOMAIN Senders(p, c)
    PROVE  [src |-> Senders(p, c)[k], dst |-> p, sz |-> AnnouncedSizes(p, c)[k]] \in prog[c].sends
<1>1. PICK x \in prog[c].sends : x.dst = p /\ x.src = Senders(p, c)[k]
  BY SendersList
<1>2. PICK y : y = CHOOSE s \in prog[c].sends : s.src = Senders(p, c)[k] /\ s.dst = p
  OBVIOUS
<1>3. y \in prog[c].sends /\ y.src = Senders(p, c)[k] /\ y.dst = p
  BY <1>1, <1>2
<1>4. y = [src |-> Senders(p, c)[k], dst |-> p, sz |-> y.sz]
  BY <1>3, ProgramType
<1>5. AnnouncedSizes(p, c)[k] = y.sz
  BY <1>2 DEF AnnouncedSizes
<1> QED
  BY <1>3, <1>4, <1>5

LEMMA SizesArrived ==
    ASSUME NEW p \in Proc, SizesKnown(p), Quiet(p), NEW c \in DOMAIN prog,
           KnownPart(prog, c, "size"), Did(p, c, "size"), ~Did(p, c, "data"),
           NEW k \in DOMAIN Senders(p, c)
    PROVE  [src |-> Senders(p, c)[k], dst |-> p, sz |-> sz_recv_tmp[p].val[k]] \in prog[c].sends
BY DEF SizesKnown, Quiet

\* A step of rank p that posts a part of a call.
LEMMA PostMoves ==
    ASSUME IInv, MInv, TagsDisciplined, NEW p \in Proc, StepOf(p),
           NEW c \in DOMAIN prog, NEW part \in {"size", "data"}, KnownPart(prog, c, part),
           NEW t \in Moments, t = Now(p)', OneStamp(prog, Now(p), t, c, part),
           Behind(p)' = Behind(p) \/ (Behind(p)' = Behind(p) + 1 /\ ~Exchange(prog, Behind(p))),
           NEW cnt, NEW sizes, NEW held, PostKnown(p, held, c, part, cnt, sizes),
           cnt = Number(prog, c, part) % nbx_cycle,
           posts' = [posts EXCEPT ![p] = @ + 1], UNCHANGED <<got, finished>>,
           \A q \in Proc \ {p} : NBX_cnt'[q] = NBX_cnt[q] /\ cnt_base'[q] = cnt_base[q],
           Slotted(p)', Base(p)', Counter(p)', Exchanged(p)',
           part = "data" => /\ sz_recv_tmp' = sz_recv_tmp
                            /\ \A k \in DOMAIN Senders(p, c) :
                                  [src |-> Senders(p, c)[k], dst |-> p, sz |-> sizes[k]] \in prog[c].sends
                            /\ \A r \in posted : r.dst = p /\ r.call = c => r.part # "size",
           part = "size" => \E v \in Resized(sz_recv_tmp[p], Len(Senders(p, c))) :
                               sz_recv_tmp' = [sz_recv_tmp EXCEPT ![p] = v]
    PROVE  MInv'
<1>1. prog \in Programs /\ prog' = prog
  BY DEF IInv, StepOf
<1>2. Traffic /\ Kept /\ SizesKnown(p)
  BY DEF MInv, Place
<1>3. OneDone(p, c, part)
  BY <1>1, OthersNow, DoneOne
<1>4. SameBegun
  BY BegunStays
<1>5. posts \in [Proc -> Nat] /\ DOMAIN got = Proc
      /\ sz_recv_tmp \in [Proc -> [where : Nat, val : Seq(Nat)]]
  BY <1>2 DEF Kept
<1>6. Traffic'
  <2>1. OneEach(prog)
    BY <1>1, ProgramTags
  <2>2. got' = got /\ posts' = [posts EXCEPT ![p] = @ + 1]
    OBVIOUS
  <2>3. part = "data" => \A k \in DOMAIN Senders(p, c) :
           [src |-> Senders(p, c)[k], dst |-> p, sz |-> sizes[k]] \in prog[c].sends
    OBVIOUS
  <2>4. part = "data" => \A r \in posted : r.dst = p /\ r.call = c => r.part # "size"
    OBVIOUS
  <2>5. prog' = prog /\ posts \in [Proc -> Nat]
    BY <1>1, <1>5
  <2>6. cnt = Number(prog, c, part) % nbx_cycle /\ PostKnown(p, held, c, part, cnt, sizes)
    OBVIOUS
  <2>7. Traffic
    BY <1>2
  <2> QED
    BY <1>3, <1>4, <2>1, <2>2, <2>3, <2>4, <2>5, <2>6, <2>7, PostTraffic
<1>7. posted' = posted \cup Incoming(p, c, part, cnt, sizes)
  BY DEF PostKnown
<1>8. CASE part = "data"
  <2>1. SizesKnown(p)'
    BY <1>1, <1>2, <1>3, <1>7, <1>8, SizesUsed
  <2>2. Place(p)'
    BY <2>1 DEF Place
  <2>3. Kept'
    BY <1>5, <1>8 DEF Kept
  <2>4. SameOthers(p)
    BY <1>8 DEF SameOthers
  <2> QED
    BY <1>6, <1>7, <2>2, <2>3, <2>4, RankMoves
<1>9. CASE part = "size"
  <2>1. PICK v \in Resized(sz_recv_tmp[p], Len(Senders(p, c))) :
           sz_recv_tmp' = [sz_recv_tmp EXCEPT ![p] = v]
    BY <1>9
  <2>2. sz_recv_tmp'[p] = v /\ \A q \in Proc \ {p} : sz_recv_tmp'[q] = sz_recv_tmp[q]
    BY <1>5, <2>1
  <2>3. sz_recv_tmp[p] \in [where : Nat, val : Seq(Nat)] /\ Len(Senders(p, c)) \in Nat
    BY <1>1, <1>5, SendersList
  <2>4. SizesKnown(p)'
    BY <1>1, <1>3, <1>7, <1>9, <2>2, <2>3, SizesAsked
  <2>5. Place(p)'
    BY <2>4 DEF Place
  <2>6. v \in [where : Nat, val : Seq(Nat)]
    BY <2>3, ResizedType
  <2>7. Kept'
    BY <1>5, <2>1, <2>6 DEF Kept
  <2>8. SameOthers(p)
    BY <2>2 DEF SameOthers
  <2> QED
    BY <1>6, <1>7, <2>5, <2>7, <2>8, RankMoves
<1> QED
  BY <1>8, <1>9
----------------------------------------------------------------------------
(* The steps that post receives and send for a call with known receivers.  *)
LEMMA PostStep ==
    ASSUME IInv, NEW p \in Proc, NEW held, Posts(p, held), prog' = prog,
           \A q \in Proc \ {p} : /\ ip'[q] = ip[q] /\ pc'[q] = pc[q] /\ at'[q] = at[q]
                                 /\ qcnt'[q] = qcnt[q] /\ NBX_active'[q] = NBX_active[q]
                                 /\ slotCall'[q] = slotCall[q],
           UNCHANGED <<reached, finished, bar_req, colls, reducing>>
    PROVE  StepOf(p)
<1>1. \A q \in Proc \ {p} : SameRank(q)
  BY DEF SameRank, Posts
<1>2. Len(colls'[p]) >= Len(colls[p])
  BY RankTypes DEF IInv
<1> QED
  BY <1>1, <1>2 DEF StepOf, Posts

LEMMA NumberOf ==
    ASSUME NEW pr, NEW c, NEW part, NEW i, NEW n, Stamp(pr, c, part) = <<i, n>>
    PROVE  Number(pr, c, part) = CountBefore(pr, <<i, n + 1>>)
BY DEF Number

\* The part that a call of known receives posts first, with what it reserves.
FirstPart(p, c, part, sizes) ==
    /\ part \in {"size", "data"}
    /\ part = IF prog[c].op \in {"known", "known_sync"} THEN "data" ELSE "size"
    /\ KnownPart(prog, c, part) /\ ~Announced(prog, c, part)
    /\ PostKnown(p, req[p], c, part, NBX_cnt[p], sizes)
    /\ part = "data" => /\ sz_recv_tmp' = sz_recv_tmp
                        /\ \A k \in DOMAIN Senders(p, c) :
                              [src |-> Senders(p, c)[k], dst |-> p, sz |-> sizes[k]]
                                 \in prog[c].sends
                        /\ \A r \in posted : r.dst = p /\ r.call = c => r.part # "size"
    /\ part = "size" => \E v \in Resized(sz_recv_tmp[p], Len(Senders(p, c))) :
                           sz_recv_tmp' = [sz_recv_tmp EXCEPT ![p] = v]

\* What a call posts at once: the data, or the sizes.
LEMMA FirstPost ==
    ASSUME IInv, MInv, NEW p \in Proc, NEW c \in DOMAIN prog,
           prog[c].op \in {"known", "known_prc", "known_sync", "known_prc_sync"},
           prog[c].op \in Queues => Queued(prog, c),
           IF prog[c].op \in {"known", "known_sync"}
           THEN /\ sz_recv_tmp' = sz_recv_tmp
                /\ PostKnown(p, req[p], c, "data", NBX_cnt[p], AnnouncedSizes(p, c))
           ELSE /\ \E v \in Resized(sz_recv_tmp[p], Len(Senders(p, c))) :
                      sz_recv_tmp' = [sz_recv_tmp EXCEPT ![p] = v]
                /\ PostKnown(p, req[p], c, "size", NBX_cnt[p], [i \in DOMAIN Senders(p, c) |-> 0])
    PROVE  \E part, sizes : FirstPart(p, c, part, sizes)
<1>1. CASE prog[c].op \in {"known", "known_sync"}
  <2>1. KnownPart(prog, c, "data") /\ ~Announced(prog, c, "data")
    BY <1>1 DEF KnownPart, Announced, Queues
  <2>2. \A k \in DOMAIN Senders(p, c) :
           [src |-> Senders(p, c)[k], dst |-> p, sz |-> AnnouncedSizes(p, c)[k]] \in prog[c].sends
    BY SizesAnnounced DEF IInv
  <2>3. ASSUME NEW r \in posted, r.call = c
        PROVE  r.part # "size"
    <3>1. KnownPart(prog, c, r.part)
      BY <2>3 DEF MInv, Traffic, Receive, KnownOf
    <3> QED
      BY <1>1, <3>1 DEF KnownPart
  <2>4. sz_recv_tmp' = sz_recv_tmp
        /\ PostKnown(p, req[p], c, "data", NBX_cnt[p], AnnouncedSizes(p, c))
    BY <1>1
  <2>5. PICK sizes : sizes = AnnouncedSizes(p, c)
    OBVIOUS
  <2>6. FirstPart(p, c, "data", sizes)
    BY <1>1, <2>1, <2>2, <2>3, <2>4, <2>5 DEF FirstPart
  <2> QED
    BY <2>6
<1>2. CASE prog[c].op \in {"known_prc", "known_prc_sync"}
  <2>1. KnownPart(prog, c, "size") /\ ~Announced(prog, c, "size")
    BY <1>2 DEF KnownPart, Announced, Queues
  <2>2. PICK sizes : sizes = [i \in DOMAIN Senders(p, c) |-> 0]
    OBVIOUS
  <2>3. /\ \E v \in Resized(sz_recv_tmp[p], Len(Senders(p, c))) :
              sz_recv_tmp' = [sz_recv_tmp EXCEPT ![p] = v]
        /\ PostKnown(p, req[p], c, "size", NBX_cnt[p], sizes)
    BY <1>2, <2>2
  <2>4. PICK part : part = "size"
    OBVIOUS
  <2>5. part # "data" /\ ~(prog[c].op \in {"known", "known_sync"})
    BY <1>2, <2>4
  <2>6. /\ part \in {"size", "data"}
        /\ part = IF prog[c].op \in {"known", "known_sync"} THEN "data" ELSE "size"
        /\ KnownPart(prog, c, part) /\ ~Announced(prog, c, part)
    BY <2>1, <2>4, <2>5
  <2>7. /\ PostKnown(p, req[p], c, part, NBX_cnt[p], sizes)
        /\ \E v \in Resized(sz_recv_tmp[p], Len(Senders(p, c))) :
              sz_recv_tmp' = [sz_recv_tmp EXCEPT ![p] = v]
    BY <2>3, <2>4
  <2>8. FirstPart(p, c, part, sizes)
    BY <2>5, <2>6, <2>7 DEF FirstPart
  <2> QED
    BY <2>8
<1> QED
  BY <1>1, <1>2

LEMMA QueueKnownMatch ==
    ASSUME IInv, MInv, TagsDisciplined, NEW p \in Proc, QueueKnown(p)
    PROVE  MInv'
<1>1. PICK slot : slot = qcnt[p] + 1
  OBVIOUS
<1>2. /\ pc[p] = "app" /\ ip[p] <= Len(prog) /\ ip[p] \in 1..Len(prog)
      /\ prog[ip[p]].op \in {"known", "known_prc"}
      /\ slot \in Slots
      /\ UNCHANGED <<prog, pc, at, NBX_cnt, reached, rid, bar_req, finished, colls, reducing>>
      /\ ip' = [ip EXCEPT ![p] = ip[p] + 1]
      /\ qcnt' = [qcnt EXCEPT ![p] = slot]
      /\ NBX_active' = [NBX_active EXCEPT ![p][slot] = prog[ip[p]].op]
      /\ slotCall' = [slotCall EXCEPT ![p][slot] = ip[p]]
      /\ cnt_base' = [cnt_base EXCEPT ![p] = IF slot = 0 THEN NBX_cnt[p] ELSE cnt_base[p]]
      /\ Posts(p, req[p])
  BY <1>1, QueueKnownEffect DEF Call
<1>3. PICK i \in Nat \ {0} : i = ip[p]
  BY RankTypes DEF IInv
<1>4. i \in DOMAIN prog /\ prog \in Programs
  BY <1>2, <1>3, ProgramType DEF IInv
<1>5. Slotted(p) /\ Base(p) /\ Counter(p) /\ Exchanged(p)
  BY DEF MInv, Place
<1>6. ~Waiting(p) /\ ~InSync(p) /\ Behind(p) = i /\ Now(p) = <<i, 0>>
  BY <1>2, <1>3, NowShape DEF Waiting, InSync, Behind
<1>7. slot = SlotIndex(prog, i)
  BY <1>1, <1>3, <1>5, <1>6 DEF Slotted, SlotNumbers
<1>8. slot \in Nat /\ slot < NQUEUE
  BY <1>2, QueueAssumption DEF Slots
<1>9. Queued(prog, i)
  BY <1>2, <1>3, <1>7, <1>8 DEF Queued, Queues
<1>10. /\ qcnt'[p] = slot /\ ip'[p] = ip[p] + 1 /\ pc'[p] = "app"
       /\ \A j \in Slots : /\ NBX_active'[p][j] = IF j = slot THEN prog[ip[p]].op ELSE NBX_active[p][j]
                           /\ slotCall'[p][j] = IF j = slot THEN ip[p] ELSE slotCall[p][j]
       /\ cnt_base'[p] = IF slot = 0 THEN NBX_cnt[p] ELSE cnt_base[p]
       /\ \A q \in Proc \ {p} : NBX_cnt'[q] = NBX_cnt[q] /\ cnt_base'[q] = cnt_base[q]
  <2>1. DOMAIN cnt_base = Proc
    BY DEF IInv, TypeOK
  <2>2. \A j \in Slots : NBX_active'[p][j] = IF j = slot THEN prog[ip[p]].op ELSE NBX_active[p][j]
    BY <1>2, Domains, SlotSet
  <2>3. \A j \in Slots : slotCall'[p][j] = IF j = slot THEN ip[p] ELSE slotCall[p][j]
    BY <1>2, Domains, SlotSet
  <2> QED
    BY <1>2, <2>1, <2>2, <2>3, Domains
<1>11. StepOf(p)
  <2>1. \A q \in Proc \ {p} : /\ ip'[q] = ip[q] /\ pc'[q] = pc[q] /\ at'[q] = at[q]
                              /\ qcnt'[q] = qcnt[q] /\ NBX_active'[q] = NBX_active[q]
                              /\ slotCall'[q] = slotCall[q]
    BY <1>2
  <2> QED
    BY <1>2, <2>1, PostStep
<1>12. Slotted(p)' /\ Base(p)'
  BY <1>1, <1>2, <1>5, <1>10, SlotsQueued DEF Queues
<1>13. Behind(p)' = Behind(p) + 1 /\ ~Exchange(prog, Behind(p)) /\ ~Blocking(prog, i)
  BY <1>2, <1>3, <1>6, <1>10 DEF Behind, InSync, Waiting, Exchange, Blocking
<1>14. PICK part, sizes :
             /\ part \in {"size", "data"}
             /\ KnownPart(prog, i, part) /\ ~Announced(prog, i, part)
             /\ PostKnown(p, req[p], i, part, NBX_cnt[p], sizes)
             /\ part = "data" => /\ sz_recv_tmp' = sz_recv_tmp
                                 /\ \A k \in DOMAIN Senders(p, i) :
                                       [src |-> Senders(p, i)[k], dst |-> p, sz |-> sizes[k]]
                                          \in prog[i].sends
                                 /\ \A r \in posted : r.dst = p /\ r.call = i => r.part # "size"
             /\ part = "size" => \E v \in Resized(sz_recv_tmp[p], Len(Senders(p, i))) :
                                    sz_recv_tmp' = [sz_recv_tmp EXCEPT ![p] = v]
  <2>1. IF prog[i].op \in {"known", "known_sync"}
        THEN /\ sz_recv_tmp' = sz_recv_tmp
             /\ PostKnown(p, req[p], i, "data", NBX_cnt[p], AnnouncedSizes(p, i))
        ELSE /\ \E v \in Resized(sz_recv_tmp[p], Len(Senders(p, i))) :
                   sz_recv_tmp' = [sz_recv_tmp EXCEPT ![p] = v]
             /\ PostKnown(p, req[p], i, "size", NBX_cnt[p], [k \in DOMAIN Senders(p, i) |-> 0])
    BY <1>2, <1>3 DEF QueueKnown, Call
  <2>2. prog[i].op \in {"known", "known_prc", "known_sync", "known_prc_sync"}
    BY <1>2, <1>3
  <2> QED
    BY <1>4, <1>9, <2>1, <2>2, FirstPost DEF FirstPart
<1>15. /\ SameTicks(prog, <<i, 0>>, <<i + 1, 0>>) /\ SameTicks(prog, <<i, 0>>, <<i, 1>>)
       /\ OneStamp(prog, <<i, 0>>, <<i + 1, 0>>, i, part)
  BY <1>2, <1>3, <1>4, <1>13, <1>14, MovePasses
<1>16. PICK t \in Moments : t = Now(p)' /\ t = <<i + 1, 0>>
  <2>1. PICK t : t = Now(p)'
    OBVIOUS
  <2>2. t = <<i + 1, 0>>
    BY <1>2, <1>3, <1>10, <2>1, NowNext
  <2>3. t \in Moments
    BY <2>2 DEF Moments
  <2> QED
    BY <2>1, <2>2, <2>3
<1>17. NBX_cnt[p] = Number(prog, i, part) % nbx_cycle
  <2>1. Stamp(prog, i, part) = <<i, 0>>
    BY <1>14 DEF Stamp
  <2>2. Number(prog, i, part) = CountBefore(prog, <<i, 0 + 1>>)
    BY <2>1, NumberOf
  <2>3. CountBefore(prog, <<i, 0>>) = CountBefore(prog, <<i, 1>>)
    BY <1>4, <1>15, SameCount
  <2> QED
    BY <1>5, <1>6, <2>2, <2>3 DEF Counter
<1>18. Counter(p)' /\ Exchanged(p)'
  <2>1. SameTicks(prog, Now(p), t)
    BY <1>6, <1>15, <1>16
  <2> QED
    BY <1>2, <1>4, <1>5, <1>16, <2>1, CounterStays
<1>19. UNCHANGED <<got, finished>> /\ posts' = [posts EXCEPT ![p] = @ + 1]
  BY DEF QueueKnown, Occupy
<1>20. OneStamp(prog, Now(p), t, i, part)
  BY <1>6, <1>15, <1>16
<1>21. Behind(p)' = Behind(p) \/ (Behind(p)' = Behind(p) + 1 /\ ~Exchange(prog, Behind(p)))
  BY <1>13
<1> QED
  BY <1>4, <1>10, <1>11, <1>12, <1>14, <1>16, <1>17, <1>18, <1>19, <1>20, <1>21, PostMoves
LEMMA StartKnownSyncMatch ==
    ASSUME IInv, MInv, TagsDisciplined, NEW p \in Proc, StartKnownSync(p)
    PROVE  MInv'
<1>1. /\ pc[p] = "app" /\ ip[p] <= Len(prog)
      /\ prog[ip[p]].op \in {"known_sync", "known_prc_sync"}
      /\ pc' = [pc EXCEPT ![p] = IF prog[ip[p]].op = "known_prc_sync" THEN "sizes" ELSE "data"]
      /\ posts' = [posts EXCEPT ![p] = @ + 1]
      /\ UNCHANGED <<prog, ip, at, NBX_cnt, cnt_base, qcnt, NBX_active, reached, bar_req,
                     slotCall, finished, got, colls, reducing>>
  BY DEF StartKnownSync, Running, Call
<1>2. PICK i \in Nat \ {0} : i = ip[p]
  BY RankTypes DEF IInv
<1>3. i \in DOMAIN prog /\ i \in 1..Len(prog) /\ prog \in Programs
  BY <1>1, <1>2, ProgramType DEF IInv
<1>4. Slotted(p) /\ Base(p) /\ Counter(p) /\ Exchanged(p)
  BY DEF MInv, Place
<1>5. ~Waiting(p) /\ ~InSync(p) /\ Behind(p) = i /\ Now(p) = <<i, 0>>
  BY <1>1, <1>2, NowShape DEF Waiting, InSync, Behind
<1>6. PICK part, sizes :
             /\ part \in {"size", "data"}
             /\ part = IF prog[i].op \in {"known", "known_sync"} THEN "data" ELSE "size"
             /\ KnownPart(prog, i, part) /\ ~Announced(prog, i, part)
             /\ PostKnown(p, req[p], i, part, NBX_cnt[p], sizes)
             /\ part = "data" => /\ sz_recv_tmp' = sz_recv_tmp
                                 /\ \A k \in DOMAIN Senders(p, i) :
                                       [src |-> Senders(p, i)[k], dst |-> p, sz |-> sizes[k]]
                                          \in prog[i].sends
                                 /\ \A r \in posted : r.dst = p /\ r.call = i => r.part # "size"
             /\ part = "size" => \E v \in Resized(sz_recv_tmp[p], Len(Senders(p, i))) :
                                    sz_recv_tmp' = [sz_recv_tmp EXCEPT ![p] = v]
  <2>1. IF prog[i].op \in {"known", "known_sync"}
        THEN /\ sz_recv_tmp' = sz_recv_tmp
             /\ PostKnown(p, req[p], i, "data", NBX_cnt[p], AnnouncedSizes(p, i))
        ELSE /\ \E v \in Resized(sz_recv_tmp[p], Len(Senders(p, i))) :
                   sz_recv_tmp' = [sz_recv_tmp EXCEPT ![p] = v]
             /\ PostKnown(p, req[p], i, "size", NBX_cnt[p], [k \in DOMAIN Senders(p, i) |-> 0])
    BY <1>1, <1>2 DEF StartKnownSync, Call
  <2>2. prog[i].op \in {"known", "known_prc", "known_sync", "known_prc_sync"}
    BY <1>1, <1>2
  <2>3. prog[i].op \in Queues => Queued(prog, i)
    BY <1>1, <1>2 DEF Queues
  <2> QED
    BY <1>3, <2>1, <2>2, <2>3, FirstPost DEF FirstPart
<1>7. Posts(p, req[p])
  BY <1>3, <1>6, PostKnownEffect
<1>8. StepOf(p)
  <2>1. \A q \in Proc \ {p} : /\ ip'[q] = ip[q] /\ pc'[q] = pc[q] /\ at'[q] = at[q]
                              /\ qcnt'[q] = qcnt[q] /\ NBX_active'[q] = NBX_active[q]
                              /\ slotCall'[q] = slotCall[q]
    BY <1>1
  <2> QED
    BY <1>1, <1>7, <2>1, PostStep
<1>9. pc'[p] = IF prog[i].op = "known_prc_sync" THEN "sizes" ELSE "data"
  BY <1>1, <1>2, Domains
<1>10. ~Waiting(p)' /\ Behind(p)' = Behind(p)
  <2>1. ~Waiting(p)'
    BY <1>9 DEF Waiting
  <2> QED
    BY <1>1, <1>2, <1>5, <2>1 DEF Behind, InSync
<1>11. Slotted(p)' /\ Base(p)'
  BY <1>1, <1>4, <1>5, <1>10, SlotsInPlace
<1>12. /\ SameTicks(prog, <<i, 0>>, <<i, 1>>)
       /\ OneStamp(prog, <<i, 0>>, <<i, 1>>, i, part)
  <2>1. part = IF prog[i].op = "known_sync" THEN "data" ELSE "size"
    BY <1>1, <1>2, <1>6
  <2> QED
    BY <1>1, <1>2, <1>3, <2>1, MoveKnown
<1>13. PICK t \in Moments : t = Now(p)' /\ t = <<i, 1>>
  <2>1. PICK t : t = Now(p)'
    OBVIOUS
  <2>2. t = <<i, 1>>
    BY <1>1, <1>2, <1>9, <2>1, NowNext
  <2>3. t \in Moments
    BY <2>2 DEF Moments
  <2> QED
    BY <2>1, <2>2, <2>3
<1>14. NBX_cnt[p] = Number(prog, i, part) % nbx_cycle
  <2>1. Stamp(prog, i, part) = <<i, 0>>
    BY <1>6 DEF Stamp
  <2>2. Number(prog, i, part) = CountBefore(prog, <<i, 0 + 1>>)
    BY <2>1, NumberOf
  <2>3. CountBefore(prog, <<i, 0>>) = CountBefore(prog, <<i, 1>>)
    BY <1>3, <1>12, SameCount
  <2> QED
    BY <1>4, <1>5, <2>2, <2>3 DEF Counter
<1>15. Counter(p)' /\ Exchanged(p)'
  <2>1. SameTicks(prog, Now(p), t)
    BY <1>5, <1>12, <1>13
  <2> QED
    BY <1>1, <1>3, <1>4, <1>13, <2>1, CounterStays
<1>16. OneStamp(prog, Now(p), t, i, part)
  BY <1>5, <1>12, <1>13
<1>17. Behind(p)' = Behind(p) \/ (Behind(p)' = Behind(p) + 1 /\ ~Exchange(prog, Behind(p)))
  BY <1>10
<1>18. /\ UNCHANGED <<got, finished>> /\ posts' = [posts EXCEPT ![p] = @ + 1]
       /\ \A q \in Proc \ {p} : NBX_cnt'[q] = NBX_cnt[q] /\ cnt_base'[q] = cnt_base[q]
  BY <1>1
<1> QED
  BY <1>3, <1>6, <1>8, <1>11, <1>13, <1>14, <1>15, <1>16, <1>17, <1>18, PostMoves

\* A rank that has the sizes exchanged is in a call that exchanges them.
AtSizes == \A p \in Proc : pc[p] = "sizes" => Call(p).op = "known_prc_sync"

LEMMA KnownSyncDataMatch ==
    ASSUME IInv, MInv, AtSizes, TagsDisciplined, NEW p \in Proc, KnownSyncData(p)
    PROVE  MInv'
<1>1. /\ pc[p] = "sizes" /\ execute(p)
      /\ NBX_cnt' = [NBX_cnt EXCEPT ![p] = NextCnt(NBX_cnt[p])]
      /\ PostKnown(p, {}, ip[p], "data", NBX_cnt'[p], sz_recv_tmp[p].val)
      /\ posts' = [posts EXCEPT ![p] = @ + 1]
      /\ pc' = [pc EXCEPT ![p] = "data"]
      /\ UNCHANGED <<prog, ip, at, cnt_base, qcnt, NBX_active, reached, bar_req, slotCall,
                     finished, got, colls, reducing, sz_recv_tmp>>
  BY DEF KnownSyncData
<1>2. PICK i \in Nat \ {0} : i = ip[p]
  BY RankTypes DEF IInv
<1>3. prog[i].op = "known_prc_sync" /\ ip[p] <= Len(prog)
  <2>1. AtCall(p)
    BY DEF IInv, RankInv, Control
  <2> QED
    BY <1>1, <1>2, <2>1 DEF AtCall, AtSizes, Call, InKnown
<1>4. i \in DOMAIN prog /\ i \in 1..Len(prog) /\ prog \in Programs
  BY <1>2, <1>3, ProgramType DEF IInv
<1>5. Slotted(p) /\ Base(p) /\ Counter(p) /\ Exchanged(p) /\ SizesKnown(p)
  BY DEF MInv, Place
<1>6. ~Waiting(p) /\ ~InSync(p) /\ Behind(p) = i /\ Now(p) = <<i, 1>>
  BY <1>1, <1>2, NowShape DEF Waiting, InSync, Behind
<1>7. PICK cnt : cnt = NBX_cnt'[p]
  OBVIOUS
<1>8. PICK sizes : sizes = sz_recv_tmp[p].val
  OBVIOUS
<1>9. PostKnown(p, {}, i, "data", cnt, sizes)
  BY <1>1, <1>2, <1>7, <1>8
<1>10. Posts(p, {})
  BY <1>4, <1>9, PostKnownEffect
<1>11. StepOf(p)
  <2>1. \A q \in Proc \ {p} : /\ ip'[q] = ip[q] /\ pc'[q] = pc[q] /\ at'[q] = at[q]
                              /\ qcnt'[q] = qcnt[q] /\ NBX_active'[q] = NBX_active[q]
                              /\ slotCall'[q] = slotCall[q]
    BY <1>1
  <2> QED
    BY <1>1, <1>10, <2>1, PostStep
<1>12. pc'[p] = "data" /\ NBX_cnt'[p] = NextCnt(NBX_cnt[p])
       /\ \A q \in Proc \ {p} : NBX_cnt'[q] = NBX_cnt[q] /\ cnt_base'[q] = cnt_base[q]
  <2>1. DOMAIN NBX_cnt = Proc
    BY DEF IInv, TypeOK
  <2> QED
    BY <1>1, <2>1, Domains
<1>13. ~Waiting(p)' /\ Behind(p)' = Behind(p)
  <2>1. ~Waiting(p)'
    BY <1>12 DEF Waiting
  <2> QED
    BY <1>1, <1>2, <1>6, <2>1 DEF Behind, InSync
<1>14. Slotted(p)' /\ Base(p)'
  BY <1>1, <1>5, <1>6, <1>13, SlotsInPlace
<1>15. /\ OneTick(prog, <<i, 1>>, <<i, 2 * i + 1>>, <<i, 1>>)
       /\ OneStamp(prog, <<i, 1>>, <<i, 2 * i + 1>>, i, "data")
  BY <1>3, <1>4, MoveKnown
<1>16. PICK t \in Moments : t = Now(p)' /\ t = <<i, 2 * i + 1>>
  <2>1. PICK t : t = Now(p)'
    OBVIOUS
  <2>2. t = <<i, 2 * i + 1>>
    BY <1>1, <1>2, <1>3, <1>12, <2>1, NowNext
  <2>3. t \in Moments
    BY <2>2 DEF Moments
  <2> QED
    BY <2>1, <2>2, <2>3
<1>17. Counter(p)' /\ Exchanged(p)'
  <2>1. OneTick(prog, Now(p), t, <<i, 1>>)
    BY <1>6, <1>15, <1>16
  <2>2. 1 = 1 /\ i \in DOMAIN prog /\ Exchange(prog, i) => i \in finished'[p]
    BY <1>3 DEF Exchange, Blocking
  <2>3. finished[p] \subseteq finished'[p]
    BY <1>1
  <2> QED
    BY <1>1, <1>4, <1>5, <1>12, <1>16, <2>1, <2>2, <2>3, CounterCounts
<1>18. KnownPart(prog, i, "data") /\ KnownPart(prog, i, "size")
  BY <1>3 DEF KnownPart
<1>19. Stamp(prog, i, "data") = <<i, 2 * i>> /\ Stamp(prog, i, "size") = <<i, 0>>
  BY <1>3 DEF Stamp, Announced, Completion, Queues
<1>20. cnt = Number(prog, i, "data") % nbx_cycle
  <2>1. PICK n : n = 2 * i
    OBVIOUS
  <2>2. Number(prog, i, "data") = CountBefore(prog, <<i, n + 1>>)
    BY <1>19, <2>1, NumberOf
  <2>3. t = <<i, n + 1>>
    BY <1>16, <2>1
  <2>4. cnt = CountBefore(prog, t) % nbx_cycle
    <3>1. prog' = prog
      BY <1>1
    <3> QED
      BY <1>7, <1>16, <1>17, <3>1 DEF Counter, CountBefore
  <2> QED
    BY <2>2, <2>3, <2>4
<1>21. Quiet(p)
  BY <1>1, ExecuteQuiet
<1>22. Did(p, i, "size") /\ ~Did(p, i, "data")
  BY <1>6, <1>19 DEF Did, Earlier
<1>23. \A k \in DOMAIN Senders(p, i) :
          [src |-> Senders(p, i)[k], dst |-> p, sz |-> sizes[k]] \in prog[i].sends
  BY <1>4, <1>5, <1>8, <1>18, <1>21, <1>22, SizesArrived
<1>24. \A r \in posted : r.dst = p /\ r.call = i => r.part # "size"
  BY <1>21 DEF Quiet
<1>25. OneStamp(prog, Now(p), t, i, "data")
  BY <1>6, <1>15, <1>16
<1>26. Behind(p)' = Behind(p) \/ (Behind(p)' = Behind(p) + 1 /\ ~Exchange(prog, Behind(p)))
  BY <1>13
<1>27. UNCHANGED <<got, finished>> /\ posts' = [posts EXCEPT ![p] = @ + 1]
       /\ sz_recv_tmp' = sz_recv_tmp
  BY <1>1
<1> QED
  BY <1>4, <1>9, <1>11, <1>12, <1>14, <1>16, <1>17, <1>18, <1>20, <1>23, <1>24, <1>25, <1>26, <1>27, PostMoves
LEMMA WaitSizesMatch ==
    ASSUME IInv, MInv, TagsDisciplined, NEW p \in Proc, WaitSizes(p)
    PROVE  MInv'
<1>1. /\ pc[p] = "wait" /\ NBX_active[p][at[p]] = "known_prc" /\ execute(p)
      /\ NBX_cnt' = [NBX_cnt EXCEPT ![p] = NextCnt(NBX_cnt[p])]
      /\ PostKnown(p, {}, Held(p), "data", NBX_cnt'[p], sz_recv_tmp[p].val)
      /\ NBX_active' = [NBX_active EXCEPT ![p][at[p]] = "known"]
      /\ posts' = [posts EXCEPT ![p] = @ + 1]
      /\ UNCHANGED <<prog, ip, pc, at, cnt_base, qcnt, reached, bar_req, slotCall,
                     finished, got, colls, reducing, sz_recv_tmp>>
  BY DEF WaitSizes, InSlot
<1>2. PICK slot : slot = at[p]
  OBVIOUS
<1>3. PICK a : a = Held(p)
  OBVIOUS
<1>4. /\ Waiting(p) /\ ~InSync(p) /\ slot \in Slots /\ Live(p, slot)
      /\ ip[p] <= Len(prog) /\ prog[ip[p]].op = "wait"
      /\ a \in 1..Len(prog)
  <2>1. Disciplined
    BY DEF TagsDisciplined
  <2> QED
    BY <1>1, <1>2, <1>3, <2>1, AtKnown
<1>5. PICK w \in Nat \ {0} : w = ip[p]
  BY RankTypes DEF IInv
<1>6. Slotted(p) /\ Base(p) /\ Counter(p) /\ Exchanged(p) /\ SizesKnown(p)
  BY DEF MInv, Place
<1>7. /\ w \in DOMAIN prog /\ prog \in Programs /\ a \in DOMAIN prog /\ a \in Nat
      /\ prog[w].op = "wait"
  BY <1>4, <1>5, ProgramType DEF IInv
<1>8. InBatch(prog, a, w) /\ a < w
  <2>1. a = slotCall[p][slot]
    BY <1>2, <1>3 DEF Held
  <2>2. InBatch(prog, a, w)
    BY <1>4, <1>5, <1>6, <2>1, SlotsOfBatch
  <2> QED
    BY <2>2 DEF InBatch, SameBatch
<1>9. prog[a].op = "known_prc"
  <2>1. SlotHolds(p, slot)
    BY <1>4 DEF IInv, RankInv, Control
  <2>2. NBX_active[p][slot] \in KindOf(prog[a].op)
    BY <1>2, <1>3, <1>4, <2>1 DEF SlotHolds, Held
  <2> QED
    BY <1>1, <1>2, <2>2, KindsOf
<1>10. Now(p) = <<w, 2 * a>>
  <2>1. ~SizesDone(p)
    BY <1>1 DEF SizesDone
  <2> QED
    BY <1>3, <1>4, <1>5, <1>7, <2>1, NowShape
<1>11. PICK cnt : cnt = NBX_cnt'[p]
  OBVIOUS
<1>12. PICK sizes : sizes = sz_recv_tmp[p].val
  OBVIOUS
<1>13. PostKnown(p, {}, a, "data", cnt, sizes)
  BY <1>1, <1>3, <1>11, <1>12
<1>14. Posts(p, {})
  BY <1>4, <1>13, PostKnownEffect
<1>15. /\ \A j \in Slots : NBX_active'[p][j] = IF j = slot THEN "known" ELSE NBX_active[p][j]
       /\ \A q \in Proc \ {p} : NBX_active'[q] = NBX_active[q]
  <2>1. NBX_active' = [NBX_active EXCEPT ![p][slot] = "known"]
    BY <1>1, <1>2
  <2> QED
    BY <1>4, <2>1, Domains, SlotSet
<1>16. StepOf(p)
  <2>1. \A q \in Proc \ {p} : /\ ip'[q] = ip[q] /\ pc'[q] = pc[q] /\ at'[q] = at[q]
                              /\ qcnt'[q] = qcnt[q] /\ NBX_active'[q] = NBX_active[q]
                              /\ slotCall'[q] = slotCall[q]
    BY <1>1, <1>15
  <2> QED
    BY <1>1, <1>14, <2>1, PostStep
<1>17. NBX_cnt'[p] = NextCnt(NBX_cnt[p])
       /\ \A q \in Proc \ {p} : NBX_cnt'[q] = NBX_cnt[q] /\ cnt_base'[q] = cnt_base[q]
  <2>1. DOMAIN NBX_cnt = Proc
    BY DEF IInv, TypeOK
  <2> QED
    BY <1>1, <2>1
<1>18. Slotted(p)' /\ Base(p)'
  BY <1>1, <1>2, <1>4, <1>6, <1>15, SlotsAnnounced
<1>19. Behind(p)' = Behind(p)
  BY <1>1 DEF Behind, InSync, Waiting, Call
<1>20. /\ OneTick(prog, <<w, 2 * a>>, <<w, 2 * a + 1>>, <<a, 1>>)
       /\ OneStamp(prog, <<w, 2 * a>>, <<w, 2 * a + 1>>, a, "data")
  BY <1>7, <1>8, <1>9, MoveWaitSizes
<1>21. PICK t \in Moments : t = Now(p)' /\ t = <<w, 2 * a + 1>>
  <2>1. PICK t : t = Now(p)'
    OBVIOUS
  <2>2. pc'[p] \in {"wait", "test"} /\ at'[p] = slot /\ slotCall'[p][slot] = a
        /\ ip'[p] = w /\ NBX_active'[p][slot] = "known"
    BY <1>1, <1>2, <1>3, <1>4, <1>5, <1>15 DEF Held
  <2>3. t = <<ip'[p], 2 * a + (IF NBX_active'[p][slot] = "known" /\ prog[a].op = "known_prc"
                               THEN 1 ELSE 0)>>
    BY <1>1, <2>1, <2>2, NowNext
  <2>4. t = <<w, 2 * a + 1>>
    BY <1>9, <2>2, <2>3
  <2>5. t \in Moments
    BY <1>7, <2>4 DEF Moments
  <2> QED
    BY <2>1, <2>4, <2>5
<1>22. Counter(p)' /\ Exchanged(p)'
  <2>1. OneTick(prog, Now(p), t, <<a, 1>>)
    BY <1>10, <1>20, <1>21
  <2>2. 1 = 1 /\ a \in DOMAIN prog /\ Exchange(prog, a) => a \in finished'[p]
    BY <1>9 DEF Exchange, Blocking
  <2>3. finished[p] \subseteq finished'[p]
    BY <1>1
  <2> QED
    BY <1>1, <1>6, <1>7, <1>17, <1>21, <2>1, <2>2, <2>3, CounterCounts
<1>23. KnownPart(prog, a, "data") /\ KnownPart(prog, a, "size")
  BY <1>8, <1>9 DEF KnownPart, InBatch
<1>24. Stamp(prog, a, "data") = <<w, 2 * a>> /\ Stamp(prog, a, "size") = <<a, 0>>
  <2>1. Completion(prog, a) = w
    BY <1>7, <1>8, WaitTicks
  <2> QED
    BY <1>9, <2>1 DEF Stamp, Announced
<1>25. cnt = Number(prog, a, "data") % nbx_cycle
  <2>1. PICK n : n = 2 * a
    OBVIOUS
  <2>2. Number(prog, a, "data") = CountBefore(prog, <<w, n + 1>>)
    BY <1>24, <2>1, NumberOf
  <2>3. t = <<w, n + 1>>
    BY <1>21, <2>1
  <2>4. cnt = CountBefore(prog, t) % nbx_cycle
    <3>1. prog' = prog
      BY <1>1
    <3> QED
      BY <1>11, <1>21, <1>22, <3>1 DEF Counter, CountBefore
  <2> QED
    BY <2>2, <2>3, <2>4
<1>26. Quiet(p)
  BY <1>1, ExecuteQuiet
<1>27. Did(p, a, "size") /\ ~Did(p, a, "data")
  BY <1>7, <1>8, <1>10, <1>24 DEF Did, Earlier
<1>28. \A k \in DOMAIN Senders(p, a) :
          [src |-> Senders(p, a)[k], dst |-> p, sz |-> sizes[k]] \in prog[a].sends
  BY <1>6, <1>7, <1>12, <1>23, <1>26, <1>27, SizesArrived
<1>29. \A r \in posted : r.dst = p /\ r.call = a => r.part # "size"
  BY <1>26 DEF Quiet
<1>30. OneStamp(prog, Now(p), t, a, "data")
  BY <1>10, <1>20, <1>21
<1>31. Behind(p)' = Behind(p) \/ (Behind(p)' = Behind(p) + 1 /\ ~Exchange(prog, Behind(p)))
  BY <1>19
<1>32. UNCHANGED <<got, finished>> /\ posts' = [posts EXCEPT ![p] = @ + 1]
       /\ sz_recv_tmp' = sz_recv_tmp
  BY <1>1
<1> QED
  BY <1>7, <1>13, <1>16, <1>17, <1>18, <1>21, <1>22, <1>23, <1>25, <1>28, <1>29,
     <1>30, <1>31, <1>32, PostMoves

\* Only StartKnownSync has a rank exchange sizes outside of a Wait.
LEMMA OnlyStart ==
    ASSUME IInv, NEW p \in Proc, Step(p), pc'[p] = "sizes"
    PROVE  StartKnownSync(p)
<1>1. DOMAIN pc = Proc
  BY Domains
<1>2. CASE QueueUnknown(p)
  BY <1>1, <1>2 DEF QueueUnknown, Running
<1>3. CASE QueueKnown(p) \/ Refused(p) \/ UserProgress(p) \/ Reduce(p) \/ Execute(p)
  BY <1>3 DEF QueueKnown, Refused, UserProgress, Reduce, Execute, Running
<1>4. CASE Wait(p)
  BY <1>1, <1>4 DEF Wait, GoOn
<1>5. CASE WaitSizes(p)
  BY <1>5 DEF WaitSizes, InSlot
<1>6. CASE WaitKnown(p)
  BY <1>1, <1>6 DEF WaitKnown, GoOn
<1>7. CASE WaitUnknown(p)
  BY <1>1, <1>7 DEF WaitUnknown, GoOn
<1>8. CASE WaitProgress(p) \/ WaitAgain(p) \/ KnownSyncData(p) \/ EndKnownSync(p)
  BY <1>1, <1>8 DEF WaitProgress, WaitAgain, KnownSyncData, EndKnownSync
<1> QED
  BY <1>2, <1>3, <1>4, <1>5, <1>6, <1>7, <1>8 DEF Step
----------------------------------------------------------------------------
(* A message is received.                                                  *)
LEMMA TrafficTypes ==
    ASSUME IInv, Traffic
    PROVE  /\ \A m \in flight : Message(m) /\ m.src \in Proc /\ m.dst \in Proc
           /\ \A r \in posted : Receive(r) /\ r.src \in Proc /\ r.dst \in Proc
BY DEF Traffic, IInv, TypeOK

\* A part of a call that both ranks are past, and whose send is under way.
LEMMA StillAwaited ==
    ASSUME IInv, Traffic, NEW m \in flight, m.cls = "known", Did(m.dst, m.call, m.part)
    PROVE  \E t \in posted : /\ t.src = m.src /\ t.dst = m.dst /\ t.call = m.call
                             /\ t.part = m.part /\ t.cnt = m.cnt
<1>1. Message(m) /\ KnownMessage(m)
  BY TrafficTypes DEF Message
<1>2. m.call \in DOMAIN prog /\ KnownPart(prog, m.call, m.part) /\ Did(m.src, m.call, m.part)
  BY <1>1 DEF KnownMessage, KnownOf
<1>3. PICK x \in prog[m.call].sends : x.src = m.src /\ x.dst = m.dst
  BY <1>1 DEF Message, OfProgram
<1>4. m.part \in {"size", "data"}
  BY <1>2 DEF KnownPart
<1>5. Paired(m.call, m.part, x)
  BY <1>2, <1>4 DEF Traffic, Pairing
<1>6. Sent(m.call, m.part, x)
  BY <1>3 DEF Sent
<1>7. Awaited(m.call, m.part, x)
  BY <1>2, <1>3, <1>5, <1>6 DEF Paired
<1>8. PICK t \in posted : t.src = x.src /\ t.dst = x.dst /\ t.call = m.call /\ t.part = m.part
  BY <1>7 DEF Awaited
<1>9. t.cnt = m.cnt
  BY <1>1, <1>8, TrafficTypes DEF Receive, KnownMessage
<1> QED
  BY <1>3, <1>8, <1>9

LEMMA StillUnderWay ==
    ASSUME IInv, Traffic, NEW r \in posted, Did(r.src, r.call, r.part)
    PROVE  \E n \in flight : /\ n.cls = "known" /\ n.src = r.src /\ n.dst = r.dst
                             /\ n.call = r.call /\ n.part = r.part /\ n.cnt = r.cnt
<1>1. Receive(r)
  BY TrafficTypes
<1>2. r.call \in DOMAIN prog /\ KnownPart(prog, r.call, r.part) /\ Did(r.dst, r.call, r.part)
  BY <1>1 DEF Receive, KnownOf
<1>3. PICK x \in prog[r.call].sends : x.src = r.src /\ x.dst = r.dst
  BY <1>1 DEF Receive
<1>4. r.part \in {"size", "data"}
  BY <1>2 DEF KnownPart
<1>5. Paired(r.call, r.part, x)
  BY <1>2, <1>4 DEF Traffic, Pairing
<1>6. Awaited(r.call, r.part, x)
  BY <1>3 DEF Awaited
<1>7. Sent(r.call, r.part, x)
  BY <1>2, <1>3, <1>5, <1>6 DEF Paired
<1>8. PICK n \in flight : /\ n.cls = "known" /\ n.src = x.src /\ n.dst = x.dst
                          /\ n.call = r.call /\ n.part = r.part
  BY <1>7 DEF Sent
<1>9. n.cnt = r.cnt
  <2>1. Message(n)
    BY TrafficTypes
  <2> QED
    BY <1>1, <1>8, <2>1 DEF Receive, Message, KnownMessage
<1> QED
  BY <1>3, <1>8, <1>9

\* Between two ranks the oldest message is that of the oldest receive.
LEMMA MatchAgrees ==
    ASSUME IInv, Traffic, NEW r \in posted, NEW m \in flight, Match(r, m)
    PROVE  /\ m.cls = "known" /\ r.src = m.src /\ r.dst = m.dst
           /\ r.call = m.call /\ r.part = m.part
<1>1. /\ m.cls = "known" /\ r.src = m.src /\ r.dst = m.dst /\ r.cnt = m.cnt
      /\ \A n \in flight : Takes(r, n) => ~SentBefore(n, m)
      /\ \A t \in posted : Takes(t, m) => t.round >= r.round
  BY DEF Match, Takes
<1>2. Message(m) /\ Receive(r) /\ m.src \in Proc /\ m.dst \in Proc
  BY TrafficTypes
<1>3. /\ m.call \in DOMAIN prog /\ KnownPart(prog, m.call, m.part) /\ Did(m.src, m.call, m.part)
      /\ r.call \in DOMAIN prog /\ KnownPart(prog, r.call, r.part) /\ Did(r.dst, r.call, r.part)
      /\ prog \in Programs
  BY <1>1, <1>2 DEF Message, KnownMessage, KnownOf, Receive, IInv
<1>4. PICK s \in Moments, t \in Moments :
         s = Stamp(prog, m.call, m.part) /\ t = Stamp(prog, r.call, r.part)
  BY <1>3, StampOf
<1>5. PICK u \in Moments, v \in Moments : u = Now(m.src) /\ v = Now(m.dst)
  BY <1>2, NowShape
<1>6. Earlier(s, u) /\ Earlier(t, v)
  BY <1>1, <1>3, <1>4, <1>5 DEF Did
<1>7. ASSUME Earlier(s, t)
      PROVE  FALSE
  <2>1. Earlier(s, v)
    BY <1>6, <1>7, EarlierOrder
  <2>2. Did(m.dst, m.call, m.part)
    BY <1>4, <1>5, <2>1 DEF Did
  <2>3. PICK w \in posted : /\ w.src = m.src /\ w.dst = m.dst /\ w.call = m.call
                            /\ w.part = m.part /\ w.cnt = m.cnt
    BY <1>1, <2>2, StillAwaited
  <2>4. w.round >= r.round
    BY <1>1, <2>3 DEF Takes
  <2>5. w.round < r.round
    BY <1>1, <1>4, <1>7, <2>3 DEF Traffic, ReceiveOrder
  <2>6. w.round \in Nat /\ r.round \in Nat
    BY TrafficTypes DEF Receive
  <2> QED
    BY <2>4, <2>5, <2>6
<1>8. ASSUME Earlier(t, s)
      PROVE  FALSE
  <2>1. Earlier(t, u)
    BY <1>6, <1>8, EarlierOrder
  <2>2. Did(r.src, r.call, r.part)
    BY <1>1, <1>4, <1>5, <2>1 DEF Did
  <2>3. PICK n \in flight : /\ n.cls = "known" /\ n.src = r.src /\ n.dst = r.dst
                            /\ n.call = r.call /\ n.part = r.part /\ n.cnt = r.cnt
    BY <2>2, StillUnderWay
  <2>4. ~SentBefore(n, m)
    BY <1>1, <2>3 DEF Takes
  <2>5. n.round < m.round
    BY <1>1, <1>4, <1>8, <2>3 DEF Traffic, SendOrder
  <2> QED
    BY <2>4, <2>5 DEF SentBefore
<1>9. s = t
  BY <1>7, <1>8, EarlierOrder
<1>10. Stamp(prog, r.call, r.part) = Stamp(prog, m.call, m.part)
  BY <1>4, <1>9
<1>11. r.call = m.call /\ r.part = m.part
  BY <1>3, <1>10, StampTells, Zenon
<1> QED
  BY <1>1, <1>11
\* What receiving message m in the receive r does.
Received(r, m) ==
    /\ m.cls = "known" /\ r.src = m.src /\ r.dst = m.dst /\ r.call = m.call /\ r.part = m.part
    /\ flight' = flight \ {m} /\ posted' = posted \ {r}
    /\ posts' = posts
    /\ \A q \in Proc : got'[q] = IF q = r.dst
                                 THEN got[q] \cup {[call |-> r.call, part |-> r.part, sz |-> r.sz, msg |-> m]}
                                 ELSE got[q]

LEMMA MatchEffect ==
    ASSUME IInv, MInv, NEW r \in posted, NEW m \in flight, Match(r, m)
    PROVE  /\ Received(r, m) /\ DOMAIN got' = Proc /\ SameDone
           /\ prog' = prog /\ \A q \in Proc : SameRank(q)
           /\ \A q \in Proc : Place(q) /\ Now(q)' = Now(q) /\ Behind(q)' = Behind(q)
           /\ \A q \in Proc : Slotted(q)' /\ Base(q)' /\ Counter(q)' /\ Exchanged(q)'
<1>1. /\ m.cls = "known" /\ r.src = m.src /\ r.dst = m.dst
      /\ r.call = m.call /\ r.part = m.part
  BY MatchAgrees DEF MInv
<1>2. /\ flight' = flight \ {m} /\ posted' = posted \ {r}
      /\ got' = [got EXCEPT ![r.dst] =
                    @ \cup {[call |-> r.call, part |-> r.part, sz |-> r.sz, msg |-> m]}]
      /\ UNCHANGED <<prog, ip, pc, at, NBX_cnt, cnt_base, qcnt, NBX_active, reached,
                     bar_req, req, slotCall, finished, posts, colls>>
  BY DEF Match
<1>3. DOMAIN got = Proc
  BY DEF MInv, Kept
<1>4. Received(r, m)
  BY <1>1, <1>2, <1>3 DEF Received
<1>5. DOMAIN got' = Proc
  BY <1>2, <1>3
<1>6. \A q \in Proc : SameRank(q) /\ Place(q) /\ NBX_cnt'[q] = NBX_cnt[q] /\ cnt_base'[q] = cnt_base[q]
  BY <1>2 DEF SameRank, MInv
<1>7. \A q \in Proc : /\ Slotted(q)' /\ Base(q)' /\ Counter(q)' /\ Exchanged(q)'
                      /\ Now(q)' = Now(q)
  BY <1>2, <1>6, RankStays
<1>8. \A q \in Proc : Behind(q)' = Behind(q)
  BY <1>2, <1>6, SameWhereabouts
<1>9. SameDone
  BY <1>2, <1>7 DEF SameDone, Did
<1> QED
  BY <1>2, <1>4, <1>5, <1>6, <1>7, <1>8, <1>9

LEMMA MatchTraffic ==
    ASSUME IInv, Traffic, prog' = prog, OneEach(prog), SameDone,
           \A q \in Proc : Behind(q)' = Behind(q),
           NEW r \in posted, NEW m \in flight, Received(r, m)
    PROVE  Traffic'
<1>1. /\ m.cls = "known" /\ r.src = m.src /\ r.dst = m.dst /\ r.call = m.call /\ r.part = m.part
      /\ flight' = flight \ {m} /\ posted' = posted \ {r} /\ posts' = posts
  BY DEF Received
<1>2. Message(m) /\ KnownMessage(m) /\ Receive(r) /\ m.src \in Proc /\ m.dst \in Proc
  BY <1>1, TrafficTypes DEF Message
<1>3. /\ m.call \in DOMAIN prog /\ KnownPart(prog, m.call, m.part)
      /\ Did(m.src, m.call, m.part) /\ Did(m.dst, m.call, m.part)
  BY <1>1, <1>2 DEF KnownMessage, KnownOf, Receive
<1>4. ASSUME NEW n \in flight'
      PROVE  Message(n)'
  <2>1. Message(n) /\ n.src \in Proc
    BY <1>1, <1>4, TrafficTypes
  <2>2. KnownMessage(n) => KnownMessage(n)'
    BY <2>1 DEF KnownMessage, KnownOf, SameDone
  <2>3. SparseMessage(n) => SparseMessage(n)'
    BY DEF SparseMessage
  <2>4. OfProgram(n.src, n.dst, n.sz, n.call)'
    BY <2>1 DEF OfProgram, Message
  <2> QED
    BY <1>1, <2>1, <2>2, <2>3, <2>4 DEF Message
<1>5. ASSUME NEW t \in posted'
      PROVE  Receive(t)'
  <2>1. Receive(t) /\ t.dst \in Proc
    BY <1>1, <1>5, TrafficTypes
  <2>2. KnownPart(prog, t.call, t.part) /\ t.call \in DOMAIN prog
    BY <2>1 DEF Receive, KnownOf
  <2>3. Did(t.dst, t.call, t.part)'
    BY <2>1, <2>2 DEF Receive, SameDone
  <2>4. t.part = "size" => ~Did(t.dst, t.call, "data")'
    <3>1. t.part = "size" => KnownPart(prog, t.call, "data")
      BY <2>2 DEF KnownPart
    <3> QED
      BY <2>1, <2>2, <3>1 DEF Receive, SameDone
  <2>5. t.pos \in DOMAIN Senders(t.dst, t.call)' /\ Senders(t.dst, t.call)'[t.pos] = t.src
    BY <2>1 DEF Receive, Senders
  <2> QED
    BY <1>1, <2>1, <2>3, <2>4, <2>5 DEF Receive, KnownOf
<1>6. SendOrder' /\ ReceiveOrder'
  <2>1. flight' \subseteq flight /\ posted' \subseteq posted
    BY <1>1
  <2>2. SendOrder'
    BY <2>1 DEF Traffic, SendOrder
  <2>3. ReceiveOrder'
    BY <2>1 DEF Traffic, ReceiveOrder
  <2> QED
    BY <2>2, <2>3
<1>7. Pairing'
  <2>1. ASSUME NEW c \in DOMAIN prog, NEW part \in {"size", "data"}, KnownPart(prog, c, part),
               NEW x \in prog[c].sends
        PROVE  Paired(c, part, x)'
    <3>1. Paired(c, part, x)
      BY <2>1 DEF Traffic, Pairing
    <3>2. x.src \in Proc /\ x.dst \in Proc
      BY ProgramType DEF IInv
    <3>3. /\ Did(x.src, c, part)' <=> Did(x.src, c, part)
          /\ Did(x.dst, c, part)' <=> Did(x.dst, c, part)
      BY <2>1, <3>2 DEF SameDone
    <3>4. CASE c = m.call /\ part = m.part /\ x.src = m.src /\ x.dst = m.dst
      <4>1. ~Sent(c, part, x)'
        <5> SUFFICES ASSUME NEW n \in flight', n.cls = "known", n.src = x.src, n.dst = x.dst,
                            n.call = c, n.part = part
                     PROVE  FALSE
          BY DEF Sent
        <5>1. n \in flight /\ n # m
          BY <1>1
        <5> QED
          BY <1>1, <3>4, <5>1 DEF Traffic, SendOrder
      <4>2. ~Awaited(c, part, x)'
        <5> SUFFICES ASSUME NEW t \in posted', t.src = x.src, t.dst = x.dst,
                            t.call = c, t.part = part
                     PROVE  FALSE
          BY DEF Awaited
        <5>1. t \in posted /\ t # r
          BY <1>1
        <5> QED
          BY <1>1, <3>4, <5>1 DEF Traffic, ReceiveOrder
      <4> QED
        BY <1>3, <3>3, <3>4, <4>1, <4>2 DEF Paired
    <3>5. CASE ~(c = m.call /\ part = m.part /\ x.src = m.src /\ x.dst = m.dst)
      <4>1. Sent(c, part, x)' <=> Sent(c, part, x)
        BY <1>1, <3>5 DEF Sent
      <4>2. Awaited(c, part, x)' <=> Awaited(c, part, x)
        BY <1>1, <3>5 DEF Awaited
      <4> QED
        BY <3>1, <3>3, <4>1, <4>2 DEF Paired
    <3> QED
      BY <3>4, <3>5
  <2> QED
    BY <2>1 DEF Pairing
<1>8. NothingLost'
  <2>1. ASSUME NEW c \in DOMAIN prog, NEW x \in prog[c].sends
        PROVE  /\ Exchange(prog, c) /\ c < Behind(x.src)' => SparseUnderWay(c, x)' \/ Got(c, x)'
               /\ KnownPart(prog, c, "data") /\ Did(x.dst, c, "data")'
                    => Awaited(c, "data", x)' \/ Got(c, x)'
    <3>1. /\ Exchange(prog, c) /\ c < Behind(x.src) => SparseUnderWay(c, x) \/ Got(c, x)
          /\ KnownPart(prog, c, "data") /\ Did(x.dst, c, "data") => Awaited(c, "data", x) \/ Got(c, x)
      BY DEF Traffic, NothingLost
    <3>2. x.src \in Proc /\ x.dst \in Proc
      BY ProgramType DEF IInv
    <3>3. SparseUnderWay(c, x) => SparseUnderWay(c, x)'
      BY <1>1 DEF SparseUnderWay
    <3>4. Got(c, x) => Got(c, x)'
      BY <3>2 DEF Got, Received
    <3>5. Awaited(c, "data", x) => Awaited(c, "data", x)' \/ Got(c, x)'
      <4> SUFFICES ASSUME NEW t \in posted, t.src = x.src, t.dst = x.dst, t.call = c, t.part = "data"
                   PROVE  Awaited(c, "data", x)' \/ Got(c, x)'
        BY DEF Awaited
      <4>1. CASE t # r
        BY <1>1, <4>1 DEF Awaited
      <4>2. CASE t = r
        <5>1. PICK y \in prog[r.call].sends : y.src = r.src /\ y.dst = r.dst /\ r.sz = y.sz
          BY <1>2, <4>2 DEF Receive
        <5>2. y = x
          BY <4>2, <5>1 DEF OneEach
        <5>3. PICK g : g = [call |-> r.call, part |-> r.part, sz |-> r.sz, msg |-> m]
          OBVIOUS
        <5>4. g \in got'[x.dst]
          BY <3>2, <4>2, <5>3 DEF Received
        <5>5. /\ g.call = c /\ g.part = "data" /\ g.sz = x.sz
              /\ g.msg.call = c /\ g.msg.part = "data" /\ g.msg.src = x.src
          BY <1>1, <4>2, <5>1, <5>2, <5>3
        <5> QED
          BY <5>4, <5>5 DEF Got
      <4> QED
        BY <4>1, <4>2
    <3>6. KnownPart(prog, c, "data") => (Did(x.dst, c, "data")' <=> Did(x.dst, c, "data"))
      BY <3>2 DEF SameDone
    <3>7. Behind(x.src)' = Behind(x.src)
      BY <3>2
    <3> QED
      BY <3>1, <3>3, <3>4, <3>5, <3>6, <3>7
  <2> QED
    BY <2>1 DEF NothingLost
<1> QED
  BY <1>4, <1>5, <1>6, <1>7, <1>8 DEF Traffic
\* The size is written at its place, if the vector is where it was.
LEMMA SizeWritten ==
    ASSUME IInv, MInv, NEW r \in posted, NEW m \in flight, Match(r, m)
    PROVE  /\ sz_recv_tmp' \in [Proc -> [where : Nat, val : Seq(Nat)]]
           /\ \A q \in Proc :
                /\ sz_recv_tmp'[q].where = sz_recv_tmp[q].where
                /\ \A k \in DOMAIN sz_recv_tmp[q].val :
                     /\ k \in DOMAIN sz_recv_tmp'[q].val
                     /\ sz_recv_tmp'[q].val[k] =
                          IF /\ q = r.dst /\ k = r.pos /\ r.part = "size"
                             /\ r.where = sz_recv_tmp[q].where
                          THEN m.sz ELSE sz_recv_tmp[q].val[k]
<1>1. sz_recv_tmp \in [Proc -> [where : Nat, val : Seq(Nat)]]
  BY DEF MInv, Kept
<1>2. m.sz \in Nat /\ r.dst \in Proc
  <2>1. Message(m) /\ r.dst \in Proc
    BY TrafficTypes DEF MInv
  <2>2. m.call \in DOMAIN prog /\ [src |-> m.src, dst |-> m.dst, sz |-> m.sz] \in prog[m.call].sends
    BY <2>1 DEF Message, OfProgram
  <2> QED
    BY <2>1, <2>2, ProgramType DEF IInv
<1>3. CASE r.part = "size" /\ r.where = sz_recv_tmp[r.dst].where
  <2>1. sz_recv_tmp' = [sz_recv_tmp EXCEPT ![r.dst].val[r.pos] = m.sz]
    BY <1>3 DEF Match
  <2>2. PICK v : v = sz_recv_tmp[r.dst]
    OBVIOUS
  <2>3. v \in [where : Nat, val : Seq(Nat)] /\ v.val \in Seq(Nat)
    BY <1>1, <1>2, <2>2
  <2>4. PICK s : s = [v.val EXCEPT ![r.pos] = m.sz]
    OBVIOUS
  <2>5. s \in Seq(Nat) /\ DOMAIN s = DOMAIN v.val
    <3>1. v.val \in [1..Len(v.val) -> Nat] /\ Len(v.val) \in Nat
      BY <2>3
    <3>2. s \in [1..Len(v.val) -> Nat]
      BY <1>2, <2>4, <3>1
    <3> QED
      BY <3>1, <3>2
  <2>6. \A k \in DOMAIN v.val : s[k] = IF k = r.pos THEN m.sz ELSE v.val[k]
    BY <2>4
  <2>7. sz_recv_tmp' = [sz_recv_tmp EXCEPT ![r.dst] = [v EXCEPT !.val = s]]
    BY <2>1, <2>2, <2>4
  <2>8. [v EXCEPT !.val = s] = [where |-> v.where, val |-> s]
    BY <2>3
  <2>9. sz_recv_tmp'[r.dst] = [where |-> v.where, val |-> s]
        /\ \A q \in Proc \ {r.dst} : sz_recv_tmp'[q] = sz_recv_tmp[q]
    BY <1>1, <1>2, <2>7, <2>8
  <2>10. [where |-> v.where, val |-> s] \in [where : Nat, val : Seq(Nat)]
    BY <2>3, <2>5
  <2>11. sz_recv_tmp' \in [Proc -> [where : Nat, val : Seq(Nat)]]
    BY <1>1, <1>2, <2>7, <2>8, <2>10
  <2>12. ASSUME NEW q \in Proc
         PROVE  /\ sz_recv_tmp'[q].where = sz_recv_tmp[q].where
                /\ \A k \in DOMAIN sz_recv_tmp[q].val :
                     /\ k \in DOMAIN sz_recv_tmp'[q].val
                     /\ sz_recv_tmp'[q].val[k] =
                          IF /\ q = r.dst /\ k = r.pos /\ r.part = "size"
                             /\ r.where = sz_recv_tmp[q].where
                          THEN m.sz ELSE sz_recv_tmp[q].val[k]
    <3>1. CASE q = r.dst
      BY <1>3, <2>2, <2>5, <2>6, <2>9, <3>1
    <3>2. CASE q # r.dst
      BY <2>9, <3>2
    <3> QED
      BY <3>1, <3>2
  <2> QED
    BY <2>11, <2>12
<1>4. CASE ~(r.part = "size" /\ r.where = sz_recv_tmp[r.dst].where)
  <2>1. sz_recv_tmp' = sz_recv_tmp
    BY <1>4 DEF Match
  <2> QED
    BY <1>1, <1>4, <2>1
<1> QED
  BY <1>3, <1>4

LEMMA MatchSizes ==
    ASSUME IInv, MInv, TagsDisciplined, NEW r \in posted, NEW m \in flight, Match(r, m),
           NEW q \in Proc
    PROVE  SizesKnown(q)'
<1>1. prog' = prog /\ Received(r, m) /\ SameDone /\ SizesKnown(q)
  BY MatchEffect DEF Place
<1>2. /\ r.src = m.src /\ r.dst = m.dst /\ r.call = m.call /\ r.part = m.part
      /\ posted' = posted \ {r}
  BY <1>1 DEF Received
<1>3. Message(m) /\ Receive(r) /\ prog \in Programs /\ r.dst \in Proc
  BY TrafficTypes DEF MInv, IInv
<1>4. /\ r.call \in DOMAIN prog /\ KnownPart(prog, r.call, r.part) /\ Did(r.dst, r.call, r.part)
      /\ r.part = "size" => ~Did(r.dst, r.call, "data")
      /\ r.pos \in DOMAIN Senders(r.dst, r.call) /\ Senders(r.dst, r.call)[r.pos] = m.src
  BY <1>2, <1>3 DEF Receive, KnownOf
<1>5. [src |-> m.src, dst |-> m.dst, sz |-> m.sz] \in prog[r.call].sends
  BY <1>2, <1>3 DEF Message, OfProgram
<1>6. ASSUME NEW c \in DOMAIN prog, KnownPart(prog, c, "size"), Did(q, c, "size")',
             ~Did(q, c, "data")', NEW k \in DOMAIN Senders(q, c)
      PROVE  /\ k \in DOMAIN sz_recv_tmp'[q].val
             /\ \/ \E t \in posted' : /\ t.dst = q /\ t.call = c /\ t.part = "size" /\ t.pos = k
                                      /\ t.where = sz_recv_tmp'[q].where
                \/ [src |-> Senders(q, c)[k], dst |-> q, sz |-> sz_recv_tmp'[q].val[k]]
                      \in prog[c].sends
  <2>1. KnownPart(prog, c, "data")
    BY <1>6 DEF KnownPart
  <2>2. Did(q, c, "size") /\ ~Did(q, c, "data")
    BY <1>1, <1>6, <2>1 DEF SameDone
  <2>3. /\ k \in DOMAIN sz_recv_tmp[q].val
        /\ \/ \E t \in posted : /\ t.dst = q /\ t.call = c /\ t.part = "size" /\ t.pos = k
                                /\ t.where = sz_recv_tmp[q].where
           \/ [src |-> Senders(q, c)[k], dst |-> q, sz |-> sz_recv_tmp[q].val[k]]
                 \in prog[c].sends
    BY <1>1, <1>6, <2>2 DEF SizesKnown
  <2>4. /\ k \in DOMAIN sz_recv_tmp'[q].val
        /\ sz_recv_tmp'[q].where = sz_recv_tmp[q].where
        /\ sz_recv_tmp'[q].val[k] =
             IF q = r.dst /\ k = r.pos /\ r.part = "size" /\ r.where = sz_recv_tmp[q].where
             THEN m.sz ELSE sz_recv_tmp[q].val[k]
    BY <2>3, SizeWritten
  <2>5. CASE q = r.dst /\ k = r.pos /\ r.part = "size" /\ r.where = sz_recv_tmp[q].where
    <3>1. PICK t \in Moments : t = Now(q)
      BY NowShape
    <3>2. /\ Earlier(Stamp(prog, c, "size"), t) /\ ~Earlier(Stamp(prog, c, "data"), t)
          /\ Earlier(Stamp(prog, r.call, "size"), t) /\ ~Earlier(Stamp(prog, r.call, "data"), t)
      BY <1>4, <2>2, <2>5, <3>1 DEF Did
    <3>3. KnownPart(prog, r.call, "size")
      BY <1>4, <2>5
    <3>4. r.call = c
      BY <1>3, <1>4, <1>6, <3>2, <3>3, OneWindow
    <3>5. Senders(q, c)[k] = m.src /\ m.dst = q
      BY <1>2, <1>4, <2>5, <3>4
    <3>6. sz_recv_tmp'[q].val[k] = m.sz
      BY <2>4, <2>5
    <3>7. [src |-> Senders(q, c)[k], dst |-> q, sz |-> sz_recv_tmp'[q].val[k]] \in prog[c].sends
      BY <1>5, <3>4, <3>5, <3>6
    <3> QED
      BY <2>4, <3>7
  <2>6. CASE ~(q = r.dst /\ k = r.pos /\ r.part = "size" /\ r.where = sz_recv_tmp[q].where)
    <3>1. sz_recv_tmp'[q].val[k] = sz_recv_tmp[q].val[k]
      BY <2>4, <2>6
    <3>2. ASSUME NEW t \in posted, t.dst = q, t.call = c, t.part = "size", t.pos = k,
                 t.where = sz_recv_tmp[q].where
          PROVE  t \in posted'
      BY <1>2, <2>6, <3>2
    <3> QED
      BY <2>3, <2>4, <3>1, <3>2
  <2> QED
    BY <2>5, <2>6
<1>7. \A c : Senders(q, c)' = Senders(q, c)
  BY <1>1 DEF Senders
<1> QED
  BY <1>1, <1>6, <1>7 DEF SizesKnown

LEMMA MatchMatch ==
    ASSUME IInv, MInv, TagsDisciplined, NEW r \in posted, NEW m \in flight, Match(r, m)
    PROVE  MInv'
<1>1. /\ Received(r, m) /\ DOMAIN got' = Proc /\ SameDone
      /\ prog' = prog /\ \A q \in Proc : SameRank(q)
      /\ \A q \in Proc : Place(q) /\ Now(q)' = Now(q) /\ Behind(q)' = Behind(q)
      /\ \A q \in Proc : Slotted(q)' /\ Base(q)' /\ Counter(q)' /\ Exchanged(q)'
  BY MatchEffect
<1>2. Kept'
  <2>1. sz_recv_tmp' \in [Proc -> [where : Nat, val : Seq(Nat)]]
    BY SizeWritten
  <2>2. posts' = posts
    BY <1>1 DEF Received
  <2> QED
    BY <1>1, <2>1, <2>2 DEF MInv, Kept
<1>3. \A q \in Proc : Place(q)'
  <2>1. \A q \in Proc : SizesKnown(q)'
    BY MatchSizes
  <2> QED
    BY <1>1, <2>1 DEF Place
<1>4. Traffic'
  <2>1. OneEach(prog)
    BY ProgramTags DEF IInv
  <2>2. Traffic
    BY DEF MInv
  <2> QED
    BY <1>1, <2>1, <2>2, MatchTraffic
<1>5. QueueRightAssociation'
  <2>1. ASSUME NEW q \in Proc, NEW g \in got'[q]
        PROVE  g.call = g.msg.call /\ g.part = g.msg.part
    <3>1. CASE g \in got[q]
      BY <3>1 DEF MInv, QueueRightAssociation
    <3>2. CASE g \notin got[q]
      <4>1. g = [call |-> r.call, part |-> r.part, sz |-> r.sz, msg |-> m]
        BY <1>1, <2>1, <3>2 DEF Received
      <4>2. r.call = m.call /\ r.part = m.part
        BY <1>1 DEF Received
      <4> QED
        BY <4>1, <4>2
    <3> QED
      BY <3>1, <3>2
  <2> QED
    BY <2>1 DEF QueueRightAssociation
<1>6. QueueDelivered'
  <2>1. ASSUME NEW q \in Proc, NEW c \in finished'[q], NEW x \in prog[c].sends, x.dst = q
        PROVE  \E g \in got'[q] :
                 /\ g.call = c /\ g.part = "data" /\ g.sz = x.sz
                 /\ g.msg.call = c /\ g.msg.part = "data" /\ g.msg.src = x.src
    <3>1. c \in finished[q]
      BY <1>1 DEF SameRank
    <3>2. PICK g \in got[q] :
             /\ g.call = c /\ g.part = "data" /\ g.sz = x.sz
             /\ g.msg.call = c /\ g.msg.part = "data" /\ g.msg.src = x.src
      BY <2>1, <3>1 DEF MInv, QueueDelivered
    <3>3. g \in got'[q]
      BY <1>1, <3>2 DEF Received
    <3> QED
      BY <3>2, <3>3
  <2> QED
    BY <1>1, <2>1 DEF QueueDelivered
<1> QED
  BY <1>2, <1>3, <1>4, <1>5, <1>6 DEF MInv
----------------------------------------------------------------------------
(* The beginning, and the steps in which nothing of this changes.          *)
LEMMA StillMatch ==
    ASSUME IInv, MInv,
           UNCHANGED <<prog, ip, pc, at, NBX_cnt, cnt_base, qcnt, NBX_active, reached, bar_req, req,
                       sz_recv_tmp, slotCall, finished, got, posts, flight, posted, colls>>
    PROVE  MInv'
<1>1. \A q \in Proc : SameRank(q) /\ Place(q)
  BY DEF SameRank, MInv
<1>2. \A q \in Proc : Place(q)' /\ Now(q)' = Now(q) /\ Behind(q)' = Behind(q)
  BY <1>1, PlaceStays, RankStays, SameWhereabouts
<1>3. SameDone
  BY <1>2 DEF SameDone, Did
<1>4. SameBegun
  BY <1>2 DEF SameBegun
<1>5. Traffic'
  <2>1. Traffic
    BY DEF MInv
  <2> QED
    BY <1>3, <1>4, <2>1, TrafficStays
<1>6. Kept'
  BY DEF MInv, Kept
<1>7. QueueRightAssociation' /\ QueueDelivered'
  BY DEF MInv, QueueRightAssociation, QueueDelivered
<1> QED
  BY <1>2, <1>5, <1>6, <1>7 DEF MInv

LEMMA InitMatch ==
    ASSUME Init
    PROVE  MInv /\ AtSizes
<1>1. IInv /\ prog \in Programs
  BY InitInv DEF Init
<1>2. /\ \A p \in Proc :
           /\ ip[p] = 1 /\ pc[p] = "app" /\ qcnt[p] = -1 /\ finished[p] = {} /\ got[p] = {}
           /\ NBX_cnt[p] = 0 /\ posts[p] = 0 /\ sz_recv_tmp[p] = [where |-> 0, val |-> <<>>]
           /\ \A i \in Slots : NBX_active[p][i] = "unactive"
      /\ flight = {} /\ posted = {}
  BY DEF Init
<1>3. \A c \in DOMAIN prog : c \in Nat /\ c >= 1
  BY <1>1, ProgramOf
<1>4. \A e \in Ticks(prog) : ~Earlier(TickAt(prog, e), <<1, 0>>)
  <2> SUFFICES ASSUME NEW e \in Ticks(prog)
               PROVE  ~Earlier(TickAt(prog, e), <<1, 0>>)
    OBVIOUS
  <2>1. /\ TickAt(prog, e) = <<Completion(prog, e[1]), 2 * e[1] + e[2] - 1>>
        /\ e[1] \in Nat /\ e[1] >= 1 /\ e[2] \in {1, 2} /\ e[1] \in DOMAIN prog
    BY <1>1, TicksType, TickShape
  <2>2. Completion(prog, e[1]) \in Nat /\ Completion(prog, e[1]) >= 1
    <3>1. Completion(prog, e[1]) \in e[1]..(Len(prog) + 1) /\ Len(prog) \in Nat
      BY <1>1, <2>1, CompletionOf, ProgramOf
    <3> QED
      BY <2>1, <3>1
  <2> QED
    BY <2>1, <2>2 DEF Earlier
<1>5. ASSUME NEW c \in DOMAIN prog, NEW part, KnownPart(prog, c, part)
      PROVE  ~Earlier(Stamp(prog, c, part), <<1, 0>>)
  <2>1. PICK s \in Moments : s = Stamp(prog, c, part)
    BY <1>1, <1>5, StampOf
  <2>2. Earlier(<<c, 0>>, s) \/ s = <<c, 0>>
    BY <1>1, <1>5, <2>1, StampOf
  <2>3. s = <<s[1], s[2]>> /\ s[1] \in Int /\ s[2] \in Int
    BY DEF Moments
  <2> QED
    BY <1>3, <2>1, <2>2, <2>3 DEF Earlier
<1>6. ASSUME NEW p \in Proc
      PROVE  /\ Place(p) /\ Behind(p) = 1
             /\ \A c \in DOMAIN prog : \A part : KnownPart(prog, c, part) => ~Did(p, c, part)
  <2>1. Now(p) = <<1, 0>> /\ ~Waiting(p) /\ ~InSync(p) /\ Behind(p) = 1
    BY <1>1, <1>2, NowShape DEF Waiting, InSync, Behind
  <2>2. \A c \in DOMAIN prog : \A part : KnownPart(prog, c, part) => ~Did(p, c, part)
    BY <1>5, <2>1 DEF Did
  <2>3. SlotNumbers(p)
    <3>1. SlotsBefore(prog, 1) = {}
      BY DEF SlotsBefore
    <3>2. SlotIndex(prog, 1) = 0
      BY <3>1, FS_EmptySet DEF SlotIndex
    <3> QED
      BY <1>2, <3>2 DEF SlotNumbers, Live
  <2>4. SlotCalls(p)
    BY <1>2 DEF SlotCalls
  <2>5. SizesFirst(p)
    BY <1>2 DEF SizesFirst, Live
  <2>6. FirstSlot(p)
    <3>1. ~Pending(prog, 1, {"sync"})
      BY DEF Pending
    <3> QED
      BY <1>2, <3>1, SlotsAreNat DEF FirstSlot
  <2>7. Counter(p)
    <3>1. {e \in Ticks(prog) : Earlier(TickAt(prog, e), <<1, 0>>)} = {}
      BY <1>4
    <3>2. CountBefore(prog, <<1, 0>>) = 0
      BY <3>1, FS_EmptySet DEF CountBefore
    <3>3. 0 % nbx_cycle = 0
      BY QueueAssumption
    <3> QED
      BY <1>2, <2>1, <3>2, <3>3 DEF Counter
  <2>8. Base(p)
    BY <1>2 DEF Base
  <2>9. Exchanged(p)
    <3> SUFFICES ASSUME NEW c \in DOMAIN prog, Exchange(prog, c)
                 PROVE  ~Ends(prog, c, Now(p))
      BY DEF Exchanged
    <3>1. Counts(prog, c, 1)
      BY DEF Counts, Exchange
    <3>2. <<c, 1>> \in Ticks(prog)
      BY <3>1 DEF Ticks
    <3> QED
      BY <1>4, <2>1, <3>2 DEF Ends
  <2>10. SizesKnown(p)
    BY <2>2 DEF SizesKnown
  <2> QED
    BY <2>1, <2>2, <2>3, <2>4, <2>5, <2>6, <2>7, <2>8, <2>9, <2>10 DEF Place, Slotted
<1>7. Kept
  <2>1. posts \in [Proc -> Nat] /\ DOMAIN got = Proc
    BY DEF Init
  <2>2. [where |-> 0, val |-> <<>>] \in [where : Nat, val : Seq(Nat)]
    OBVIOUS
  <2>3. sz_recv_tmp \in [Proc -> [where : Nat, val : Seq(Nat)]]
    BY <2>2 DEF Init
  <2> QED
    BY <2>1, <2>3 DEF Kept
<1>8. Pairing
  <2> SUFFICES ASSUME NEW c \in DOMAIN prog, NEW part \in {"size", "data"},
                      KnownPart(prog, c, part), NEW x \in prog[c].sends
               PROVE  Paired(c, part, x)
    BY DEF Pairing
  <2>1. x.src \in Proc /\ x.dst \in Proc
    BY <1>1, ProgramType
  <2> QED
    BY <1>6, <2>1 DEF Paired
<1>9. NothingLost
  <2> SUFFICES ASSUME NEW c \in DOMAIN prog, NEW x \in prog[c].sends
               PROVE  /\ ~(c < Behind(x.src))
                      /\ KnownPart(prog, c, "data") => ~Did(x.dst, c, "data")
    BY DEF NothingLost
  <2>1. x.src \in Proc /\ x.dst \in Proc
    BY <1>1, ProgramType
  <2> QED
    BY <1>3, <1>6, <2>1
<1>10. Traffic
  BY <1>2, <1>8, <1>9 DEF Traffic, SendOrder, ReceiveOrder
<1>11. QueueRightAssociation /\ QueueDelivered
  BY <1>2 DEF QueueRightAssociation, QueueDelivered
<1>12. AtSizes
  BY <1>2 DEF AtSizes
<1> QED
  BY <1>6, <1>7, <1>10, <1>11, <1>12 DEF MInv

----------------------------------------------------------------------------
(* The theorems.                                                           *)
LEMMA StepMatch ==
    ASSUME IInv, IInv', MInv, AtSizes, TagsDisciplined, NEW p \in Proc, Step(p)
    PROVE  MInv'
<1>1. Disciplined
  BY DEF TagsDisciplined
<1>2. CASE QueueUnknown(p) \/ QueueKnown(p) \/ Refused(p) \/ UserProgress(p)
  BY <1>2, QueueUnknownMatch, QueueKnownMatch, RefusedMatch, UserProgressMatch
<1>3. CASE Wait(p) \/ WaitSizes(p) \/ WaitKnown(p)
  BY <1>1, <1>3, WaitMatch, WaitSizesMatch, WaitKnownMatch
<1>4. CASE WaitProgress(p) \/ WaitUnknown(p) \/ WaitAgain(p)
  BY <1>4, WaitProgressMatch, WaitUnknownMatch, SyncDoneMatch, WaitAgainMatch
<1>5. CASE StartKnownSync(p) \/ KnownSyncData(p) \/ EndKnownSync(p)
  BY <1>5, StartKnownSyncMatch, KnownSyncDataMatch, EndKnownSyncMatch
<1>6. CASE Reduce(p) \/ Execute(p)
  BY <1>6, ReduceMatch, ExecuteMatch
<1> QED
  BY <1>2, <1>3, <1>4, <1>5, <1>6 DEF Step

LEMMA StepLeaves ==
    ASSUME IInv, NEW p \in Proc, Step(p)
    PROVE  prog' = prog /\ \A q \in Proc \ {p} : pc'[q] = pc[q] /\ ip'[q] = ip[q]
<1>1. DOMAIN pc = Proc /\ DOMAIN ip = Proc
  BY Domains
<1>2. CASE QueueUnknown(p) \/ QueueKnown(p) \/ Refused(p)
  BY <1>1, <1>2 DEF QueueUnknown, QueueKnown, Refused, NextCall
<1>3. CASE UserProgress(p) \/ WaitProgress(p)
  BY <1>1, <1>3 DEF UserProgress, WaitProgress, progressCommunication, NextCall
<1>4. CASE Wait(p)
  BY <1>1, <1>4 DEF Wait, GoOn, NextCall
<1>5. CASE WaitKnown(p)
  BY <1>1, <1>5 DEF WaitKnown, Free, GoOn, NextCall
<1>6. CASE WaitUnknown(p)
  BY <1>1, <1>6 DEF WaitUnknown, Free, GoOn, NextCall
<1>7. CASE WaitSizes(p) \/ WaitAgain(p) \/ StartKnownSync(p) \/ KnownSyncData(p)
  BY <1>1, <1>7 DEF WaitSizes, WaitAgain, StartKnownSync, KnownSyncData
<1>8. CASE EndKnownSync(p) \/ Reduce(p) \/ Execute(p)
  BY <1>1, <1>8 DEF EndKnownSync, Reduce, Execute, NextCall
<1> QED
  BY <1>2, <1>3, <1>4, <1>5, <1>6, <1>7, <1>8 DEF Step

LEMMA StepSizes ==
    ASSUME IInv, AtSizes, NEW p \in Proc, Step(p)
    PROVE  AtSizes'
<1>1. prog' = prog /\ \A q \in Proc \ {p} : pc'[q] = pc[q] /\ ip'[q] = ip[q]
  BY StepLeaves
<1>2. ASSUME pc'[p] = "sizes"
      PROVE  prog[ip'[p]].op = "known_prc_sync"
  <2>1. StartKnownSync(p)
    BY <1>2, OnlyStart
  <2>2. DOMAIN pc = Proc
    BY Domains
  <2> QED
    BY <1>2, <2>1, <2>2 DEF StartKnownSync, Call
<1>3. \A q \in Proc : pc'[q] = "sizes" => prog[ip'[q]].op = "known_prc_sync"
  BY <1>1, <1>2 DEF AtSizes, Call
<1> QED
  BY <1>1, <1>3 DEF AtSizes, Call

LEMMA NextMatch ==
    ASSUME IInv, MInv, AtSizes, TagsDisciplined, [Next]_vars
    PROVE  IInv' /\ MInv' /\ AtSizes'
<1>1. Disciplined
  BY DEF TagsDisciplined
<1>2. IInv'
  BY <1>1, NextInv
<1>3. ASSUME NEW p \in Proc, Step(p)
      PROVE  MInv' /\ AtSizes'
  BY <1>2, <1>3, StepMatch, StepSizes
<1>4. ASSUME NEW r \in posted, NEW m \in flight, Match(r, m)
      PROVE  MInv' /\ AtSizes'
  <2>1. MInv'
    BY <1>4, MatchMatch
  <2>2. AtSizes'
    BY <1>4 DEF Match, AtSizes, Call
  <2> QED
    BY <2>1, <2>2
<1>5. ASSUME NEW r \in reducing, Deliver(r)
      PROVE  MInv' /\ AtSizes'
  <2>1. UNCHANGED <<prog, ip, pc, at, NBX_cnt, cnt_base, qcnt, NBX_active, reached, bar_req, req,
                    sz_recv_tmp, slotCall, finished, got, posts, flight, posted, colls>>
    BY <1>5 DEF Deliver, rank
  <2>2. AtSizes'
    BY <2>1 DEF AtSizes, Call
  <2> QED
    BY <2>1, <2>2, StillMatch
<1>6. ASSUME Finished \/ UNCHANGED vars
      PROVE  MInv' /\ AtSizes'
  <2>1. UNCHANGED <<prog, ip, pc, at, NBX_cnt, cnt_base, qcnt, NBX_active, reached, bar_req, req,
                    sz_recv_tmp, slotCall, finished, got, posts, flight, posted, colls>>
    BY <1>6 DEF Finished, vars, rank, mpi
  <2>2. AtSizes'
    BY <2>1 DEF AtSizes, Call
  <2> QED
    BY <2>1, <2>2, StillMatch
<1> QED
  BY <1>2, <1>3, <1>4, <1>5, <1>6 DEF Next

(* The inductive invariant holds for every program that is TagsDisciplined:*)
(* how far a rank is tells its NBX_cnt, its slots and the tags of all that *)
(* it sends and awaits, and between two ranks the sends and the receives   *)
(* that are under way correspond.                                          *)
THEOREM MatchInvariant ==
    ASSUME TagsDisciplined
    PROVE  Spec => [](IInv /\ MInv /\ AtSizes)
<1>1. Init => IInv /\ MInv /\ AtSizes
  BY InitInv, InitMatch
<1>2. (IInv /\ MInv /\ AtSizes) /\ [Next]_vars => (IInv /\ MInv /\ AtSizes)'
  BY NextMatch
<1> QED
  BY <1>1, <1>2, PTL DEF Spec

(* A message is received for the call, and the part of the call, that it   *)
(* was sent in, although a rank may be as far as a whole batch and a       *)
(* blocking exchange ahead of the other, the slots are numbered anew in    *)
(* each batch and NBX_cnt wraps around.                                    *)
THEOREM AssociationCorrect ==
    ASSUME TagsDisciplined
    PROVE  Spec => []QueueRightAssociation
<1>1. MInv => QueueRightAssociation
  BY DEF MInv
<1> QED
  BY <1>1, MatchInvariant, PTL

(* A completed call has delivered every message of it to the rank, and a   *)
(* known receive was given the size that arrives: the sizes exchanged      *)
(* first are in their places of the one vector all slots share when the    *)
(* receives of the data are posted.                                        *)
THEOREM DeliveryComplete ==
    ASSUME TagsDisciplined
    PROVE  Spec => []QueueDelivered
<1>1. MInv => QueueDelivered
  BY DEF MInv
<1> QED
  BY <1>1, MatchInvariant, PTL
=============================================================================
