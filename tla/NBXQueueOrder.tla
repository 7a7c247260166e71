---------------------------- MODULE NBXQueueOrder ----------------------------
(***************************************************************************)
(* When the ranks of NBXQueue do what, as far as the program tells: which  *)
(* slot a call gets, where NBX_cnt counts, and what every message is       *)
(* tagged with.  All ranks run the same program, so these are the same on  *)
(* all of them, however far apart they are.                                *)
(*                                                                         *)
(* A moment is a pair: the call a rank is in and a number that orders what *)
(* happens inside that call.                                               *)
(***************************************************************************)
EXTENDS NBXQueue

Earlier(s, t) == s[1] < t[1] \/ (s[1] = t[1] /\ s[2] < t[2])

----------------------------------------------------------------------------
(* Slots.                                                                  *)

\* A call that is given the number of a slot; that of a blocking call that is
\* refused is lost.
Numbered(pr, a) == pr[a].op \in Queues \/ (pr[a].op = "sync" /\ Pending(pr, a, Queues))

\* The calls of the batch that were given one before call c.
SlotsBefore(pr, c) == {a \in 1..(c - 1) : SameBatch(pr, a, c) /\ Numbered(pr, a)}
SlotIndex(pr, c) == Cardinality(SlotsBefore(pr, c))

\* Calls that are not refused.
Queued(pr, c) == pr[c].op \in Queues /\ SlotIndex(pr, c) < NQUEUE
Blocking(pr, c) == pr[c].op = "sync" /\ ~Pending(pr, c, Queues)
Exchange(pr, c) == Blocking(pr, c) \/ (pr[c].op = "unknown" /\ Queued(pr, c))

\* The Wait that completes call c, or the end of the program.
WaitOf(pr, c) == Min({w \in (c + 1)..Len(pr) : pr[w].op = "wait"} \cup {Len(pr) + 1})

\* A Wait that finds what a blocking call left in slot 0.
StaleWait(pr, w) ==
    pr[w].op = "wait" /\ ~Pending(pr, w, Queues) /\ Pending(pr, w, {"sync"})

----------------------------------------------------------------------------
(* NBX_cnt.                                                                *)

\* In which call of the program call c is completed.
Completion(pr, c) == IF pr[c].op \in Queues THEN WaitOf(pr, c) ELSE c

\* Call c makes NBX_cnt count for the k-th time.
Counts(pr, c, k) ==
    \/ /\ k = 1
       /\ \/ Queued(pr, c) \/ Blocking(pr, c) \/ StaleWait(pr, c)
          \/ pr[c].op \in {"known_sync", "known_prc_sync"}
    \/ /\ k = 2
       /\ \/ Queued(pr, c) /\ pr[c].op = "known_prc"
          \/ pr[c].op = "known_prc_sync"

Ticks(pr) == {e \in (DOMAIN pr) \X {1, 2} : Counts(pr, e[1], e[2])}
TickAt(pr, e) == <<Completion(pr, e[1]), 2 * e[1] + e[2] - 1>>
CountBefore(pr, t) == Cardinality({e \in Ticks(pr) : Earlier(TickAt(pr, e), t)})

----------------------------------------------------------------------------
(* Messages.                                                               *)

\* The messages of a call, or a part of them, with known receivers.
KnownPart(pr, c, part) ==
    \/ Queued(pr, c) /\ pr[c].op = "known" /\ part = "data"
    \/ Queued(pr, c) /\ pr[c].op = "known_prc" /\ part \in {"size", "data"}
    \/ pr[c].op = "known_sync" /\ part = "data"
    \/ pr[c].op = "known_prc_sync" /\ part \in {"size", "data"}

\* When they are sent, and when their receives are posted: at once, but for
\* the data whose sizes were exchanged before.
Announced(pr, c, part) == part = "data" /\ pr[c].op \in {"known_prc", "known_prc_sync"}
Stamp(pr, c, part) == IF Announced(pr, c, part) THEN <<Completion(pr, c), 2 * c>> ELSE <<c, 0>>

\* What NBX_cnt has counted to then.
Number(pr, c, part) ==
    LET t == Stamp(pr, c, part) IN CountBefore(pr, <<t[1], t[2] + 1>>)

----------------------------------------------------------------------------
(* What the tags demand of a program, besides Disciplined.                 *)

\* NBX_cnt and the number of the slot are added in the tag: while calls of
\* the barrier protocol are queued, nothing else counts or takes a number.
CountsAlone(pr) ==
    \A a, b, c \in DOMAIN pr :
        /\ SameBatch(pr, a, c) /\ pr[a].op = "unknown" /\ pr[c].op = "unknown"
        /\ a < b /\ b < c
        => pr[b].op \notin {"sync", "known_sync", "known_prc_sync"}

\* The sizes of one call are exchanged at a time: they share one vector.
OneSizes(pr) ==
    \A a, c \in DOMAIN pr :
        pr[a].op = "known_prc" /\ SameBatch(pr, a, c)
        => pr[c].op \notin {"known_prc", "known_prc_sync"}

\* A rank that still polls for call a sees messages of others that are beyond
\* it, as far as to the end of the next exchange.  Until then the numbers in
\* the tags must not come around.
LastPolled(pr, a) == IF pr[a].op = "sync" THEN a ELSE WaitOf(pr, a)
Ends(pr, a, t) == Earlier(TickAt(pr, <<a, 1>>), t)
WithinReach(pr, a, t) ==
    Ends(pr, a, t) /\ \A e \in DOMAIN pr : Exchange(pr, e) /\ e > LastPolled(pr, a) => ~Ends(pr, e, t)

ShortRuns(pr) ==
    \A a, c \in DOMAIN pr : Exchange(pr, a) =>
        /\ Exchange(pr, c) /\ WithinReach(pr, a, <<c, 0>>) =>
              CountBefore(pr, <<c, 0>>) + SlotIndex(pr, c) < CountBefore(pr, <<a, 0>>) + nbx_cycle
        /\ \A part \in {"size", "data"} :
              KnownPart(pr, c, part) /\ WithinReach(pr, a, Stamp(pr, c, part)) =>
                  Number(pr, c, part) < CountBefore(pr, <<a, 0>>) + nbx_cycle

TagsDisciplined ==
    /\ Disciplined
    /\ \A pr \in Programs : CountsAlone(pr) /\ OneSizes(pr) /\ ShortRuns(pr) /\ OneEach(pr)

=============================================================================
