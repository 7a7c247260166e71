------------------------------- MODULE MPINet -------------------------------
(***************************************************************************)
(* The part of MPI that Vcluster_base leans on, as operators on the set of *)
(* messages that have been sent and not yet matched by a receive.  MPI is  *)
(* not under src/: these operators state what the MPI standard promises    *)
(* about the calls VCluster_base.hpp makes, and nothing more.              *)
(*                                                                         *)
(* A message is a record with at least                                     *)
(*    src, dst   the ranks,                                                *)
(*    round      how many exchanges the sender had begun before this one,  *)
(*    idx        its position in the list of messages of that exchange.    *)
(* round and idx are not on the wire: they fix the order of the sends.     *)
(***************************************************************************)
EXTENDS Naturals

\* m was sent before n, both by the same rank.
SentBefore(m, n) ==
    \/ m.round < n.round
    \/ m.round = n.round /\ m.idx < n.idx

\* What MPI_Iprobe(MPI_ANY_SOURCE, MPI_ANY_TAG) may show rank p: messages do
\* not overtake one another between two ranks, so of each source only the
\* oldest unmatched message can be seen.  Nothing is said between sources.
Probeable(flight, p) ==
    {m \in flight :
        /\ m.dst = p
        /\ \A n \in flight : n.src = m.src /\ n.dst = p => ~SentBefore(n, m)}

\* MPI_Testall or MPI_Waitall on synchronous sends: an Issend is complete
\* only when its receive has been matched.
AllMatched(requests, flight) == requests \cap flight = {}

\* The n-th MPI_Ibarrier of the communicator is complete: every rank made
\* its n-th call.  calls[q] counts the calls of rank q.
BarrierComplete(calls, n) == \A q \in DOMAIN calls : calls[q] >= n

=============================================================================
