--------------------------- MODULE SparseExchange ---------------------------
(***************************************************************************)
(* What a blocking dynamic sparse data exchange promises to the ranks that *)
(* call it, whatever protocol carries it: no tags, no requests, no barrier.*)
(* An exchange is collective.  A rank brings the messages it wants to send,*)
(* is handed messages of that exchange addressed to it, and is released    *)
(* when it has them all and all of its own were handed over.               *)
(***************************************************************************)
EXTENDS Naturals

CONSTANT Proc

VARIABLES
    inside,     \* inside[p]: rank p is in a call
    done,       \* done[p]: calls of p that returned
    sent,       \* every message sent; m.round is the caller's done
    got         \* got[p]: messages handed to p in its latest call

vars == <<inside, done, sent, got>>

Begun(p) == IF inside[p] THEN done[p] + 1 ELSE done[p]

Init ==
    /\ inside = [p \in Proc |-> FALSE]
    /\ done = [p \in Proc |-> 0]
    /\ sent = {}
    /\ got = [p \in Proc |-> {}]

Begin(p) ==
    /\ ~inside[p]
    /\ inside' = [inside EXCEPT ![p] = TRUE]
    /\ got' = [got EXCEPT ![p] = {}]
    /\ sent \subseteq sent'
    /\ \A m \in sent' \ sent : m.src = p /\ m.dst \in Proc /\ m.round = done[p]
    /\ UNCHANGED done

(* One message of this exchange, not handed over before. *)
HandOver(p, m) ==
    /\ inside[p]
    /\ m.dst = p /\ m.round = done[p]
    /\ m \notin got[p]
    /\ got' = [got EXCEPT ![p] = @ \cup {m}]
    /\ UNCHANGED <<inside, done, sent>>

(* Everybody has begun this exchange, so its messages are known; those to  *)
(* p were handed over, and those of p reached ranks still in it or past it.*)
End(p) ==
    /\ inside[p]
    /\ \A q \in Proc : Begun(q) > done[p]
    /\ \A m \in sent : m.round = done[p] =>
        /\ m.dst = p => m \in got[p]
        /\ m.src = p => m \in got[m.dst] \/ done[m.dst] > done[p]
    /\ inside' = [inside EXCEPT ![p] = FALSE]
    /\ done' = [done EXCEPT ![p] = @ + 1]
    /\ UNCHANGED <<sent, got>>

Next == \E p \in Proc :
    \/ Begin(p)
    \/ \E m \in sent : HandOver(p, m)
    \/ End(p)

Spec == Init /\ [][Next]_vars

=============================================================================
