------------------------------- MODULE MCNBX -------------------------------
(* NBX on a few ranks. *)
EXTENDS NBX, TLC

\* Nothing, or one message to any rank, the caller included.
OneMessage == {<<>>} \cup {<<[prc |-> q, sz |-> 1]>> : q \in Proc}

\* Nothing, or an empty entry and two messages to the same rank.
TwoMessages ==
    {<<>>} \cup {<<[prc |-> q, sz |-> 0], [prc |-> q, sz |-> 1], [prc |-> q, sz |-> 1]>> : q \in Proc}

Ranks == Permutations(Proc)

=============================================================================
