----------------------------- MODULE MCClusters -----------------------------
(* Programs with several objects, on two or three ranks. *)
EXTENDS Clusters, TLC

\* Nothing, or one message to any rank, the caller included.
OneMessage == {<<>>} \cup {<<[prc |-> q, sz |-> 1]>> : q \in Proc}

S(op, obj) == [op |-> op, obj |-> obj]
I == S("init", "heap")
F == S("finalize", "heap")
B == S("barrier", "heap")
X(o) == S("exchange", o)
New == S("create", "own")
Del == S("delete", "own")

OfWorld(programs) == {[steps |-> s, world |-> TRUE] : s \in programs}

\* Exchanges that follow one another directly have different counters, or
\* there is a collective call between them.
SafePrograms == OfWorld({
    <<I, X("heap"), X("heap"), X("cuda"), F>>,
    <<I, X("heap"), B, X("cuda"), I, X("heap"), F>>,
    <<I, New, X("own"), B, X("heap"), X("own"), Del, F>>,
    <<I, X("heap"), New, X("own"), F, Del>>,
    <<New, X("own"), I, X("heap"), F, Del>>,
    <<I, New, X("own"), Del, New, X("own"), Del, F>>})
  \cup {[steps |-> <<I, X("heap"), F>>, world |-> FALSE]}

\* The theorems of Clusters_proofs apply to the passing run.
ASSUME TheoremsApply == Programs = SafePrograms => Disciplined

----------------------------------------------------------------------------
\* Programs that go wrong.

\* An exchange of one object after the same number of another (breaks
\* RightAssociation).
TwoCounters == OfWorld({<<I, X("heap"), X("cuda"), F>>})

\* These break LibraryUsable: finalize leaves the pointers set, so a second
\* init makes nothing and a second finalize destroys again; an object deleted
\* before init was the last one, and MPI cannot be initialised twice.
InitAgain == OfWorld({<<I, X("heap"), F, I, X("heap"), F>>})
FinalizeTwice == OfWorld({<<I, F, F>>})
DeleteBeforeInit == OfWorld({<<New, Del, I, X("heap"), F>>})

=============================================================================
