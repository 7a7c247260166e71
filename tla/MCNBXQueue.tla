----------------------------- MODULE MCNBXQueue -----------------------------
(* Programs for NBXQueue on two or three ranks, a few messages in each call.*)
EXTENDS NBXQueueOrder, TLC

CONSTANTS r1, r2, r3

M(a, b, n) == [src |-> a, dst |-> b, sz |-> n]
C(op, sends) == [op |-> op, sends |-> sends]
W == C("wait", {})
P == C("progress", {})

\* Those between ranks of this instance.
Here(S) == {m \in S : {m.src, m.dst} \subseteq Proc}

Both == Here({M(r1, r2, 1), M(r2, r1, 2), M(r3, r1, 1)})
One == Here({M(r1, r2, 1)})
Other == Here({M(r1, r2, 2), M(r2, r1, 1), M(r1, r1, 1), M(r2, r3, 1)})

\* What the unit tests do: calls of one kind, progress, wait; repeatedly.
TestLike == {
    <<C("unknown", Both), C("unknown", Other), P, P, W, C("unknown", One), P, W>>,
    <<C("known", Both), C("known", Other), P, W, C("unknown", One), W>>,
    <<C("known_prc", Both), P, W, C("unknown", Other), C("unknown", {}), W>>,
    <<C("sync", One), P, C("unknown", {}), C("unknown", Both), W, C("sync", Both)>>,
    <<C("sync", Both), W, C("known_prc", One), W>>}

\* Three batches around the counter, the slots used unevenly.
Around == {
    <<C("unknown", One), C("unknown", Both), W, C("unknown", Both), C("unknown", One), W,
      C("unknown", {}), C("unknown", Both), W>>}

\* Calls that are refused with an error message.
WithRefusals == {
    <<C("unknown", Both), C("sync", One), W, C("sync", Both)>>,
    <<C("known", One), C("known", Both), C("known", Other), W, C("unknown", One), W>>}

\* A slot of the barrier protocol before a slot of known receives.
Mixed == {
    <<C("unknown", Both), C("known", Both), W, C("unknown", One), C("known_prc", Other), W>>}

\* Reductions and blocking known calls between exchanges.
R == C("reduce", {})
E == C("execute", {})
WithReductions == {
    <<R, R, E, C("unknown", Both), P, W, R, E>>,
    <<C("sync", One), R, C("known_sync", Both), C("known_prc_sync", Other), R, E>>,
    <<C("known_prc_sync", Both), C("known_prc", Other), W, C("unknown", One), W>>}

SafePrograms == TestLike \cup Around \cup WithRefusals \cup Mixed \cup WithReductions

\* The theorems of NBXQueue_proofs and NBXQueueMatch_proofs apply to the
\* passing runs.
ASSUME TheoremsApply == Programs = SafePrograms => TagsDisciplined

----------------------------------------------------------------------------
\* Programs that the interface allows and that go wrong.

\* progressCommunication between two asynchronous calls: slot 0 completes
\* while a send of slot 1 is pending.
ProgressBetween == {<<C("unknown", {}), P, C("unknown", One), W>>}

\* progressCommunication before a call with known receives.
ProgressBeforeKnown == {<<C("unknown", One), P, C("known", Both), W>>}

\* Known receives in the slot before one of the barrier protocol.
KnownFirst == {<<C("known", One), C("unknown", Both), W>>}

\* A reduction while an exchange is queued: some ranks entered its barrier
\* before the reduction, others after (breaks CollectivesMatch), and execute
\* waits for the exchange's sends (breaks QueueTermination).
ReductionInside == {<<C("unknown", One), P, R, W, E>>}
ExecuteInside == {<<C("unknown", Both), R, E, W>>}

\* An exchange between a reduction and its execute: queue_all_sends reports
\* an error, drops the request of the reduction and goes on (breaks
\* ReductionsExecuted and NoRequestForgotten).
ReductionDropped == {<<R, C("unknown", One), W, E>>}

\* Two calls that exchange sizes, queued together.
SizesTwice == {<<C("known_prc", {M(r1, r2, 1)}), C("known_prc", {M(r1, r2, 2)}), W>>}

\* A blocking call that is refused, between two calls of the barrier protocol:
\* it keeps the number of a slot, and the second sends with the tag that the
\* first call after the Wait has too (breaks QueueRightAssociation; needs a
\* third slot).
RefusedBetween ==
    {<<C("unknown", One), C("sync", {}), C("unknown", One), W, C("unknown", One), W>>}

=============================================================================
