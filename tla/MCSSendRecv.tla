---------------------------- MODULE MCSSendRecv -----------------------------
(* Programs for SSendRecv on a rank with three peers. *)
EXTENDS SSendRecv, TLC

From(a, b, c) == (1 :> a) @@ (2 :> b) @@ (3 :> c)
Call(op, opt, in) == [op |-> op, opt |-> opt, in |-> in, lists |-> 0]
A(in) == Call("SSendRecvAsync", "NONE", in)
S(in) == Call("SSendRecv", "NONE", in)
W == Call("SSendRecvWait", "NONE", From(0, 0, 0))
Known(op, in) == Call(op, "RECEIVE_KNOWN", in)
KnownElement(op, in) == Call(op, "KNOWN_ELEMENT", in)

\* Three asynchronous calls and their Waits in every order that the slots
\* allow, and blocking calls, with different numbers of messages.
Arrivals == {From(0, 0, 0), From(2, 1, 0), From(1, 1, 1)}
Schedules(a, b, c) == {
    <<A(a), A(b), A(c), W, W, W>>,
    <<A(a), A(b), W, A(c), W, W>>,
    <<A(a), A(b), W, W, A(c), W>>,
    <<A(a), W, A(b), A(c), W, W>>,
    <<S(a), A(b), W, S(c), A(a), W, A(b), W, S(a)>>}
Unknown == UNION {Schedules(a, b, c) : a \in Arrivals, b \in Arrivals, c \in Arrivals}

\* Calls that know their peers, as the unit tests make them: one at a time,
\* one message of each peer, after calls that did not know.
WithKnown == {
    <<S(From(1, 1, 1)), KnownElement("SSendRecv", From(1, 0, 1)), A(From(0, 0, 0)), W>>,
    <<S(From(0, 2, 1)), Known("SSendRecv", From(0, 1, 1)), Known("SSendRecvAsync", From(1, 1, 0)), W>>,
    <<KnownElement("SSendRecvAsync", From(1, 1, 1)), W, A(From(1, 0, 2)), A(From(0, 1, 0)), W, W>>}

\* Gathers and scatters between them, on the root and elsewhere.
G(in) == Call("SGather", "NONE", in)
C(in) == Call("SScatter", "NONE", in)
N == Call("SGatherSend", "NONE", From(0, 0, 0))
WithCollect == UNION {{
    <<A(a), W, G(b), C(From(0, 1, 0)), S(b), G(a)>>,
    <<S(a), N, G(b), A(b), A(a), W, W, G(a)>>,
    <<C(From(0, 2, 0)), G(a), S(b), N, C(From(1, 0, 0))>>} : a \in Arrivals, b \in Arrivals}

SafePrograms == Unknown \cup WithKnown \cup WithCollect

\* The theorems of SSendRecv_proofs apply to the passing run.
ASSUME TheoremsApply == Programs = SafePrograms => Disciplined

\* A blocking call while an asynchronous one is queued.
BlockingInside == {<<A(From(1, 0, 0)), S(From(1, 0, 0)), W>>}

\* Never more than two calls queued, but never none.
Pipelined == {<<A(From(1, 0, 0)), A(From(0, 1, 0)), W, A(From(0, 0, 1)), W, A(From(1, 0, 0)), W, W>>}

\* Two gathers with the same lists.
GatherAgain == {<<G(From(1, 1, 0)), [G(From(1, 1, 0)) EXCEPT !.lists = 1]>>}

\* More programs that the interface allows and that break MergedInOrder:
\* known receives in two slots, stale tags, send_buf overwritten before Wait,
\* a gather while a call is queued.
TwiceKnown == {<<KnownElement("SSendRecvAsync", From(1, 0, 0)),
                 KnownElement("SSendRecvAsync", From(0, 1, 0)), W, W>>}
StaleTags == {<<S(From(3, 3, 0)), KnownElement("SSendRecv", From(3, 3, 0))>>}
GatherInside == {<<A(From(1, 0, 0)), G(From(0, 1, 0)), W>>}
SendBufReused == {<<Known("SSendRecvAsync", From(1, 0, 0)), A(From(0, 1, 0)), W, W>>}

=============================================================================
