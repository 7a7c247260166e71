----------------------------- MODULE MCPacking ------------------------------
(* Calls among three ranks, of objects with two properties of unlike size. *)
EXTENDS Packing

Sizes == <<2, 3>>

O(dst, n) == [dst |-> dst, n |-> n]
To(a, b, c) == [p \in Proc |-> CASE p = 0 -> a [] p = 1 -> b [] p = 2 -> c]

\* Several objects for one rank, empty ones, one for the sender itself.
Unknown == {
    To(<<O(1, 2), O(1, 1)>>, <<O(1, 1)>>, <<O(1, 3), O(0, 2)>>),
    To(<<O(2, 1), O(2, 0), O(2, 2)>>, <<>>, <<O(2, 1), O(1, 0)>>)}

\* The same with fewer messages, for objects of several buffers.
Fewer == {
    To(<<O(1, 2)>>, <<O(1, 1)>>, <<O(1, 3), O(0, 2)>>),
    To(<<O(2, 1), O(2, 0), O(2, 2)>>, <<>>, <<O(1, 1)>>)}

\* One object from each sender.
Single == {
    To(<<O(1, 2), O(2, 1)>>, <<O(2, 3)>>, <<O(0, 1), O(1, 2)>>),
    To(<<O(0, 2)>>, <<O(0, 1)>>, <<>>)}

SSendRecv(layout, opt, direct, aware, prps, op, sends) ==
    [form |-> "SSendRecv", root |-> 0, layout |-> layout,
     base |-> IF layout = "inte" THEN "inte" ELSE "lin",
     opt |-> opt, direct |-> direct, aware |-> aware, prps |-> prps, op |-> op, sends |-> sends]

\* A merge of one property or of both; per-property buffers want them all.
All == <<1, 2>>
OnHost == UNION {{
    SSendRecv(layout, "NONE", FALSE, FALSE, prps, op, s) :
        layout \in {"packed", "lin"}, prps \in {All, <<2>>}, op \in {"add", "merge", "gg_recv_merge"}} :
    s \in Fewer}
  \cup {SSendRecv("lin", "NONE", FALSE, FALSE, All, "add", s) : s \in Unknown}
PerProperty == {
    SSendRecv("inte", "NONE", direct, aware, All, op, s) :
        direct \in BOOLEAN, aware \in BOOLEAN, op \in {"add"}, s \in Fewer}
OnDevice == {
    SSendRecv("inte", "NONE", TRUE, TRUE, All, op, s) :
        op \in {"merge_gpu", "gg_recv_merge_run_device"}, s \in Fewer}
  \cup {SSendRecv("inte", "NONE", TRUE, FALSE, All, "gg_recv_merge_run_device", s) : s \in Fewer}
WithKnown == {
    SSendRecv("lin", opt, FALSE, FALSE, All, "add", s) : opt \in {"RECEIVE_KNOWN", "KNOWN_ELEMENT"}, s \in Single}
  \cup {SSendRecv("packed", "RECEIVE_KNOWN", FALSE, FALSE, All, op, s) : op \in {"add", "merge"}, s \in Single}

\* Gathers with every layout; scatters whose root keeps nothing for itself.
Gathers == {
    [SSendRecv(layout, "NONE", FALSE, FALSE, All, "add",
               To(<<O(root, a)>>, <<O(root, 2)>>, <<O(root, 1)>>))
        EXCEPT !.form = "SGather", !.root = root] :
        layout \in {"packed", "lin", "inte"}, root \in {0, 1}, a \in {0, 2}}
ScatterOf(root, sends) ==
    [SSendRecv("lin", "NONE", FALSE, FALSE, All, "add", sends) EXCEPT !.form = "SScatter", !.root = root]
Scatters == {
    ScatterOf(0, To(<<O(2, 1), O(1, 2)>>, <<>>, <<>>)),
    ScatterOf(1, To(<<>>, <<O(0, 2), O(2, 0), O(0, 1)>>, <<>>))}

SafeCalls == OnHost \cup PerProperty \cup OnDevice \cup WithKnown \cup Gathers \cup Scatters

\* The theorems of Packing_proofs apply to the passing run.
ASSUME TheoremsApply ==
    OneBuffer(SafeCalls) /\ SomeProperty(SafeCalls) /\ AllFit(SafeCalls) /\ RootOnlySends(SafeCalls)

----------------------------------------------------------------------------
\* Calls that the interface allows and that go wrong.

\* RECEIVE_KNOWN with a buffer per property (breaks SentToOwner).
KnownPerProperty == {SSendRecv("inte", "KNOWN_ELEMENT", FALSE, FALSE, All, "add", s) : s \in Single}

\* These break ObjectsWhole: fewer properties than buffers, the default
\* layout_base, opart counted by buffers, MPI_GPU_DIRECT without them.
Subset == {SSendRecv("inte", "NONE", FALSE, FALSE, <<1>>, "add", s) : s \in Unknown}
DefaultBase == {[SSendRecv("inte", "NONE", FALSE, FALSE, All, "add", s) EXCEPT !.base = "lin"] : s \in Unknown}
MergePerProperty == {SSendRecv("inte", "NONE", FALSE, FALSE, All, "merge", s) : s \in Unknown}
MergeGpuOneBuffer == {SSendRecv("lin", "NONE", FALSE, FALSE, All, "merge_gpu", s) : s \in Unknown}
DirectOneBuffer == {SSendRecv("lin", "NONE", TRUE, TRUE, All, "add", s) : s \in Unknown}

\* The root of a scatter keeps a chunk (breaks SizesTell: its lists grow).
ScatterKeeps == {ScatterOf(0, To(<<O(0, 1), O(1, 2)>>, <<>>, <<>>))}

=============================================================================
