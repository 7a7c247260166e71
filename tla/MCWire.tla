------------------------------- MODULE MCWire -------------------------------
(* Programs for Wire with an int of ten bits. *)
EXTENDS Wire, TLC

Call0 == [op |-> "memory", lists |-> << >>, T |-> "struct", n |-> 0, tag |-> 0, props |-> << >>]
Batch(lists) == [Call0 EXCEPT !.op = "exchange", !.lists = lists]
Memory(n, tag) == [Call0 EXCEPT !.n = n, !.tag = tag]
Vector(type, n, tag) == [Call0 EXCEPT !.op = "vector", !.T = type, !.n = n, !.tag = tag]
Known(n) == [Call0 EXCEPT !.op = "known", !.n = n]
On(op, type, n) == [Call0 EXCEPT !.op = op, !.T = type, !.n = n]
Props(n, props) == [Call0 EXCEPT !.op = "BcastProps", !.n = n, !.props = props]

\* Lists: nothing, one message first or last, one at each end.
Nothing == << >>
First(sz) == 0 :> sz
Last(sz) == (Stride - 1) :> sz
Ends(a, b) == First(a) @@ Last(b)

\* Around the limits of the counts and of the types.
SparseSizes == {1, 8, INT_MAX - 1, INT_MAX, INT_MAX + 1, INT_MAX + 9, 8 * INT_MAX - 1}
Batches ==
    {<<Ends(a, b)>> : a \in SparseSizes, b \in {7, 16}}
    \cup {<<First(3), Last(16)>>, <<Nothing, First(INT_MAX + 1), Nothing, Last(5)>>,
          <<Last(1), Last(2), Last(3), Ends(4, 5)>>}

PlainCalls ==
    {Memory(n, t) : n \in {0, 1, 256, INT_MAX - 1}, t \in {0, SEND_RECV_BASE - 1}}
    \cup {Vector(T, n, 5) : T \in Primitive, n \in {1, INT_MAX}}
    \cup {Vector("struct", n, 0) : n \in {1, INT_MAX \div StructSize}}
    \cup {Known(n) : n \in {1, INT_MAX - 1}}
Collectives ==
    {On("allGather", T, 1) : T \in DOMAIN Sizeof} \cup {On("reduce", T, 1) : T \in Primitive}
    \cup {On("Bcast", T, n) : T \in Primitive, n \in {0, INT_MAX}}
    \cup {On("Bcast", "struct", INT_MAX \div StructSize), Props(7, <<8, 4, 1>>)}

SafePrograms ==
    {<<Batch(a), p, Batch(b)>> : a \in Batches, b \in {<<First(1)>>, <<Nothing, Last(2)>>},
        p \in {Memory(1, 0), Memory(8, 5), Known(1)}}
    \cup {<<Batch(<<First(1)>>), p, Memory(1, 0), Batch(<<Last(16)>>), p>> : p \in PlainCalls}
    \cup {<<Batch(a), Batch(b), Batch(a)>> : a \in Batches, b \in {<<First(1)>>, <<Nothing, Last(2)>>}}
    \cup {<<p, Batch(<<Last(1)>>)>> : p \in Collectives}

\* These are what the theorems are about.
ASSUME TheoremsApply == Programs = SafePrograms => ShortRuns /\ SmallCalls

----------------------------------------------------------------------------
\* Sizes at which the two ends of a known exchange disagree.
BigKnown == {<<Known(n)>> : n \in {INT_MAX, INT_MAX + 1}}

\* More that goes wrong: vectors of a type unknown to MPI (KnownWhole), a
\* broadcast of more than INT_MAX bytes (KnownWhole).
BigVector == {<<Vector("struct", INT_MAX \div StructSize + 1, 0)>>}
BigBcast == {<<On("Bcast", "struct", INT_MAX \div StructSize + 1)>>}

=============================================================================
