---------------------------- MODULE MCFilteredDemand ----------------------------
(* Instances of FilteredDemand for TLC. *)
EXTENDS FilteredDemand, TLC

Build(roots, demands, primary) ==
    [roots |-> roots, demands |-> demands, primary |-> primary]

\* Two roots share a producer and a source.
Shared == Build(<<3, 2>>, <<<<Source>>, <<1, Source>>, <<Source, 1>>>>, <<None, None, None>>)

\* Three roots on three workers, one the producer of the others.
Wide == Build(<<3, 2, 1>>, <<<<>>, <<1>>, <<1>>>>, <<None, None, None>>)

\* A root that another root demands, and a chain of generated primary inputs.
Chain == Build(<<3, 2>>, <<<<>>, <<Source>>, <<1>>>>, <<None, 1, 2>>)

\* Two demands in opposite orders.
Crossed == Build(<<4, 3>>, <<<<>>, <<>>, <<1, 2>>, <<2, 1>>>>,
                 <<None, None, None, None>>)

\* Roots that demand each other through one more action.  The phase guard
\* keeps such demands out of a whole build; the coordinator does not rely on it.
Cyclic == Build(<<1, 2>>, <<<<3>>, <<1>>, <<2>>>>, <<None, None, None>>)

All == {Shared, Wide, Chain, Crossed, Cyclic}
=============================================================================
