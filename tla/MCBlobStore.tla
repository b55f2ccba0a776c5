------------------------------ MODULE MCBlobStore ------------------------------
(* A small instance of BlobStore.  One key is put with two values, the other *)
(* with one; a pack takes two records and carries one over.  Processes start *)
(* with no store, with a full pack, or with one whose writer was killed in   *)
(* the middle of an entry and left its lease.                                *)
EXTENDS BlobStore, TLC

Cached == {<<"a", "v1">>, <<"a", "v2">>, <<"b", "w">>}
Generations == 1..(MaxLive + 2)
Symmetry == Permutations(Procs)

Pack(data) == [EmptyPack EXCEPT !.data = data, !.stamp = 1,
                                !.entries = [i \in DOMAIN data |-> data[i][1]]]
Interrupted(p) ==
    [Pack(<<<<"a", "v1">>>>) EXCEPT !.ragged = TRUE, !.leases = {p}]
LeftBehind ==
    {<<>>, <<Pack(<<<<"a", "v1">>, <<"b", "w">>>>)>>}
        \cup {<<Interrupted(p)>> : p \in Procs}
================================================================================
