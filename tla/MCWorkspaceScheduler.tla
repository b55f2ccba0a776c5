-------------------------- MODULE MCWorkspaceScheduler --------------------------
(* Instances of WorkspaceScheduler for TLC. *)
EXTENDS WorkspaceScheduler, TLC

\* A package named p with its dependencies; its target has the same number.
Normal(p, deps, ph, ins) ==
    [post |-> FALSE, phase |-> ph, order |-> p, target |-> p, package |-> p,
     packageDeps |-> deps, targetDeps |-> deps, reads |-> deps \cup {p},
     inputs |-> ins, deletes |-> FALSE]
Post(p, deps, ph, ins, del) ==
    [Normal(p, deps, ph, ins) EXCEPT !.post = TRUE, !.deletes = del]
Legacy(b) == [b EXCEPT !.packageDeps = Unknown, !.targetDeps = Unknown]

Src == Handwritten

\* Package 2 depends on 1, package 3 on neither.
\* Generated inputs across phases, two builders per phase in one package.
Chain == << Normal(1, {}, 0, <<Src, Src>>), Normal(2, {1}, 0, <<Src>>),
            Normal(3, {}, 0, <<Src>>), Normal(2, {1}, 1, <<<<2, 1>>>>),
            Normal(3, {}, 1, <<<<3, 1>>>>) >>

\* Post-process clean-up that later post-process actions must see or miss.
CleanUp == << Normal(1, {}, 0, <<Src>>), Normal(2, {1}, 0, <<Src>>),
              Post(1, {}, 1, <<<<1, 1>>>>, TRUE), Post(1, {}, 1, <<<<1, 1>>, Src>>, FALSE),
              Post(2, {1}, 1, <<<<2, 1>>>>, TRUE), Post(3, {}, 1, <<Src>>, FALSE) >>

\* A diamond: package 4 waits for both 2 and 3, which both read 1.
Diamond == << Post(1, {}, 0, <<Src>>, FALSE), Post(2, {1}, 0, <<Src>>, FALSE),
              Post(3, {1}, 0, <<Src>>, FALSE), Post(4, {1, 2, 3}, 0, <<Src>>, FALSE) >>

\* Packages 2 and 3 form a cycle: the same order, each reaching the other.
Cycle == << [Post(2, {1, 3}, 0, <<Src, Src>>, FALSE) EXCEPT !.order = 2],
            [Post(3, {1, 2}, 0, <<Src>>, FALSE) EXCEPT !.order = 2],
            Post(1, {}, 0, <<Src>>, FALSE) >>

\* A manifest without reachability evidence.
Serial == << Legacy(Normal(1, {2}, 0, <<Src>>)), Legacy(Normal(2, {}, 0, <<Src>>)),
             Legacy(Post(2, {}, 0, <<<<2, 1>>>>, TRUE)),
             Legacy(Post(3, {2}, 0, <<Src>>, FALSE)) >>

\* Enough inputs for a batch of two.
Batch == << Normal(1, {}, 0, <<Src, Src, Src, Src, Src>>), Normal(2, {}, 0, <<Src>>),
            Normal(1, {}, 1, <<Src>>) >>

Workspaces == {Chain, CleanUp, Diamond, Cycle, Serial, Batch}
=============================================================================
