---------------------------- MODULE MCWatchSession ----------------------------
(* Builders of one package, which keep their processes from attempt to       *)
(* attempt, or of two, which restart them at each change of package; with a  *)
(* plan that is kept, and with processes started on demand.                  *)
EXTENDS WatchSession

Plain(packages) == [packages |-> packages, retain |-> FALSE, deferred |-> FALSE]

Usual == {Plain(<<"a">>), Plain(<<"a", "b">>),
          [Plain(<<"a">>) EXCEPT !.retain = TRUE], [Plain(<<"a">>) EXCEPT !.deferred = TRUE]}
=============================================================================
