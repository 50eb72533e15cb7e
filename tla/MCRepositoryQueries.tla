------------------------- MODULE MCRepositoryQueries -------------------------
(* Constants for checking RepositoryQueries with TLC.                      *)
EXTENDS RepositoryQueries, TLC

(* A multifile and a producer of single files, with one alias, which also  *)
(* is the name of neither; they are in different orders in the file and by *)
(* name.                                                                   *)
Names == {"a", "b", "both", "unknown"}
Configs ==
  ("a" :> [aliases |-> {"both"}, multifile |-> TRUE, keep |-> 3, maxLatestAge |-> 0]) @@
  ("b" :> [aliases |-> {"both"}, multifile |-> FALSE, keep |-> 1, maxLatestAge |-> 1])
AlphabeticOrder == <<"a", "b">>
SettingsOrder == <<"b", "a">>
SearchLists == {<<"both">>, <<"a", "b">>}

File(n) == [path |-> n, origin |-> n, modtime |-> 0]
Files == "a" :> {File(1), File(2), File(3)} @@ "b" :> {File(1), File(4)}

(* The grid of a changes and changes back; the valid times touch.          *)
Contents ==
  [n \in 1 .. 4 |->
     [grid |-> IF n = 2 THEN "new" ELSE "old", first |-> n, last |-> n + 1,
      level |-> IF n = 4 THEN "pressure" ELSE "surface", inside |-> n # 3,
      params |-> IF n = 1 THEN {"t"} ELSE {"t", "rr"},
      levels |-> IF n = 4 THEN {<<"pressure", 500>>, <<"pressure", 850>>} ELSE {<<"surface", 0>>},
      box |-> IF n = 2 THEN {1} ELSE {1, 2}]]
WantedLevels == {"pressure"}
Periods == {<<2, 2>>, <<3, 3>>, <<0, 0>>}

(* Each option with and without a producer; names in the wrong case.       *)
LowerCase(name) == IF name = "A" THEN "a" ELSE name
MetaOptions ==
  UNION {{[AllMetadata EXCEPT !.producer = names, !.origin = {1}],
          [AllMetadata EXCEPT !.producer = names, !.origin = {1}, !.box = {1, 2}],
          [AllMetadata EXCEPT !.producer = names, !.params = {"t", "rr"}, !.first = {3}, !.last = {4}],
          [AllMetadata EXCEPT !.producer = names, !.levels = {"pressure"}, !.values = {500}]} :
         names \in {{}, {"a"}, {"b"}, {"both"}, {"A"}}}
===============================================================================
