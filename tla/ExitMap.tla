------------------------------ MODULE ExitMap ------------------------------
(***************************************************************************)
(* GET /exits/:vendor (ajax.go) beside the vendor loader: both walk the    *)
(* servers of the same configuration, the loader one level at a time up to *)
(* the number of levels, the request with walkLevels.                      *)
(***************************************************************************)
EXTENDS VendorLoader

VARIABLE answer   \* of the last request: the vendor, and the paths at which
                  \* the answer holds a list of servers

exitMapVars == <<loaderVars, answer>>

(* koanf: MapKeys is empty for what is not a map, Strings for what is not  *)
(* a list, StringsMap for what is not a map of lists.                      *)
Below(v, p)   == {q \in Paths(v) : IsStrictPrefix(p, q)}
MapKeys(v, p) == {q[Len(p) + 1] : q \in Below(v, p)}
Strings(v, p) == {p} \cap Paths(v)

StringsMap(v, p) ==
  IF \A q \in Below(v, p) : Front(q) = p THEN Below(v, p) ELSE {}

(* The branches are the wrong way round: keys are followed from the last   *)
(* level on.                                                               *)
walkLevels(v, levels) ==
  LET nodes == UNION {{SubSeq(q, 1, n) : n \in 0 .. Len(q)} : q \in Paths(v)}
      walk[path \in nodes \cup {<< >>}] ==
        LET depth == Len(path) + 1 IN
        IF levels <= depth THEN UNION {walk[Append(path, k)] : k \in MapKeys(v, path)}
                           ELSE StringsMap(v, path)
  IN  walk[<< >>]

(* _exits: more than five levels are an error.                             *)
Exits(v) ==
  /\ Levels(v) <= 5
  /\ answer' = [v |-> v, lists |-> IF Levels(v) = 0 THEN Strings(v, << >>)
                                                     ELSE walkLevels(v, Levels(v))]
  /\ UNCHANGED loaderVars

ExitMapNext ==
  \/ \E v \in konf.vendors : Exits(v)
  \/ LoaderNext /\ UNCHANGED answer

ExitMapSpec == LoaderInit /\ answer = Nil /\ [][ExitMapNext]_exitMapVars

(* "return a map of all the exits for a vendor" (main.go:269): a vendor    *)
(* whose servers have the levels the configuration names, as README.md     *)
(* describes them, is answered with every list of servers it has.          *)
MapOfAllExits ==
  answer # Nil /\ (\A p \in Paths(answer.v) : Len(p) = Levels(answer.v)) =>
    answer.lists = Paths(answer.v)
=============================================================================
