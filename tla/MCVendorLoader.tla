--------------------------- MODULE MCVendorLoader ---------------------------
(* Instances of VendorLoader for TLC.                                      *)
EXTENDS VendorLoader

Names == {"Asia", "Japan", "tokyo", "osaka", "hosts", "1.1.1.1", "2.2.2.2", "3.3.3.3"}

(* tokyo may not resolve, or resolve to one address or to two; osaka may   *)
(* share one of them.                                                      *)
MCAnswers ==
  ("tokyo" :> {{}, {"1.1.1.1"}, {"1.1.1.1", "2.2.2.2"}})
  @@ ("osaka" :> {{}, {"2.2.2.2"}})

Conf(levels, resolve, servers, refresh) ==
  [vendors |-> DOMAIN levels, levels |-> levels, resolve |-> resolve,
   servers |-> servers, refresh |-> refresh, names |-> Names]

TwoLevels ==
  (<<"Asia", "Japan">> :> <<"tokyo", "3.3.3.3", "osaka">>)
  @@ (<<"Asia", "hosts">> :> <<"osaka">>)
OneLevel == <<"Japan">> :> <<"osaka", "tokyo", "tokyo">>
NoLevel  == << >> :> <<"tokyo", "1.1.1.1">>

(* Every number of levels, with and without lookups and refreshes; levels  *)
(* that say more, or fewer, than the servers have.                         *)
MCKonfs ==
  {Conf([v1 |-> 2], [v1 |-> TRUE], [v1 |-> TwoLevels], r) : r \in {3, 5}}
  \cup {Conf([v1 |-> 1], [v1 |-> TRUE], [v1 |-> OneLevel], r) : r \in {0, 5}}
  \cup {Conf([v1 |-> 0, v2 |-> 1], [v1 |-> TRUE, v2 |-> FALSE],
             [v1 |-> NoLevel, v2 |-> OneLevel], r) : r \in {1, 60}}
  \cup {Conf([v1 |-> l], [v1 |-> b], [v1 |-> s], 0) :
          l \in {1, 3}, b \in BOOLEAN, s \in {TwoLevels, NoLevel}}
=============================================================================
