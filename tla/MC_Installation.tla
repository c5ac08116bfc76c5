-------------------------- MODULE MC_Installation ---------------------------
(* TLC instance of Installation: before the metadata row a new file, a       *)
(* replaced file, one whose bytes do not change and a retired one.           *)
EXTENDS Installation

Kinds == [create |-> <<"nil", "new">>, replace |-> <<"old", "new">>,
          same |-> <<"old", "old">>, retire |-> <<"old", "nil">>,
          meta |-> <<"old", "new">>]

Olds(rows) == [r \in rows |-> Kinds[r][1]]
News(rows) == [r \in rows |-> Kinds[r][2]]

MC_Order == <<"create", "replace", "same", "retire">>
MC_Baseline == Olds(DOMAIN Kinds)
MC_Target   == News(DOMAIN Kinds)

\* Without a retired file nothing is ever gone that no record speaks of.
MC_KeptOrder == <<"create", "replace">>
MC_KeptBaseline == Olds({"create", "replace", "meta"})
MC_KeptTarget   == News({"create", "replace", "meta"})
=============================================================================
