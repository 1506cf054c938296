--------------------------- MODULE MCSharedResources ---------------------------
(***************************************************************************)
(* Two forwarders whose role names coincide when "a" uses the ServiceAccount *)
(* "a-c" and "a-a" uses "c"; the role of "a" with "c" has the name that the   *)
(* previous naming scheme gave to the role of "a-c".                          *)
(***************************************************************************)
EXTENDS SharedResources

TwoForwarders == {<<"a">>, <<"a", "-", "a">>}
TwoAccounts == {<<"c">>, <<"a", "-", "c">>}
TheExporter == <<"logfilesmetricexporter">>

Start(sa, token, upgraded, exporter, creations, n) ==
  [sa |-> sa, token |-> token, upgraded |-> upgraded, exporter |-> exporter, creations |-> creations, faults |-> n]

Few == {Start(sa, TRUE, FALSE, 0, 1, 1) : sa \in [TwoForwarders -> TwoAccounts]}
  \cup {Start([f \in TwoForwarders |-> sa], FALSE, TRUE, 0, 0, 1) : sa \in TwoAccounts}
  \cup {Start([f \in {<<"a">>} |-> <<"c">>], FALSE, upgraded, 1, 0, 0) : upgraded \in BOOLEAN}
  \cup {Start(<<>>, FALSE, FALSE, 1, 0, 1)}

\* The two forwarders, one with each of these accounts, and no disturbance.
Apart == {Start([f \in TwoForwarders |-> IF f = <<"a">> THEN <<"c">> ELSE <<"a", "-", "c">>], FALSE, FALSE, 0, 0, 0)}
=============================================================================
