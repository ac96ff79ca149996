---------------------------- MODULE MCDiscovery -----------------------------
(***************************************************************************)
(* The instance of Discovery for TLC: two sentinels, two Redis nodes.      *)
(***************************************************************************)
EXTENDS Discovery

CONSTANTS s1, s2, n1, n2

Lists == [k \in Kind |->
    CASE k = "default"          -> {<<n1>>}
      [] k = "cluster"          -> {<<>>, <<n1>>, <<n1, n2>>}
      [] k \in {"master", "slave"} -> {<<>>, <<s1>>, <<s1, s2>>}]

(* The fields that do not matter to a kind have one value. *)
Servers(up, knows, master, flagged, reporting, ok, slots) ==
    [up : up, knows : knows, master : master, replicas : {{n1, n2}},
     flagged : flagged, reporting : reporting, ok : ok, slots : slots]

Entry(b, e, n) == [range |-> [begin |-> b, end |-> e], host |-> n]

(* A slot moves; the last layout leaves one unassigned. *)
Layouts ==
    {<<Entry(0, 0, n1), Entry(1, 2, n2)>>, <<Entry(0, 1, n1), Entry(2, 2, n2)>>,
     <<Entry(1, 2, n2)>>}

States == [k \in Kind |->
    CASE k = "default" ->
            Servers(SUBSET {n1}, {{}}, {n1}, {{}}, {{}}, {TRUE}, {<<>>})
      [] k = "master" ->
            Servers(SUBSET Host, SUBSET {s1, s2}, {n1, n2}, {{}}, {{}}, {TRUE}, {<<>>})
      [] k = "slave" ->
            Servers(SUBSET Host, {{s1}, {s1, s2}}, {n1},
                    {{}, {n1}, {n1, n2}}, {{n2}, {n1, n2}}, {TRUE}, {<<>>})
      [] k = "cluster" ->
            Servers(SUBSET {n1, n2}, {{n1}, {n1, n2}}, {n1}, {{}}, {{}}, BOOLEAN, Layouts)]
=============================================================================
