-------------------------- MODULE MCSessionDocument --------------------------
(* SessionDocument on small instances.                                        *)
EXTENDS SessionDocument, TLC

(* The behaviours with the most events have no fault, or are about one field: *)
(* the one that is typed into and the one that the daemon writes.             *)
Small ==
    spent.edits + spent.facts + spent.reads + spent.faults = MaxEvents =>
        \/ spent.faults = 0
        \/ Cardinality({f \in Field : server.doc[f] # Absent}
                         \cup UNION {edited[c] : c \in Client}) <= 1

StaysSmall == Small'

(* Clients and values are alike.                                              *)
Symmetry == Permutations(Client) \cup Permutations(Value)
=============================================================================
