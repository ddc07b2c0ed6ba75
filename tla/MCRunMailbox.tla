---------------------------- MODULE MCRunMailbox ----------------------------
(* RunMailbox on small instances.                                          *)
EXTENDS RunMailbox, TLC

CONSTANTS h1, h2, p1, p2

(* Two terminals in two panes.                                             *)
TwoPanes == (h1 :> p1 @@ h2 :> p2)

(* One terminal.                                                           *)
OnePane == (h1 :> p1)

Ask(types, mode, wait) == [types |-> types, mode |-> mode, wait |-> wait]

(* A consuming check with and without --wait.                              *)
PlainAsks == {Ask({}, "consume", w) : w \in BOOLEAN}

(* A consuming check that waits.                                           *)
WaitAsks == {Ask({}, "consume", TRUE)}

(* Waiting consumers of everything and of the type status alone, and a     *)
(* waiting --peek with the same filter.                                    *)
FilteredAsks == {Ask({}, "consume", TRUE), Ask({"status"}, "consume", TRUE),
                 Ask({"status"}, "peek", TRUE)}

(* Runs, deliveries and request slots are interchangeable, and so are the  *)
(* two terminals together with their panes.                                *)
Interchangeable ==
    Permutations(Run) \cup Permutations(DeliveryId) \cup Permutations(Call)
      \cup {h1 :> h2 @@ h2 :> h1 @@ p1 :> p2 @@ p2 :> p1}

(* No command names a Run that does not exist.  One Run, as far as the     *)
(* constants let it go; or two, with one message, one delivery and one     *)
(* takeover of each.                                                       *)
Small ==
    /\ \A c \in Call : calls[c].run \in drawn \cup {None}
    /\ \/ Cardinality(drawn) <= 1
       \/ /\ \A r \in Run : gen[r] <= 2
          /\ Cardinality({s \in Sequence : msgs[s].st # "absent"}) <= 1
          /\ Cardinality({d \in DeliveryId : deliv[d].st # "free"}) <= 1

StaysSmall == Small'
=============================================================================
