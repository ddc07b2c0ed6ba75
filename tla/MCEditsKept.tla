---------------------------- MODULE MCEditsKept ----------------------------
(* SessionDocument with a user who types into two contested fields and a      *)
(* local one, and a read that is answered before and applied at any time.     *)
EXTENDS SessionDocument

CONSTANTS f, g, l

(* The fields that the user types into, in turn.                              *)
InTurn == <<g, g, f, f, l>>

(* The daemon writes g once, a read is answered, and then the user types.     *)
(* Drains, saves, clicks and the application of the read come in any order;   *)
(* watch events and the file, which play no part, are left out.               *)
Quiet ==
    /\ watch' = watch
    /\ disk' # disk => server' # server
    /\ spent'.facts > spent.facts => spent.edits = 0 /\ server'.doc[g] # Absent
    /\ spent'.reads > spent.reads => spent.edits = 0 /\ spent.facts = 1
    /\ spent'.edits > spent.edits =>
         /\ spent.reads = 1
         /\ \E c \in Client :
              typed'[c][InTurn[spent'.edits]] # typed[c][InTurn[spent'.edits]]
=============================================================================
