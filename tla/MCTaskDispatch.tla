--------------------------- MODULE MCTaskDispatch ---------------------------
(* TaskDispatch on small instances.                                        *)
EXTENDS TaskDispatch, TLC

(* Ids that the code draws at random, terminals and request slots are      *)
(* interchangeable.                                                        *)
Interchangeable ==
    Permutations(Task) \cup Permutations(Terminal) \cup Permutations(Call)
      \cup Permutations(Gate) \cup Permutations(Question)

(* One Task, with a second run of the daemon or a second Dispatch, when    *)
(* it is completed by a worker; or two Tasks, with one Dispatch between    *)
(* them and no worker; or three without any.                               *)
Small ==
    LET Tasks == {t \in Task : task[t].st # "absent"}
        Rows  == {d \in DispatchId : disp[d].st # "absent"}
    IN  IF Cardinality(Tasks) <= 1
        THEN /\ Cardinality(Rows) + epoch <= 3
             /\ (\E t \in Tasks : task[t].st = "completed") /\ Cardinality(Rows) = 2 =>
                   \E d \in Rows : disp[d].st = "completed"
        ELSE /\ Cardinality(Tasks) + Cardinality(Rows) + epoch <= 4
             /\ \A c \in Call : calls[c].pc \in {"idle", "notify", "dispatch", "report"}

StaysSmall == Small'
=============================================================================
