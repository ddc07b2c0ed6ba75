------------------------------ MODULE RunLease ------------------------------
(***************************************************************************)
(* What the mailbox of a Run promises, with no handlers, tables or         *)
(* generations in it: mail waits in the Run's queue until one batch of it  *)
(* is leased to the Run's consumer; the consumer settles the whole batch   *)
(* or loses it, and then all of it is back in the queue.                   *)
(***************************************************************************)
CONSTANTS Run, Letter

VARIABLES
    queue,    \* [Run -> SUBSET Letter]: mail nobody holds
    lease,    \* [Run -> SUBSET Letter]: mail handed out, not settled yet
    settled   \* mail whose receipt was acknowledged

vars == <<queue, lease, settled>>

Init ==
    /\ queue = [r \in Run |-> {}]
    /\ lease = [r \in Run |-> {}]
    /\ settled = {}

(* New mail.                                                               *)
Post(r, m) ==
    /\ \A q \in Run : m \notin queue[q] \cup lease[q]
    /\ queue' = [queue EXCEPT ![r] = @ \cup {m}]
    /\ UNCHANGED <<lease, settled>>

(* The consumer settles its batch (ack) and gets the next one (N), or does *)
(* one of the two.  Nothing is settled that was not leased, and no second  *)
(* batch is leased next to one that is not settled.                        *)
Exchange(r, ack, N) ==
    LET kept == IF ack THEN {} ELSE lease[r] IN
    /\ N \subseteq queue[r]
    /\ N # {} => kept = {}
    /\ lease' = [lease EXCEPT ![r] = kept \cup N]
    /\ queue' = [queue EXCEPT ![r] = @ \ N]
    /\ settled' = IF ack THEN settled \cup lease[r] ELSE settled

(* The consumers of the Runs F are replaced: what they held goes back.     *)
Revoke(F) ==
    /\ queue' = [r \in Run |-> IF r \in F THEN queue[r] \cup lease[r] ELSE queue[r]]
    /\ lease' = [r \in Run |-> IF r \in F THEN {} ELSE lease[r]]
    /\ UNCHANGED settled

(* Somebody answers a letter, which takes it out of the mailbox.           *)
Withdraw(m) ==
    /\ queue' = [r \in Run |-> queue[r] \ {m}]
    /\ lease' = [r \in Run |-> lease[r] \ {m}]
    /\ UNCHANGED settled

(* All mail is deleted.                                                    *)
Purge ==
    /\ queue' = [r \in Run |-> {}]
    /\ lease' = [r \in Run |-> {}]
    /\ settled' = {}

Next ==
    \/ \E r \in Run, m \in Letter : Post(r, m)
    \/ \E r \in Run, ack \in BOOLEAN, N \in SUBSET Letter : Exchange(r, ack, N)
    \/ \E F \in SUBSET Run : Revoke(F)
    \/ \E m \in Letter : Withdraw(m)
    \/ Purge

Spec == Init /\ [][Next]_vars
=============================================================================
