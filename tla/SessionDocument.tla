--------------------------- MODULE SessionDocument ---------------------------
(* The clients that edit one workspace session, each with the document it     *)
(* shows, the edit it has not saved yet and the queue that saves it, and the  *)
(* daemon that keeps the session.                                             *)
EXTENDS SessionAuthority, FiniteSets, Sequences

CONSTANTS
    Client, None,
    MaxEdits,       \* bound: what the users type
    MaxFacts,       \* bound: what the daemon writes or prunes
    MaxReads,       \* bound: background reads
    MaxFaults,      \* bound: restarts, replaced profiles, failed calls and writes
    MaxEvents       \* bound: all of these together

VARIABLES
    host,       \* HostState of each client
    typed,      \* what the store holds and the 150 ms timer has not passed on
    tail,       \* the drains that are queued
    drain,      \* the drain that runs
    toast,      \* the message about a failed save
    watch,      \* the watch stream of each client
    reading,    \* the answer to a get that is on its way
    spent,      \* how much of each bound is used
    wanted,     \* history: what a user typed and no save has confirmed
    edited,     \* history: the fields each user ever typed into
    removed     \* history: the fields the daemon deleted or lost

clientVars == <<host, typed, tail, drain, toast, watch, reading>>
history    == <<wanted, edited, removed>>
vars       == <<authorityVars, clientVars, spent, history>>

Nothing == [f \in Field |-> None]
Patch   == [Field -> Value \cup {Absent, None}]
Edit    == [id : Nat, base : Doc, desired : Doc]
Job     == [edit : Edit, snapshot : Snapshot]

HostState ==
    [snapshot : Snapshot, input : Doc, ids : Nat,
     pending : Edit \cup {None}, failed : Nat \cup {None},
     projected : [epoch : Nat, revision : Nat] \cup {None}]

Drain ==
    [edit : Edit, confirmed : Snapshot \cup {None}, attempt : 0 .. 2,
     at : {"open", "get", "got", "set", "saved", "aborted", "error"},
     snapshot : Snapshot \cup {None}, doc : Doc \cup {None}]

Toast  == [edit : Nat, confirmed : Job \cup {None}, action : BOOLEAN]
Stream == [at : {"idle", "sent", "preparing"}, seen : Nat,
           snapshot : Snapshot \cup {None}]

(* null is no value, no number and no object.                                 *)
ASSUME DocumentAssumption ==
    /\ None \notin Value \cup {Absent} \cup Nat
    /\ None \notin Edit /\ None \notin Job /\ None \notin Snapshot
    /\ None \notin Doc /\ None \notin Drain /\ None \notin Toast
    /\ None \notin [epoch : Nat, revision : Nat]
    /\ {MaxEdits, MaxFacts, MaxReads, MaxFaults} \subseteq Nat

(* The type invariant: the daemon's document and the records of every client  *)
(* are well formed.                                                           *)
TypeOK ==
    /\ AuthorityTypeOK
    /\ host \in [Client -> HostState]
    /\ typed \in [Client -> Patch]
    /\ tail \in [Client -> Seq(Job \cup {None})]
    /\ drain \in [Client -> Drain \cup {None}]
    /\ toast \in [Client -> Toast \cup {None}]
    /\ watch \in [Client -> Stream]
    /\ reading \in [Client -> Snapshot \cup {None}]
    /\ spent \in [edits : 0 .. MaxEdits, facts : 0 .. MaxFacts,
                  reads : 0 .. MaxReads, faults : 0 .. MaxFaults]
    /\ wanted \in [Client -> Patch]
    /\ edited \in [Client -> SUBSET Field]
    /\ removed \subseteq Field

(* A stream that has sent nothing yet.                                        *)
Unwatched == [at |-> "idle", seen |-> 0, snapshot |-> None]

(* Every client has read the document once and has opened its watch.          *)
Init ==
    /\ AuthorityInit
    /\ host = [c \in Client |->
                 [snapshot |-> server, input |-> server.doc, ids |-> 0,
                  pending |-> None, failed |-> None, projected |-> None]]
    /\ typed = [c \in Client |-> Nothing]
    /\ tail = [c \in Client |-> <<>>]
    /\ drain = [c \in Client |-> None]
    /\ toast = [c \in Client |-> None]
    /\ watch = [c \in Client |-> Unwatched]
    /\ reading = [c \in Client |-> None]
    /\ spent = [edits |-> 0, facts |-> 0, reads |-> 0, faults |-> 0]
    /\ wanted = [c \in Client |-> Nothing]
    /\ edited = [c \in Client |-> {}]
    /\ removed = {}

(* One more of what a bound counts.                                           *)
Spend(what, bound) ==
    /\ spent[what] < bound
    /\ spent.edits + spent.facts + spent.reads + spent.faults < MaxEvents
    /\ spent' = [spent EXCEPT ![what] = @ + 1]

-----------------------------------------------------------------------------
(* Edits and the queue of drains.                                             *)

(* The user changes a field of the store.                                     *)
Type(c, f, v) ==
    /\ Spend("edits", MaxEdits)
    /\ typed' = [typed EXCEPT ![c][f] = v]
    /\ wanted' = [wanted EXCEPT ![c][f] = v]
    /\ edited' = [edited EXCEPT ![c] = @ \cup {f}]
    /\ UNCHANGED <<authorityVars, host, tail, drain, toast, watch, reading, removed>>

(* SessionDocumentClient.write with a patch, which is how the store's         *)
(* subscriber calls it: a pending edit keeps its base.                        *)
Written(h, patch) ==
    LET desired == [f \in Field |-> IF patch[f] = None THEN h.input[f] ELSE patch[f]]
    IN [h EXCEPT !.input = desired, !.ids = @ + 1,
                 !.pending = [id |-> h.ids + 1, desired |-> desired,
                              base |-> IF h.pending = None THEN h.input
                                       ELSE h.pending.base]]

(* The state of a client and its queue after flushPendingSessionWrites.       *)
FlushedHost(c) == IF typed[c] = Nothing THEN host[c] ELSE Written(host[c], typed[c])
FlushedTail(c) == IF typed[c] = Nothing THEN tail[c] ELSE Append(tail[c], None)

(* The timer of the store's subscriber fires.                                 *)
FlushTyped(c) ==
    /\ typed[c] # Nothing
    /\ host' = [host EXCEPT ![c] = FlushedHost(c)]
    /\ tail' = [tail EXCEPT ![c] = FlushedTail(c)]
    /\ typed' = [typed EXCEPT ![c] = Nothing]
    /\ UNCHANGED <<authorityVars, drain, toast, watch, reading, spent, history>>

(* The next drain of the queue begins: without a pending edit it is over at   *)
(* once.  The edit is chosen now, and the connection awaited.                 *)
DrainStart(c) ==
    /\ drain[c] = None
    /\ tail[c] # <<>>
    /\ tail' = [tail EXCEPT ![c] = Tail(@)]
    /\ LET job == Head(tail[c]) IN
       drain' = IF host[c].pending = None THEN drain
                ELSE [drain EXCEPT ![c] =
                        [edit |-> IF job = None THEN host[c].pending ELSE job.edit,
                         confirmed |-> IF job = None THEN None ELSE job.snapshot,
                         attempt |-> 0, at |-> "open", snapshot |-> None, doc |-> None]]
    /\ UNCHANGED <<authorityVars, host, typed, toast, watch, reading, spent, history>>

(* Mutant: the user is not told.                                              *)
FailSilently(c, confirmation) ==
    /\ drain' = [drain EXCEPT ![c] = None]
    /\ UNCHANGED toast

(* Mutant: the confirmation keeps the edit without the snapshot it was judged *)
(* against.                                                                   *)
FailUnbound(c, confirmation) ==
    /\ drain' = [drain EXCEPT ![c] = None]
    /\ toast' = [toast EXCEPT ![c] =
                   [edit |-> drain[c].edit.id, action |-> TRUE,
                    confirmed |-> IF confirmation = None THEN None ELSE confirmation.edit]]

(* The catch of drain: the edit stays pending and the user is told; a         *)
(* conflict can be confirmed.                                                 *)
Fail(c, confirmation) ==
    /\ drain' = [drain EXCEPT ![c] = None]
    /\ toast' = [toast EXCEPT ![c] = [edit |-> drain[c].edit.id, action |-> TRUE,
                                       confirmed |-> confirmation]]

(* One attempt with a snapshot in hand, up to its call of set.                *)
Attempt(c, s) ==
    LET edit  == drain[c].edit
        force == drain[c].confirmed # None
        sent  == [host[c] EXCEPT !.snapshot = s]
    IN \/ /\ s.epoch # host[c].snapshot.epoch
          /\ host' = [host EXCEPT ![c].failed = edit.id]
          /\ Fail(c, None)
       \/ /\ s.epoch = host[c].snapshot.epoch
          /\ Conflicts(edit.base, edit.desired, s.doc, force) # {}
          /\ host' = [host EXCEPT ![c] = [sent EXCEPT !.failed = edit.id]]
          /\ Fail(c, [edit |-> edit, snapshot |-> s])
       \/ /\ s.epoch = host[c].snapshot.epoch
          /\ Conflicts(edit.base, edit.desired, s.doc, force) = {}
          /\ host' = [host EXCEPT ![c] = sent]
          /\ drain' = [drain EXCEPT ![c].at = "set", ![c].snapshot = s,
                         ![c].doc = Merged(edit.base, edit.desired, s.doc, force)]
          /\ UNCHANGED toast

(* The first attempt uses the snapshot at hand, or the one that was confirmed.*)
DrainFirst(c) ==
    /\ drain[c] # None
    /\ drain[c].at = "open"
    /\ Attempt(c, IF drain[c].confirmed = None THEN host[c].snapshot ELSE drain[c].confirmed)
    /\ UNCHANGED <<authorityVars, typed, tail, watch, reading, spent, history>>

(* The daemon answers the get of a later attempt.                             *)
ServeGet(c) ==
    /\ drain[c] # None
    /\ drain[c].at = "get"
    /\ drain' = [drain EXCEPT ![c].at = "got", ![c].snapshot = server]
    /\ UNCHANGED <<authorityVars, host, typed, tail, toast, watch, reading, spent, history>>

DrainAgain(c) ==
    /\ drain[c] # None
    /\ drain[c].at = "got"
    /\ Attempt(c, drain[c].snapshot)
    /\ UNCHANGED <<authorityVars, typed, tail, watch, reading, spent, history>>

(* The daemon handles set.                                                    *)
ServeSet(c) ==
    /\ drain[c] # None
    /\ drain[c].at = "set"
    /\ IF Version(server) = Version(drain[c].snapshot)
       THEN /\ SetFlushed(drain[c].doc)
            /\ drain' = [drain EXCEPT ![c].at = "saved", ![c].snapshot = server']
       ELSE /\ drain' = [drain EXCEPT ![c].at = "aborted"]
            /\ UNCHANGED authorityVars
    /\ UNCHANGED <<host, typed, tail, toast, watch, reading, spent, history>>

ServeSetUnwritten(c) ==
    /\ drain[c] # None
    /\ drain[c].at = "set"
    /\ Version(server) = Version(drain[c].snapshot)
    /\ Spend("faults", MaxFaults)
    /\ SetUnflushed(drain[c].doc)
    /\ drain' = [drain EXCEPT ![c].at = "error"]
    /\ UNCHANGED <<host, typed, tail, toast, watch, reading, history>>

(* ABORTED: another attempt, unless this was the third or was confirmed.      *)
DrainAborted(c) ==
    /\ drain[c] # None
    /\ drain[c].at = "aborted"
    /\ drain[c].confirmed = None
    /\ drain[c].attempt < 2
    /\ drain' = [drain EXCEPT ![c].at = "get", ![c].attempt = @ + 1]
    /\ UNCHANGED <<authorityVars, host, typed, tail, toast, watch, reading, spent, history>>

DrainGivesUp(c) ==
    /\ drain[c] # None
    /\ \/ drain[c].at = "error"
       \/ drain[c].at = "aborted" /\ (drain[c].confirmed # None \/ drain[c].attempt = 2)
    /\ host' = [host EXCEPT ![c].failed = drain[c].edit.id]
    /\ Fail(c, None)
    /\ UNCHANGED <<authorityVars, typed, tail, watch, reading, spent, history>>

(* A call fails: its request or its answer is lost.                           *)
CallFails(c) ==
    /\ drain[c] # None
    /\ drain[c].at \in {"open", "get", "got", "set", "saved"}
    /\ Spend("faults", MaxFaults)
    /\ drain' = [drain EXCEPT ![c].at = "error"]
    /\ UNCHANGED <<authorityVars, host, typed, tail, toast, watch, reading, history>>

(* The history after a save: it confirms what it brought, and an edit that    *)
(* took a field back to its base asked for nothing.                           *)
Confirmed(c, edit) ==
    [f \in Field |->
       IF typed[c][f] = None /\ wanted[c][f] \in {edit.desired[f], edit.base[f]}
       THEN None ELSE wanted[c][f]]

(* The document at hand is the base of a pending edit from here on, whose     *)
(* values stay; without one it is what the user sees.                         *)
AdoptAuthoritativeBase(h) ==
    IF h.pending = None THEN [h EXCEPT !.input = h.snapshot.doc]
    ELSE [h EXCEPT !.input = h.pending.desired, !.pending.base = h.snapshot.doc]

(* The save is answered: a newer pending edit becomes an edit of its own, on  *)
(* the base of what was saved, and is drained next.                           *)
DrainSaved(c) ==
    /\ drain[c] # None
    /\ drain[c].at = "saved"
    /\ LET h     == host[c]
           edit  == drain[c].edit
           saved == drain[c].snapshot
           known == IF h.snapshot.epoch = saved.epoch /\ h.snapshot.revision <= saved.revision
                    THEN saved ELSE h.snapshot
           newer == h.pending # None /\ h.pending.id # edit.id
       IN /\ host' = [host EXCEPT ![c] = AdoptAuthoritativeBase(
                        [h EXCEPT !.snapshot = known,
                                  !.ids = IF newer THEN @ + 1 ELSE @,
                                  !.failed = IF @ = edit.id THEN None ELSE @,
                                  !.pending = IF newer
                                              THEN [id |-> h.ids + 1, base |-> edit.desired,
                                                    desired |-> h.pending.desired]
                                              ELSE None])]
          /\ tail' = IF newer THEN [tail EXCEPT ![c] = Append(@, None)] ELSE tail
          /\ wanted' = [wanted EXCEPT ![c] = Confirmed(c, edit)]
    /\ drain' = [drain EXCEPT ![c] = None]
    /\ toast' = [toast EXCEPT ![c] = None]
    /\ UNCHANGED <<authorityVars, typed, watch, reading, spent, edited, removed>>

(* The user takes the offer of the message: to try again, or to replace what  *)
(* conflicts.                                                                 *)
Click(c) ==
    /\ toast[c] # None
    /\ toast[c].action
    /\ host' = [host EXCEPT ![c].failed = IF @ = toast[c].edit THEN None ELSE @]
    /\ tail' = [tail EXCEPT ![c] = Append(@, toast[c].confirmed)]
    /\ toast' = [toast EXCEPT ![c] = None]
    /\ UNCHANGED <<authorityVars, typed, drain, watch, reading, spent, history>>

-----------------------------------------------------------------------------
(* What other writers did.                                                    *)

(* Mutant: versions of another epoch are compared too.                        *)
OutdatedAcross(h, s) == h.snapshot.revision > s.revision

(* A snapshot older than the one at hand.                                     *)
Outdated(h, s) ==
    h.snapshot.epoch = s.epoch /\ h.snapshot.revision > s.revision

MergedInput(h, s) == IF h.pending = None THEN s.doc
                     ELSE Merged(h.pending.base, h.pending.desired, s.doc, FALSE)

Contested(h, s) == /\ h.pending # None
                   /\ Conflicts(h.pending.base, h.pending.desired, s.doc, FALSE) # {}

(* The daemon's watch: a change is marked as seen, and the document read and  *)
(* sent.                                                                      *)
WatchSend(c) ==
    /\ watch[c].at = "idle"
    /\ watch[c].seen # server.revision
    /\ watch' = [watch EXCEPT ![c] = [at |-> "sent", seen |-> server.revision,
                                     snapshot |-> server]]
    /\ UNCHANGED <<authorityVars, host, typed, tail, drain, toast, reading, spent, history>>

(* The stream is ready for its next event.                                    *)
Handled(c) == [watch EXCEPT ![c].at = "idle", ![c].snapshot = None]

(* A snapshot arrives: it is dropped, or its projection is prepared.          *)
WatchReceive(c) ==
    /\ watch[c].at = "sent"
    /\ LET s == watch[c].snapshot IN
       watch' = IF Outdated(host[c], s) \/ host[c].projected = Version(s)
                THEN Handled(c)
                ELSE [watch EXCEPT ![c].at = "preparing"]
    /\ UNCHANGED <<authorityVars, host, typed, tail, drain, toast, reading, spent, history>>

(* Prepared: what was typed meanwhile is written first, then the snapshot is  *)
(* judged again and applied.                                                  *)
WatchApply(c) ==
    /\ watch[c].at = "preparing"
    /\ LET h    == FlushedHost(c)
           s    == watch[c].snapshot
           next == [h EXCEPT !.snapshot = s]
           Becomes(g, queue, message) ==
               /\ host' = [host EXCEPT ![c] = g]
               /\ tail' = [tail EXCEPT ![c] = queue]
               /\ toast' = [toast EXCEPT ![c] = message]
           fails   == [next EXCEPT !.failed = h.pending.id]
           foreign == h.snapshot.epoch # s.epoch /\ h.pending # None
       IN \/ /\ Outdated(h, s)
             /\ Becomes(h, FlushedTail(c), toast[c])
          \/ /\ foreign /\ h.failed = h.pending.id
             /\ Becomes(h, FlushedTail(c), toast[c])
          \/ /\ foreign /\ h.failed # h.pending.id
             /\ Becomes([h EXCEPT !.failed = h.pending.id], FlushedTail(c),
                        [edit |-> h.pending.id, action |-> FALSE, confirmed |-> None])
          \/ /\ ~Outdated(h, s) /\ ~foreign /\ Contested(h, s)
             /\ \/ h.failed = h.pending.id /\ Becomes(next, FlushedTail(c), toast[c])
                \/ h.failed # h.pending.id
                     /\ Becomes(fails, Append(FlushedTail(c), None), toast[c])
          \/ /\ ~Outdated(h, s) /\ ~foreign /\ ~Contested(h, s)
             /\ Becomes([next EXCEPT !.input = MergedInput(h, s), !.projected = Version(s)],
                        FlushedTail(c), toast[c])
    /\ typed' = [typed EXCEPT ![c] = Nothing]
    /\ watch' = Handled(c)
    /\ UNCHANGED <<authorityVars, drain, reading, spent, history>>

(* SessionDocumentClient.get: the daemon's answer, and what it changes.       *)
Read(c) ==
    /\ reading[c] = None
    /\ Spend("reads", MaxReads)
    /\ reading' = [reading EXCEPT ![c] = server]
    /\ UNCHANGED <<authorityVars, host, typed, tail, drain, toast, watch, history>>

(* What get returns: in a conflict the pending value stays.                   *)
ReadInput(h, s) == IF Contested(h, s) THEN h.pending.desired ELSE MergedInput(h, s)

ReadApply(c) ==
    /\ reading[c] # None
    /\ LET h       == host[c]
           s       == reading[c]
           known   == IF Outdated(h, s) THEN h.snapshot ELSE s
           foreign == h.snapshot.epoch # s.epoch /\ h.pending # None
       IN host' = IF foreign THEN host
                  ELSE [host EXCEPT ![c] = [h EXCEPT !.snapshot = known,
                                                     !.input = ReadInput(h, known)]]
    /\ reading' = [reading EXCEPT ![c] = None]
    /\ UNCHANGED <<authorityVars, typed, tail, drain, toast, watch, spent, history>>

-----------------------------------------------------------------------------
(* The daemon.                                                                *)

DaemonWrites(f, v) ==
    /\ Spend("facts", MaxFacts)
    /\ Fact(f, v)
    /\ removed' = IF v = Absent THEN removed \cup {f} ELSE removed
    /\ UNCHANGED <<clientVars, wanted, edited>>

DaemonPrunes(f) ==
    /\ Spend("facts", MaxFacts)
    /\ Prune(f)
    /\ removed' = removed \cup {f}
    /\ UNCHANGED <<clientVars, wanted, edited>>

DaemonPersists == Persist /\ UNCHANGED <<clientVars, spent, history>>

(* The calls that are under way fail; the watch streams are opened anew, after *)
(* the snapshot that a client still prepares.                                 *)
Disconnected ==
    /\ drain' = [c \in Client |->
                   IF drain[c] # None /\ drain[c].at # "open"
                   THEN [drain[c] EXCEPT !.at = "error"] ELSE drain[c]]
    /\ watch' = [c \in Client |->
                   IF watch[c].at = "preparing" THEN [watch[c] EXCEPT !.seen = 0]
                   ELSE Unwatched]
    /\ reading' = [c \in Client |-> None]
    /\ removed' = removed \cup {f \in Field : server'.doc[f] = Absent /\ server.doc[f] # Absent}
    /\ UNCHANGED <<host, typed, tail, toast, wanted, edited>>

Restart ==
    /\ Spend("faults", MaxFaults)
    /\ Reload
    /\ Disconnected

Replaced ==
    /\ Spend("faults", MaxFaults)
    /\ Replace
    /\ Disconnected

Next ==
    \/ \E c \in Client :
         \/ \E f \in Content \cup Local, v \in Value : Type(c, f, v)
         \/ FlushTyped(c) \/ DrainStart(c) \/ DrainFirst(c) \/ ServeGet(c) \/ DrainAgain(c)
         \/ ServeSet(c) \/ ServeSetUnwritten(c) \/ DrainAborted(c) \/ DrainGivesUp(c)
         \/ CallFails(c) \/ DrainSaved(c) \/ Click(c)
         \/ WatchSend(c) \/ WatchReceive(c) \/ WatchApply(c)
         \/ Read(c) \/ ReadApply(c)
    \/ \E f \in Field :
         DaemonPrunes(f) \/ \E v \in Value \cup {Absent} : DaemonWrites(f, v)
    \/ DaemonPersists \/ Restart \/ Replaced

Spec == Init /\ [][Next]_vars

-----------------------------------------------------------------------------
(* A save that the daemon has acknowledged survives its restart: while the    *)
(* profile is the same, what is on disk is that save or comes after it, and   *)
(* its version is never given to another document.                            *)
SavedIsDurable ==
    acked.epoch = disk.epoch =>
        /\ disk.revision >= acked.revision
        /\ Version(disk) = Version(acked) => disk = acked
        /\ Version(server) = Version(acked) => server = acked

(* client.ts: a background read keeps "the newer external snapshot as the     *)
(* conflict base while returning the user's pending value".  What a user      *)
(* typed and no save has confirmed is still in the store or in the pending    *)
(* edit.  Fields that the daemon deleted are excepted, since its deletion     *)
(* wins, or lost in a restart, and edits that took a field back to its base.  *)
EditsKept ==
    \A c \in Client, f \in (Content \cup Local) \ removed :
        wanted[c][f] # None =>
            \/ typed[c][f] = wanted[c][f]
            \/ /\ host[c].pending # None
               /\ wanted[c][f] \in {host[c].pending.desired[f], host[c].pending.base[f]}

(* A pending edit is never forgotten: a drain is queued or runs for it, or    *)
(* its user has been told that it was not saved.                              *)
PendingIsAttended ==
    \A c \in Client :
        host[c].pending # None =>
            tail[c] # <<>> \/ drain[c] # None \/ toast[c] # None

(* Everything is at rest: nothing typed, no drain, and the watch has handled  *)
(* the latest change.                                                         *)
AtRest(c) ==
    /\ typed[c] = Nothing
    /\ tail[c] = <<>>
    /\ drain[c] = None
    /\ watch[c].at = "idle"
    /\ watch[c].seen = server.revision

(* No change is missed: a client at rest without a pending edit shows the     *)
(* daemon's document, whichever saves, reads and snapshots crossed on the     *)
(* way, unless a restart lost revisions.                                      *)
RestMeansCurrent ==
    \A c \in Client :
        AtRest(c) => lost \/ host[c].pending # None \/ host[c].input = server.doc

(* merge.ts: "comparing its base preserves other clients' entries".  A save   *)
(* changes no field that its user never typed into.                           *)
UntouchedKept ==
    [][\A c \in Client :
         (drain[c] # None /\ drain'[c] # None /\ drain[c].at = "set" /\ drain'[c].at = "saved")
           => \A f \in Field : server'.doc[f] # server.doc[f] => f \in edited[c]]_vars
=============================================================================
