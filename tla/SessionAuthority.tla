-------------------------- MODULE SessionAuthority --------------------------
(* The daemon's side of the workspace session: one document with a version,   *)
(* its copy on disk, and the three-way merge by which a client turns its edit *)
(* into the document it sends.                                                *)
EXTENDS Naturals

CONSTANTS
    Content,    \* fields where a collision asks the user
    Local,      \* fields the client that acted owns
    Remote,     \* fields the daemon owns (PTY bindings)
    Value,
    Absent      \* no value: a missing key (a null, which equal takes for one)

ASSUME SessionAssumption ==
    /\ Content \cap Local = {} /\ Content \cap Remote = {} /\ Local \cap Remote = {}
    /\ Absent \notin Value

VARIABLES
    server,     \* the document in memory and its version
    disk,       \* what a restarted daemon loads
    acked,      \* history: the last save a client was told of
    lost        \* history: a restart lost revisions that clients may have seen

authorityVars == <<server, disk, acked, lost>>

Field    == Content \cup Local \cup Remote
Doc      == [Field -> Value \cup {Absent}]
Snapshot == [epoch : Nat, revision : Nat, doc : Doc]

Version(s) == [epoch |-> s.epoch, revision |-> s.revision]

AuthorityTypeOK ==
    /\ server \in Snapshot /\ disk \in Snapshot /\ acked \in Snapshot
    /\ lost \in BOOLEAN

(* default_session, with the version that open stores for a new profile.      *)
Fresh(epoch) == [epoch |-> epoch, revision |-> 1, doc |-> [f \in Field |-> Absent]]

AuthorityInit ==
    /\ server = Fresh(1)
    /\ disk = server
    /\ acked = server
    /\ lost = FALSE

-----------------------------------------------------------------------------
(* merge, for one field.                                                      *)

Collides(b, d, c) == d # b /\ c # b /\ d # c

MergedField(f, b, d, c, force) ==
    CASE b = d                               -> c
      [] b # d /\ ~Collides(b, d, c)         -> d
      [] Collides(b, d, c) /\ f \in Local    -> d
      [] Collides(b, d, c) /\ f \in Remote   -> IF c = Absent THEN d ELSE c
      [] Collides(b, d, c) /\ f \in Content  -> IF force THEN d ELSE c

(* mergeSessionEdit.                                                          *)
Merged(base, desired, current, force) ==
    [f \in Field |-> MergedField(f, base[f], desired[f], current[f], force)]

(* What merge reports: a Content field on which both sides differ.  A field   *)
(* that the authority has deleted (undefined) is no conflict.                 *)
Conflicts(base, desired, current, force) ==
    {f \in Content : /\ ~force
                     /\ current[f] # Absent
                     /\ Collides(base[f], desired[f], current[f])}

-----------------------------------------------------------------------------
(* binding_preservation: a client does not erase a PTY binding.               *)
Preserved(doc) ==
    [f \in Field |-> IF f \in Remote /\ doc[f] = Absent THEN server.doc[f] ELSE doc[f]]

(* replace_and_commit.                                                        *)
Commit(doc) == [server EXCEPT !.revision = @ + 1, !.doc = doc]

(* Mutant: a save is answered before it is on disk.                           *)
SetFlushedLater(doc) ==
    /\ server' = Commit(Preserved(doc))
    /\ acked' = server'
    /\ UNCHANGED <<disk, lost>>

(* write_expected when the version matches.  The document is on disk before   *)
(* the answer and before anyone else reads it.                                *)
SetFlushed(doc) ==
    /\ server' = Commit(Preserved(doc))
    /\ disk' = server'
    /\ acked' = server'
    /\ UNCHANGED lost

(* write_expected when the file cannot be written: the document is committed  *)
(* all the same, and the client gets an error.                                *)
SetUnflushed(doc) ==
    /\ server' = Commit(Preserved(doc))
    /\ UNCHANGED <<disk, acked, lost>>

(* bind_pty, mutate, bind_pty_scrollback: the daemon writes a field, or       *)
(* deletes it.  Nobody waits for the file.                                    *)
Fact(f, v) ==
    /\ server' = Commit([server.doc EXCEPT ![f] = v])
    /\ UNCHANGED <<disk, acked, lost>>

(* prune_repo_owner and prune_worktree_owner, which flush.                    *)
Prune(f) ==
    /\ server.doc[f] # Absent
    /\ server' = Commit([server.doc EXCEPT ![f] = Absent])
    /\ disk' = server'
    /\ UNCHANGED <<acked, lost>>

(* The persistence worker writes what is scheduled.                           *)
Persist ==
    /\ disk # server
    /\ disk' = server
    /\ UNCHANGED <<server, acked, lost>>

(* The daemon stops without its flush on close, and loads the file, which     *)
(* needs no migration.                                                        *)
Reload ==
    /\ server' = disk
    /\ lost' = (lost \/ disk # server)
    /\ UNCHANGED <<disk, acked>>

(* The daemon starts with a profile that has no session file.                 *)
Replace ==
    /\ server' = Fresh(server.epoch + 1)
    /\ disk' = server'
    /\ UNCHANGED <<acked, lost>>
=============================================================================
