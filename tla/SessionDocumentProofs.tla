------------------------ MODULE SessionDocumentProofs ------------------------
(* Proofs about the workspace session, for any clients, fields, values and    *)
(* bounds: the daemon keeps what it acknowledged, and no client forgets an    *)
(* edit.                                                                      *)
EXTENDS SessionDocument, SequenceTheorems, TLAPS

-----------------------------------------------------------------------------
(* The daemon.                                                                *)

(* What a client's call, the daemon or a restart may do to the document.      *)
AuthorityStep ==
    \/ \E doc \in Doc : SetFlushed(doc) \/ SetUnflushed(doc)
    \/ \E f \in Field : Prune(f) \/ \E v \in Value \cup {Absent} : Fact(f, v)
    \/ Persist \/ Reload \/ Replace
    \/ UNCHANGED authorityVars

(* The file follows the document in memory, and the last acknowledged save is *)
(* not ahead of the file.                                                     *)
FileFollows ==
    /\ disk.epoch = server.epoch
    /\ disk.revision # 0 /\ disk.revision <= server.revision
    /\ disk.revision = server.revision => disk = server
    /\ acked.epoch <= server.epoch
    /\ acked.epoch = server.epoch =>
         /\ acked.revision <= disk.revision
         /\ acked.revision = disk.revision => acked = disk

AuthorityInv == AuthorityTypeOK /\ FileFollows

(* A committed document has the next revision.                                *)
LEMMA CommitFacts ==
    ASSUME server \in Snapshot, NEW doc \in Doc
    PROVE  /\ Commit(doc) \in Snapshot /\ Commit(doc).epoch = server.epoch
           /\ Commit(doc).revision = server.revision + 1 /\ Commit(doc).doc = doc
<1>1. server.epoch \in Nat /\ server.revision \in Nat
  BY DEF Snapshot
<1>2. Commit(doc).epoch = server.epoch /\ Commit(doc).doc = doc
  BY DEF Commit, Snapshot
<1>3. Commit(doc).revision = server.revision + 1
  BY DEF Commit, Snapshot
<1>4. server.revision + 1 \in Nat
  BY <1>1
<1> QED BY <1>1, <1>2, <1>3, <1>4 DEF Commit, Snapshot

(* What a client sends keeps its type when bindings are preserved.            *)
LEMMA PreservedType ==
    ASSUME server \in Snapshot, NEW doc \in Doc PROVE Preserved(doc) \in Doc
BY DEF Preserved, Snapshot, Doc

(* A fresh document is the first of its epoch.                                *)
LEMMA FreshType ==
    ASSUME NEW e \in Nat
    PROVE  Fresh(e) \in Snapshot /\ Fresh(e).epoch = e /\ Fresh(e).revision = 1
BY DEF Fresh, Snapshot, Doc

(* The first document is on disk and acknowledged.                            *)
LEMMA AuthorityInitInv == AuthorityInit => AuthorityInv
<1>1. PICK new : new = Fresh(1)
  OBVIOUS
<1>2. new \in Snapshot /\ new.epoch \in Nat /\ new.revision = 1
  BY <1>1, FreshType
<1>3. AuthorityInit => server = new /\ disk = new /\ acked = new /\ lost \in BOOLEAN
  BY <1>1 DEF AuthorityInit
<1> QED BY <1>2, <1>3 DEF AuthorityInv, AuthorityTypeOK, FileFollows

(* Every authority step keeps the file behind the document and the            *)
(* acknowledged save behind the file.                                         *)
LEMMA AuthorityStepInv ==
    ASSUME AuthorityInv, AuthorityStep
    PROVE  AuthorityInv'
<1>1. /\ server \in Snapshot /\ disk \in Snapshot /\ acked \in Snapshot /\ lost \in BOOLEAN
      /\ server.epoch \in Nat /\ server.revision \in Nat /\ server.doc \in Doc
      /\ disk.epoch \in Nat /\ disk.revision \in Nat
      /\ acked.epoch \in Nat /\ acked.revision \in Nat
  BY DEF AuthorityInv, AuthorityTypeOK, Snapshot
<1>2. ASSUME NEW doc \in Doc, SetFlushed(doc) \/ SetUnflushed(doc) PROVE AuthorityInv'
  <2> DEFINE next == Commit(Preserved(doc))
  <2>1. next \in Snapshot /\ next.epoch = server.epoch /\ next.revision = server.revision + 1
    BY <1>1, PreservedType, CommitFacts
  <2> HIDE DEF next
  <2>2. CASE SetFlushed(doc)
    <3>1. server' = next /\ disk' = next /\ acked' = next /\ lost' = lost
      BY <2>2 DEF SetFlushed, next
    <3> QED BY <1>1, <2>1, <3>1 DEF AuthorityInv, AuthorityTypeOK, FileFollows
  <2>3. CASE SetUnflushed(doc)
    <3>1. server' = next /\ UNCHANGED <<disk, acked, lost>>
      BY <2>3 DEF SetUnflushed, next
    <3> QED BY <1>1, <2>1, <3>1 DEF AuthorityInv, AuthorityTypeOK, FileFollows
  <2> QED BY <1>2, <2>2, <2>3
<1>3. ASSUME NEW f \in Field, NEW v \in Value \cup {Absent}, Fact(f, v) PROVE AuthorityInv'
  <2> DEFINE next == Commit([server.doc EXCEPT ![f] = v])
  <2>1. [server.doc EXCEPT ![f] = v] \in Doc
    BY <1>1 DEF Doc
  <2>2. next \in Snapshot /\ next.epoch = server.epoch /\ next.revision = server.revision + 1
    BY <1>1, <2>1, CommitFacts
  <2>3. server' = next /\ UNCHANGED <<disk, acked, lost>>
    BY <1>3 DEF Fact
  <2> HIDE DEF next
  <2> QED BY <1>1, <2>2, <2>3 DEF AuthorityInv, AuthorityTypeOK, FileFollows
<1>4. ASSUME NEW f \in Field, Prune(f) PROVE AuthorityInv'
  <2> DEFINE next == Commit([server.doc EXCEPT ![f] = Absent])
  <2>1. [server.doc EXCEPT ![f] = Absent] \in Doc
    BY <1>1 DEF Doc
  <2>2. next \in Snapshot /\ next.epoch = server.epoch /\ next.revision = server.revision + 1
    BY <1>1, <2>1, CommitFacts
  <2>3. server' = next /\ disk' = next /\ UNCHANGED <<acked, lost>>
    BY <1>4 DEF Prune
  <2> HIDE DEF next
  <2> QED BY <1>1, <2>2, <2>3 DEF AuthorityInv, AuthorityTypeOK, FileFollows
<1>5. CASE Persist
  BY <1>1, <1>5 DEF Persist, AuthorityInv, AuthorityTypeOK, FileFollows
<1>6. CASE Reload
  BY <1>1, <1>6 DEF Reload, AuthorityInv, AuthorityTypeOK, FileFollows
<1>7. CASE Replace
  <2> DEFINE next == Fresh(server.epoch + 1)
  <2>1. next \in Snapshot /\ next.epoch = server.epoch + 1 /\ next.revision = 1
    BY <1>1, FreshType
  <2>2. server' = next /\ disk' = next /\ UNCHANGED <<acked, lost>>
    BY <1>7 DEF Replace
  <2> HIDE DEF next
  <2> QED BY <1>1, <2>1, <2>2 DEF AuthorityInv, AuthorityTypeOK, FileFollows
<1>8. CASE UNCHANGED authorityVars
  BY <1>8 DEF authorityVars, AuthorityInv, AuthorityTypeOK, FileFollows
<1> QED BY <1>2, <1>3, <1>4, <1>5, <1>6, <1>7, <1>8 DEF AuthorityStep

(* So an acknowledged save is durable.                                        *)
LEMMA FileFollowsIsDurable == AuthorityInv => SavedIsDurable
BY DEF AuthorityInv, AuthorityTypeOK, FileFollows, SavedIsDurable, Version, Snapshot

-----------------------------------------------------------------------------
(* The records of a client.                                                   *)

(* What waits for an answer to be used is there: a snapshot that was sent, an *)
(* answer to get or set, the document of a set.                               *)
CarriesAnswer ==
    \A c \in Client :
        /\ watch[c].at # "idle" => watch[c].snapshot \in Snapshot
        /\ drain[c] # None /\ drain[c].at \in {"got", "set", "saved"}
             => drain[c].snapshot \in Snapshot
        /\ drain[c] # None /\ drain[c].at = "set" => drain[c].doc \in Doc

Types == TypeOK /\ CarriesAnswer

(* A merge of documents is a document.                                        *)
LEMMA MergedType ==
    ASSUME NEW b \in Doc, NEW d \in Doc, NEW s \in Doc, NEW force \in BOOLEAN
    PROVE  Merged(b, d, s, force) \in Doc
<1> SUFFICES ASSUME NEW f \in Field
             PROVE  MergedField(f, b[f], d[f], s[f], force) \in Value \cup {Absent}
  BY DEF Merged, Doc
<1>1. /\ b[f] \in Value \cup {Absent} /\ d[f] \in Value \cup {Absent}
      /\ s[f] \in Value \cup {Absent}
  BY DEF Doc
<1>2. f \in Content \/ f \in Local \/ f \in Remote
  BY DEF Field
<1> QED BY <1>1, <1>2 DEF MergedField, Collides

(* What write leaves: a pending edit.                                         *)
LEMMA WrittenFacts ==
    ASSUME NEW h \in HostState, NEW patch \in Patch
    PROVE  LET w == Written(h, patch) IN
           /\ w \in HostState /\ w.pending \in Edit
           /\ w.snapshot = h.snapshot /\ w.projected = h.projected
           /\ w.failed = h.failed
<1> DEFINE desired == [f \in Field |-> IF patch[f] = None THEN h.input[f] ELSE patch[f]]
           edit == [id |-> h.ids + 1, desired |-> desired,
                    base |-> IF h.pending = None THEN h.input ELSE h.pending.base]
<1>1. desired \in Doc
  BY DEF HostState, Patch, Doc
<1>2. h.ids + 1 \in Nat /\ (h.pending # None => h.pending.base \in Doc)
  BY DEF HostState, Edit
<1>3. edit \in Edit
  <2>1. (IF h.pending = None THEN h.input ELSE h.pending.base) \in Doc
    BY <1>2 DEF HostState
  <2> QED BY <1>1, <1>2, <2>1 DEF Edit
<1>4. Written(h, patch) = [h EXCEPT !.input = desired, !.ids = @ + 1, !.pending = edit]
  BY DEF Written
<1> HIDE DEF desired, edit
<1> QED BY <1>1, <1>2, <1>3, <1>4 DEF HostState

(* flushPendingSessionWrites keeps what the client knows, and with something  *)
(* typed leaves a pending edit and a drain for it.                            *)
LEMMA FlushedFacts ==
    ASSUME TypeOK, NEW c \in Client
    PROVE  /\ FlushedHost(c) \in HostState
           /\ FlushedTail(c) \in Seq(Job \cup {None})
           /\ FlushedHost(c).snapshot = host[c].snapshot
           /\ FlushedHost(c).projected = host[c].projected
           /\ FlushedHost(c).failed = host[c].failed
           /\ IF typed[c] = Nothing
              THEN FlushedHost(c) = host[c] /\ FlushedTail(c) = tail[c]
              ELSE FlushedHost(c).pending \in Edit /\ FlushedTail(c) # <<>>
<1>1. host[c] \in HostState /\ typed[c] \in Patch /\ tail[c] \in Seq(Job \cup {None})
  BY DEF TypeOK
<1>2. CASE typed[c] = Nothing
  BY <1>1, <1>2 DEF FlushedHost, FlushedTail
<1>3. CASE typed[c] # Nothing
  <2>1. Append(tail[c], None) \in Seq(Job \cup {None}) /\ Append(tail[c], None) # <<>>
    BY <1>1
  <2> QED BY <1>1, <1>3, <2>1, WrittenFacts DEF FlushedHost, FlushedTail
<1> QED BY <1>2, <1>3

(* What the answer to a save leaves.                                          *)
LEMMA AdoptedFacts ==
    ASSUME NEW h \in HostState
    PROVE  LET a == AdoptAuthoritativeBase(h) IN
           /\ a \in HostState /\ (a.pending = None <=> h.pending = None)
           /\ a.snapshot = h.snapshot /\ a.projected = h.projected /\ a.failed = h.failed
           /\ h.pending = None => a.input = h.snapshot.doc
<1>1. CASE h.pending = None
  BY <1>1 DEF AdoptAuthoritativeBase, HostState, Snapshot
<1>2. CASE h.pending # None
  <2> DEFINE edit == [h.pending EXCEPT !.base = h.snapshot.doc]
  <2>1. edit \in Edit /\ h.pending.desired \in Doc
    BY <1>2 DEF HostState, Edit, Snapshot
  <2>2. AdoptAuthoritativeBase(h) = [h EXCEPT !.input = h.pending.desired, !.pending = edit]
    BY <1>2 DEF AdoptAuthoritativeBase, HostState
  <2> HIDE DEF edit
  <2> QED BY <1>2, <2>1, <2>2, DocumentAssumption DEF HostState
<1> QED BY <1>1, <1>2

(* A count that has not reached its bound goes on.                            *)
LEMMA SpendType ==
    ASSUME TypeOK,
           \/ Spend("edits", MaxEdits) \/ Spend("facts", MaxFacts)
           \/ Spend("reads", MaxReads) \/ Spend("faults", MaxFaults)
    PROVE  spent' \in [edits : 0 .. MaxEdits, facts : 0 .. MaxFacts,
                       reads : 0 .. MaxReads, faults : 0 .. MaxFaults]
<1>1. /\ spent \in [edits : 0 .. MaxEdits, facts : 0 .. MaxFacts,
                    reads : 0 .. MaxReads, faults : 0 .. MaxFaults]
      /\ MaxEdits \in Nat /\ MaxFacts \in Nat /\ MaxReads \in Nat /\ MaxFaults \in Nat
  BY DocumentAssumption DEF TypeOK, DocumentAssumption
<1>2. CASE Spend("edits", MaxEdits)
  <2>1. spent["edits"] < MaxEdits /\ spent' = [spent EXCEPT !["edits"] = @ + 1]
    BY <1>2 DEF Spend
  <2> QED BY <1>1, <2>1
<1>3. CASE Spend("facts", MaxFacts)
  <2>1. spent["facts"] < MaxFacts /\ spent' = [spent EXCEPT !["facts"] = @ + 1]
    BY <1>3 DEF Spend
  <2> QED BY <1>1, <2>1
<1>4. CASE Spend("reads", MaxReads)
  <2>1. spent["reads"] < MaxReads /\ spent' = [spent EXCEPT !["reads"] = @ + 1]
    BY <1>4 DEF Spend
  <2> QED BY <1>1, <2>1
<1>5. CASE Spend("faults", MaxFaults)
  <2>1. spent["faults"] < MaxFaults /\ spent' = [spent EXCEPT !["faults"] = @ + 1]
    BY <1>5 DEF Spend
  <2> QED BY <1>1, <2>1
<1> QED BY <1>2, <1>3, <1>4, <1>5

-----------------------------------------------------------------------------
(* What holds of a client: of its HostState h, its queue t, the drain d that  *)
(* runs, the message m, the stream w and the answer r to a get.               *)

Attended(h, t, d, m) == h.pending # None => t # <<>> \/ d # None \/ m # None

(* A drain works for a pending edit; without one the user sees the document   *)
(* that the client holds.                                                     *)
DrainsPending(h, d) == d # None => h.pending # None
ShowsSnapshot(h)    == h.pending = None => h.input = h.snapshot.doc

Drains(d, at) == d # None /\ d.at = at

(* A profile that is replaced under a client is noticed: no answer of the old *)
(* one is taken for the new one's, except a snapshot in preparation, after    *)
(* which the new stream sends its own.                                        *)
SameProfile(h, d, w, r) ==
    /\ r # None => r.epoch = server.epoch
    /\ Drains(d, "set") \/ Drains(d, "saved") => d.snapshot.epoch = h.snapshot.epoch
    /\ Drains(d, "saved") => d.snapshot.epoch = server.epoch
    /\ w.at # "idle" /\ w.seen # 0 =>
         w.snapshot.epoch = server.epoch /\ w.snapshot.revision = w.seen

(* A snapshot that the daemon has sent, as long as no revision was lost.      *)
Known(s) ==
    /\ s.epoch <= server.epoch
    /\ s.epoch = server.epoch =>
         /\ s.revision <= server.revision
         /\ s.revision = server.revision => s = server

KnownTail(t) == \A i \in DOMAIN t : t[i] # None => Known(t[i].snapshot)

KnowsOnly(h, t, d, m, w, r) ==
    /\ Known(h.snapshot)
    /\ h.projected # None =>
         /\ h.projected.epoch <= server.epoch
         /\ h.projected.epoch = server.epoch => h.projected.revision <= server.revision
    /\ KnownTail(t)
    /\ Drains(d, "got") \/ Drains(d, "set") \/ Drains(d, "saved") => Known(d.snapshot)
    /\ d # None /\ d.confirmed # None => Known(d.confirmed)
    /\ m # None /\ m.confirmed # None => Known(m.confirmed.snapshot)
    /\ w.at # "idle" => Known(w.snapshot)
    /\ w.seen <= server.revision
    /\ r # None => Known(r)

(* The client holds revision n or a later one, or is about to: the answer to  *)
(* its save is there.                                                         *)
Holds(h, d, n) ==
    \/ h.snapshot.epoch = server.epoch /\ n <= h.snapshot.revision
    \/ Drains(d, "saved") /\ n <= d.snapshot.revision

(* A client without a pending edit, or whose edit is saved, holds what its    *)
(* stream has handled and what it has projected.                              *)
CaughtUp(h, d, w) ==
    h.pending = None \/ Drains(d, "saved") =>
        /\ w.at = "idle" /\ w.seen # 0 => Holds(h, d, w.seen)
        /\ h.projected # None /\ h.projected.epoch = server.epoch
             => Holds(h, d, h.projected.revision)

ClientOK(h, t, d, m, w, r) ==
    /\ Attended(h, t, d, m) /\ DrainsPending(h, d) /\ ShowsSnapshot(h)
    /\ SameProfile(h, d, w, r)
    /\ ~lost => KnowsOnly(h, t, d, m, w, r) /\ CaughtUp(h, d, w)

ClientInv(c) ==
    ClientOK(host[c], tail[c], drain[c], toast[c], watch[c], reading[c])

SessionInv ==
    /\ Types /\ FileFollows
    /\ \A c \in Client : ClientInv(c)

-----------------------------------------------------------------------------
(* One client acts, and the daemon goes on.                                   *)

(* What a drain and a stream carry is there.                                  *)
DrainOK(d) ==
    /\ d \in Drain \cup {None}
    /\ d # None /\ d.at \in {"got", "set", "saved"} => d.snapshot \in Snapshot
    /\ d # None /\ d.at = "set" => d.doc \in Doc

StreamOK(w) == w \in Stream /\ (w.at # "idle" => w.snapshot \in Snapshot)

Records(h, t, d, m, w, r) ==
    /\ h \in HostState /\ t \in Seq(Job \cup {None}) /\ DrainOK(d)
    /\ m \in Toast \cup {None} /\ StreamOK(w) /\ r \in Snapshot \cup {None}

(* The records of client c after a step.                                      *)
Changes(c, h, t, d, m, w, r) ==
    /\ host' = [host EXCEPT ![c] = h] /\ tail' = [tail EXCEPT ![c] = t]
    /\ drain' = [drain EXCEPT ![c] = d] /\ toast' = [toast EXCEPT ![c] = m]
    /\ watch' = [watch EXCEPT ![c] = w] /\ reading' = [reading EXCEPT ![c] = r]

(* The types of what the invariant of a client does not mention.              *)
RestTypes ==
    /\ typed \in [Client -> Patch] /\ wanted \in [Client -> Patch]
    /\ spent \in [edits : 0 .. MaxEdits, facts : 0 .. MaxFacts,
                  reads : 0 .. MaxReads, faults : 0 .. MaxFaults]
    /\ edited \in [Client -> SUBSET Field] /\ removed \subseteq Field

(* The document gets its next revision or stays.                              *)
Grows ==
    /\ server'.epoch = server.epoch /\ lost' = lost
    /\ server' = server \/ server'.revision = server.revision + 1

(* The records of one client.                                                 *)
LEMMA RecordTypes ==
    ASSUME Types, NEW c \in Client
    PROVE  /\ Records(host[c], tail[c], drain[c], toast[c], watch[c], reading[c])
           /\ typed[c] \in Patch /\ server \in Snapshot
           /\ server.epoch \in Nat /\ server.revision \in Nat
BY DEF Types, TypeOK, CarriesAnswer, Records, DrainOK, StreamOK, AuthorityTypeOK, Snapshot

(* The fields of a client's records that hold snapshots.                      *)
LEMMA RecordSnapshots ==
    ASSUME NEW h, NEW t, NEW d, NEW m, NEW w, NEW r, Records(h, t, d, m, w, r)
    PROVE  /\ h.snapshot \in Snapshot
           /\ w.at # "idle" => w.snapshot \in Snapshot
           /\ r # None => r \in Snapshot
           /\ Drains(d, "got") \/ Drains(d, "set") \/ Drains(d, "saved")
                => d.snapshot \in Snapshot
           /\ d # None /\ d.confirmed # None => d.confirmed \in Snapshot
           /\ m # None /\ m.confirmed # None => m.confirmed.snapshot \in Snapshot
           /\ \A i \in DOMAIN t : t[i] # None => t[i] \in Job /\ t[i].snapshot \in Snapshot
           /\ w.seen \in Nat
           /\ h.projected # None => h.projected.epoch \in Nat /\ h.projected.revision \in Nat
BY DEF Records, HostState, DrainOK, Drains, Drain, Toast, Job, StreamOK, Stream

(* What the daemon has sent it has sent for good.                             *)
LEMMA KnownGrows ==
    ASSUME server \in Snapshot, Grows
    PROVE  \A s \in Snapshot : Known(s) => Known(s)'
BY DEF Grows, Known, Snapshot

(* A client that does nothing is no worse off when the document grows.        *)
LEMMA Bystander ==
    ASSUME server \in Snapshot, Grows,
           NEW h, NEW t, NEW d, NEW m, NEW w, NEW r, Records(h, t, d, m, w, r),
           ClientOK(h, t, d, m, w, r)
    PROVE  ClientOK(h, t, d, m, w, r)'
<1>1. server.epoch \in Nat /\ server.revision \in Nat
  BY DEF Snapshot
<1>2. \A s \in Snapshot : Known(s) => Known(s)'
  BY KnownGrows
<1>3. Attended(h, t, d, m)' /\ DrainsPending(h, d)' /\ ShowsSnapshot(h)' /\ SameProfile(h, d, w, r)'
  BY DEF ClientOK, Attended, DrainsPending, ShowsSnapshot, SameProfile, Grows
<1>4. ASSUME ~lost PROVE KnowsOnly(h, t, d, m, w, r)'
  <2>1. KnowsOnly(h, t, d, m, w, r)
    BY <1>4 DEF ClientOK
  <2>2. KnownTail(t)'
    BY <1>2, <2>1, RecordSnapshots DEF KnowsOnly, KnownTail
  <2>3. w.seen <= server'.revision
    BY <1>1, <2>1, RecordSnapshots DEF KnowsOnly, Grows
  <2>4. h.projected # None =>
         /\ h.projected.epoch <= server'.epoch
         /\ h.projected.epoch = server'.epoch => h.projected.revision <= server'.revision
    BY <1>1, <2>1, RecordSnapshots DEF KnowsOnly, Grows
  <2> QED BY <1>2, <2>1, <2>2, <2>3, <2>4, RecordSnapshots DEF KnowsOnly
<1>5. ASSUME ~lost PROVE CaughtUp(h, d, w)'
  BY <1>5 DEF ClientOK, CaughtUp, Holds, Grows
<1> QED BY <1>3, <1>4, <1>5 DEF ClientOK, Grows

(* So a step of one client need only be checked for that client.              *)
LEMMA OneClient ==
    ASSUME SessionInv, AuthorityInv', Grows, NEW c \in Client,
           NEW h, NEW t, NEW d, NEW m, NEW w, NEW r, Changes(c, h, t, d, m, w, r),
           Records(h, t, d, m, w, r), RestTypes', ClientOK(h, t, d, m, w, r)'
    PROVE  SessionInv'
<1>1. TypeOK /\ CarriesAnswer /\ Types
  BY DEF SessionInv, Types
<1>2. Types'
  <2>1. TypeOK'
    BY <1>1 DEF TypeOK, DrainOK, Changes, Records, StreamOK, RestTypes, AuthorityInv
  <2>2. CarriesAnswer'
    BY <1>1 DEF TypeOK, CarriesAnswer, DrainOK, Changes, Records, StreamOK
  <2> QED BY <2>1, <2>2 DEF Types
<1>3. ASSUME NEW k \in Client, k # c PROVE ClientInv(k)'
  <2>1. PICK kh, kt, kd, km, kw, kr :
           /\ kh = host[k] /\ kt = tail[k] /\ kd = drain[k] /\ km = toast[k]
           /\ kw = watch[k] /\ kr = reading[k]
    OBVIOUS
  <2>2. /\ kh = host'[k] /\ kt = tail'[k] /\ kd = drain'[k] /\ km = toast'[k]
        /\ kw = watch'[k] /\ kr = reading'[k]
    BY <1>1, <1>3, <2>1 DEF Changes, TypeOK
  <2>3. Records(kh, kt, kd, km, kw, kr) /\ server \in Snapshot
    BY <1>1, <2>1, RecordTypes
  <2>4. ClientOK(kh, kt, kd, km, kw, kr)'
    BY <2>1, <2>3, Bystander DEF SessionInv, ClientInv
  <2> QED BY <2>2, <2>4 DEF ClientInv
<1>4. ClientInv(c)'
  <2>1. /\ h = host'[c] /\ t = tail'[c] /\ d = drain'[c] /\ m = toast'[c]
        /\ w = watch'[c] /\ r = reading'[c]
    BY <1>1 DEF Changes, TypeOK
  <2> QED BY <2>1 DEF ClientInv
<1> QED BY <1>2, <1>3, <1>4 DEF SessionInv, AuthorityInv

(* The steps that leave the authority alone.                                  *)
ClientOnly(c) ==
    \/ \E f \in Content \cup Local, v \in Value : Type(c, f, v)
    \/ FlushTyped(c) \/ DrainStart(c) \/ DrainFirst(c) \/ ServeGet(c) \/ DrainAgain(c)
    \/ DrainAborted(c) \/ DrainGivesUp(c) \/ CallFails(c) \/ DrainSaved(c) \/ Click(c)
    \/ WatchSend(c) \/ WatchReceive(c) \/ WatchApply(c) \/ Read(c) \/ ReadApply(c)

(* What a client does by itself leaves the daemon's document alone.           *)
LEMMA ClientOnlySteps ==
    ASSUME NEW c \in Client, ClientOnly(c) PROVE UNCHANGED authorityVars
BY DEF ClientOnly, Type, FlushTyped, DrainStart, DrainFirst, ServeGet, DrainAgain,
       DrainAborted, DrainGivesUp, CallFails, DrainSaved, Click, WatchSend,
       WatchReceive, WatchApply, Read, ReadApply

(* Every step is a step of the authority, and between restarts the document   *)
(* grows.                                                                     *)
LEMMA AuthoritySteps ==
    ASSUME SessionInv, [Next]_vars
    PROVE  AuthorityStep /\ (Grows \/ Restart \/ Replaced)
<1>1. Types /\ server \in Snapshot /\ server.doc \in Doc
  BY DEF SessionInv, Types, TypeOK, AuthorityTypeOK, Snapshot
<1>2. CASE UNCHANGED authorityVars
  BY <1>2 DEF authorityVars, AuthorityStep, Grows
<1>3. ASSUME NEW c \in Client, ServeSet(c) \/ ServeSetUnwritten(c)
      PROVE  AuthorityStep /\ Grows
  <2>1. PICK doc : doc = drain[c].doc
    OBVIOUS
  <2>2. doc \in Doc
    BY <1>1, <1>3, <2>1 DEF Types, CarriesAnswer, ServeSet, ServeSetUnwritten
  <2>3. \/ UNCHANGED authorityVars
        \/ (SetFlushed(doc) \/ SetUnflushed(doc)) /\ server' = Commit(Preserved(doc))
    BY <1>3, <2>1 DEF ServeSet, ServeSetUnwritten, SetFlushed, SetUnflushed
  <2>4. Commit(Preserved(doc)).epoch = server.epoch
        /\ Commit(Preserved(doc)).revision = server.revision + 1
    BY <1>1, <2>2, PreservedType, CommitFacts
  <2>5. CASE (SetFlushed(doc) \/ SetUnflushed(doc)) /\ server' = Commit(Preserved(doc))
    <3>1. Grows
      BY <2>4, <2>5 DEF Grows, SetFlushed, SetUnflushed
    <3> QED BY <2>2, <2>5, <3>1 DEF AuthorityStep
  <2> QED BY <1>2, <2>3, <2>5 DEF authorityVars, AuthorityStep, Grows
<1>4. ASSUME NEW f \in Field, NEW v \in Value \cup {Absent}, DaemonWrites(f, v)
      PROVE  AuthorityStep /\ Grows
  <2>1. [server.doc EXCEPT ![f] = v] \in Doc
    BY <1>1 DEF Doc
  <2>2. Fact(f, v)
    BY <1>4 DEF DaemonWrites
  <2>3. Grows
    BY <1>1, <2>1, <2>2, CommitFacts DEF Fact, Grows
  <2> QED BY <2>2, <2>3 DEF AuthorityStep
<1>5. ASSUME NEW f \in Field, DaemonPrunes(f)
      PROVE  AuthorityStep /\ Grows
  <2>1. [server.doc EXCEPT ![f] = Absent] \in Doc
    BY <1>1 DEF Doc
  <2>2. Prune(f)
    BY <1>5 DEF DaemonPrunes
  <2>3. Grows
    BY <1>1, <2>1, <2>2, CommitFacts DEF Prune, Grows
  <2> QED BY <2>2, <2>3 DEF AuthorityStep
<1>6. CASE DaemonPersists
  BY <1>6 DEF DaemonPersists, Persist, AuthorityStep, Grows
<1>7. CASE Restart \/ Replaced
  BY <1>7 DEF Restart, Replaced, AuthorityStep
<1>8. ASSUME NEW c \in Client, ClientOnly(c) PROVE AuthorityStep /\ Grows
  BY <1>2, <1>8, ClientOnlySteps DEF authorityVars, AuthorityStep, Grows
<1>9. CASE UNCHANGED vars
  BY <1>9 DEF vars, authorityVars, AuthorityStep, Grows
<1> QED BY <1>3, <1>4, <1>5, <1>6, <1>7, <1>8, <1>9 DEF Next, ClientOnly

(* The store, the counts and the history keep their types.                    *)
LEMMA RestTypesKept ==
    ASSUME Types, [Next]_vars PROVE RestTypes'
<1>1. TypeOK /\ RestTypes
  BY DEF Types, TypeOK, RestTypes
<1>2. Nothing \in Patch
  BY DEF Nothing, Patch
<1>3. \/ UNCHANGED spent \/ Spend("edits", MaxEdits) \/ Spend("facts", MaxFacts)
      \/ Spend("reads", MaxReads) \/ Spend("faults", MaxFaults)
  BY ZenonT(40) DEF Next, Type, FlushTyped, DrainStart, DrainFirst, ServeGet, DrainAgain,
         ServeSet, ServeSetUnwritten, DrainAborted, DrainGivesUp, CallFails,
         DrainSaved, Click, WatchSend, WatchReceive, WatchApply, Read, ReadApply,
         DaemonPrunes, DaemonWrites, DaemonPersists, Restart, Replaced, vars
<1>4. spent' \in [edits : 0 .. MaxEdits, facts : 0 .. MaxFacts,
                  reads : 0 .. MaxReads, faults : 0 .. MaxFaults]
  BY <1>1, <1>3, SpendType DEF RestTypes
<1> DEFINE Rest == /\ typed' \in [Client -> Patch] /\ wanted' \in [Client -> Patch]
                   /\ edited' \in [Client -> SUBSET Field] /\ removed' \subseteq Field
<1>5. ASSUME UNCHANGED <<typed, wanted, edited, removed>> PROVE Rest
  BY <1>1, <1>5 DEF RestTypes
<1>6. ASSUME NEW c \in Client, NEW f \in Content \cup Local, NEW v \in Value, Type(c, f, v)
      PROVE  Rest
  <2>1. f \in Field
    BY DEF Field
  <2> QED BY <1>1, <1>6, <2>1 DEF Type, RestTypes, Patch
<1>7. ASSUME NEW c \in Client, FlushTyped(c) \/ WatchApply(c)
      PROVE  Rest
  BY <1>1, <1>2, <1>7 DEF FlushTyped, WatchApply, RestTypes, history
<1>8. ASSUME NEW c \in Client, DrainSaved(c) PROVE Rest
  <2>1. Confirmed(c, drain[c].edit) \in Patch
    BY <1>1 DEF Confirmed, RestTypes, Patch
  <2> QED BY <1>1, <1>8, <2>1 DEF DrainSaved, RestTypes
<1>9. ASSUME Restart \/ Replaced PROVE Rest
  BY <1>1, <1>9 DEF Restart, Replaced, Disconnected, RestTypes
<1>10. ASSUME NEW f \in Field, DaemonPrunes(f) PROVE Rest
  BY <1>1, <1>10 DEF DaemonPrunes, clientVars, RestTypes
<1>11. ASSUME NEW f \in Field, NEW v \in Value \cup {Absent}, DaemonWrites(f, v) PROVE Rest
  BY <1>1, <1>11 DEF DaemonWrites, clientVars, RestTypes
<1>12. Rest
  <2> HIDE DEF Rest
  <2> QED
    BY <1>5, <1>6, <1>7, <1>8, <1>9, <1>10, <1>11
       DEF Next, DrainStart, DrainFirst, ServeGet, DrainAgain, ServeSet, ServeSetUnwritten,
         DrainAborted, DrainGivesUp, CallFails, Click, WatchSend, WatchReceive, Read,
         ReadApply, DaemonPersists, vars, clientVars, history
<1> QED BY <1>4, <1>12 DEF RestTypes

-----------------------------------------------------------------------------
(* The steps of a client.                                                     *)

(* With the authority alone, the new records are judged as they are.          *)
LEMMA ClientActs ==
    ASSUME SessionInv, AuthorityInv', RestTypes', UNCHANGED authorityVars, NEW c \in Client,
           NEW h, NEW t, NEW d, NEW m, NEW w, NEW r, Changes(c, h, t, d, m, w, r),
           Records(h, t, d, m, w, r), ClientOK(h, t, d, m, w, r)
    PROVE  SessionInv'
<1>1. Grows
  BY DEF Grows, authorityVars
<1>2. server \in Snapshot
  BY DEF SessionInv, Types, TypeOK, AuthorityTypeOK
<1> QED BY <1>1, <1>2, Bystander, OneClient

(* The records of a client before its step.                                   *)
LEMMA ClientBefore ==
    ASSUME SessionInv, NEW c \in Client
    PROVE  \E h, t, d, m, w, r :
             /\ h = host[c] /\ t = tail[c] /\ d = drain[c] /\ m = toast[c]
             /\ w = watch[c] /\ r = reading[c]
             /\ Records(h, t, d, m, w, r) /\ ClientOK(h, t, d, m, w, r)
             /\ Changes(c, h, t, d, m, w, r) <=>
                  UNCHANGED <<host, tail, drain, toast, watch, reading>>
<1>1. Types /\ ClientInv(c)
  BY DEF SessionInv
<1>2. Records(host[c], tail[c], drain[c], toast[c], watch[c], reading[c])
  BY <1>1, RecordTypes
<1>3. /\ [host EXCEPT ![c] = host[c]] = host /\ [tail EXCEPT ![c] = tail[c]] = tail
      /\ [drain EXCEPT ![c] = drain[c]] = drain /\ [toast EXCEPT ![c] = toast[c]] = toast
      /\ [watch EXCEPT ![c] = watch[c]] = watch /\ [reading EXCEPT ![c] = reading[c]] = reading
  BY <1>1 DEF Types, TypeOK
<1>4. Changes(c, host[c], tail[c], drain[c], toast[c], watch[c], reading[c]) <=>
        UNCHANGED <<host, tail, drain, toast, watch, reading>>
  BY <1>3 DEF Changes
<1> QED BY <1>1, <1>2, <1>4 DEF ClientInv

(* A queue of known jobs stays one.                                           *)
LEMMA TailFacts ==
    ASSUME NEW t \in Seq(Job \cup {None}), NEW x \in Job \cup {None}
    PROVE  /\ Append(t, x) \in Seq(Job \cup {None}) /\ Append(t, x) # <<>>
           /\ KnownTail(t) /\ (x # None => Known(x.snapshot)) => KnownTail(Append(t, x))
           /\ t # <<>> => /\ Tail(t) \in Seq(Job \cup {None}) /\ Head(t) \in Job \cup {None}
                          /\ KnownTail(t) => KnownTail(Tail(t))
                          /\ KnownTail(t) /\ Head(t) # None => Known(Head(t).snapshot)
<1>1. Append(t, x) \in Seq(Job \cup {None}) /\ Append(t, x) # <<>>
  <2> DEFINE S == Job \cup {None}
  <2> HIDE DEF S
  <2> SUFFICES ASSUME t \in Seq(S), x \in S PROVE Append(t, x) \in Seq(S) /\ Append(t, x) # <<>>
    BY DEF S
  <2> QED OBVIOUS
<1>2. ASSUME KnownTail(t), x # None => Known(x.snapshot) PROVE KnownTail(Append(t, x))
  BY <1>2 DEF KnownTail
<1>3. ASSUME t # <<>>
      PROVE  /\ Tail(t) \in Seq(Job \cup {None}) /\ Head(t) \in Job \cup {None}
             /\ KnownTail(t) => KnownTail(Tail(t))
             /\ KnownTail(t) /\ Head(t) # None => Known(Head(t).snapshot)
  BY <1>3 DEF KnownTail
<1> QED BY <1>1, <1>2, <1>3

(* flushPendingSessionWrites keeps what holds of a client.                    *)
LEMMA FlushOK ==
    ASSUME SessionInv, NEW c \in Client
    PROVE  \E g, q :
             /\ g = FlushedHost(c) /\ q = FlushedTail(c)
             /\ Records(g, q, drain[c], toast[c], watch[c], reading[c])
             /\ ClientOK(g, q, drain[c], toast[c], watch[c], reading[c])
<1>1. PICK h, t, d, m, w, r :
        /\ h = host[c] /\ t = tail[c] /\ d = drain[c] /\ m = toast[c]
        /\ w = watch[c] /\ r = reading[c]
        /\ Records(h, t, d, m, w, r) /\ ClientOK(h, t, d, m, w, r)
        /\ Changes(c, h, t, d, m, w, r) <=>
             UNCHANGED <<host, tail, drain, toast, watch, reading>>
  BY ClientBefore
<1>2. PICK g, q : g = FlushedHost(c) /\ q = FlushedTail(c)
  OBVIOUS
<1>3. CASE typed[c] = Nothing
  <2>1. g = h /\ q = t
    BY <1>1, <1>2, <1>3 DEF FlushedHost, FlushedTail
  <2> QED BY <1>1, <1>2, <2>1
<1>4. CASE typed[c] # Nothing
  <2>1. /\ g \in HostState /\ g.pending \in Edit /\ g.pending # None
        /\ g.snapshot = h.snapshot /\ g.projected = h.projected
        /\ q = Append(t, None) /\ q # <<>> /\ q \in Seq(Job \cup {None})
    BY <1>1, <1>2, <1>4, FlushedFacts, DocumentAssumption
       DEF FlushedTail, SessionInv, Types, DocumentAssumption
  <2>2. Records(g, q, d, m, w, r)
    BY <1>1, <2>1 DEF Records
  <2>3. ClientOK(g, q, d, m, w, r)
    <3>1. KnownTail(t) => KnownTail(q)
      BY <1>1, <2>1, TailFacts DEF Records
    <3> QED BY <1>1, <2>1, <3>1
            DEF ClientOK, Attended, DrainsPending, ShowsSnapshot, SameProfile, KnowsOnly,
                CaughtUp, Holds
  <2> QED BY <1>1, <1>2, <2>2, <2>3
<1> QED BY <1>3, <1>4

(* The timer passes on what was typed.                                        *)
LEMMA FlushTypedKeeps ==
    ASSUME SessionInv, AuthorityInv', RestTypes', NEW c \in Client, FlushTyped(c)
    PROVE  SessionInv'
<1>1. PICK g, q :
        /\ g = FlushedHost(c) /\ q = FlushedTail(c)
        /\ Records(g, q, drain[c], toast[c], watch[c], reading[c])
        /\ ClientOK(g, q, drain[c], toast[c], watch[c], reading[c])
  BY FlushOK
<1>2. PICK d, m, w, r : d = drain[c] /\ m = toast[c] /\ w = watch[c] /\ r = reading[c]
  OBVIOUS
<1>3. Changes(c, g, q, d, m, w, r) /\ UNCHANGED authorityVars
  BY <1>1, <1>2 DEF FlushTyped, Changes, SessionInv, Types, TypeOK
<1> QED BY <1>1, <1>2, <1>3, ClientActs

(* A drain takes its place.                                                   *)
LEMMA DrainStartKeeps ==
    ASSUME SessionInv, AuthorityInv', RestTypes', NEW c \in Client, DrainStart(c)
    PROVE  SessionInv'
<1>1. PICK h, t, d, m, w, r :
        /\ h = host[c] /\ t = tail[c] /\ d = drain[c] /\ m = toast[c]
        /\ w = watch[c] /\ r = reading[c]
        /\ Records(h, t, d, m, w, r) /\ ClientOK(h, t, d, m, w, r)
        /\ Changes(c, h, t, d, m, w, r) <=>
             UNCHANGED <<host, tail, drain, toast, watch, reading>>
  BY ClientBefore
<1>2. d = None /\ t # <<>> /\ UNCHANGED authorityVars
  BY <1>1 DEF DrainStart
<1>3. /\ Tail(t) \in Seq(Job \cup {None}) /\ Head(t) \in Job \cup {None}
      /\ KnownTail(t) => KnownTail(Tail(t))
      /\ KnownTail(t) /\ Head(t) # None => Known(Head(t).snapshot)
  BY <1>1, <1>2, TailFacts DEF Records
<1>4. CASE h.pending = None
  <2>1. Changes(c, h, Tail(t), d, m, w, r)
    BY <1>1, <1>4 DEF DrainStart, Changes, SessionInv, Types, TypeOK
  <2>2. Records(h, Tail(t), d, m, w, r)
    BY <1>1, <1>3 DEF Records
  <2>3. ClientOK(h, Tail(t), d, m, w, r)
    BY <1>1, <1>3, <1>4 DEF ClientOK, Attended, KnowsOnly
  <2> QED BY <1>2, <2>1, <2>2, <2>3, ClientActs
<1>5. CASE h.pending # None
  <2> DEFINE job == Head(t)
  <2>1. PICK e : e = [edit |-> IF job = None THEN h.pending ELSE job.edit,
                      confirmed |-> IF job = None THEN None ELSE job.snapshot,
                      attempt |-> 0, at |-> "open", snapshot |-> None, doc |-> None]
    OBVIOUS
  <2>2. /\ (IF job = None THEN h.pending ELSE job.edit) \in Edit
        /\ (IF job = None THEN None ELSE job.snapshot) \in Snapshot \cup {None}
    BY <1>1, <1>3, <1>5 DEF Records, HostState, Job
  <2>3. e \in Drain /\ e # None /\ e.at = "open"
        /\ e.confirmed = (IF job = None THEN None ELSE job.snapshot)
    BY <2>1, <2>2, DocumentAssumption DEF Drain, DocumentAssumption
  <2>4. Changes(c, h, Tail(t), e, m, w, r)
    BY <1>1, <1>5, <2>1 DEF DrainStart, Changes, SessionInv, Types, TypeOK
  <2>5. Records(h, Tail(t), e, m, w, r)
    BY <1>1, <1>3, <2>3 DEF Records, DrainOK
  <2>6. ClientOK(h, Tail(t), e, m, w, r)
    BY <1>1, <1>3, <1>5, <2>3
       DEF ClientOK, Attended, DrainsPending, Drains, SameProfile, KnowsOnly, CaughtUp, Holds
  <2> QED BY <1>2, <2>4, <2>5, <2>6, ClientActs
<1> QED BY <1>4, <1>5

(* A failed drain leaves a message.                                           *)
LEMMA FailFacts ==
    ASSUME SessionInv, NEW c \in Client, drain[c] # None,
           NEW x \in Job \cup {None}, Fail(c, x)
    PROVE  \E m \in Toast : /\ m # None /\ m.confirmed = x
                            /\ toast' = [toast EXCEPT ![c] = m]
                            /\ drain' = [drain EXCEPT ![c] = None]
<1> DEFINE m == [edit |-> drain[c].edit.id, action |-> TRUE, confirmed |-> x]
<1>1. drain[c].edit.id \in Nat
  BY DEF SessionInv, Types, TypeOK, Drain, Edit
<1>2. m \in Toast /\ m.confirmed = x
  BY <1>1 DEF Toast
<1>3. m # None
  BY <1>2, DocumentAssumption DEF DocumentAssumption
<1>4. toast' = [toast EXCEPT ![c] = m] /\ drain' = [drain EXCEPT ![c] = None]
  BY DEF Fail
<1> QED BY <1>2, <1>3, <1>4

(* A client that marks its edit failed keeps the rest.                        *)
LEMMA FailedFacts ==
    ASSUME NEW h \in HostState, NEW id \in Nat \cup {None}
    PROVE  LET g == [h EXCEPT !.failed = id] IN
           /\ g \in HostState /\ g.snapshot = h.snapshot /\ g.pending = h.pending
           /\ g.input = h.input /\ g.projected = h.projected
BY DEF HostState

(* One attempt, with a snapshot that the daemon has sent.                     *)
LEMMA AttemptKeeps ==
    ASSUME SessionInv, AuthorityInv', RestTypes', NEW c \in Client, drain[c] # None,
           NEW s \in Snapshot, ~lost => Known(s), Attempt(c, s),
           UNCHANGED <<authorityVars, tail, watch, reading>>
    PROVE  SessionInv'
<1>1. PICK h, t, d, m, w, r :
        /\ h = host[c] /\ t = tail[c] /\ d = drain[c] /\ m = toast[c]
        /\ w = watch[c] /\ r = reading[c]
        /\ Records(h, t, d, m, w, r) /\ ClientOK(h, t, d, m, w, r)
        /\ Changes(c, h, t, d, m, w, r) <=>
             UNCHANGED <<host, tail, drain, toast, watch, reading>>
  BY ClientBefore
<1>2. d \in Drain /\ d.edit \in Edit /\ d.edit.id \in Nat /\ d.confirmed \in Snapshot \cup {None}
      /\ d.edit.base \in Doc /\ d.edit.desired \in Doc /\ h.pending # None /\ h \in HostState
  BY <1>1 DEF Records, DrainOK, Drain, Edit, ClientOK, DrainsPending
<1>3. /\ [host EXCEPT ![c].failed = d.edit.id] = [host EXCEPT ![c] = [h EXCEPT !.failed = d.edit.id]]
      /\ host \in [Client -> HostState]
  BY <1>1 DEF SessionInv, Types, TypeOK
<1>4. CASE /\ s.epoch # host[c].snapshot.epoch
           /\ host' = [host EXCEPT ![c].failed = d.edit.id]
           /\ Fail(c, None)
  <2>1. PICK n \in Toast : /\ n # None /\ n.confirmed = None
                           /\ toast' = [toast EXCEPT ![c] = n]
                           /\ drain' = [drain EXCEPT ![c] = None]
    BY <1>4, FailFacts
  <2>2. PICK g : g = [h EXCEPT !.failed = d.edit.id]
    OBVIOUS
  <2>3. /\ g \in HostState /\ g.snapshot = h.snapshot /\ g.pending = h.pending
        /\ g.input = h.input /\ g.projected = h.projected
    BY <1>2, <2>2, FailedFacts
  <2>4. Changes(c, g, t, None, n, w, r)
    BY <1>1, <1>3, <1>4, <2>1, <2>2 DEF Changes, SessionInv, Types, TypeOK
  <2>5. Records(g, t, None, n, w, r)
    BY <1>1, <2>1, <2>3 DEF Records, DrainOK
  <2>6. ClientOK(g, t, None, n, w, r)
    BY <1>1, <1>2, <2>1, <2>3 DEF ClientOK, Attended, DrainsPending, ShowsSnapshot,
       Drains, SameProfile, KnowsOnly, CaughtUp
  <2> QED BY <2>4, <2>5, <2>6, ClientActs
<1>5. CASE /\ host' = [host EXCEPT ![c] = [[host[c] EXCEPT !.snapshot = s] EXCEPT !.failed = d.edit.id]]
           /\ Fail(c, [edit |-> d.edit, snapshot |-> s])
  <2>1. PICK x : x = [edit |-> d.edit, snapshot |-> s]
    OBVIOUS
  <2>2. x \in Job /\ x.snapshot = s
    BY <1>2, <2>1 DEF Job
  <2>3. PICK n \in Toast : /\ n # None /\ n.confirmed = x
                           /\ toast' = [toast EXCEPT ![c] = n]
                           /\ drain' = [drain EXCEPT ![c] = None]
    BY <1>5, <2>1, <2>2, FailFacts
  <2>4. PICK g : g = [[h EXCEPT !.snapshot = s] EXCEPT !.failed = d.edit.id]
    OBVIOUS
  <2>5. /\ g \in HostState /\ g.snapshot = s /\ g.pending = h.pending
        /\ g.input = h.input /\ g.projected = h.projected
    BY <1>2, <2>4 DEF HostState
  <2>6. Changes(c, g, t, None, n, w, r)
    BY <1>1, <1>3, <1>5, <2>3, <2>4 DEF Changes, SessionInv, Types, TypeOK
  <2>7. Records(g, t, None, n, w, r)
    BY <1>1, <2>3, <2>5 DEF Records, DrainOK
  <2>8. ClientOK(g, t, None, n, w, r)
    BY <1>1, <1>2, <2>2, <2>3, <2>5 DEF ClientOK, Attended, DrainsPending, ShowsSnapshot,
       Drains, SameProfile, KnowsOnly, CaughtUp
  <2> QED BY <2>6, <2>7, <2>8, ClientActs
<1>6. CASE /\ s.epoch = host[c].snapshot.epoch
           /\ host' = [host EXCEPT ![c] = [host[c] EXCEPT !.snapshot = s]]
           /\ drain' = [drain EXCEPT ![c].at = "set", ![c].snapshot = s,
                          ![c].doc = Merged(d.edit.base, d.edit.desired, s.doc, d.confirmed # None)]
           /\ UNCHANGED toast
  <2>1. PICK doc : doc = Merged(d.edit.base, d.edit.desired, s.doc, d.confirmed # None)
    OBVIOUS
  <2>2. doc \in Doc
    BY <1>2, <2>1, MergedType DEF Snapshot
  <2>3. PICK e : e = [d EXCEPT !.at = "set", !.snapshot = s, !.doc = doc]
    OBVIOUS
  <2>4. e \in Drain /\ e.at = "set" /\ e.snapshot = s /\ e.doc = doc /\ e.confirmed = d.confirmed
    BY <1>2, <2>2, <2>3 DEF Drain
  <2>5. e # None
    BY <2>4, DocumentAssumption DEF DocumentAssumption
  <2>6. drain' = [drain EXCEPT ![c] = e]
    BY <1>1, <1>6, <2>1, <2>3 DEF SessionInv, Types, TypeOK
  <2>7. PICK g : g = [h EXCEPT !.snapshot = s]
    OBVIOUS
  <2>8. /\ g \in HostState /\ g.snapshot = s /\ g.pending = h.pending
        /\ g.input = h.input /\ g.projected = h.projected
    BY <1>2, <2>7 DEF HostState
  <2>9. Changes(c, g, t, e, m, w, r)
    BY <1>1, <1>3, <1>6, <2>6, <2>7 DEF Changes, SessionInv, Types, TypeOK
  <2>10. Records(g, t, e, m, w, r)
    BY <1>1, <2>2, <2>4, <2>8 DEF Records, DrainOK
  <2>11. ClientOK(g, t, e, m, w, r)
    BY <1>1, <1>2, <1>6, <2>4, <2>5, <2>8 DEF ClientOK, Attended, DrainsPending, ShowsSnapshot,
       Drains, SameProfile, KnowsOnly, CaughtUp
  <2> QED BY <2>9, <2>10, <2>11, ClientActs
<1> QED BY <1>1, <1>4, <1>5, <1>6 DEF Attempt

(* The first attempt of a drain, and those after an answer to get.            *)
LEMMA DrainAttemptsKeep ==
    ASSUME SessionInv, AuthorityInv', RestTypes', NEW c \in Client,
           DrainFirst(c) \/ DrainAgain(c)
    PROVE  SessionInv'
<1>1. PICK h, t, d, m, w, r :
        /\ h = host[c] /\ t = tail[c] /\ d = drain[c] /\ m = toast[c]
        /\ w = watch[c] /\ r = reading[c]
        /\ Records(h, t, d, m, w, r) /\ ClientOK(h, t, d, m, w, r)
        /\ Changes(c, h, t, d, m, w, r) <=>
             UNCHANGED <<host, tail, drain, toast, watch, reading>>
  BY ClientBefore
<1>2. d # None /\ d \in Drain /\ h.snapshot \in Snapshot
  BY <1>1 DEF DrainFirst, DrainAgain, Records, DrainOK, HostState
<1>3. UNCHANGED <<authorityVars, tail, watch, reading>>
  BY DEF DrainFirst, DrainAgain
<1>4. CASE DrainFirst(c)
  <2>1. PICK s : s = IF d.confirmed = None THEN h.snapshot ELSE d.confirmed
    OBVIOUS
  <2>2. s \in Snapshot /\ (~lost => Known(s))
    BY <1>1, <1>2, <2>1 DEF Drain, ClientOK, KnowsOnly
  <2>3. Attempt(c, s)
    BY <1>1, <1>4, <2>1 DEF DrainFirst
  <2> QED BY <1>1, <1>2, <1>3, <2>2, <2>3, AttemptKeeps
<1>5. CASE DrainAgain(c)
  <2>1. PICK s : s = d.snapshot
    OBVIOUS
  <2>2. Drains(d, "got")
    BY <1>1, <1>5 DEF DrainAgain, Drains
  <2>3. s \in Snapshot /\ (~lost => Known(s))
    BY <1>1, <2>1, <2>2 DEF Records, DrainOK, Drains, ClientOK, KnowsOnly
  <2>4. Attempt(c, s)
    BY <1>1, <1>5, <2>1 DEF DrainAgain
  <2> QED BY <1>1, <1>2, <1>3, <2>3, <2>4, AttemptKeeps
<1> QED BY <1>4, <1>5

(* The answer to get, a refused set, a failed call: the drain goes on.        *)
LEMMA DrainMovesKeep ==
    ASSUME SessionInv, AuthorityInv', RestTypes', NEW c \in Client,
           ServeGet(c) \/ DrainAborted(c) \/ CallFails(c)
    PROVE  SessionInv'
<1>1. PICK h, t, d, m, w, r :
        /\ h = host[c] /\ t = tail[c] /\ d = drain[c] /\ m = toast[c]
        /\ w = watch[c] /\ r = reading[c]
        /\ Records(h, t, d, m, w, r) /\ ClientOK(h, t, d, m, w, r)
        /\ Changes(c, h, t, d, m, w, r) <=>
             UNCHANGED <<host, tail, drain, toast, watch, reading>>
  BY ClientBefore
<1>2. d # None /\ d \in Drain /\ drain \in [Client -> Drain \cup {None}] /\ server \in Snapshot
      /\ server.epoch \in Nat /\ server.revision \in Nat
  BY <1>1 DEF ServeGet, DrainAborted, CallFails, Records, DrainOK, SessionInv, Types, TypeOK,
              AuthorityTypeOK, Snapshot
<1>3. UNCHANGED <<authorityVars, host, tail, toast, watch, reading>>
  BY DEF ServeGet, DrainAborted, CallFails
<1>4. \E e \in Drain : /\ drain' = [drain EXCEPT ![c] = e] /\ e.confirmed = d.confirmed
                       /\ e.at \in {"got", "get", "error"}
                       /\ e.at = "got" => e.snapshot = server
  <2>1. CASE ServeGet(c)
    <3> DEFINE e == [d EXCEPT !.at = "got", !.snapshot = server]
    <3>1. e \in Drain /\ e.confirmed = d.confirmed /\ e.at = "got" /\ e.snapshot = server
      BY <1>2 DEF Drain
    <3>2. drain' = [drain EXCEPT ![c] = e]
      BY <1>1, <1>2, <2>1 DEF ServeGet
    <3> QED BY <3>1, <3>2
  <2>2. CASE DrainAborted(c)
    <3> DEFINE e == [d EXCEPT !.at = "get", !.attempt = @ + 1]
    <3>1. d.attempt \in 0 .. 2 /\ d.attempt < 2
      BY <1>1, <1>2, <2>2 DEF Drain, DrainAborted
    <3>2. d.attempt + 1 \in 0 .. 2
      BY <3>1
    <3>3. e \in Drain /\ e.confirmed = d.confirmed /\ e.at = "get"
      BY <1>2, <3>2 DEF Drain
    <3>4. drain' = [drain EXCEPT ![c] = e]
      BY <1>1, <1>2, <2>2 DEF DrainAborted
    <3> HIDE DEF e
    <3> QED BY <3>3, <3>4
  <2>3. CASE CallFails(c)
    <3> DEFINE e == [d EXCEPT !.at = "error"]
    <3>1. e \in Drain /\ e.confirmed = d.confirmed /\ e.at = "error"
      BY <1>2 DEF Drain
    <3>2. drain' = [drain EXCEPT ![c] = e]
      BY <1>1, <1>2, <2>3 DEF CallFails
    <3> HIDE DEF e
    <3> QED BY <3>1, <3>2
  <2> QED BY <2>1, <2>2, <2>3
<1>5. PICK e \in Drain : /\ drain' = [drain EXCEPT ![c] = e] /\ e.confirmed = d.confirmed
                         /\ e.at \in {"got", "get", "error"}
                         /\ e.at = "got" => e.snapshot = server
  BY <1>4
<1>6. e # None
  BY DocumentAssumption DEF DocumentAssumption
<1>7. Changes(c, h, t, e, m, w, r)
  BY <1>1, <1>3, <1>5 DEF Changes, SessionInv, Types, TypeOK
<1>8. Records(h, t, e, m, w, r)
  BY <1>1, <1>2, <1>5 DEF Records, DrainOK
<1>9. ClientOK(h, t, e, m, w, r)
  <2>1. Known(server)
    BY <1>2 DEF Known
  <2> QED BY <1>1, <1>2, <1>5, <1>6, <2>1
          DEF ClientOK, Attended, DrainsPending, Drains, SameProfile, KnowsOnly, CaughtUp
<1> QED BY <1>3, <1>7, <1>8, <1>9, ClientActs

(* The daemon handles set.                                                    *)
LEMMA ServeSetKeeps ==
    ASSUME SessionInv, AuthorityInv', Grows, RestTypes', NEW c \in Client,
           ServeSet(c) \/ ServeSetUnwritten(c)
    PROVE  SessionInv'
<1>1. PICK h, t, d, m, w, r :
        /\ h = host[c] /\ t = tail[c] /\ d = drain[c] /\ m = toast[c]
        /\ w = watch[c] /\ r = reading[c]
        /\ Records(h, t, d, m, w, r) /\ ClientOK(h, t, d, m, w, r)
        /\ Changes(c, h, t, d, m, w, r) <=>
             UNCHANGED <<host, tail, drain, toast, watch, reading>>
  BY ClientBefore
<1>2. /\ Drains(d, "set") /\ d \in Drain /\ drain \in [Client -> Drain \cup {None}]
      /\ server \in Snapshot /\ server' \in Snapshot
  BY <1>1 DEF ServeSet, ServeSetUnwritten, Drains, Records, DrainOK, SessionInv, Types, TypeOK,
              AuthorityTypeOK, AuthorityInv
<1>3. UNCHANGED <<host, tail, toast, watch, reading>>
  BY DEF ServeSet, ServeSetUnwritten
<1>4. ClientOK(h, t, d, m, w, r)'
  BY <1>1, <1>2, Bystander
<1>5. PICK next : next = server'
  OBVIOUS
<1>6. /\ next \in Snapshot /\ next.epoch = server.epoch
      /\ next.epoch \in Nat /\ next.revision \in Nat
  BY <1>2, <1>5 DEF Grows, Snapshot
<1>7. CASE ServeSet(c) /\ Version(server) = Version(d.snapshot)
  <2>1. PICK e : e = [d EXCEPT !.at = "saved", !.snapshot = next]
    OBVIOUS
  <2>2. e \in Drain /\ e.at = "saved" /\ e.snapshot = next /\ e.confirmed = d.confirmed
    BY <1>2, <1>6, <2>1 DEF Drain
  <2>3. e # None
    BY <2>2, DocumentAssumption DEF DocumentAssumption
  <2>4. drain' = [drain EXCEPT ![c] = e]
    BY <1>1, <1>2, <1>5, <1>7, <2>1 DEF ServeSet
  <2>5. d.snapshot.epoch = server.epoch /\ d.snapshot.epoch = h.snapshot.epoch
    BY <1>1, <1>2, <1>7 DEF Version, ClientOK, SameProfile
  <2>6. Changes(c, h, t, e, m, w, r)
    BY <1>1, <1>3, <2>4 DEF Changes, SessionInv, Types, TypeOK
  <2>7. Records(h, t, e, m, w, r)
    BY <1>1, <1>6, <2>2 DEF Records, DrainOK
  <2>8. ClientOK(h, t, e, m, w, r)'
    <3>1. Known(next)'
      BY <1>5, <1>6 DEF Known
    <3>2. ~lost' => CaughtUp(h, e, w)'
      BY <1>4, <1>5, <2>2, <2>3 DEF ClientOK, KnowsOnly, CaughtUp, Holds, Drains
    <3>3. ~lost' => KnowsOnly(h, t, e, m, w, r)'
      BY <1>4, <1>2, <2>2, <2>3, <3>1 DEF ClientOK, KnowsOnly, Drains
    <3>4. Attended(h, t, e, m)' /\ DrainsPending(h, e)' /\ ShowsSnapshot(h)' /\ SameProfile(h, e, w, r)'
      BY <1>2, <1>4, <1>5, <1>6, <2>2, <2>3, <2>5
         DEF ClientOK, Attended, DrainsPending, Drains, SameProfile
    <3> QED BY <3>2, <3>3, <3>4 DEF ClientOK
  <2> QED BY <2>6, <2>7, <2>8, OneClient
<1>8. CASE (ServeSet(c) /\ Version(server) # Version(d.snapshot)) \/ ServeSetUnwritten(c)
  <2>1. PICK e : /\ e \in {[d EXCEPT !.at = "aborted"], [d EXCEPT !.at = "error"]}
                 /\ drain' = [drain EXCEPT ![c] = e]
    <3>1. CASE ServeSetUnwritten(c)
      <4>1. drain' = [drain EXCEPT ![c] = [d EXCEPT !.at = "error"]]
        BY <1>1, <1>2, <3>1 DEF ServeSetUnwritten
      <4> QED BY <4>1
    <3>2. CASE ServeSet(c) /\ Version(server) # Version(d.snapshot)
      <4>1. drain' = [drain EXCEPT ![c] = [d EXCEPT !.at = "aborted"]]
        BY <1>1, <1>2, <3>2 DEF ServeSet
      <4> QED BY <4>1
    <3> QED BY <1>8, <3>1, <3>2
  <2>2. e \in Drain /\ e.at \in {"aborted", "error"} /\ e.confirmed = d.confirmed
    BY <1>2, <2>1 DEF Drain
  <2>3. e # None
    BY <2>2, DocumentAssumption DEF DocumentAssumption
  <2>4. Changes(c, h, t, e, m, w, r)
    BY <1>1, <1>3, <2>1 DEF Changes, SessionInv, Types, TypeOK
  <2>5. Records(h, t, e, m, w, r)
    BY <1>1, <2>2 DEF Records, DrainOK
  <2>6. ClientOK(h, t, e, m, w, r)'
    BY <1>2, <1>4, <2>2, <2>3
       DEF ClientOK, Attended, DrainsPending, Drains, SameProfile, KnowsOnly, CaughtUp, Holds
  <2> QED BY <2>4, <2>5, <2>6, OneClient
<1> QED BY <1>7, <1>8

(* The drain gives up.                                                        *)
LEMMA DrainGivesUpKeeps ==
    ASSUME SessionInv, AuthorityInv', RestTypes', NEW c \in Client, DrainGivesUp(c)
    PROVE  SessionInv'
<1>1. PICK h, t, d, m, w, r :
        /\ h = host[c] /\ t = tail[c] /\ d = drain[c] /\ m = toast[c]
        /\ w = watch[c] /\ r = reading[c]
        /\ Records(h, t, d, m, w, r) /\ ClientOK(h, t, d, m, w, r)
        /\ Changes(c, h, t, d, m, w, r) <=>
             UNCHANGED <<host, tail, drain, toast, watch, reading>>
  BY ClientBefore
<1>2. d # None /\ h.pending # None /\ h \in HostState /\ d.edit.id \in Nat
  BY <1>1 DEF DrainGivesUp, Records, DrainOK, Drain, Edit, ClientOK, DrainsPending
<1>3. PICK n \in Toast : /\ n # None /\ n.confirmed = None
                         /\ toast' = [toast EXCEPT ![c] = n]
                         /\ drain' = [drain EXCEPT ![c] = None]
  BY FailFacts DEF DrainGivesUp
<1>4. PICK g : g = [h EXCEPT !.failed = d.edit.id]
  OBVIOUS
<1>5. /\ g \in HostState /\ g.snapshot = h.snapshot /\ g.pending = h.pending
      /\ g.input = h.input /\ g.projected = h.projected
  BY <1>2, <1>4, FailedFacts
<1>6. Changes(c, g, t, None, n, w, r) /\ UNCHANGED authorityVars
  BY <1>1, <1>3, <1>4 DEF DrainGivesUp, Changes, SessionInv, Types, TypeOK
<1>7. Records(g, t, None, n, w, r)
  BY <1>1, <1>3, <1>5 DEF Records, DrainOK
<1>8. ClientOK(g, t, None, n, w, r)
  BY <1>1, <1>2, <1>3, <1>5 DEF ClientOK, Attended, DrainsPending, ShowsSnapshot,
     Drains, SameProfile, KnowsOnly, CaughtUp
<1> QED BY <1>6, <1>7, <1>8, ClientActs

(* The answer to a save.                                                      *)
LEMMA DrainSavedKeeps ==
    ASSUME SessionInv, AuthorityInv', RestTypes', NEW c \in Client, DrainSaved(c)
    PROVE  SessionInv'
<1>1. PICK h, t, d, m, w, r :
        /\ h = host[c] /\ t = tail[c] /\ d = drain[c] /\ m = toast[c]
        /\ w = watch[c] /\ r = reading[c]
        /\ Records(h, t, d, m, w, r) /\ ClientOK(h, t, d, m, w, r)
        /\ Changes(c, h, t, d, m, w, r) <=>
             UNCHANGED <<host, tail, drain, toast, watch, reading>>
  BY ClientBefore
<1>2. /\ Drains(d, "saved") /\ d \in Drain /\ h \in HostState /\ d.snapshot \in Snapshot
      /\ d.edit \in Edit /\ d.edit.desired \in Doc /\ h.pending # None /\ h.pending \in Edit
      /\ h.pending.desired \in Doc /\ h.ids \in Nat
  BY <1>1 DEF DrainSaved, Drains, Records, DrainOK, Drain, Edit, HostState, ClientOK,
              DrainsPending
<1>3. h.snapshot \in Snapshot /\ d.snapshot.epoch = server.epoch /\ h.snapshot.epoch = server.epoch
      /\ h.snapshot.revision \in Nat /\ d.snapshot.revision \in Nat
  BY <1>1, <1>2 DEF HostState, Snapshot, ClientOK, SameProfile
<1> DEFINE newer == h.pending # None /\ h.pending.id # d.edit.id
<1>4. PICK known : known = IF h.snapshot.epoch = d.snapshot.epoch
                              /\ h.snapshot.revision <= d.snapshot.revision
                           THEN d.snapshot ELSE h.snapshot
  OBVIOUS
<1>5. PICK p : p = IF newer THEN [id |-> h.ids + 1, base |-> d.edit.desired,
                                  desired |-> h.pending.desired]
                   ELSE None
  OBVIOUS
<1>6. PICK g : g = [h EXCEPT !.snapshot = known,
                             !.ids = IF newer THEN @ + 1 ELSE @,
                             !.failed = IF @ = d.edit.id THEN None ELSE @,
                             !.pending = p]
  OBVIOUS
<1>7. /\ known \in Snapshot /\ known.epoch = server.epoch
      /\ h.snapshot.revision <= known.revision /\ d.snapshot.revision <= known.revision
      /\ known \in {h.snapshot, d.snapshot}
  BY <1>2, <1>3, <1>4
<1>8. (p \in Edit /\ p # None /\ newer) \/ (p = None /\ ~newer)
  <2>1. h.ids + 1 \in Nat
    BY <1>2
  <2> QED BY <1>2, <1>5, <2>1, DocumentAssumption DEF Edit, DocumentAssumption
<1>9. /\ g \in HostState /\ g.snapshot = known /\ g.pending = p /\ g.projected = h.projected
  <2>1. (IF newer THEN h.ids + 1 ELSE h.ids) \in Nat
    BY <1>2
  <2>2. (IF h.failed = d.edit.id THEN None ELSE h.failed) \in Nat \cup {None}
    BY <1>2 DEF HostState
  <2> HIDE DEF newer
  <2> QED BY <1>2, <1>6, <1>7, <1>8, <2>1, <2>2 DEF HostState
<1>10. PICK a : a = AdoptAuthoritativeBase(g)
  OBVIOUS
<1>11. /\ a \in HostState /\ (a.pending = None <=> p = None)
       /\ a.snapshot = known /\ a.projected = h.projected
       /\ a.pending = None => a.input = known.doc
  BY <1>9, <1>10, AdoptedFacts
<1>12. PICK q : q = IF newer THEN Append(t, None) ELSE t
  OBVIOUS
<1>13. /\ q \in Seq(Job \cup {None}) /\ (newer => q # <<>>)
       /\ KnownTail(t) => KnownTail(q)
  BY <1>1, <1>12, TailFacts DEF Records
<1>14. Changes(c, a, q, None, None, w, r) /\ UNCHANGED authorityVars
  <2>1. /\ host' = [host EXCEPT ![c] = a] /\ UNCHANGED <<watch, reading, authorityVars>>
        /\ drain' = [drain EXCEPT ![c] = None] /\ toast' = [toast EXCEPT ![c] = None]
    BY <1>1, <1>4, <1>5, <1>6, <1>10 DEF DrainSaved
  <2>2. tail' = [tail EXCEPT ![c] = q]
    BY <1>1, <1>12 DEF DrainSaved, SessionInv, Types, TypeOK
  <2> QED BY <1>1, <2>1, <2>2 DEF Changes, SessionInv, Types, TypeOK
<1>15. Records(a, q, None, None, w, r)
  BY <1>1, <1>11, <1>13 DEF Records, DrainOK
<1>16. ClientOK(a, q, None, None, w, r)
  <2>1. Attended(a, q, None, None) /\ DrainsPending(a, None) /\ ShowsSnapshot(a)
    BY <1>8, <1>11, <1>13 DEF Attended, DrainsPending, ShowsSnapshot
  <2>2. SameProfile(a, None, w, r)
    BY <1>1 DEF ClientOK, SameProfile, Drains
  <2>3. ~lost => KnowsOnly(a, q, None, None, w, r)
    BY <1>1, <1>2, <1>7, <1>11, <1>13 DEF ClientOK, KnowsOnly, Drains
  <2>4. ASSUME ~lost PROVE CaughtUp(a, None, w)
    <3>1. CaughtUp(h, d, w)
      BY <1>1, <2>4 DEF ClientOK
    <3>2. \A n \in Nat : Holds(h, d, n) => Holds(a, None, n)
      <4>1. known.revision \in Nat
        BY <1>7 DEF Snapshot
      <4> QED BY <1>3, <1>7, <1>11, <4>1 DEF Holds
    <3>3. w.seen \in Nat /\ (h.projected # None => h.projected.revision \in Nat)
      BY <1>1, RecordSnapshots
    <3> QED BY <1>2, <1>11, <3>1, <3>2, <3>3 DEF CaughtUp
  <2> QED BY <2>1, <2>2, <2>3, <2>4 DEF ClientOK
<1> QED BY <1>14, <1>15, <1>16, ClientActs

(* The user takes the offer of the message.                                   *)
LEMMA ClickKeeps ==
    ASSUME SessionInv, AuthorityInv', RestTypes', NEW c \in Client, Click(c)
    PROVE  SessionInv'
<1>1. PICK h, t, d, m, w, r :
        /\ h = host[c] /\ t = tail[c] /\ d = drain[c] /\ m = toast[c]
        /\ w = watch[c] /\ r = reading[c]
        /\ Records(h, t, d, m, w, r) /\ ClientOK(h, t, d, m, w, r)
        /\ Changes(c, h, t, d, m, w, r) <=>
             UNCHANGED <<host, tail, drain, toast, watch, reading>>
  BY ClientBefore
<1>2. m \in Toast /\ m.confirmed \in Job \cup {None} /\ m # None /\ h \in HostState
  BY <1>1 DEF Click, Records, Toast
<1>3. PICK id : id = IF h.failed = m.edit THEN None ELSE h.failed
  OBVIOUS
<1>4. PICK g : g = [h EXCEPT !.failed = id]
  OBVIOUS
<1>5. /\ g \in HostState /\ g.snapshot = h.snapshot /\ g.pending = h.pending
      /\ g.input = h.input /\ g.projected = h.projected
  <2>1. id \in Nat \cup {None}
    BY <1>2, <1>3 DEF HostState
  <2> QED BY <1>2, <1>4, <2>1, FailedFacts
<1>6. PICK q : q = Append(t, m.confirmed)
  OBVIOUS
<1>7. /\ q \in Seq(Job \cup {None}) /\ q # <<>>
      /\ KnownTail(t) /\ (m.confirmed # None => Known(m.confirmed.snapshot)) => KnownTail(q)
  BY <1>1, <1>2, <1>6, TailFacts DEF Records
<1>8. Changes(c, g, q, d, None, w, r) /\ UNCHANGED authorityVars
  BY <1>1, <1>3, <1>4, <1>6 DEF Click, Changes, SessionInv, Types, TypeOK
<1>9. Records(g, q, d, None, w, r)
  BY <1>1, <1>5, <1>7 DEF Records
<1>10. ClientOK(g, q, d, None, w, r)
  BY <1>1, <1>2, <1>5, <1>7 DEF ClientOK, Attended, DrainsPending, ShowsSnapshot,
     SameProfile, KnowsOnly, CaughtUp, Holds
<1> QED BY <1>8, <1>9, <1>10, ClientActs

(* The stream sends.                                                          *)
LEMMA WatchSendKeeps ==
    ASSUME SessionInv, AuthorityInv', RestTypes', NEW c \in Client, WatchSend(c)
    PROVE  SessionInv'
<1>1. PICK h, t, d, m, w, r :
        /\ h = host[c] /\ t = tail[c] /\ d = drain[c] /\ m = toast[c]
        /\ w = watch[c] /\ r = reading[c]
        /\ Records(h, t, d, m, w, r) /\ ClientOK(h, t, d, m, w, r)
        /\ Changes(c, h, t, d, m, w, r) <=>
             UNCHANGED <<host, tail, drain, toast, watch, reading>>
  BY ClientBefore
<1>2. server \in Snapshot /\ server.epoch \in Nat /\ server.revision \in Nat
  BY RecordTypes DEF SessionInv
<1>3. PICK v : v = [at |-> "sent", seen |-> server.revision, snapshot |-> server]
  OBVIOUS
<1>4. v \in Stream /\ v.at = "sent" /\ v.seen = server.revision /\ v.snapshot = server
  BY <1>2, <1>3 DEF Stream
<1>5. Changes(c, h, t, d, m, v, r) /\ UNCHANGED authorityVars
  BY <1>1, <1>3 DEF WatchSend, Changes, SessionInv, Types, TypeOK
<1>6. Records(h, t, d, m, v, r)
  BY <1>1, <1>2, <1>4 DEF Records, StreamOK
<1>7. ClientOK(h, t, d, m, v, r)
  <2>1. Known(server) /\ server.revision <= server.revision
    BY <1>2 DEF Known
  <2> QED BY <1>1, <1>4, <2>1 DEF ClientOK, SameProfile, KnowsOnly, CaughtUp
<1> QED BY <1>5, <1>6, <1>7, ClientActs

(* The stream is ready again.                                                 *)
LEMMA HandledFacts ==
    ASSUME SessionInv, NEW c \in Client
    PROVE  \E v \in Stream : /\ v.at = "idle" /\ v.seen = watch[c].seen
                             /\ Handled(c) = [watch EXCEPT ![c] = v]
<1> DEFINE v == [watch[c] EXCEPT !.at = "idle", !.snapshot = None]
<1>1. watch \in [Client -> Stream]
  BY DEF SessionInv, Types, TypeOK
<1>2. v \in Stream /\ v.at = "idle" /\ v.seen = watch[c].seen
  BY <1>1 DEF Stream
<1>3. Handled(c) = [watch EXCEPT ![c] = v]
  BY <1>1 DEF Handled
<1> HIDE DEF v
<1> QED BY <1>2, <1>3

(* A snapshot arrives.                                                        *)
LEMMA WatchReceiveKeeps ==
    ASSUME SessionInv, AuthorityInv', RestTypes', NEW c \in Client, WatchReceive(c)
    PROVE  SessionInv'
<1>1. PICK h, t, d, m, w, r :
        /\ h = host[c] /\ t = tail[c] /\ d = drain[c] /\ m = toast[c]
        /\ w = watch[c] /\ r = reading[c]
        /\ Records(h, t, d, m, w, r) /\ ClientOK(h, t, d, m, w, r)
        /\ Changes(c, h, t, d, m, w, r) <=>
             UNCHANGED <<host, tail, drain, toast, watch, reading>>
  BY ClientBefore
<1>2. w.at = "sent" /\ w \in Stream /\ w.snapshot \in Snapshot /\ h.snapshot \in Snapshot
      /\ UNCHANGED authorityVars /\ w.snapshot.revision \in Nat /\ h.snapshot.revision \in Nat
  BY <1>1 DEF WatchReceive, Records, StreamOK, HostState, Snapshot
<1>3. CASE Outdated(h, w.snapshot) \/ h.projected = Version(w.snapshot)
  <2>1. PICK v \in Stream : /\ v.at = "idle" /\ v.seen = w.seen
                            /\ Handled(c) = [watch EXCEPT ![c] = v]
    BY <1>1, HandledFacts
  <2>2. Changes(c, h, t, d, m, v, r)
    BY <1>1, <1>3, <2>1 DEF WatchReceive, Changes, SessionInv, Types, TypeOK
  <2>3. Records(h, t, d, m, v, r)
    BY <1>1, <2>1 DEF Records, StreamOK
  <2>4. ClientOK(h, t, d, m, v, r)
    <3>1. ASSUME ~lost, w.seen # 0, h.pending = None \/ Drains(d, "saved")
          PROVE  Holds(h, d, w.seen)
      <4>1. w.snapshot.epoch = server.epoch /\ w.snapshot.revision = w.seen
        BY <1>1, <1>2, <3>1 DEF ClientOK, SameProfile
      <4>2. CASE Outdated(h, w.snapshot)
        BY <1>2, <4>1, <4>2 DEF Outdated, Holds
      <4>3. CASE h.projected = Version(w.snapshot)
        <5>1. h.projected.epoch = server.epoch /\ h.projected.revision = w.seen
          BY <4>1, <4>3 DEF Version
        <5>2. h.projected # None
          BY <1>2, <4>3, DocumentAssumption DEF Version, DocumentAssumption, Snapshot
        <5> QED BY <1>1, <3>1, <5>1, <5>2 DEF ClientOK, CaughtUp
      <4> QED BY <1>3, <4>2, <4>3
    <3>2. ~lost => KnowsOnly(h, t, d, m, v, r) /\ CaughtUp(h, d, v)
      BY <1>1, <2>1, <3>1 DEF ClientOK, KnowsOnly, CaughtUp
    <3>3. SameProfile(h, d, v, r)
      BY <1>1, <2>1 DEF ClientOK, SameProfile
    <3> QED BY <1>1, <3>2, <3>3 DEF ClientOK
  <2> QED BY <1>2, <2>2, <2>3, <2>4, ClientActs
<1>4. CASE ~(Outdated(h, w.snapshot) \/ h.projected = Version(w.snapshot))
  <2>1. PICK v : v = [w EXCEPT !.at = "preparing"]
    OBVIOUS
  <2>2. v \in Stream /\ v.at = "preparing" /\ v.seen = w.seen /\ v.snapshot = w.snapshot
    BY <1>2, <2>1 DEF Stream
  <2>3. Changes(c, h, t, d, m, v, r)
    BY <1>1, <1>4, <2>1 DEF WatchReceive, Changes, SessionInv, Types, TypeOK
  <2>4. Records(h, t, d, m, v, r)
    BY <1>1, <1>2, <2>2 DEF Records, StreamOK
  <2>5. ClientOK(h, t, d, m, v, r)
    BY <1>1, <1>2, <2>2 DEF ClientOK, SameProfile, KnowsOnly, CaughtUp
  <2> QED BY <1>2, <2>3, <2>4, <2>5, ClientActs
<1> QED BY <1>3, <1>4

(* A client that takes a snapshot which is not older and not of another       *)
(* profile than its pending edit.                                             *)
Takes(h, w, g) ==
    /\ w.at # "idle" /\ ~Outdated(h, w.snapshot)
    /\ h.pending # None => h.snapshot.epoch = w.snapshot.epoch
    /\ g \in HostState /\ g.snapshot = w.snapshot /\ g.pending = h.pending
    /\ g.projected \in {h.projected, Version(w.snapshot)}
    /\ h.pending = None => g.projected = Version(w.snapshot) /\ g.input = w.snapshot.doc

Queues(t, q) ==
    q \in Seq(Job \cup {None}) /\ (t # <<>> => q # <<>>) /\ (KnownTail(t) => KnownTail(q))

Idles(w, v) == v \in Stream /\ v.at = "idle" /\ v.seen = w.seen

(* A client that takes the snapshot of its stream keeps its invariant.        *)
LEMMA TakesSnapshot ==
    ASSUME NEW h, NEW t, NEW d, NEW m, NEW w, NEW r, server \in Snapshot,
           Records(h, t, d, m, w, r), ClientOK(h, t, d, m, w, r),
           NEW g, Takes(h, w, g), NEW q, Queues(t, q), NEW v, Idles(w, v)
    PROVE  Records(g, q, d, m, v, r) /\ ClientOK(g, q, d, m, v, r)
<1> USE DEF Takes, Queues, Idles
<1>1. Records(g, q, d, m, v, r)
  BY DEF Records, StreamOK
<1>2. PICK s : s = w.snapshot
  OBVIOUS
<1>3. /\ s \in Snapshot /\ h.snapshot \in Snapshot /\ s.revision \in Nat /\ s.epoch \in Nat
      /\ h.snapshot.revision \in Nat /\ h.snapshot.epoch \in Nat
      /\ server.epoch \in Nat /\ server.revision \in Nat /\ w.seen \in Nat
      /\ h.projected # None => h.projected.revision \in Nat
  BY <1>2, RecordSnapshots DEF Snapshot
<1>4. Attended(g, q, d, m) /\ DrainsPending(g, d) /\ ShowsSnapshot(g)
  BY DEF ClientOK, Attended, DrainsPending, ShowsSnapshot
<1>5. SameProfile(g, d, v, r)
  BY DEF ClientOK, SameProfile, DrainsPending, Drains
<1>6. ASSUME ~lost PROVE KnowsOnly(g, q, d, m, v, r)
  <2>1. KnowsOnly(h, t, d, m, w, r)
    BY <1>6 DEF ClientOK
  <2>2. g.projected # None =>
         /\ g.projected.epoch <= server.epoch
         /\ g.projected.epoch = server.epoch => g.projected.revision <= server.revision
    <3>1. CASE g.projected = h.projected
      BY <2>1, <3>1 DEF KnowsOnly
    <3>2. CASE g.projected = Version(s)
      <4>1. Known(s)
        BY <1>2, <2>1 DEF KnowsOnly
      <4> QED BY <3>2, <4>1 DEF Known, Version
    <3> QED BY <1>2, <3>1, <3>2
  <2> QED BY <2>1, <2>2 DEF KnowsOnly
<1>7. ASSUME ~lost PROVE CaughtUp(g, d, v)
  <2> SUFFICES ASSUME g.pending = None \/ Drains(d, "saved")
               PROVE  /\ v.seen # 0 => Holds(g, d, v.seen)
                      /\ g.projected # None /\ g.projected.epoch = server.epoch
                           => Holds(g, d, g.projected.revision)
    BY DEF CaughtUp
  <2>1. ASSUME v.seen # 0 PROVE Holds(g, d, v.seen)
    <3>1. s.epoch = server.epoch /\ s.revision = v.seen
      BY <1>2, <2>1 DEF ClientOK, SameProfile
    <3> QED BY <1>2, <1>3, <3>1 DEF Holds
  <2>2. ASSUME g.projected # None, g.projected.epoch = server.epoch
        PROVE  Holds(g, d, g.projected.revision)
    <3>1. CASE g.projected = Version(s)
      BY <1>2, <1>3, <2>2, <3>1 DEF Holds, Version
    <3>2. CASE g.projected = h.projected /\ g.projected # Version(s)
      <4>1. h.pending # None /\ Drains(d, "saved")
        BY <1>2, <3>2
      <4>2. Holds(h, d, h.projected.revision)
        BY <1>7, <2>2, <3>2, <4>1 DEF ClientOK, CaughtUp
      <4>3. h.snapshot.epoch = s.epoch /\ h.snapshot.revision <= s.revision
        BY <1>2, <1>3, <4>1 DEF Outdated
      <4> QED BY <1>2, <1>3, <2>2, <3>2, <4>1, <4>2, <4>3 DEF Holds
    <3> QED BY <1>2, <3>1, <3>2
  <2> QED BY <2>1, <2>2
<1> QED BY <1>1, <1>4, <1>5, <1>6, <1>7 DEF ClientOK

(* A client that leaves a snapshot aside, since it is older, or of another    *)
(* profile than its pending edit.                                             *)
LEMMA LeavesSnapshot ==
    ASSUME NEW h, NEW t, NEW d, NEW m, NEW w, NEW r,
           Records(h, t, d, m, w, r), ClientOK(h, t, d, m, w, r), w.at # "idle",
           \/ Outdated(h, w.snapshot)
           \/ h.pending # None /\ h.snapshot.epoch # w.snapshot.epoch,
           NEW g, g \in HostState, g.snapshot = h.snapshot, g.pending = h.pending,
           g.projected = h.projected, g.input = h.input,
           NEW n, n = m \/ (n \in Toast /\ n # None /\ n.confirmed = None),
           NEW v, Idles(w, v)
    PROVE  Records(g, t, d, n, v, r) /\ ClientOK(g, t, d, n, v, r)
<1> USE DEF Idles
<1>1. Records(g, t, d, n, v, r)
  BY DEF Records, StreamOK
<1>2. Attended(g, t, d, n) /\ DrainsPending(g, d) /\ ShowsSnapshot(g) /\ SameProfile(g, d, v, r)
  BY DEF ClientOK, Attended, DrainsPending, ShowsSnapshot, SameProfile
<1>3. ~lost => KnowsOnly(g, t, d, n, v, r)
  BY DEF ClientOK, KnowsOnly
<1>4. ASSUME ~lost PROVE CaughtUp(g, d, v)
  <2>1. CaughtUp(h, d, w)
    BY <1>4 DEF ClientOK
  <2>2. ASSUME v.seen # 0, g.pending = None \/ Drains(d, "saved") PROVE Holds(g, d, v.seen)
    <3>1. w.snapshot.epoch = server.epoch /\ w.snapshot.revision = v.seen
      BY <2>2 DEF ClientOK, SameProfile
    <3>2. h.snapshot.revision \in Nat /\ w.snapshot.revision \in Nat
      BY RecordSnapshots DEF Snapshot
    <3>3. Outdated(h, w.snapshot)
      BY <2>2, <3>1 DEF ClientOK, SameProfile
    <3> QED BY <3>1, <3>2, <3>3 DEF Outdated, Holds
  <2> QED BY <2>1, <2>2 DEF CaughtUp, Holds
<1> QED BY <1>1, <1>2, <1>3, <1>4 DEF ClientOK

(* A prepared snapshot is applied.                                            *)
LEMMA WatchApplyKeeps ==
    ASSUME SessionInv, AuthorityInv', RestTypes', NEW c \in Client, WatchApply(c)
    PROVE  SessionInv'
<1>1. PICK d, m, w, r : d = drain[c] /\ m = toast[c] /\ w = watch[c] /\ r = reading[c]
  OBVIOUS
<1>2. PICK h, t :
        /\ h = FlushedHost(c) /\ t = FlushedTail(c)
        /\ Records(h, t, d, m, w, r) /\ ClientOK(h, t, d, m, w, r)
  BY <1>1, FlushOK
<1>3. PICK v : Idles(w, v) /\ Handled(c) = [watch EXCEPT ![c] = v]
  BY <1>1, HandledFacts DEF Idles
<1>4. PICK s : s = w.snapshot
  OBVIOUS
<1>5. /\ w.at # "idle" /\ s \in Snapshot /\ s.doc \in Doc /\ h \in HostState
      /\ server \in Snapshot /\ UNCHANGED authorityVars
      /\ h.pending # None => h.pending.id \in Nat
      /\ t \in Seq(Job \cup {None})
  BY <1>1, <1>2, <1>4 DEF WatchApply, Records, StreamOK, Snapshot, HostState, Edit, SessionInv,
                          Types, TypeOK, AuthorityTypeOK
<1> DEFINE foreign == h.snapshot.epoch # s.epoch /\ h.pending # None
           Becomes(g, q, n) == /\ host' = [host EXCEPT ![c] = g]
                               /\ tail' = [tail EXCEPT ![c] = q]
                               /\ toast' = [toast EXCEPT ![c] = n]
<1>6. ASSUME NEW g, NEW q, NEW n, Becomes(g, q, n) PROVE Changes(c, g, q, d, n, v, r)
  BY <1>1, <1>3, <1>6 DEF WatchApply, Changes, SessionInv, Types, TypeOK
<1>7. CASE (Outdated(h, s) \/ foreign) /\ Becomes(h, t, m)
  BY <1>2, <1>3, <1>4, <1>5, <1>6, <1>7, LeavesSnapshot, ClientActs
<1>8. CASE foreign /\ Becomes([h EXCEPT !.failed = h.pending.id], t,
                              [edit |-> h.pending.id, action |-> FALSE, confirmed |-> None])
  <2>1. PICK g, n : /\ g = [h EXCEPT !.failed = h.pending.id]
                    /\ n = [edit |-> h.pending.id, action |-> FALSE, confirmed |-> None]
    OBVIOUS
  <2>2. /\ g \in HostState /\ g.snapshot = h.snapshot /\ g.pending = h.pending
        /\ g.input = h.input /\ g.projected = h.projected
    BY <1>5, <1>8, <2>1, FailedFacts
  <2>3. n \in Toast /\ n.confirmed = None
    BY <1>5, <1>8, <2>1 DEF Toast
  <2>4. n # None
    BY <2>3, DocumentAssumption DEF DocumentAssumption
  <2>5. Records(g, t, d, n, v, r) /\ ClientOK(g, t, d, n, v, r)
    <3>1. h.pending # None /\ h.snapshot.epoch # w.snapshot.epoch
      BY <1>4, <1>8
    <3> QED BY <1>2, <1>3, <1>5, <2>2, <2>3, <2>4, <3>1, LeavesSnapshot
  <2>6. Changes(c, g, t, d, n, v, r)
    BY <1>6, <1>8, <2>1
  <2> QED BY <1>5, <2>5, <2>6, ClientActs
<1>9. CASE /\ ~Outdated(h, s) /\ ~foreign /\ Contested(h, s)
           /\ \/ Becomes([h EXCEPT !.snapshot = s], t, m)
              \/ Becomes([[h EXCEPT !.snapshot = s] EXCEPT !.failed = h.pending.id],
                         Append(t, None), m)
  <2>1. h.pending # None
    BY <1>9 DEF Contested
  <2>2. PICK g, q : /\ \/ g = [h EXCEPT !.snapshot = s] /\ q = t
                       \/ /\ g = [[h EXCEPT !.snapshot = s] EXCEPT !.failed = h.pending.id]
                          /\ q = Append(t, None)
                    /\ Becomes(g, q, m)
    BY <1>9
  <2>3. /\ g \in HostState /\ g.snapshot = s /\ g.pending = h.pending
        /\ g.projected = h.projected
    BY <1>5, <2>1, <2>2 DEF HostState
  <2>4. Queues(t, q)
    BY <1>5, <2>2, TailFacts DEF Queues
  <2>5. Takes(h, w, g)
    BY <1>4, <1>5, <1>9, <2>1, <2>3 DEF Takes
  <2>6. Changes(c, g, q, d, m, v, r)
    BY <1>6, <2>2
  <2>7. Records(g, q, d, m, v, r) /\ ClientOK(g, q, d, m, v, r)
    BY <1>2, <1>3, <1>5, <2>4, <2>5, TakesSnapshot
  <2> QED BY <1>5, <2>6, <2>7, ClientActs
<1>10. CASE /\ ~Outdated(h, s) /\ ~foreign
            /\ Becomes([[h EXCEPT !.snapshot = s] EXCEPT !.input = MergedInput(h, s),
                                                         !.projected = Version(s)], t, m)
  <2>1. MergedInput(h, s) \in Doc /\ (h.pending = None => MergedInput(h, s) = s.doc)
    <3>1. CASE h.pending = None
      BY <1>5, <3>1 DEF MergedInput
    <3>2. CASE h.pending # None
      <4>1. h.pending.base \in Doc /\ h.pending.desired \in Doc
        BY <1>5, <3>2 DEF HostState, Edit
      <4> QED BY <1>5, <3>2, <4>1, MergedType DEF MergedInput
    <3> QED BY <3>1, <3>2
  <2>2. Version(s) \in [epoch : Nat, revision : Nat]
    BY <1>5 DEF Version, Snapshot
  <2>3. PICK g : g = [[h EXCEPT !.snapshot = s] EXCEPT !.input = MergedInput(h, s),
                                                       !.projected = Version(s)]
    OBVIOUS
  <2>4. /\ g \in HostState /\ g.snapshot = s /\ g.pending = h.pending
        /\ g.projected = Version(s) /\ g.input = MergedInput(h, s)
    BY <1>5, <2>1, <2>2, <2>3 DEF HostState
  <2>5. Records(g, t, d, m, v, r) /\ ClientOK(g, t, d, m, v, r)
    <3>1. Takes(h, w, g)
      BY <1>4, <1>5, <1>10, <2>1, <2>4 DEF Takes
    <3>2. Queues(t, t)
      BY <1>5 DEF Queues
    <3> QED BY <1>2, <1>3, <1>5, <3>1, <3>2, TakesSnapshot
  <2>6. Changes(c, g, t, d, m, v, r)
    BY <1>6, <1>10, <2>3
  <2> QED BY <1>5, <2>5, <2>6, ClientActs
<1> QED BY <1>1, <1>2, <1>4, <1>7, <1>8, <1>9, <1>10 DEF WatchApply

(* A get is answered, and its answer used.                                    *)
LEMMA ReadKeeps ==
    ASSUME SessionInv, AuthorityInv', RestTypes', NEW c \in Client, Read(c)
    PROVE  SessionInv'
<1>1. PICK h, t, d, m, w, r :
        /\ h = host[c] /\ t = tail[c] /\ d = drain[c] /\ m = toast[c]
        /\ w = watch[c] /\ r = reading[c]
        /\ Records(h, t, d, m, w, r) /\ ClientOK(h, t, d, m, w, r)
        /\ Changes(c, h, t, d, m, w, r) <=>
             UNCHANGED <<host, tail, drain, toast, watch, reading>>
  BY ClientBefore
<1>2. PICK s : s = server
  OBVIOUS
<1>3. s \in Snapshot /\ Known(s) /\ s.epoch = server.epoch
  BY <1>2, RecordTypes DEF SessionInv, Known
<1>4. Changes(c, h, t, d, m, w, s) /\ UNCHANGED authorityVars
  BY <1>1, <1>2 DEF Read, Changes, SessionInv, Types, TypeOK
<1>5. Records(h, t, d, m, w, s)
  BY <1>1, <1>3 DEF Records
<1>6. ClientOK(h, t, d, m, w, s)
  BY <1>1, <1>3 DEF ClientOK, SameProfile, KnowsOnly
<1> QED BY <1>4, <1>5, <1>6, ClientActs

(* A background read is applied, or dropped as outdated.                      *)
LEMMA ReadApplyKeeps ==
    ASSUME SessionInv, AuthorityInv', RestTypes', NEW c \in Client, ReadApply(c)
    PROVE  SessionInv'
<1>1. PICK h, t, d, m, w, r :
        /\ h = host[c] /\ t = tail[c] /\ d = drain[c] /\ m = toast[c]
        /\ w = watch[c] /\ r = reading[c]
        /\ Records(h, t, d, m, w, r) /\ ClientOK(h, t, d, m, w, r)
        /\ Changes(c, h, t, d, m, w, r) <=>
             UNCHANGED <<host, tail, drain, toast, watch, reading>>
  BY ClientBefore
<1>2. /\ r # None /\ r \in Snapshot /\ h \in HostState /\ h.snapshot \in Snapshot
      /\ r.revision \in Nat /\ h.snapshot.revision \in Nat /\ r.epoch = server.epoch
      /\ UNCHANGED authorityVars
  BY <1>1 DEF ReadApply, Records, HostState, Snapshot, ClientOK, SameProfile
<1>3. CASE h.snapshot.epoch # r.epoch /\ h.pending # None
  <2>1. Changes(c, h, t, d, m, w, None)
    BY <1>1, <1>3 DEF ReadApply, Changes, SessionInv, Types, TypeOK
  <2>2. Records(h, t, d, m, w, None)
    BY <1>1 DEF Records
  <2>3. ClientOK(h, t, d, m, w, None)
    BY <1>1 DEF ClientOK, SameProfile, KnowsOnly
  <2> QED BY <1>2, <2>1, <2>2, <2>3, ClientActs
<1>4. CASE ~(h.snapshot.epoch # r.epoch /\ h.pending # None)
  <2>1. PICK known : known = IF Outdated(h, r) THEN h.snapshot ELSE r
    OBVIOUS
  <2>2. /\ known \in Snapshot /\ known.doc \in Doc /\ known \in {h.snapshot, r}
        /\ known.revision \in Nat /\ known.epoch = server.epoch
        /\ h.snapshot.epoch = server.epoch => h.snapshot.revision <= known.revision
    BY <1>2, <2>1 DEF Outdated, Snapshot
  <2>3. PICK x : x = ReadInput(h, known)
    OBVIOUS
  <2>4. x \in Doc /\ (h.pending = None => x = known.doc)
    <3>1. CASE h.pending = None
      BY <2>2, <2>3, <3>1 DEF ReadInput, Contested, MergedInput
    <3>2. CASE h.pending # None
      <4>1. h.pending.base \in Doc /\ h.pending.desired \in Doc
        BY <1>2, <3>2 DEF HostState, Edit
      <4>2. Merged(h.pending.base, h.pending.desired, known.doc, FALSE) \in Doc
        BY <2>2, <4>1, MergedType
      <4> QED BY <2>3, <3>2, <4>1, <4>2 DEF ReadInput, MergedInput
    <3> QED BY <3>1, <3>2
  <2>5. PICK g : g = [h EXCEPT !.snapshot = known, !.input = x]
    OBVIOUS
  <2>6. /\ g \in HostState /\ g.snapshot = known /\ g.input = x /\ g.pending = h.pending
        /\ g.projected = h.projected
    BY <1>2, <2>2, <2>4, <2>5 DEF HostState
  <2>7. Changes(c, g, t, d, m, w, None)
    BY <1>1, <1>4, <2>1, <2>3, <2>5 DEF ReadApply, Changes, SessionInv, Types, TypeOK
  <2>8. Records(g, t, d, m, w, None)
    BY <1>1, <2>6 DEF Records
  <2>9. ClientOK(g, t, d, m, w, None)
    <3>1. Attended(g, t, d, m) /\ DrainsPending(g, d) /\ ShowsSnapshot(g)
      BY <1>1, <2>4, <2>6 DEF ClientOK, Attended, DrainsPending, ShowsSnapshot
    <3>2. SameProfile(g, d, w, None)
      BY <1>1, <1>2, <1>4, <2>2, <2>6 DEF ClientOK, SameProfile, Drains, DrainsPending
    <3>3. ~lost => KnowsOnly(g, t, d, m, w, None)
      BY <1>1, <1>2, <2>2, <2>6 DEF ClientOK, KnowsOnly
    <3>4. ASSUME ~lost PROVE CaughtUp(g, d, w)
      <4>1. \A n \in Nat : Holds(h, d, n) => Holds(g, d, n)
        BY <1>2, <2>2, <2>6 DEF Holds
      <4>2. w.seen \in Nat /\ (h.projected # None => h.projected.revision \in Nat)
        BY <1>1, RecordSnapshots
      <4>3. CaughtUp(h, d, w)
        BY <1>1, <3>4 DEF ClientOK
      <4> QED BY <2>6, <4>1, <4>2, <4>3 DEF CaughtUp
    <3> QED BY <3>1, <3>2, <3>3, <3>4 DEF ClientOK
  <2> QED BY <1>2, <2>7, <2>8, <2>9, ClientActs
<1> QED BY <1>3, <1>4

-----------------------------------------------------------------------------
(* The daemon restarts.                                                       *)

(* A connection breaks: the drain d fails unless it has yet to connect, and   *)
(* the stream w is opened anew.                                               *)
Broken(d) == IF d # None /\ d.at # "open" THEN [d EXCEPT !.at = "error"] ELSE d
Reopened(w) == IF w.at = "preparing" THEN [w EXCEPT !.seen = 0] ELSE Unwatched

(* A drain whose call broke is at its start or has failed.                    *)
LEMMA BrokenFacts ==
    ASSUME NEW d, DrainOK(d)
    PROVE  /\ DrainOK(Broken(d)) /\ (Broken(d) = None <=> d = None)
           /\ d # None => /\ Broken(d).at \in {"open", "error"}
                          /\ Broken(d).confirmed = d.confirmed
<1>1. CASE d # None /\ d.at # "open"
  <2> DEFINE e == [d EXCEPT !.at = "error"]
  <2>1. e \in Drain /\ e.at = "error" /\ e.confirmed = d.confirmed
    BY <1>1 DEF DrainOK, Drain
  <2>2. e # None
    BY <2>1, DocumentAssumption DEF DocumentAssumption
  <2>3. Broken(d) = e
    BY <1>1 DEF Broken
  <2> HIDE DEF e
  <2> QED BY <1>1, <2>1, <2>2, <2>3 DEF DrainOK
<1>2. CASE ~(d # None /\ d.at # "open")
  BY <1>2 DEF Broken, DrainOK
<1> QED BY <1>1, <1>2

(* A stream that is opened anew has seen nothing, and at most prepares the    *)
(* snapshot it had.                                                           *)
LEMMA ReopenedFacts ==
    ASSUME NEW w, StreamOK(w)
    PROVE  /\ StreamOK(Reopened(w)) /\ Reopened(w).seen = 0
           /\ Reopened(w).at # "idle" => w.at # "idle" /\ Reopened(w).snapshot = w.snapshot
<1>1. CASE w.at = "preparing"
  BY <1>1 DEF StreamOK, Stream, Reopened
<1>2. CASE w.at # "preparing"
  BY <1>2 DEF StreamOK, Stream, Reopened, Unwatched
<1> QED BY <1>1, <1>2

(* The document of a restarted daemon is the old one, unless revisions were   *)
(* lost, or has a new epoch.                                                  *)
LEMMA RestartedDocument ==
    ASSUME SessionInv, Restart \/ Replaced
    PROVE  /\ Disconnected
           /\ ~lost' => ~lost /\ (server' = server \/ server'.epoch = server.epoch + 1)
<1>1. server.epoch + 1 \in Nat
  BY DEF SessionInv, Types, TypeOK, AuthorityTypeOK, Snapshot
<1>2. Fresh(server.epoch + 1).epoch = server.epoch + 1
  BY <1>1, FreshType
<1>3. CASE Restart
  <2>1. lost' = (lost \/ disk # server) /\ server' = disk
    BY <1>3 DEF Restart, Reload
  <2>2. ~lost' => ~lost /\ disk = server
    BY <2>1
  <2> QED BY <1>3, <2>1, <2>2 DEF Restart
<1>4. CASE Replaced
  BY <1>2, <1>4 DEF Replaced, Replace
<1> QED BY <1>3, <1>4

(* A restart keeps what holds of every client.                                *)
LEMMA RestartKeeps ==
    ASSUME SessionInv, AuthorityInv', RestTypes', Restart \/ Replaced
    PROVE  SessionInv'
<1>1. Types /\ Disconnected /\ server \in Snapshot /\ server.epoch \in Nat
      /\ server' \in Snapshot /\ server'.revision \in Nat
      /\ (~lost' => ~lost /\ (server' = server \/ server'.epoch = server.epoch + 1))
  BY RestartedDocument DEF SessionInv, Types, TypeOK, AuthorityTypeOK, AuthorityInv, Snapshot
<1>2. ASSUME NEW k \in Client
      PROVE  /\ host'[k] = host[k] /\ tail'[k] = tail[k] /\ toast'[k] = toast[k]
             /\ drain'[k] = Broken(drain[k]) /\ watch'[k] = Reopened(watch[k])
             /\ reading'[k] = None
  BY <1>1 DEF Disconnected, Broken, Reopened
<1>3. ASSUME NEW k \in Client
      PROVE  DrainOK(drain'[k]) /\ StreamOK(watch'[k]) /\ reading'[k] \in Snapshot \cup {None}
  BY <1>1, <1>2, <1>3, RecordTypes, BrokenFacts, ReopenedFacts DEF Records
<1>4. Types'
  <2>1. /\ drain' \in [Client -> Drain \cup {None}] /\ watch' \in [Client -> Stream]
        /\ reading' \in [Client -> Snapshot \cup {None}]
    <3>1. /\ drain' = [k \in Client |-> drain'[k]] /\ watch' = [k \in Client |-> watch'[k]]
          /\ reading' = [k \in Client |-> reading'[k]]
      BY <1>1 DEF Disconnected
    <3> QED BY <1>3, <3>1 DEF DrainOK, StreamOK
  <2>2. TypeOK'
    BY <1>1, <2>1 DEF Disconnected, Types, TypeOK, RestTypes, AuthorityInv
  <2>3. CarriesAnswer'
    BY <1>3 DEF CarriesAnswer, DrainOK, StreamOK
  <2> QED BY <2>2, <2>3 DEF Types
<1>5. ASSUME NEW k \in Client PROVE ClientInv(k)'
  <2>1. PICK h, t, d, m, w, r :
          /\ h = host[k] /\ t = tail[k] /\ d = drain[k] /\ m = toast[k]
          /\ w = watch[k] /\ r = reading[k]
          /\ Records(h, t, d, m, w, r) /\ ClientOK(h, t, d, m, w, r)
    BY ClientBefore
  <2>2. PICK e, v : e = Broken(d) /\ v = Reopened(w)
    OBVIOUS
  <2>3. /\ e = None <=> d = None
        /\ d # None => e.at \in {"open", "error"} /\ e.confirmed = d.confirmed
        /\ v.seen = 0 /\ (v.at # "idle" => w.at # "idle" /\ v.snapshot = w.snapshot)
    BY <2>1, <2>2, BrokenFacts, ReopenedFacts DEF Records
  <2>4. ~Drains(e, "got") /\ ~Drains(e, "set") /\ ~Drains(e, "saved")
    BY <2>3 DEF Drains
  <2>5. Attended(h, t, e, m)' /\ DrainsPending(h, e)' /\ ShowsSnapshot(h)'
    BY <2>1, <2>3 DEF ClientOK, Attended, DrainsPending, ShowsSnapshot
  <2>6. SameProfile(h, e, v, None)'
    BY <2>3, <2>4 DEF SameProfile
  <2>7. ASSUME ~lost' PROVE KnowsOnly(h, t, e, m, v, None)' /\ CaughtUp(h, e, v)'
    <3>1. KnowsOnly(h, t, d, m, w, r) /\ CaughtUp(h, d, w)
      BY <1>1, <2>1, <2>7 DEF ClientOK
    <3>2. \A s \in Snapshot : Known(s) => Known(s)'
      BY <1>1, <2>7 DEF Known, Snapshot
    <3>3. KnownTail(t)'
      BY <2>1, <3>1, <3>2, RecordSnapshots DEF KnowsOnly, KnownTail
    <3>4. 0 <= server'.revision
      BY <1>1
    <3>5. h.projected # None =>
           /\ h.projected.epoch <= server'.epoch
           /\ h.projected.epoch = server'.epoch => h.projected.revision <= server'.revision
      BY <1>1, <2>1, <2>7, <3>1, RecordSnapshots DEF KnowsOnly
    <3>6. KnowsOnly(h, t, e, m, v, None)'
      BY <2>1, <2>3, <2>4, <3>1, <3>2, <3>3, <3>4, <3>5, RecordSnapshots DEF KnowsOnly
    <3>7. CaughtUp(h, e, v)'
      <4> SUFFICES ASSUME h.pending = None, h.projected # None,
                          h.projected.epoch = server'.epoch
                   PROVE  Holds(h, e, h.projected.revision)'
        BY <2>3, <2>4 DEF CaughtUp
      <4>1. server' = server
        BY <1>1, <2>1, <2>7, <3>1, RecordSnapshots DEF KnowsOnly
      <4>2. d = None
        BY <2>1 DEF ClientOK, DrainsPending
      <4> QED BY <3>1, <4>1, <4>2 DEF CaughtUp, Holds, Drains
    <3> QED BY <3>6, <3>7
  <2>8. ClientOK(h, t, e, m, v, None)'
    BY <2>5, <2>6, <2>7 DEF ClientOK
  <2> QED BY <1>2, <2>1, <2>2, <2>8 DEF ClientInv
<1> QED BY <1>4, <1>5 DEF SessionInv, AuthorityInv

-----------------------------------------------------------------------------
(* The specification.                                                         *)

(* The first document is all that a client knows.                             *)
LEMMA InitSession == Init => SessionInv
<1> SUFFICES ASSUME Init PROVE SessionInv
  OBVIOUS
<1>1. AuthorityInv /\ server \in Snapshot /\ server.doc \in Doc /\ server.epoch \in Nat
      /\ server.revision = 1 /\ server.epoch = 1
  BY AuthorityInitInv, FreshType DEF Init, AuthorityInit, AuthorityInv, AuthorityTypeOK, Snapshot
<1>2. Nothing \in Patch
  BY DEF Nothing, Patch
<1>3. PICK g : g = [snapshot |-> server, input |-> server.doc, ids |-> 0,
                    pending |-> None, failed |-> None, projected |-> None]
  OBVIOUS
<1>4. g \in HostState /\ g.snapshot = server /\ g.input = server.doc /\ g.pending = None
      /\ g.projected = None
  BY <1>1, <1>3 DEF HostState
<1>5. Unwatched \in Stream /\ Unwatched.at = "idle" /\ Unwatched.seen = 0
  BY DEF Unwatched, Stream
<1>6. spent \in [edits : 0 .. MaxEdits, facts : 0 .. MaxFacts,
                 reads : 0 .. MaxReads, faults : 0 .. MaxFaults]
  BY DocumentAssumption DEF Init, DocumentAssumption
<1>7. \A c \in Client : /\ host[c] = g /\ typed[c] = Nothing /\ tail[c] = <<>> /\ drain[c] = None
                        /\ toast[c] = None /\ watch[c] = Unwatched /\ reading[c] = None
  BY <1>3 DEF Init
<1>8. TypeOK
  <2>1. /\ host = [c \in Client |-> g] /\ typed = [c \in Client |-> Nothing]
        /\ tail = [c \in Client |-> <<>>] /\ drain = [c \in Client |-> None]
        /\ toast = [c \in Client |-> None] /\ watch = [c \in Client |-> Unwatched]
        /\ reading = [c \in Client |-> None] /\ wanted = [c \in Client |-> Nothing]
        /\ edited = [c \in Client |-> {}] /\ removed = {}
    BY <1>3 DEF Init
  <2>2. <<>> \in Seq(Job \cup {None})
    OBVIOUS
  <2> QED BY <1>1, <1>2, <1>4, <1>5, <1>6, <2>1, <2>2 DEF TypeOK, AuthorityInv
<1>9. CarriesAnswer
  BY <1>5, <1>7 DEF CarriesAnswer
<1>10. ASSUME NEW c \in Client PROVE ClientInv(c)
  <2>1. Known(server)
    BY <1>1 DEF Known
  <2>2. KnownTail(<<>>)
    BY DEF KnownTail
  <2> QED BY <1>1, <1>4, <1>5, <1>7, <2>1, <2>2
          DEF ClientInv, ClientOK, Attended, DrainsPending, ShowsSnapshot, SameProfile,
              KnowsOnly, CaughtUp, Drains
<1> QED BY <1>1, <1>8, <1>9, <1>10 DEF SessionInv, AuthorityInv, Types

(* A step in which no client acts.                                            *)
LEMMA NobodyActs ==
    ASSUME SessionInv, AuthorityInv', RestTypes', Grows,
           UNCHANGED <<host, tail, drain, toast, watch, reading>>
    PROVE  SessionInv'
<1>1. Types /\ server \in Snapshot
  BY DEF SessionInv, Types, TypeOK, AuthorityTypeOK
<1>2. Types'
  BY <1>1 DEF Types, TypeOK, CarriesAnswer, RestTypes, AuthorityInv
<1>3. ASSUME NEW k \in Client PROVE ClientInv(k)'
  <2>1. PICK h, t, d, m, w, r :
          /\ h = host[k] /\ t = tail[k] /\ d = drain[k] /\ m = toast[k]
          /\ w = watch[k] /\ r = reading[k]
          /\ Records(h, t, d, m, w, r) /\ ClientOK(h, t, d, m, w, r)
    BY ClientBefore
  <2>2. ClientOK(h, t, d, m, w, r)'
    BY <1>1, <2>1, Bystander
  <2> QED BY <2>1, <2>2 DEF ClientInv
<1> QED BY <1>2, <1>3 DEF SessionInv, AuthorityInv

(* Every step keeps the invariant.                                            *)
LEMMA NextSession == SessionInv /\ [Next]_vars => SessionInv'
<1> SUFFICES ASSUME SessionInv, [Next]_vars PROVE SessionInv'
  OBVIOUS
<1>1. AuthorityInv'
  BY AuthoritySteps, AuthorityStepInv DEF SessionInv, AuthorityInv, Types, TypeOK
<1>2. RestTypes'
  BY RestTypesKept DEF SessionInv
<1>3. CASE Restart \/ Replaced
  BY <1>1, <1>2, <1>3, RestartKeeps
<1>4. CASE Grows
  <2>1. CASE UNCHANGED <<host, tail, drain, toast, watch, reading>>
    BY <1>1, <1>2, <1>4, <2>1, NobodyActs
  <2>2. ASSUME NEW c \in Client,
               \/ FlushTyped(c) \/ DrainStart(c) \/ DrainFirst(c) \/ ServeGet(c) \/ DrainAgain(c)
               \/ ServeSet(c) \/ ServeSetUnwritten(c) \/ DrainAborted(c) \/ DrainGivesUp(c)
               \/ CallFails(c) \/ DrainSaved(c) \/ Click(c)
               \/ WatchSend(c) \/ WatchReceive(c) \/ WatchApply(c) \/ Read(c) \/ ReadApply(c)
        PROVE  SessionInv'
    BY <1>1, <1>2, <1>4, <2>2, FlushTypedKeeps, DrainStartKeeps, DrainAttemptsKeep,
       DrainMovesKeep, ServeSetKeeps, DrainGivesUpKeeps, DrainSavedKeeps, ClickKeeps,
       WatchSendKeeps, WatchReceiveKeeps, WatchApplyKeeps, ReadKeeps, ReadApplyKeeps
  <2>3. ASSUME \/ \E c \in Client : \E f \in Content \cup Local, v \in Value : Type(c, f, v)
               \/ \E f \in Field :
                    DaemonPrunes(f) \/ \E v \in Value \cup {Absent} : DaemonWrites(f, v)
               \/ DaemonPersists
               \/ UNCHANGED vars
        PROVE  UNCHANGED <<host, tail, drain, toast, watch, reading>>
    BY <2>3 DEF Type, DaemonPrunes, DaemonWrites, DaemonPersists, vars, clientVars
  <2> QED BY <1>3, <2>1, <2>2, <2>3 DEF Next
<1> QED BY <1>3, <1>4, AuthoritySteps

(* The invariant holds in every reachable state.                              *)
LEMMA SpecSession == Spec => []SessionInv
BY InitSession, NextSession, PTL DEF Spec

(* The daemon's document and every client's records keep their types.         *)
THEOREM SessionType == Spec => []TypeOK
<1>1. SessionInv => TypeOK
  BY DEF SessionInv, Types
<1> QED BY <1>1, SpecSession, PTL

(* A save that set has answered survives every restart of the daemon that     *)
(* keeps the profile: the file is that save or a later one, and no other      *)
(* document ever gets its version.                                            *)
THEOREM AcknowledgedSaveIsDurable == Spec => []SavedIsDurable
<1>1. SessionInv => SavedIsDurable
  BY FileFollowsIsDurable DEF SessionInv, AuthorityInv, Types, TypeOK
<1> QED BY <1>1, SpecSession, PTL

(* No pending edit is forgotten, whatever answers, conflicts, failures and    *)
(* restarts come: a drain is queued or runs, or the user has been told.       *)
THEOREM NoEditIsForgotten == Spec => []PendingIsAttended
<1>1. SessionInv => PendingIsAttended
  BY DEF SessionInv, ClientInv, ClientOK, Attended, PendingIsAttended
<1> QED BY <1>1, SpecSession, PTL

(* A client at rest without a pending edit shows the daemon's document: no    *)
(* change is missed however saves, reads and snapshots cross, whether the     *)
(* stream drops one as outdated, as seen already or for another profile.      *)
THEOREM RestingClientIsCurrent == Spec => []RestMeansCurrent
<1>1. SessionInv => RestMeansCurrent
  <2> SUFFICES ASSUME SessionInv, NEW c \in Client, AtRest(c), ~lost, host[c].pending = None
               PROVE  host[c].input = server.doc
    BY DEF RestMeansCurrent
  <2>1. /\ Known(host[c].snapshot) /\ host[c].input = host[c].snapshot.doc
        /\ watch[c].seen # 0 => Holds(host[c], None, watch[c].seen)
    BY DEF SessionInv, ClientInv, ClientOK, KnowsOnly, ShowsSnapshot, CaughtUp, AtRest
  <2>2. /\ server.revision \in Nat /\ disk.revision \in Nat /\ host[c].snapshot.revision \in Nat
    BY DEF SessionInv, Types, TypeOK, AuthorityTypeOK, HostState, Snapshot
  <2>3. server.revision # 0 /\ watch[c].seen = server.revision
    BY <2>2 DEF SessionInv, FileFollows, AtRest
  <2>4. host[c].snapshot.epoch = server.epoch /\ server.revision <= host[c].snapshot.revision
    BY <2>1, <2>3 DEF Holds, Drains
  <2> QED BY <2>1, <2>2, <2>4 DEF Known
<1> QED BY <1>1, SpecSession, PTL
=============================================================================
