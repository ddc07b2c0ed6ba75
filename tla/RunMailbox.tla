----------------------------- MODULE RunMailbox -----------------------------
(***************************************************************************)
(* The coordinator side of the daemon's orchestration authority: Runs, the *)
(* terminal pane that coordinates each of them, the mail addressed to a    *)
(* Run, and the deliveries through which `check` hands that mail out.      *)
(*                                                                         *)
(* One SQLite worker thread executes closures one at a time, so a closure  *)
(* is one atomic step.  A handler is several closures with awaits between  *)
(* them; what it read in an earlier closure is kept in its `calls` record  *)
(* and may be stale in a later one.  A handler may be dropped at any await *)
(* (its client cancelled, its deadline passed, the daemon stopped).        *)
(***************************************************************************)
EXTENDS Integers, FiniteSets

CONSTANTS
    Run,          \* ids run_create may draw; random, never drawn twice
    Handle,       \* terminal handles
    Pane,         \* stable pane (leaf) identities
    PaneOf,       \* the pane each handle lives in
    Call,         \* slots for requests being served at the same time
    Type,         \* message types
    Asks,         \* the --type filter (types; {}: none), the mode (consume,
                  \* --peek or --all) and the --wait flag of a check
    DeliveryId,   \* ids of deliveries; random, never drawn twice
    MaxSeq,       \* bound: messages ever addressed to a Run
    MaxGen,       \* bound: consumer generations of a Run
    FetchLimit,   \* messages one delivery may list (50 in the code)
    LookLimit,    \* messages --peek and --all list (MAX_MESSAGE_LIMIT)
    None          \* SQL NULL / an absent option

ASSUME MailboxAssumption ==
    /\ PaneOf \in [Handle -> Pane]
    /\ Asks \subseteq [types : SUBSET Type, wait : BOOLEAN,
                       mode : {"consume", "peek", "all"}]
    /\ MaxSeq \in Nat /\ MaxGen \in Nat \ {0}
    /\ FetchLimit \in Nat \ {0} /\ LookLimit \in Nat \ {0}
    /\ None \notin Run \cup Handle \cup Pane \cup DeliveryId \cup Type

VARIABLES
    runs,     \* the ids with a row in table runs (the legacy row aside)
    drawn,    \* the Run ids drawn so far
    coord,    \* coordinator_handle; coordinator_pane_key is PaneOf of it
    gen,      \* consumer_generation
    msgs,     \* the rows of table messages addressed to a Run, by sequence
    deliv,    \* table deliveries
    live,     \* handles TerminalSessionAuthority::show answers for
    calls     \* the handlers in flight and what they remember

tables == <<runs, drawn, coord, gen, msgs, deliv>>
vars   == <<runs, drawn, coord, gen, msgs, deliv, live, calls>>

Sequence == 1 .. MaxSeq

(* `st` is column read together with what set it (unread, or why not), or  *)
(* says that there is no row.                                              *)
MessageRow ==
    [st : {"absent", "unread", "acked", "replied", "suppressed"},
     to : Run \cup {None}, run : Run \cup {None}, type : Type \cup {None}]

(* `types` and `by` are history: the filter of the check that created the  *)
(* delivery, and the panes it was handed to or acknowledged by.            *)
DeliveryRow ==
    [st : {"free", "outstanding", "acknowledged", "fenced", "deleted"},
     run : Run \cup {None}, gen : 0 .. MaxGen, ids : SUBSET Sequence,
     types : SUBSET Type, by : SUBSET Pane]

CallState ==
    [pc : {"idle", "use", "resolved", "check", "wait", "notify"},
     h : Handle \cup {None}, pane : Pane \cup {None}, run : Run \cup {None},
     gen : 0 .. MaxGen, ack : DeliveryId \cup {None}, types : SUBSET Type,
     wait : BOOLEAN, mode : {"consume", "peek", "all"}, woken : BOOLEAN]

NoMessage  == [st |-> "absent", to |-> None, run |-> None, type |-> None]
NoDelivery == [st |-> "free", run |-> None, gen |-> 0, ids |-> {},
               types |-> {}, by |-> {}]
IdleCall   == [pc |-> "idle", h |-> None, pane |-> None, run |-> None,
               gen |-> 0, ack |-> None, types |-> {}, mode |-> "consume",
               wait |-> FALSE, woken |-> FALSE]

(* The type invariant: every table and every handler record is well formed *)
(* and no Run has a row before its id was drawn.                           *)
TypeOK ==
    /\ runs \subseteq drawn /\ drawn \subseteq Run
    /\ coord \in [Run -> Handle \cup {None}]
    /\ gen \in [Run -> 0 .. MaxGen]
    /\ msgs \in [Sequence -> MessageRow]
    /\ deliv \in [DeliveryId -> DeliveryRow]
    /\ live \subseteq Handle
    /\ calls \in [Call -> CallState]

Init ==
    /\ runs = {} /\ drawn = {}
    /\ coord = [r \in Run |-> None]
    /\ gen = [r \in Run |-> 0]
    /\ msgs = [s \in Sequence |-> NoMessage]
    /\ deliv = [d \in DeliveryId |-> NoDelivery]
    /\ live = Handle
    /\ calls = [c \in Call |-> IdleCall]

-----------------------------------------------------------------------------
(* Handlers.                                                               *)

Idle(c)     == calls[c].pc = "idle"
Begin(c, k) == calls' = [calls EXCEPT ![c] = k]
Finish(c)   == calls' = [calls EXCEPT ![c] = IdleCall]
Commit(c)   == calls' = [calls EXCEPT ![c] = [IdleCall EXCEPT !.pc = "notify"]]

(* notify(): the watch channel marks every receiver that has subscribed.   *)
Notify(c) ==
    /\ calls[c].pc = "notify"
    /\ calls' = [k \in Call |->
                   CASE k = c -> IdleCall
                     [] k # c /\ calls[k].pc \in {"check", "wait"} ->
                          [calls[k] EXCEPT !.woken = TRUE]
                     [] OTHER -> calls[k]]
    /\ UNCHANGED <<tables, live>>

(* A handler dropped at an await: what its closures committed stays, the   *)
(* steps after the await never happen, the notification among them.        *)
Drop(c) ==
    /\ ~Idle(c)
    /\ Finish(c)
    /\ UNCHANGED <<tables, live>>

(* External: a terminal goes away.                                         *)
TerminalExit(h) ==
    /\ h \in live
    /\ live' = live \ {h}
    /\ UNCHANGED <<tables, calls>>

-----------------------------------------------------------------------------
(* Runs and their coordinators.                                            *)

BoundTo(p) == {r \in runs : coord[r] # None /\ PaneOf[coord[r]] = p}

(* Broken: a new coordinator inherits the outstanding delivery.            *)
FenceNothing(F) == deliv

Fence(F) ==
    [d \in DeliveryId |->
        IF deliv[d].st = "outstanding" /\ deliv[d].run \in F
        THEN [deliv[d] EXCEPT !.st = "fenced"] ELSE deliv[d]]

(* Each Run of F gets a new consumer generation and loses its outstanding  *)
(* delivery; its coordinator becomes what `to` says.                       *)
Rebind(F, to) ==
    /\ \A r \in F : gen[r] < MaxGen
    /\ coord' = [r \in Run |-> IF r \in F THEN to[r] ELSE coord[r]]
    /\ gen' = [r \in Run |-> IF r \in F THEN gen[r] + 1 ELSE gen[r]]
    /\ deliv' = Fence(F)

(* Bound: no generation may grow any more, so a run_use that was accepted  *)
(* before is given up.                                                     *)
PastMaxGen == \E r \in Run : gen[r] = MaxGen

(* Only r gets the coordinator h.                                          *)
OnlyFor(r, h) == [q \in Run |-> IF q = r THEN h ELSE None]

RunCreate(c, h, r) ==
    /\ Idle(c) /\ h \in live /\ r \notin drawn
    /\ runs' = runs \cup {r}
    /\ drawn' = drawn \cup {r}
    /\ Rebind(BoundTo(PaneOf[h]) \cup {r}, OnlyFor(r, h))
    /\ Commit(c)
    /\ UNCHANGED <<msgs, live>>

(* The first half of run_use: refuse a Run whose coordinator is another    *)
(* live pane, as far as this read can tell.                                *)
InUse(h, r) == r \in runs /\ coord[r] \in live /\ PaneOf[coord[r]] # PaneOf[h]
RunUse(c, h, r) ==
    /\ Idle(c) /\ h \in live /\ ~InUse(h, r)
    /\ Begin(c, [IdleCall EXCEPT !.pc = "use", !.h = h, !.run = r])
    /\ UNCHANGED <<tables, live>>

(* Broken: run_use forgets the Run the pane coordinated before.            *)
RunUseBindKeeping(c) ==
    LET h == calls[c].h
        r == calls[c].run
    IN  /\ calls[c].pc = "use" /\ r \in runs /\ coord[r] # h
        /\ Rebind({r}, OnlyFor(r, h))
        /\ Commit(c)
        /\ UNCHANGED <<runs, drawn, msgs, live>>

RunUseBind(c) ==
    LET h == calls[c].h
        r == calls[c].run
        others == BoundTo(PaneOf[h]) \ {r}
    IN  /\ calls[c].pc = "use"
        /\ \/ /\ r \notin runs \/ PastMaxGen
              /\ Finish(c)
              /\ UNCHANGED <<coord, gen, deliv>>
           \/ /\ r \in runs
              /\ Rebind(others \cup (IF coord[r] = h THEN {} ELSE {r}),
                        OnlyFor(r, h))
              /\ Commit(c)
        /\ UNCHANGED <<runs, drawn, msgs, live>>

(* reset --messages and reset --all; reset --tasks only notifies here.     *)
Reset(c, scope) ==
    /\ Idle(c)
    /\ IF scope = "tasks" THEN UNCHANGED <<msgs, deliv>>
       ELSE /\ msgs' = [s \in Sequence |-> NoMessage]
            /\ deliv' = [d \in DeliveryId |->
                          IF deliv[d].st = "free" THEN deliv[d]
                          ELSE [NoDelivery EXCEPT !.st = "deleted"]]
    /\ IF scope = "all"
       THEN runs' = {} /\ coord' = [r \in Run |-> None] /\ gen' = [r \in Run |-> 0]
       ELSE UNCHANGED <<runs, coord, gen>>
    /\ Commit(c)
    /\ UNCHANGED <<drawn, live>>

-----------------------------------------------------------------------------
(* Mail for a Run.                                                         *)

(* The sequence number insert_message gets.  Only the order of the numbers *)
(* matters, so that they start again when a reset deletes every message.   *)
Absent == {s \in Sequence : msgs[s].st = "absent"}
NextSequence(s) == s \in Absent /\ \A t \in Absent : s <= t

(* Broken: a send that wakes nobody.                                       *)
SendSilently(c, to, r, type) ==
    /\ Idle(c) /\ r \in runs
    /\ \E s \in Sequence :
         /\ NextSequence(s)
         /\ msgs' = [msgs EXCEPT ![s] =
                       [st |-> "unread", to |-> to, run |-> r, type |-> type]]
    /\ UNCHANGED <<runs, drawn, coord, gen, deliv, live, calls>>

(* send_message to run:<to> under Run r (the --run option; by default the  *)
(* addressed Run), and ask, which stores its question the same way.  The   *)
(* final transaction checks again that r has a row, so routing adds        *)
(* nothing.  A heartbeat of a Dispatch that is no longer dispatched is     *)
(* stored read.                                                            *)
SendMessage(c, to, r, type) ==
    /\ Idle(c) /\ r \in runs
    /\ \E s \in Sequence, st \in {"unread", "suppressed"} :
         /\ NextSequence(s)
         /\ st = "suppressed" => type = "heartbeat"
         /\ msgs' = [msgs EXCEPT ![s] =
                       [st |-> st, to |-> to, run |-> r, type |-> type]]
    /\ Commit(c)
    /\ UNCHANGED <<runs, drawn, coord, gen, deliv, live>>

(* reply to a Run's message that opened no question: it marks the message  *)
(* read whoever asks; the reply itself goes to the sender's own mailbox.   *)
Reply(c, m) ==
    /\ Idle(c) /\ msgs[m].st # "absent" /\ msgs[m].run \in runs
    /\ msgs' = [msgs EXCEPT ![m].st = IF @ = "unread" THEN "replied" ELSE @]
    /\ Commit(c)
    /\ UNCHANGED <<runs, drawn, coord, gen, deliv, live>>

(* list_messages: the rows of one address, filtered, the oldest or the     *)
(* newest `limit` of them.                                                 *)
Listed(to, types, unreadOnly) ==
    {s \in Sequence :
        /\ msgs[s].st # "absent"
        /\ msgs[s].to = to
        /\ unreadOnly => msgs[s].st = "unread"
        /\ types = {} \/ msgs[s].type \in types}

(* Broken: a consuming check asks for descending order.                    *)
NewestInstead(S, limit) == {s \in S : Cardinality({t \in S : t > s}) < limit}

Oldest(S, limit) == {s \in S : Cardinality({t \in S : t < s}) < limit}
Newest(S, limit) == {s \in S : Cardinality({t \in S : t > s}) < limit}
OfRun(S, r)      == {s \in S : msgs[s].run = r}

-----------------------------------------------------------------------------
(* check on a Run's mailbox.                                               *)

(* Broken: the generation the next coordinator will have.                  *)
CheckMessagesAhead(c, p, ack, ask) ==
    /\ Idle(c)
    /\ \E r \in BoundTo(p) :
         Begin(c, [IdleCall EXCEPT !.pc = "resolved", !.pane = p, !.run = r,
                                   !.gen = gen[r] + 1, !.ack = ack])
    /\ UNCHANGED <<tables, live>>

(* check_messages for a pane that coordinates a Run: the mailbox and the   *)
(* generation are those of this read.  The pane is the live terminal's or, *)
(* for a terminal that is gone, the one the caller names.                  *)
CheckMessages(c, p, ack, ask) ==
    /\ Idle(c)
    /\ \E r \in BoundTo(p) :
         Begin(c, [IdleCall EXCEPT
                     !.pc = "resolved", !.pane = p, !.run = r, !.gen = gen[r],
                     !.ack = ack, !.types = ask.types, !.mode = ask.mode,
                     !.wait = ask.wait])
    /\ UNCHANGED <<tables, live>>

(* revision.subscribe(), before the first query.                           *)
Subscribe(c) ==
    /\ calls[c].pc = "resolved"
    /\ Begin(c, [calls[c] EXCEPT !.pc = "check"])
    /\ UNCHANGED <<tables, live>>

(* Broken: any existing Run is current.                                    *)
CurrentAnyGeneration(c) == calls[c].run \in runs

(* The two tests that roll the transaction of check_run_mailbox back: a    *)
(* stale generation, and an --ack of an unknown or fenced delivery or one  *)
(* of another Run or generation.                                           *)
Current(c) == calls[c].run \in runs /\ gen[calls[c].run] = calls[c].gen
AckAccepted(c) ==
    LET k == calls[c] IN
    k.ack # None => /\ deliv[k.ack].st \in {"outstanding", "acknowledged"}
                    /\ deliv[k.ack].run = k.run
                    /\ deliv[k.ack].gen = k.gen
Accepted(c) == calls[c].pc = "check" /\ Current(c) /\ AckAccepted(c)

(* The tables after the --ack part of the transaction.                     *)
Acking(c)   == calls[c].ack # None /\ deliv[calls[c].ack].st = "outstanding"
AckedIds(c) == IF Acking(c) THEN deliv[calls[c].ack].ids ELSE {}

(* Broken: an acknowledged delivery stays outstanding.                     *)
AckedDelivKept(c) == deliv

AckedDeliv(c) ==
    IF Acking(c)
    THEN [deliv EXCEPT ![calls[c].ack].st = "acknowledged",
                       ![calls[c].ack].by = @ \cup {calls[c].pane}]
    ELSE deliv

(* Broken: an acknowledgement reads everything the Run has.                *)
AckedMsgsAll(c) ==
    [s \in Sequence |->
        IF Acking(c) /\ msgs[s].run = calls[c].run /\ msgs[s].st = "unread"
        THEN [msgs[s] EXCEPT !.st = "acked"] ELSE msgs[s]]

AckedMsgs(c) ==
    [s \in Sequence |->
        IF s \in AckedIds(c) /\ msgs[s].st = "unread"
        THEN [msgs[s] EXCEPT !.st = "acked"] ELSE msgs[s]]

(* What the transaction then reads: the outstanding delivery, the page a   *)
(* consuming check would hand out, the page --peek or --all list.          *)
Outstanding(r) == {d \in DeliveryId :
                     deliv[d].st = "outstanding" /\ deliv[d].run = r}
Held(c) == Outstanding(calls[c].run) \ (IF Acking(c) THEN {calls[c].ack} ELSE {})
Fetched(c) ==
    LET k == calls[c] IN
    OfRun(Oldest(Listed(k.run, k.types, TRUE) \ AckedIds(c), FetchLimit), k.run)
Looked(c) ==
    LET k == calls[c]
        unread == k.mode = "peek"
    IN  OfRun(Newest(Listed(k.run, k.types, unread)
                       \ (IF unread THEN AckedIds(c) ELSE {}), LookLimit), k.run)

(* With nothing to return a check that waits goes on waiting.              *)
ReturnOrWait(c, found) ==
    IF found \/ ~calls[c].wait THEN Finish(c)
    ELSE Begin(c, [calls[c] EXCEPT !.pc = "wait"])

CheckFenced(c) ==
    /\ calls[c].pc = "check" /\ ~Accepted(c)
    /\ Finish(c)
    /\ UNCHANGED <<tables, live>>

CheckLook(c) ==
    /\ Accepted(c) /\ calls[c].mode # "consume"
    /\ msgs' = AckedMsgs(c) /\ deliv' = AckedDeliv(c)
    /\ ReturnOrWait(c, Looked(c) # {})
    /\ UNCHANGED <<runs, drawn, coord, gen, live>>

CheckReplay(c) ==
    /\ Accepted(c) /\ calls[c].mode = "consume"
    /\ \E d \in Held(c) :
         deliv' = [AckedDeliv(c) EXCEPT ![d].by = @ \cup {calls[c].pane}]
    /\ msgs' = AckedMsgs(c)
    /\ Finish(c)
    /\ UNCHANGED <<runs, drawn, coord, gen, live>>

CheckDeliver(c, d) ==
    LET k == calls[c] IN
    /\ Accepted(c) /\ k.mode = "consume" /\ Held(c) = {}
    /\ Fetched(c) # {} /\ deliv[d].st = "free"
    /\ deliv' = [AckedDeliv(c) EXCEPT ![d] =
                   [st |-> "outstanding", run |-> k.run, gen |-> k.gen,
                    ids |-> Fetched(c), types |-> k.types, by |-> {k.pane}]]
    /\ msgs' = AckedMsgs(c)
    /\ Finish(c)
    /\ UNCHANGED <<runs, drawn, coord, gen, live>>

(* Bound: with no id left a check that would deliver is given up.          *)
CheckOutOfIds(c) ==
    /\ Accepted(c) /\ calls[c].mode = "consume" /\ Held(c) = {}
    /\ Fetched(c) # {} /\ \A d \in DeliveryId : deliv[d].st # "free"
    /\ Finish(c)
    /\ UNCHANGED <<tables, live>>

CheckEmpty(c) ==
    /\ Accepted(c) /\ calls[c].mode = "consume" /\ Held(c) = {}
    /\ Fetched(c) = {}
    /\ msgs' = AckedMsgs(c) /\ deliv' = AckedDeliv(c)
    /\ ReturnOrWait(c, FALSE)
    /\ UNCHANGED <<runs, drawn, coord, gen, live>>

(* revision.changed() under a timeout that starts anew in every round.     *)
WaitWoken(c) ==
    /\ calls[c].pc = "wait" /\ calls[c].woken
    /\ Begin(c, [calls[c] EXCEPT !.woken = FALSE, !.pc = "check"])
    /\ UNCHANGED <<tables, live>>

WaitTimeout(c) ==
    /\ calls[c].pc = "wait" /\ ~calls[c].woken
    /\ Finish(c)
    /\ UNCHANGED <<tables, live>>

-----------------------------------------------------------------------------
(* A handler's own next step, and what clients may ask for.                *)

Step(c) ==
    \/ Notify(c) \/ RunUseBind(c) \/ Subscribe(c)
    \/ CheckFenced(c) \/ CheckLook(c) \/ CheckReplay(c)
    \/ (\E d \in DeliveryId : CheckDeliver(c, d)) \/ CheckOutOfIds(c)
    \/ CheckEmpty(c) \/ WaitWoken(c)

Request(c) ==
    \/ \E h \in Handle, r \in Run : RunCreate(c, h, r) \/ RunUse(c, h, r)
    \/ \E scope \in {"all", "tasks", "messages"} : Reset(c, scope)
    \/ \E to, r \in Run, t \in Type : SendMessage(c, to, r, t)
    \/ \E m \in Sequence : Reply(c, m)
    \/ \E p \in Pane, ack \in DeliveryId \cup {None}, ask \in Asks :
          CheckMessages(c, p, ack, ask)

(* Nobody cancels: every handler is served to its end.                     *)
Serve == \/ \E c \in Call : Step(c) \/ WaitTimeout(c) \/ Request(c)
         \/ \E h \in Handle : TerminalExit(h)

Next == Serve \/ \E c \in Call : Drop(c)

Spec == Init /\ [][Next]_vars

(* The async runtime and the SQLite thread go on with every handler that   *)
(* can go on.  Timers may fire but need not: a caller may ask for any      *)
(* timeout.                                                                *)
ServedSpec == Init /\ [][Serve]_vars /\ \A c \in Call : WF_vars(Step(c))

(* The same, and a timer that nothing restarts fires.                      *)
TimedSpec == ServedSpec /\ \A c \in Call : WF_vars(WaitTimeout(c))

-----------------------------------------------------------------------------
(* Properties.                                                             *)

(* A terminal pane coordinates at most one Run at a time, however          *)
(* run_create and run_use calls interleave.                                *)
OneRunPerPane ==
    \A p \in Pane : \A q, r \in BoundTo(p) : q = r

(* A Run has at most one outstanding delivery, and it belongs to the Run's *)
(* current consumer generation: rebinding a Run leaves no delivery that    *)
(* its previous coordinator could still settle.                            *)
OutstandingIsCurrent ==
    \A d \in DeliveryId : deliv[d].st = "outstanding" =>
        /\ deliv[d].run \in runs /\ deliv[d].gen = gen[deliv[d].run]
        /\ Outstanding(deliv[d].run) = {d}

(* A delivery is shown to, replayed to and acknowledged by one pane only:  *)
(* a check that resolved its mailbox before a takeover gets nothing after. *)
ExclusiveDelivery ==
    \A d \in DeliveryId : \A p, q \in deliv[d].by : p = q

(* No mail is lost: a message that an acknowledgement marked read was in a *)
(* delivery of its Run that was acknowledged, not in a fenced one only.    *)
AckedMailWasHanded ==
    \A s \in Sequence : msgs[s].st = "acked" =>
        \E d \in DeliveryId : /\ deliv[d].st = "acknowledged"
                              /\ s \in deliv[d].ids
                              /\ deliv[d].run = msgs[s].run

(* Mail is handed out oldest first: once an unfiltered delivery holds a    *)
(* message, no older message of that Run is still unread outside of it.    *)
OldestFirst ==
    \A d \in DeliveryId : deliv[d].types = {} =>
        \A s \in deliv[d].ids, t \in Sequence :
            /\ t < s /\ t \notin deliv[d].ids
            /\ msgs[t].to = deliv[d].run /\ msgs[t].run = deliv[d].run
            => msgs[t].st # "unread"

(* No lost wakeup: a blocked check that has unread mail to return has been *)
(* marked by the watch channel, or a handler that committed is about to    *)
(* notify.  (Under ServedSpec: a handler cancelled between its commit and  *)
(* its notify leaves the waiter asleep until the next notification.)  A    *)
(* delivery that another check of the same consumer created is not         *)
(* announced: mail outside of the waiter's own filter is no mail for it.   *)
HasMail(c) ==
    IF calls[c].mode = "consume" THEN Fetched(c) # {} ELSE Looked(c) # {}
NoLostWakeup ==
    \A c \in Call :
        calls[c].pc = "wait" /\ Current(c) /\ HasMail(c) =>
            \/ calls[c].woken
            \/ \E n \in Call : calls[n].pc = "notify"

(* Mail reaches a blocked check: a check that is waiting while there is    *)
(* mail for it does not stay like that, whatever timeout it asked for; it  *)
(* returns, or the mail goes elsewhere, or its consumer is replaced.       *)
MailWakesWaiter ==
    \A c \in Call : calls[c].pc = "wait" /\ Current(c) /\ HasMail(c)
                    ~> calls[c].pc = "idle" \/ ~Current(c) \/ ~HasMail(c)

(* "check --wait holds this unary call open until a message arrives or     *)
(* timeout_ms elapses": a waiting check ends.                              *)
WaitEnds == \A c \in Call : calls[c].pc = "wait" ~> calls[c].pc = "idle"

(* A check that finds nothing says that the Run has no unread mail.        *)
EmptyMeansNoMail ==
    [][\A c \in Call : CheckEmpty(c) /\ calls[c].types = {} =>
         \A s \in Sequence :
            msgs[s].run = calls[c].run /\ msgs[s].to = calls[c].run
            => msgs'[s].st # "unread"]_vars

(* The mailbox implements RunLease: unread mail addressed to a Run under   *)
(* that Run is leased when an outstanding delivery lists it and queued     *)
(* when none does.  In particular a takeover returns the old coordinator's *)
(* batch whole, and an acknowledgement settles nothing but its own batch.  *)
MailOf(r)   == {s \in Sequence : /\ msgs[s].st = "unread"
                                 /\ msgs[s].to = r /\ msgs[s].run = r}
LeasedOf(r) == {s \in MailOf(r) : \E d \in Outstanding(r) : s \in deliv[d].ids}
Lease == INSTANCE RunLease WITH
           Letter  <- Sequence,
           queue   <- [r \in Run |-> MailOf(r) \ LeasedOf(r)],
           lease   <- [r \in Run |-> LeasedOf(r)],
           settled <- {s \in Sequence : msgs[s].st = "acked"}
ImplementsLease == Lease!Spec
=============================================================================
