---------------------------- MODULE TaskDispatch ----------------------------
(***************************************************************************)
(* The worker side of the daemon's orchestration authority, for one Run:   *)
(* Tasks and their dependencies, the Dispatches that give a Task to a      *)
(* terminal, the workers worker-start launches, decision gates, and the    *)
(* questions a worker asks.                                                *)
(*                                                                         *)
(* As in RunMailbox a closure on the SQLite thread is one step, a handler  *)
(* is several of them with awaits between, and what it read earlier may be *)
(* stale.  Mail itself is RunMailbox's: a refused worker_done, a heartbeat *)
(* and the text of questions and answers leave no trace in these tables.   *)
(* The caller's Run is taken to be bound.                                  *)
(***************************************************************************)
EXTENDS Integers, FiniteSets

CONSTANTS
    Task,          \* ids task_create may draw; random, never drawn twice
    Terminal,      \* terminal handles, each alone in its pane
    Question,      \* ids of questions; random, never drawn twice
    Gate,          \* ids of decision gates; random, never drawn twice
    Answer,        \* bodies of answers
    Call,          \* slots for requests being served at the same time
    Commands,      \* the commands clients issue
    Updates,       \* the statuses task-update is called with
    MaxDispatch,   \* bound: Dispatches ever created
    MaxEpoch,      \* bound: runs of the daemon
    FailureLimit,  \* failed starts that break a Task's circuit (3)
    None           \* SQL NULL / an absent option

ASSUME DispatchAssumption ==
    /\ MaxDispatch \in Nat /\ MaxEpoch \in Nat \ {0}
    /\ FailureLimit \in Nat \ {0}
    /\ Updates \subseteq {"pending", "ready", "dispatched", "completed", "failed",
                           "blocked"}
    /\ None \notin Task \cup Terminal \cup Question \cup Answer \cup Nat

VARIABLES
    task,     \* table tasks
    disp,     \* table dispatch_contexts, by rowid
    worker,   \* table worker_dispatches, by the Dispatch
    gate,     \* table decision_gates
    quest,    \* table question_threads
    term,     \* what TerminalSessionAuthority knows of each terminal
    epoch,    \* runtime_epoch: which run of the daemon this is
    calls     \* the handlers in flight and what they remember

tables == <<task, disp, worker, gate, quest>>
vars   == <<task, disp, worker, gate, quest, term, epoch, calls>>

DispatchId == 1 .. MaxDispatch
Epoch      == 1 .. MaxEpoch
Outcome    == {"succeeded", "failed"}

(* `late` is history: every dependency was completed at creation.          *)
TaskRow ==
    [st : {"absent", "deleted", "pending", "ready", "dispatched", "completed",
           "failed", "blocked"},
     deps : SUBSET Task, late : BOOLEAN]

(* `cap`: a capability hash is stored; `inc`: the run of the daemon whose  *)
(* terminal process the Dispatch was made for (process_incarnation).       *)
DispatchRow ==
    [st : {"absent", "deleted", "pending", "dispatched", "completed",
           "failed", "circuit_broken"},
     task : Task \cup {None}, who : Terminal \cup {None}, cap : BOOLEAN,
     inc : Epoch \cup {None}, revoked : BOOLEAN, fails : Nat]

WorkerRow ==
    [st : {"none", "starting", "ready", "start_unknown", "failed",
           "succeeded", "stopping", "stop_unknown", "stopped", "abandoned"},
     term : Terminal \cup {None}, epoch : Epoch \cup {None}]

GateRow  == [st : {"absent", "deleted", "pending", "resolved"},
             task : Task \cup {None}]
QuestRow == [st : {"absent", "deleted", "pending", "answered", "closed"},
             d : DispatchId \cup {None}, ans : Answer \cup {None}]

CallState ==
    [pc : {"idle", "notify", "dispatch", "inject", "start", "starting",
           "readying", "input", "sent", "stop", "stopping", "closed", "show",
           "report", "ask", "asked", "asking", "wait"},
     t : Task \cup {None}, h : Terminal \cup {None},
     d : DispatchId \cup {None}, inc : Epoch \cup {None}, q : Question \cup {None},
     flag : BOOLEAN, st : {"", "start_unknown", "stop_unknown"},
     woken : BOOLEAN, late : BOOLEAN]

NoTask     == [st |-> "absent", deps |-> {}, late |-> FALSE]
NoDispatch == [st |-> "absent", task |-> None, who |-> None, cap |-> FALSE,
               inc |-> None, revoked |-> FALSE, fails |-> 0]
NoWorker   == [st |-> "none", term |-> None, epoch |-> None]
NoGate     == [st |-> "absent", task |-> None]
NoQuestion == [st |-> "absent", d |-> None, ans |-> None]
IdleCall   == [pc |-> "idle", t |-> None, h |-> None, d |-> None, inc |-> None,
               q |-> None, flag |-> FALSE, st |-> "", woken |-> FALSE,
               late |-> FALSE]

(* The type invariant: every table and every handler record is well formed *)
(* and a handler past its first insertion names the row it inserted.       *)
TypeOK ==
    /\ task \in [Task -> TaskRow]
    /\ disp \in [DispatchId -> DispatchRow]
    /\ worker \in [DispatchId -> WorkerRow]
    /\ gate \in [Gate -> GateRow]
    /\ quest \in [Question -> QuestRow]
    /\ term \in [Terminal -> {"unborn", "live", "gone"}]
    /\ epoch \in Epoch
    /\ calls \in [Call -> CallState]

Init ==
    /\ task = [t \in Task |-> NoTask]
    /\ disp = [d \in DispatchId |-> NoDispatch]
    /\ worker = [d \in DispatchId |-> NoWorker]
    /\ gate = [g \in Gate |-> NoGate]
    /\ quest = [q \in Question |-> NoQuestion]
    /\ term \in [Terminal -> {"unborn", "live"}]
    /\ epoch = 1
    /\ calls = [c \in Call |-> IdleCall]

-----------------------------------------------------------------------------
(* Handlers, terminals and restarts.                                       *)

Idle(c)     == calls[c].pc = "idle"
Begin(c, k) == calls' = [calls EXCEPT ![c] = k]
Goto(c, pc) == Begin(c, [calls[c] EXCEPT !.pc = pc])
Finish(c)   == Begin(c, IdleCall)
Commit(c)   == Begin(c, [IdleCall EXCEPT !.pc = "notify"])
At(pc, h, d) == [IdleCall EXCEPT !.pc = pc, !.h = h, !.d = d]

(* notify(): the watch channel marks every receiver that has subscribed.   *)
Woken(c, k) ==
    [b \in Call |->
        IF b = c THEN k
        ELSE IF calls[b].pc \in {"asking", "wait"}
             THEN [calls[b] EXCEPT !.woken = TRUE] ELSE calls[b]]

Notify(c) ==
    /\ calls[c].pc = "notify"
    /\ calls' = Woken(c, IdleCall)
    /\ UNCHANGED <<tables, term, epoch>>

(* A handler dropped at an await.                                          *)
Drop(c) ==
    /\ ~Idle(c)
    /\ Finish(c)
    /\ UNCHANGED <<tables, term, epoch>>

(* The daemon stops and starts again: the tables stay, every handler is    *)
(* gone, and a terminal that comes back runs in a new process.             *)
Restart ==
    /\ epoch < MaxEpoch
    /\ epoch' = epoch + 1
    /\ calls' = [c \in Call |-> IdleCall]
    /\ term' \in [Terminal -> {"unborn", "live", "gone"}]
    /\ \A h \in Terminal : IF term[h] = "live" THEN term'[h] # "unborn"
                           ELSE term'[h] = term[h]
    /\ UNCHANGED tables

(* External: a terminal goes away.                                         *)
TerminalExit(h) ==
    /\ term[h] = "live"
    /\ term' = [term EXCEPT ![h] = "gone"]
    /\ UNCHANGED <<tables, epoch, calls>>

(* What a terminal's process_incarnation is at this moment.                *)
Incarnation(h) == IF term[h] = "live" THEN epoch ELSE None

-----------------------------------------------------------------------------
(* Reads of the tables.                                                    *)

Live(st)       == st \notin {"absent", "deleted"}
Active(d)      == disp[d].st \in {"pending", "dispatched"}
Of(t)          == {d \in DispatchId : Live(disp[d].st) /\ disp[d].task = t}
Latest(t)      == {d \in Of(t) : \A e \in Of(t) : e <= d}
NewestActive(t) ==
    {d \in Of(t) : Active(d) /\ \A e \in Of(t) : Active(e) => e <= d}

(* active_dispatch_for_identity                                            *)
ActiveFor(h) == {d \in DispatchId : Active(d) /\ disp[d].who = h}

(* COALESCE(MAX(failure_count), 0), as a set of one.                       *)
Failures(t) ==
    {f \in {0} \cup {disp[d].fails : d \in Of(t)} :
        \A d \in Of(t) : disp[d].fails <= f}

(* The rowid the next Dispatch gets.                                       *)
NextDispatch(d) == /\ disp[d].st = "absent"
                   /\ \A e \in DispatchId : disp[e].st = "absent" => d <= e

(* Bound: no rowid is left and the handler that would insert is given up.  *)
OutOfDispatches == \A d \in DispatchId : disp[d].st # "absent"

(* The UPDATE statements: a row that a reset deleted stays deleted.        *)
TaskSet(t, st) ==
    IF t \in Task /\ Live(task[t].st) THEN [task EXCEPT ![t].st = st] ELSE task
WorkerSet(d, st) ==
    IF worker[d].st = "none" THEN worker ELSE [worker EXCEPT ![d].st = st]

Settled(D, st) ==
    [d \in DispatchId |->
        IF d \in D THEN [disp[d] EXCEPT !.st = st, !.revoked = TRUE]
        ELSE disp[d]]

(* Broken: only a Task whose sole dependency completed becomes ready.      *)
PromoteSole(tasks, t) ==
    [u \in Task |->
        IF tasks[u].st = "pending" /\ tasks[u].deps = {t}
        THEN [tasks[u] EXCEPT !.st = "ready"] ELSE tasks[u]]

(* promote_ready_tasks, after t was completed.                             *)
Promote(tasks, t) ==
    [u \in Task |->
        IF /\ tasks[u].st = "pending" /\ t \in tasks[u].deps
           /\ \A e \in tasks[u].deps : tasks[e].st = "completed"
        THEN [tasks[u] EXCEPT !.st = "ready"] ELSE tasks[u]]

-----------------------------------------------------------------------------
(* Tasks and gates.                                                        *)

TaskCreate(c, t, deps) ==
    /\ Idle(c) /\ task[t].st = "absent"
    /\ \A u \in deps : Live(task[u].st)
    /\ task' = [task EXCEPT ![t] =
                  [st |-> IF deps = {} THEN "ready" ELSE "pending",
                   deps |-> deps,
                   late |-> \A u \in deps : task[u].st = "completed"]]
    /\ Commit(c)
    /\ UNCHANGED <<disp, worker, gate, quest, term, epoch>>

TaskUpdate(c, t, st) ==
    /\ Idle(c) /\ Live(task[t].st)
    /\ IF st = "completed"
       THEN /\ task' = Promote(TaskSet(t, st), t)
            /\ disp' = Settled(NewestActive(t), "completed")
       ELSE task' = TaskSet(t, st) /\ UNCHANGED disp
    /\ Commit(c)
    /\ UNCHANGED <<worker, gate, quest, term, epoch>>

GateCreate(c, g, t) ==
    /\ Idle(c) /\ gate[g].st = "absent" /\ task[t].st # "absent"
    /\ gate' = [gate EXCEPT ![g] = [st |-> "pending", task |-> t]]
    /\ disp' = Settled(NewestActive(t), "completed")
    /\ task' = TaskSet(t, "blocked")
    /\ Commit(c)
    /\ UNCHANGED <<worker, quest, term, epoch>>

(* A gate may be resolved again, and its Task is ready whatever it was.    *)
GateResolve(c, g) ==
    /\ Idle(c) /\ Live(gate[g].st)
    /\ gate' = [gate EXCEPT ![g].st = "resolved"]
    /\ task' = TaskSet(gate[g].task, "ready")
    /\ Commit(c)
    /\ UNCHANGED <<disp, worker, quest, term, epoch>>

(* reset --tasks (and the part of --all that concerns these tables) and    *)
(* reset --messages, which deletes the questions alone.                    *)
Reset(c, scope) ==
    /\ Idle(c)
    /\ quest' = [q \in Question |-> IF Live(quest[q].st)
                   THEN [NoQuestion EXCEPT !.st = "deleted"] ELSE quest[q]]
    /\ IF scope = "messages" THEN UNCHANGED <<task, disp, worker, gate>>
       ELSE /\ task' = [t \in Task |-> IF Live(task[t].st)
                          THEN [NoTask EXCEPT !.st = "deleted"] ELSE task[t]]
            /\ disp' = [d \in DispatchId |-> IF Live(disp[d].st)
                          THEN [NoDispatch EXCEPT !.st = "deleted"] ELSE disp[d]]
            /\ worker' = [d \in DispatchId |-> NoWorker]
            /\ gate' = [g \in Gate |-> IF Live(gate[g].st)
                          THEN [NoGate EXCEPT !.st = "deleted"] ELSE gate[g]]
    /\ Commit(c)
    /\ UNCHANGED <<term, epoch>>

-----------------------------------------------------------------------------
(* dispatch: a Task for a terminal that is already there.                  *)

(* The Task's status and the terminal are those of this read.              *)
DispatchTask(c, t, h, inject) ==
    /\ Idle(c) /\ task[t].st = "ready"
    /\ inject => term[h] = "live"
    /\ Begin(c, [IdleCall EXCEPT !.pc = "dispatch", !.t = t, !.h = h,
                                 !.flag = inject, !.inc = Incarnation(h)])
    /\ UNCHANGED <<tables, term, epoch>>

DispatchRefused(c) ==
    /\ calls[c].pc = "dispatch"
    /\ ActiveFor(calls[c].h) # {} \/ OutOfDispatches
    /\ Finish(c)
    /\ UNCHANGED <<tables, term, epoch>>

DispatchStore(c, d) ==
    LET k == calls[c] IN
    /\ k.pc = "dispatch" /\ ActiveFor(k.h) = {} /\ NextDispatch(d)
    /\ \E f \in Failures(k.t) :
         disp' = [disp EXCEPT ![d] =
                    [st |-> "dispatched", task |-> k.t, who |-> k.h,
                     cap |-> k.flag, inc |-> k.inc, revoked |-> FALSE,
                     fails |-> f]]
    /\ task' = TaskSet(k.t, "dispatched")
    /\ IF k.flag THEN Begin(c, At("inject", k.h, d)) ELSE Commit(c)
    /\ UNCHANGED <<worker, gate, quest, term, epoch>>

InjectAccepted(c) ==
    /\ calls[c].pc = "inject" /\ term[calls[c].h] = "live"
    /\ Commit(c)
    /\ UNCHANGED <<tables, term, epoch>>

(* What fail_dispatch and fail_worker_start do to the Dispatch and its     *)
(* Task, whatever has become of them meanwhile.                            *)
Broken(d) == disp[d].fails + 1 >= FailureLimit

(* Broken: the failure of a start is charged to the Dispatch alone.        *)
FailTaskKept(d) ==
    /\ disp' = [disp EXCEPT
                  ![d].st = IF Broken(d) THEN "circuit_broken" ELSE "failed",
                  ![d].fails = @ + 1, ![d].revoked = TRUE]
    /\ UNCHANGED task

(* Broken: the Task gets the status meant for the Dispatch.                *)
FailMixedUp(d) ==
    /\ disp' = [disp EXCEPT
                  ![d].st = IF Broken(d) THEN "circuit_broken" ELSE "failed",
                  ![d].fails = @ + 1, ![d].revoked = TRUE]
    /\ task' = TaskSet(disp[d].task,
                       IF Broken(d) THEN "circuit_broken" ELSE "ready")

Fail(d) ==
    /\ disp' = [disp EXCEPT
                  ![d].st = IF Broken(d) THEN "circuit_broken" ELSE "failed",
                  ![d].fails = @ + 1, ![d].revoked = TRUE]
    /\ task' = TaskSet(disp[d].task, IF Broken(d) THEN "failed" ELSE "ready")

InjectFailed(c) ==
    LET d == calls[c].d IN
    /\ calls[c].pc = "inject"
    /\ IF Live(disp[d].st) THEN Fail(d) /\ Commit(c)
       ELSE Finish(c) /\ UNCHANGED <<disp, task>>
    /\ UNCHANGED <<worker, gate, quest, term, epoch>>

-----------------------------------------------------------------------------
(* worker-start: a Task for an agent terminal it creates, or reuses (h).   *)

WorkerStart(c, t, h, retryOf) ==
    /\ Idle(c) /\ Live(task[t].st)
    /\ task[t].st = "ready" \/ retryOf # None
    /\ h # None => term[h] = "live"
    /\ Begin(c, [IdleCall EXCEPT !.pc = "start", !.t = t, !.h = h, !.d = retryOf])
    /\ UNCHANGED <<tables, term, epoch>>

(* create_starting_worker                                                  *)
Startable(k) ==
    /\ \A d \in Latest(k.t) : ~Active(d)
    /\ k.d # None => k.d \in Of(k.t)
    /\ \A f \in Failures(k.t) : f < FailureLimit

StartRefused(c) ==
    /\ calls[c].pc = "start"
    /\ ~Startable(calls[c]) \/ OutOfDispatches
    /\ Finish(c)
    /\ UNCHANGED <<tables, term, epoch>>

CreateStartingWorker(c, d) ==
    LET k == calls[c] IN
    /\ k.pc = "start" /\ Startable(k) /\ NextDispatch(d)
    /\ \E f \in Failures(k.t) :
         disp' = [disp EXCEPT ![d] = [NoDispatch EXCEPT
                    !.st = "pending", !.task = k.t, !.fails = f]]
    /\ worker' = [worker EXCEPT ![d] =
                    [st |-> "starting", term |-> None, epoch |-> epoch]]
    /\ task' = TaskSet(k.t, "dispatched")
    /\ Begin(c, At("starting", k.h, d))
    /\ UNCHANGED <<gate, quest, term, epoch>>

(* terminals.create, unless a terminal is reused, and record_worker_stage. *)
StartTerminal(c, h) ==
    LET k == calls[c] IN
    /\ k.pc = "starting"
    /\ \/ k.h = h /\ UNCHANGED term
       \/ /\ k.h = None /\ term[h] = "unborn"
          /\ term' = [term EXCEPT ![h] = "live"]
    /\ worker' = IF worker[k.d].st = "none" THEN worker
                 ELSE [worker EXCEPT ![k.d].term = h]
    /\ Begin(c, At("readying", h, k.d))
    /\ UNCHANGED <<task, disp, gate, quest, epoch>>

(* The agent is ready: the Dispatch becomes active, even one that was      *)
(* settled while the agent was starting.                                   *)
StartDispatch(c) ==
    LET k == calls[c] IN
    /\ k.pc = "readying" /\ term[k.h] = "live"
    /\ disp' = IF ~Live(disp[k.d].st) THEN disp
               ELSE [disp EXCEPT ![k.d].st = "dispatched", ![k.d].who = k.h,
                                 ![k.d].inc = epoch, ![k.d].cap = TRUE]
    /\ worker' = IF worker[k.d].st = "none" THEN worker
                 ELSE [worker EXCEPT ![k.d].st = "starting", ![k.d].term = k.h]
    /\ Goto(c, "input")
    /\ UNCHANGED <<task, gate, quest, term, epoch>>

(* send_guarded accepts the preamble, then the worker is ready.            *)
StartSent(c) ==
    /\ calls[c].pc = "input" /\ term[calls[c].h] = "live"
    /\ Begin(c, At("sent", None, calls[c].d))
    /\ UNCHANGED <<tables, term, epoch>>

StartReady(c) ==
    /\ calls[c].pc = "sent"
    /\ worker' = WorkerSet(calls[c].d, "ready")
    /\ Commit(c)
    /\ UNCHANGED <<task, disp, gate, quest, term, epoch>>

(* No terminal, no readiness in time, input refused: fail_worker_start.    *)
StartFailed(c) ==
    LET d == calls[c].d IN
    /\ calls[c].pc \in {"starting", "readying", "input"}
    /\ IF Live(disp[d].st)
       THEN Fail(d) /\ worker' = WorkerSet(d, "failed") /\ Commit(c)
       ELSE Finish(c) /\ UNCHANGED <<disp, task, worker>>
    /\ UNCHANGED <<gate, quest, term, epoch>>

-----------------------------------------------------------------------------
(* worker-show, worker-stop and worker-abandon.                            *)

HasWorker(d)     == Live(disp[d].st) /\ worker[d].st # "none"
WorkerSettled(d) == worker[d].st \in {"succeeded", "failed", "stopped", "abandoned"}

(* Broken: a start of this run of the daemon is unknown, too.              *)
WorkerShowAnyEpoch(c, d) ==
    /\ Idle(c) /\ HasWorker(d)
    /\ worker[d].st \in {"starting", "stopping"}
    /\ Begin(c, [IdleCall EXCEPT !.pc = "show", !.d = d,
                   !.st = IF worker[d].st = "starting" THEN "start_unknown"
                          ELSE "stop_unknown"])
    /\ UNCHANGED <<tables, term, epoch>>

(* worker-show of a worker an earlier run of the daemon left unfinished:   *)
(* it decides on this read and writes in the next step.                    *)
WorkerShow(c, d) ==
    /\ Idle(c) /\ HasWorker(d) /\ worker[d].epoch # epoch
    /\ worker[d].st \in {"starting", "stopping"}
    /\ Begin(c, [IdleCall EXCEPT !.pc = "show", !.d = d,
                   !.st = IF worker[d].st = "starting" THEN "start_unknown"
                          ELSE "stop_unknown"])
    /\ UNCHANGED <<tables, term, epoch>>

SetWorkerUnknown(c) ==
    /\ calls[c].pc = "show"
    /\ worker' = WorkerSet(calls[c].d, calls[c].st)
    /\ Finish(c)
    /\ UNCHANGED <<task, disp, gate, quest, term, epoch>>

(* worker-stop remembers the terminal this read names, if it is the one    *)
(* the Dispatch was given to, and the incarnation expected there.          *)
WorkerStop(c, d) ==
    /\ Idle(c) /\ HasWorker(d) /\ ~WorkerSettled(d)
    /\ Begin(c, [IdleCall EXCEPT !.pc = "stop", !.d = d, !.inc = disp[d].inc,
                   !.h = IF disp[d].who = worker[d].term THEN disp[d].who ELSE None])
    /\ UNCHANGED <<tables, term, epoch>>

StopMark(c) ==
    /\ calls[c].pc = "stop"
    /\ worker' = WorkerSet(calls[c].d, "stopping")
    /\ Goto(c, "stopping")
    /\ UNCHANGED <<task, disp, gate, quest, term, epoch>>

(* observe_worker says that exactly the recorded process is running.       *)
ExactlyRunning(k) ==
    k.h # None /\ term[k.h] = "live" /\ k.inc = Incarnation(k.h)

StopClose(c) ==
    /\ calls[c].pc = "stopping" /\ ExactlyRunning(calls[c])
    /\ term' = [term EXCEPT ![calls[c].h] = "gone"]
    /\ Begin(c, At("closed", None, calls[c].d))
    /\ UNCHANGED <<tables, epoch>>

StopDone(c) ==
    /\ calls[c].pc = "closed"
    /\ worker' = WorkerSet(calls[c].d, "stopped")
    /\ Commit(c)
    /\ UNCHANGED <<task, disp, gate, quest, term, epoch>>

(* Not exactly running, or terminals.close failed.                         *)
StopUnknown(c) ==
    /\ calls[c].pc = "stopping"
    /\ worker' = WorkerSet(calls[c].d, "stop_unknown")
    /\ Finish(c)
    /\ UNCHANGED <<task, disp, gate, quest, term, epoch>>

WorkerAbandon(c, d) ==
    /\ Idle(c) /\ HasWorker(d)
    /\ IF d \in Latest(disp[d].task) /\ ~WorkerSettled(d)
       THEN /\ worker' = WorkerSet(d, "abandoned")
            /\ disp' = Settled({d}, "failed")
            /\ task' = TaskSet(disp[d].task, "blocked")
       ELSE UNCHANGED <<task, disp, worker>>
    /\ Commit(c)
    /\ UNCHANGED <<gate, quest, term, epoch>>

-----------------------------------------------------------------------------
(* worker_done.                                                            *)

(* verify_dispatch_authority, for a sender that has the capability.        *)
Verified(d, h) ==
    /\ Active(d) /\ ~disp[d].revoked /\ disp[d].who = h
    /\ disp[d].inc = None \/ disp[d].inc = Incarnation(h)

(* send_message of worker_done: the Dispatch it names is verified on the   *)
(* row this read returns.  A message that fails here is stored as rejected *)
(* mail and does nothing else.                                             *)
SendWorkerDone(c, h, d) ==
    /\ Idle(c) /\ Live(disp[d].st) /\ (disp[d].cap => Verified(d, h))
    /\ Begin(c, At("report", h, d))
    /\ UNCHANGED <<tables, term, epoch>>

(* Broken: an older Dispatch of the Task, or one of a Task that has moved  *)
(* on, may report.                                                         *)
AcceptedStale(k) ==
    /\ disp[k.d].st = "dispatched" /\ disp[k.d].who = k.h
    /\ disp[k.d].task \in Task

(* reconcile_lifecycle accepts the report, on the rows of the transaction. *)
AcceptedReport(k) ==
    LET t == disp[k.d].task IN
    /\ disp[k.d].st = "dispatched" /\ disp[k.d].who = k.h
    /\ t \in Task /\ task[t].st = "dispatched" /\ k.d \in Latest(t)

(* The outcome the message carries matters here first.                     *)
Reconcile(c, outcome) ==
    LET k  == calls[c]
        t  == disp[k.d].task
        st == IF outcome = "succeeded" THEN "completed" ELSE "failed"
    IN  /\ k.pc = "report" /\ AcceptedReport(k)
        /\ disp' = Settled({k.d}, st)
        /\ task' = IF outcome = "succeeded" THEN Promote(TaskSet(t, st), t)
                   ELSE TaskSet(t, st)
        /\ worker' = IF worker[k.d].st = "ready" THEN WorkerSet(k.d, outcome)
                     ELSE worker
        /\ quest' = [q \in Question |->
                       IF quest[q].d = k.d /\ quest[q].st = "pending"
                       THEN [quest[q] EXCEPT !.st = "closed"] ELSE quest[q]]
        /\ Commit(c)
        /\ UNCHANGED <<gate, term, epoch>>

(* Broken: a rejected report closes the questions, too.                    *)
ReconcileClosing(c) ==
    /\ calls[c].pc = "report" /\ ~AcceptedReport(calls[c])
    /\ quest' = [q \in Question |->
                   IF quest[q].d = calls[c].d /\ quest[q].st = "pending"
                   THEN [quest[q] EXCEPT !.st = "closed"] ELSE quest[q]]
    /\ Commit(c)
    /\ UNCHANGED <<task, disp, worker, gate, term, epoch>>

(* Rejected, or a repetition of a report that was accepted before.         *)
ReconcileNothing(c) ==
    /\ calls[c].pc = "report" /\ ~AcceptedReport(calls[c])
    /\ Commit(c)
    /\ UNCHANGED <<tables, term, epoch>>

-----------------------------------------------------------------------------
(* ask and its answer.                                                     *)

(* ask finds the caller's active Dispatch; a question is opened in the     *)
(* next step, or the one named by --resume is waited for.                  *)
Ask(c, h, d, resume) ==
    /\ Idle(c) /\ term[h] = "live"
    /\ d \in ActiveFor(h) /\ (disp[d].cap => Verified(d, h))
    /\ IF resume = None
       THEN Begin(c, [IdleCall EXCEPT !.pc = "ask", !.d = d])
       ELSE /\ quest[resume].d = d
            /\ Begin(c, [IdleCall EXCEPT !.pc = "asking", !.d = d, !.q = resume])
    /\ UNCHANGED <<tables, term, epoch>>

AskStore(c, q) ==
    /\ calls[c].pc = "ask" /\ quest[q].st = "absent"
    /\ quest' = [quest EXCEPT ![q] =
                   [st |-> "pending", d |-> calls[c].d, ans |-> None]]
    /\ Begin(c, [calls[c] EXCEPT !.pc = "asked", !.q = q])
    /\ UNCHANGED <<task, disp, worker, gate, term, epoch>>

(* Bound: no question id is left.                                          *)
AskOutOfIds(c) ==
    /\ calls[c].pc = "ask" /\ \A q \in Question : quest[q].st # "absent"
    /\ Finish(c)
    /\ UNCHANGED <<tables, term, epoch>>

(* notify(), then the deadline is set and the revision subscribed to.      *)
AskNotify(c) ==
    /\ calls[c].pc = "asked"
    /\ calls' = Woken(c, [calls[c] EXCEPT !.pc = "asking"])
    /\ UNCHANGED <<tables, term, epoch>>

(* Time passes the deadline of the ask.                                    *)
Deadline(c) ==
    /\ calls[c].pc \in {"asking", "wait"} /\ ~calls[c].late
    /\ Begin(c, [calls[c] EXCEPT !.late = TRUE])
    /\ UNCHANGED <<tables, term, epoch>>

AskRead(c) ==
    LET k == calls[c] IN
    /\ k.pc = "asking"
    /\ IF quest[k.q].st = "pending" /\ ~k.late THEN Goto(c, "wait") ELSE Finish(c)
    /\ UNCHANGED <<tables, term, epoch>>

(* Broken: every round has a timeout of its own, as check has.             *)
AskWokenAnew(c) ==
    /\ calls[c].pc = "wait" /\ calls[c].woken
    /\ Begin(c, [calls[c] EXCEPT !.pc = "asking", !.woken = FALSE, !.late = FALSE])
    /\ UNCHANGED <<tables, term, epoch>>

AskWoken(c) ==
    /\ calls[c].pc = "wait" /\ calls[c].woken
    /\ Begin(c, [calls[c] EXCEPT !.pc = "asking", !.woken = FALSE])
    /\ UNCHANGED <<tables, term, epoch>>

AskTimeout(c) ==
    /\ calls[c].pc = "wait" /\ ~calls[c].woken /\ calls[c].late
    /\ Finish(c)
    /\ UNCHANGED <<tables, term, epoch>>

(* Broken: an answer wakes nobody.                                         *)
ReplySilently(c, q, a) ==
    /\ Idle(c) /\ quest[q].st = "pending"
    /\ quest' = [quest EXCEPT ![q].st = "answered", ![q].ans = a]
    /\ UNCHANGED <<task, disp, worker, gate, term, epoch, calls>>

(* reply to a question: the first answer stands, the same answer again is  *)
(* a duplicate, a different one is refused.                                *)
ReplyToQuestion(c, q, a) ==
    /\ Idle(c)
    /\ quest[q].st = "pending" \/ (quest[q].st = "answered" /\ quest[q].ans = a)
    /\ quest' = [quest EXCEPT ![q].st = "answered", ![q].ans = a]
    /\ Commit(c)
    /\ UNCHANGED <<task, disp, worker, gate, term, epoch>>

-----------------------------------------------------------------------------
(* A handler's own next step, and what clients may ask for.                *)

Step(c) ==
    \/ Notify(c)
    \/ DispatchRefused(c) \/ (\E d \in DispatchId : DispatchStore(c, d))
    \/ InjectAccepted(c) \/ InjectFailed(c)
    \/ StartRefused(c) \/ (\E d \in DispatchId : CreateStartingWorker(c, d))
    \/ (\E h \in Terminal : StartTerminal(c, h))
    \/ StartDispatch(c) \/ StartSent(c) \/ StartReady(c) \/ StartFailed(c)
    \/ SetWorkerUnknown(c)
    \/ StopMark(c) \/ StopClose(c) \/ StopDone(c) \/ StopUnknown(c)
    \/ (\E o \in Outcome : Reconcile(c, o)) \/ ReconcileNothing(c)
    \/ (\E q \in Question : AskStore(c, q)) \/ AskOutOfIds(c)
    \/ AskNotify(c) \/ AskRead(c) \/ AskWoken(c) \/ AskTimeout(c)

Request(c) ==
    \/ \E t \in Task, deps \in SUBSET Task : TaskCreate(c, t, deps)
    \/ \E t \in Task, st \in Updates : TaskUpdate(c, t, st)
    \/ \E g \in Gate, t \in Task : GateCreate(c, g, t)
    \/ \E g \in Gate : GateResolve(c, g)
    \/ /\ "reset" \in Commands
       /\ \E scope \in {"tasks", "messages"} : Reset(c, scope)
    \/ /\ "dispatch" \in Commands
       /\ \E t \in Task, h \in Terminal, inject \in BOOLEAN :
             DispatchTask(c, t, h, inject)
    \/ /\ "worker-start" \in Commands
       /\ \E t \in Task, h \in Terminal \cup {None}, r \in DispatchId \cup {None} :
             WorkerStart(c, t, h, r)
    \/ \E d \in DispatchId :
          \/ "worker-show" \in Commands /\ WorkerShow(c, d)
          \/ "worker-stop" \in Commands /\ WorkerStop(c, d)
          \/ "worker-abandon" \in Commands /\ WorkerAbandon(c, d)
    \/ \E h \in Terminal, d \in DispatchId : SendWorkerDone(c, h, d)
    \/ \E h \in Terminal, d \in DispatchId, q \in Question \cup {None} :
          Ask(c, h, d, q)
    \/ \E q \in Question, a \in Answer : ReplyToQuestion(c, q, a)

(* Nobody cancels and nothing crashes.                                     *)
Serve == \/ \E c \in Call : Step(c) \/ Deadline(c) \/ Request(c)
         \/ \E h \in Terminal : TerminalExit(h)

Next == Serve \/ Restart \/ \E c \in Call : Drop(c)

Spec == Init /\ [][Next]_vars

(* The async runtime and the SQLite thread go on with every handler that   *)
(* can go on, and time passes every deadline.                              *)
ServedSpec == /\ Init /\ [][Serve]_vars
              /\ \A c \in Call : WF_vars(Step(c)) /\ WF_vars(Deadline(c))

-----------------------------------------------------------------------------
(* Properties.                                                             *)

(* No Task is stranded: a Task that is dispatched has an active latest     *)
(* Dispatch, the one worker_done, worker-abandon and a gate act on.  (As   *)
(* long as nobody calls task-update with the status dispatched.)           *)
DispatchedHasDispatch ==
    \A t \in Task : task[t].st = "dispatched" =>
        \E d \in Latest(t) : Active(d)

(* A Dispatch that was settled once, in any way, never reports again, not  *)
(* even when a worker-start that outlived the settlement made it active.   *)
(* (With the same proviso.)                                                *)
RevokedNeverReports ==
    [][\A c \in Call, o \in Outcome :
         Reconcile(c, o) => ~disp[calls[c].d].revoked]_vars

(* No Task is forgotten: one that waits although every dependency is       *)
(* completed was created after they were.  (As long as nobody calls        *)
(* task-update with the status pending.)                                   *)
NoForgottenTask ==
    \A t \in Task : task[t].st = "pending" /\ ~task[t].late =>
        \E u \in task[t].deps : task[u].st # "completed"

(* start_unknown is said of no worker whose start is still going on.       *)
UnknownIsHonest ==
    \A d \in DispatchId : worker[d].st = "start_unknown" =>
        \A c \in Call : calls[c].d = d =>
            calls[c].pc \notin {"starting", "readying", "input", "sent"}

(* "closed because its Dispatch is inactive": the Dispatch of a closed     *)
(* question is settled and is never made active again.                     *)
ClosedMeansSettled ==
    \A q \in Question : quest[q].st = "closed" => ~Active(quest[q].d)

(* No lost answer: an ask that is blocked on a question which is answered, *)
(* closed or deleted has been marked by the watch channel, or a handler    *)
(* that committed is about to notify.  (Under ServedSpec.)                 *)
NoLostAnswer ==
    \A c \in Call : calls[c].pc = "wait" /\ quest[calls[c].q].st # "pending" =>
        calls[c].woken \/ \E n \in Call : calls[n].pc \in {"notify", "asked"}

(* "blocks the caller until answered, cancelled by disconnect, or          *)
(* --timeout-ms elapses": an ask ends, however often it is woken.          *)
AskEnds == \A c \in Call : calls[c].pc \in {"asking", "wait"} ~> Idle(c)

(* "starts one worker per Task": a Task has at most one active Dispatch.   *)
OneActiveDispatch ==
    \A t \in Task : \A d, e \in Of(t) : Active(d) /\ Active(e) => d = e

(* worker-show is declared NO_SIDE_EFFECTS: it unsettles no worker.        *)
ShowUnsettlesNobody ==
    [][\A c \in Call : SetWorkerUnknown(c) => ~WorkerSettled(calls[c].d)]_vars
=============================================================================
