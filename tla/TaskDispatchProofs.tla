------------------------- MODULE TaskDispatchProofs -------------------------
(***************************************************************************)
(* The safety of TaskDispatch for any number of Tasks, terminals,          *)
(* Dispatches, runs of the daemon and concurrent requests.                 *)
(***************************************************************************)
EXTENDS TaskDispatch, TLAPS

-----------------------------------------------------------------------------
(* The inductive invariant.                                                *)

(* What a handler needs for its next step it has.                          *)
Named(k) ==
    /\ k.pc \in {"dispatch", "start"} => k.t \in Task
    /\ k.pc \in {"dispatch", "inject", "readying", "input"} => k.h \in Terminal
    /\ k.pc \in {"inject", "starting", "readying", "input", "sent", "stop",
                 "stopping", "closed", "show", "report", "ask"} => k.d \in DispatchId
    /\ k.pc = "show" => k.st \in {"start_unknown", "stop_unknown"}
HandlersAreNamed == \A c \in Call : Named(calls[c])

(* Rows are inserted in the order of their rowids.                         *)
RowsInOrder ==
    \A d, e \in DispatchId :
        e < d /\ disp[d].st # "absent" => disp[e].st # "absent"

(* Only dispatch and worker-start make a Task dispatched: task-update is   *)
(* not called with that status.                                            *)
NoForcedDispatch == "dispatched" \notin Updates

(* Then the latest Dispatch of a dispatched Task is active and was never   *)
(* settled.                                                                *)
LatestIsFresh ==
    NoForcedDispatch =>
        \A t \in Task : task[t].st = "dispatched" =>
            \E d \in Latest(t) : Active(d) /\ ~disp[d].revoked

Inv == TypeOK /\ HandlersAreNamed /\ RowsInOrder /\ LatestIsFresh

-----------------------------------------------------------------------------
(* Handler records.                                                        *)

(* The constants the proofs use, with their types.                         *)
LEMMA ConstantTypes ==
    /\ DispatchId \subseteq Nat
    /\ \A e \in Epoch : e \in Nat
    /\ 1 \in Epoch
    /\ Updates \subseteq {"pending", "ready", "dispatched", "completed", "failed",
                           "blocked"}
BY DispatchAssumption DEF DispatchAssumption, DispatchId, Epoch

(* NULL is no Task.                                                        *)
LEMMA NoneIsNoTask == None \notin Task
BY DispatchAssumption DEF DispatchAssumption

(* An idle slot is well formed.                                            *)
LEMMA IdleCallType == IdleCall \in CallState
BY DEF IdleCall, CallState

(* So is a handler that remembers a terminal and a Dispatch only.          *)
LEMMA AtType ==
    ASSUME NEW pc \in {"idle", "notify", "dispatch", "inject", "start",
             "starting", "readying", "input", "sent", "stop", "stopping",
             "closed", "show", "report", "ask", "asked", "asking", "wait"},
           NEW h \in Terminal \cup {None}, NEW d \in DispatchId \cup {None}
    PROVE  /\ At(pc, h, d) \in CallState
           /\ At(pc, h, d).pc = pc /\ At(pc, h, d).h = h /\ At(pc, h, d).d = d
BY ZenonT(40) DEF At, IdleCall, CallState

(* Replacing one handler record by a well-formed one.                      *)
LEMMA RecordKeeps ==
    ASSUME TypeOK, HandlersAreNamed, NEW c \in Call, NEW k \in CallState,
           Begin(c, k), Named(k)
    PROVE  calls' \in [Call -> CallState] /\ HandlersAreNamed'
<1>1. /\ calls' \in [Call -> CallState]
      /\ calls'[c] = k
      /\ \A n \in Call : n # c => calls'[n] = calls[n]
  BY DEF TypeOK, Begin
<1>2. HandlersAreNamed'
  <2> SUFFICES ASSUME NEW n \in Call PROVE Named(calls'[n])
    BY DEF HandlersAreNamed, Named
  <2>1. CASE n = c
    BY <1>1, <2>1
  <2>2. CASE n # c
    BY <1>1, <2>2 DEF HandlersAreNamed
  <2> QED BY <2>1, <2>2
<1> QED BY <1>1, <1>2

(* A handler that ends, or committed and is about to notify.               *)
LEMMA EndKeeps ==
    ASSUME TypeOK, HandlersAreNamed, NEW c \in Call, Finish(c) \/ Commit(c)
    PROVE  calls' \in [Call -> CallState] /\ HandlersAreNamed'
<1>1. CASE Finish(c)
  <2>1. Named(IdleCall)
    BY DEF Named, IdleCall
  <2> QED BY <1>1, <2>1, IdleCallType, RecordKeeps DEF Finish
<1>2. CASE Commit(c)
  <2> DEFINE k == [IdleCall EXCEPT !.pc = "notify"]
  <2>1. k \in CallState /\ k.pc = "notify"
    BY IdleCallType DEF IdleCall, CallState
  <2> HIDE DEF k
  <2>2. Named(k)
    BY <2>1 DEF Named
  <2>3. Begin(c, k)
    BY <1>2 DEF Commit, k
  <2> QED BY <2>1, <2>2, <2>3, RecordKeeps
<1> QED BY <1>1, <1>2

(* A handler that goes on with a terminal and a Dispatch.                  *)
LEMMA AtKeeps ==
    ASSUME TypeOK, HandlersAreNamed, NEW c \in Call,
           NEW pc \in {"inject", "starting", "readying", "input", "sent",
                       "closed", "report"},
           NEW h \in Terminal \cup {None}, NEW d \in DispatchId,
           pc \in {"inject", "readying", "input"} => h \in Terminal,
           Begin(c, At(pc, h, d))
    PROVE  calls' \in [Call -> CallState] /\ HandlersAreNamed'
<1> DEFINE k == At(pc, h, d)
<1>1. k \in CallState /\ k.pc = pc /\ k.h = h /\ k.d = d
  BY AtType
<1>2. Begin(c, k)
  OBVIOUS
<1> HIDE DEF k
<1>3. Named(k)
  BY <1>1 DEF Named
<1> QED BY <1>1, <1>2, <1>3, RecordKeeps

(* A handler that goes on with all it knows.                               *)
LEMMA GotoKeeps ==
    ASSUME TypeOK, HandlersAreNamed, NEW c \in Call,
           NEW pc \in {"input", "stopping", "wait"},
           pc = "input" => calls[c].pc = "readying",
           pc = "stopping" => calls[c].pc = "stop",
           Goto(c, pc)
    PROVE  calls' \in [Call -> CallState] /\ HandlersAreNamed'
<1> DEFINE k == [calls[c] EXCEPT !.pc = pc]
<1>1. calls[c] \in CallState /\ Named(calls[c])
  BY DEF TypeOK, HandlersAreNamed
<1>2. /\ k \in CallState /\ k.pc = pc /\ k.h = calls[c].h /\ k.d = calls[c].d
      /\ k.t = calls[c].t
  BY <1>1, ZenonT(40) DEF CallState
<1>3. Begin(c, k)
  BY DEF Goto
<1> HIDE DEF k
<1>4. Named(k)
  BY <1>1, <1>2 DEF Named
<1> QED BY <1>2, <1>3, <1>4, RecordKeeps

(* notify() only marks handlers.                                           *)
LEMMA WokenKeeps ==
    ASSUME TypeOK, HandlersAreNamed, NEW c \in Call, NEW k \in CallState,
           Named(k), calls' = Woken(c, k)
    PROVE  calls' \in [Call -> CallState] /\ HandlersAreNamed'
<1>1. \A n \in Call : calls[n] \in CallState /\ Named(calls[n])
  BY DEF TypeOK, HandlersAreNamed
<1>2. ASSUME NEW n \in Call
      PROVE  calls'[n] \in CallState /\ Named(calls'[n])
  <2> DEFINE w == [calls[n] EXCEPT !.woken = TRUE]
  <2>1. calls'[n] = k \/ calls'[n] = w \/ calls'[n] = calls[n]
    BY DEF Woken
  <2>2. /\ w \in CallState /\ w.pc = calls[n].pc /\ w.t = calls[n].t
        /\ w.h = calls[n].h /\ w.d = calls[n].d /\ w.st = calls[n].st
    BY <1>1, ZenonT(40) DEF CallState
  <2> HIDE DEF w
  <2>3. Named(w)
    BY <1>1, <2>2 DEF Named
  <2> QED BY <1>1, <2>1, <2>2, <2>3
<1>3. calls' = [n \in Call |-> calls'[n]]
  BY DEF Woken
<1> QED BY <1>2, <1>3 DEF HandlersAreNamed, Named

-----------------------------------------------------------------------------
(* The statements that change Tasks and Dispatches.                        *)

(* A row of tasks is well formed.                                          *)
LEMMA TaskFields ==
    ASSUME TypeOK, NEW t \in Task
    PROVE  task[t] \in TaskRow
BY DEF TypeOK

(* The same for a row of dispatch_contexts.                                *)
LEMMA DispatchFields ==
    ASSUME TypeOK, NEW d \in DispatchId
    PROVE  /\ disp[d] \in DispatchRow
           /\ disp[d].task \in Task \cup {None} /\ disp[d].fails \in Nat
           /\ disp[d].revoked \in BOOLEAN
BY DEF TypeOK, DispatchRow

(* UPDATE tasks SET status: only that Task, and no deleted one.            *)
LEMMA TaskSetFacts ==
    ASSUME TypeOK, NEW t \in Task \cup {None},
           NEW st \in {"pending", "ready", "dispatched", "completed",
                       "failed", "blocked"}
    PROVE  /\ TaskSet(t, st) \in [Task -> TaskRow]
           /\ \A u \in Task : u # t => TaskSet(t, st)[u] = task[u]
           /\ t \in Task => TaskSet(t, st)[t].st \in {st, "absent", "deleted"}
<1>1. CASE t \in Task /\ Live(task[t].st)
  <2>1. TaskSet(t, st) = [task EXCEPT ![t].st = st]
    BY <1>1 DEF TaskSet
  <2>2. task \in [Task -> TaskRow]
    BY DEF TypeOK
  <2> QED BY <1>1, <2>1, <2>2 DEF TaskRow
<1>2. CASE ~(t \in Task /\ Live(task[t].st))
  <2>1. TaskSet(t, st) = task
    BY <1>2 DEF TaskSet
  <2> QED BY <1>2, <2>1 DEF TypeOK, Live
<1> QED BY <1>1, <1>2

(* promote_ready_tasks dispatches nothing.                                 *)
LEMMA PromoteFacts ==
    ASSUME NEW tasks \in [Task -> TaskRow], NEW t \in Task
    PROVE  /\ Promote(tasks, t) \in [Task -> TaskRow]
           /\ \A u \in Task : Promote(tasks, t)[u].st = "dispatched" =>
                  tasks[u].st = "dispatched"
<1>1. ASSUME NEW u \in Task
      PROVE  [tasks[u] EXCEPT !.st = "ready"] \in TaskRow /\ tasks[u] \in TaskRow
  BY DEF TaskRow
<1>2. ASSUME NEW u \in Task PROVE [tasks[u] EXCEPT !.st = "ready"].st = "ready"
  BY <1>1 DEF TaskRow
<1> QED BY <1>1, <1>2 DEF Promote

(* Settling Dispatches changes neither their Tasks nor the order of rows.  *)
LEMMA SettledFacts ==
    ASSUME TypeOK, NEW D \in SUBSET DispatchId,
           NEW st \in {"completed", "failed", "circuit_broken"},
           \A d \in D : Live(disp[d].st)
    PROVE  /\ Settled(D, st) \in [DispatchId -> DispatchRow]
           /\ \A d \in DispatchId :
                 /\ Settled(D, st)[d].task = disp[d].task
                 /\ Live(Settled(D, st)[d].st) <=> Live(disp[d].st)
                 /\ Settled(D, st)[d].st = "absent" <=> disp[d].st = "absent"
                 /\ d \notin D => Settled(D, st)[d] = disp[d]
<1>1. ASSUME NEW d \in DispatchId
      PROVE  LET s == [disp[d] EXCEPT !.st = st, !.revoked = TRUE]
             IN  s \in DispatchRow /\ s.task = disp[d].task /\ s.st = st
  BY DispatchFields DEF DispatchRow
<1>2. \A d \in DispatchId : disp[d] \in DispatchRow
  BY DispatchFields
<1> QED BY <1>1, <1>2 DEF Settled, Live

(* Rows stay in order when none is inserted.                               *)
LEMMA OrderKeeps ==
    ASSUME RowsInOrder,
           \A d \in DispatchId : disp'[d].st = "absent" <=> disp[d].st = "absent"
    PROVE  RowsInOrder'
BY DEF RowsInOrder

(* Whatever a step does to the Dispatches of one Task t, which it leaves   *)
(* undispatched, the latest Dispatches of the others stay fresh.           *)
LEMMA SettlingKeeps ==
    ASSUME LatestIsFresh, NEW t \in Task \cup {None},
           \A d \in DispatchId :
              /\ disp'[d].task = disp[d].task
              /\ Live(disp'[d].st) <=> Live(disp[d].st)
              /\ disp[d].task # t => disp'[d] = disp[d],
           \A u \in Task : u # t /\ task'[u].st = "dispatched" =>
              task[u].st = "dispatched",
           NoForcedDispatch /\ t \in Task => task'[t].st # "dispatched"
    PROVE  LatestIsFresh'
<1> SUFFICES ASSUME NoForcedDispatch, NEW u \in Task, task'[u].st = "dispatched"
             PROVE  \E d \in Latest(u)' : Active(d)' /\ ~disp'[d].revoked
  BY DEF LatestIsFresh
<1>1. u # t /\ task[u].st = "dispatched"
  OBVIOUS
<1>2. PICK d \in Latest(u) : Active(d) /\ ~disp[d].revoked
  BY <1>1 DEF LatestIsFresh
<1>3. Of(u)' = Of(u)
  BY DEF Of
<1>4. d \in DispatchId /\ disp[d].task = u /\ d \in Latest(u)'
  BY <1>2, <1>3 DEF Latest, Of
<1>5. disp'[d] = disp[d]
  BY <1>1, <1>4
<1> QED BY <1>2, <1>4, <1>5 DEF Active

(* A row inserted for Task t is its latest, and fresh.                     *)
LEMMA InsertKeeps ==
    ASSUME TypeOK, RowsInOrder, LatestIsFresh, NEW t \in Task,
           NEW d \in DispatchId, NextDispatch(d), NEW row \in DispatchRow,
           disp' = [disp EXCEPT ![d] = row],
           row.st \in {"pending", "dispatched"}, row.task = t, ~row.revoked,
           task' = TaskSet(t, "dispatched")
    PROVE  /\ task' \in [Task -> TaskRow] /\ disp' \in [DispatchId -> DispatchRow]
           /\ RowsInOrder' /\ LatestIsFresh'
<1>1. /\ disp' \in [DispatchId -> DispatchRow] /\ disp'[d] = row
      /\ \A e \in DispatchId : e # d => disp'[e] = disp[e]
  BY DEF TypeOK
<1>2. DispatchId \subseteq Nat
  BY ConstantTypes
<1>3. /\ disp[d].st = "absent"
      /\ \A e \in DispatchId : e < d => disp[e].st # "absent"
      /\ \A e \in DispatchId : e > d => disp[e].st = "absent"
  BY <1>2 DEF NextDispatch, RowsInOrder
<1>4. RowsInOrder'
  BY <1>1, <1>2, <1>3 DEF RowsInOrder
<1>5. /\ task' \in [Task -> TaskRow]
      /\ \A u \in Task : u # t => task'[u] = task[u]
  BY TaskSetFacts
<1>6. LatestIsFresh'
  <2> SUFFICES ASSUME NoForcedDispatch, NEW u \in Task,
                      task'[u].st = "dispatched"
               PROVE  \E e \in Latest(u)' : Active(e)' /\ ~disp'[e].revoked
    BY DEF LatestIsFresh
  <2>1. CASE u = t
    <3>1. d \in Of(t)'
      BY <1>1 DEF Of, Live
    <3>2. \A e \in Of(t)' : e <= d
      BY <1>1, <1>2, <1>3 DEF Of, Live
    <3> QED BY <1>1, <2>1, <3>1, <3>2 DEF Latest, Active
  <2>2. CASE u # t
    <3>1. Of(u)' = Of(u)
      BY <1>1, <1>3, <2>2 DEF Of, Live
    <3>2. PICK e \in Latest(u) : Active(e) /\ ~disp[e].revoked
      BY <1>5, <2>2 DEF LatestIsFresh
    <3>3. e \in DispatchId /\ e # d /\ e \in Latest(u)'
      BY <1>3, <3>1, <3>2 DEF Latest, Of, Live
    <3> QED BY <1>1, <3>2, <3>3 DEF Active
  <2> QED BY <2>1, <2>2
<1> QED BY <1>1, <1>4, <1>5, <1>6

-----------------------------------------------------------------------------
(* One lemma per group of actions.                                         *)

(* A step that leaves Tasks and Dispatches alone.                          *)
LEMMA QuietKeeps ==
    ASSUME Inv, UNCHANGED <<task, disp>>,
           worker' \in [DispatchId -> WorkerRow], gate' \in [Gate -> GateRow],
           quest' \in [Question -> QuestRow],
           term' \in [Terminal -> {"unborn", "live", "gone"}], epoch' \in Epoch,
           calls' \in [Call -> CallState], HandlersAreNamed'
    PROVE  Inv'
<1>1. TypeOK'
  BY DEF Inv, TypeOK
<1>2. RowsInOrder' /\ LatestIsFresh'
  BY DEF Inv, RowsInOrder, LatestIsFresh, Latest, Of, Active
<1> QED BY <1>1, <1>2 DEF Inv

(* UPDATE worker_dispatches SET state.                                     *)
LEMMA WorkerSetType ==
    ASSUME TypeOK, NEW d \in DispatchId,
           NEW st \in {"ready", "start_unknown", "failed", "succeeded",
                       "stopping", "stop_unknown", "stopped", "abandoned"}
    PROVE  WorkerSet(d, st) \in [DispatchId -> WorkerRow]
<1>1. worker \in [DispatchId -> WorkerRow]
  BY DEF TypeOK
<1> QED BY <1>1 DEF WorkerSet, WorkerRow

(* Steps of handlers that change no table.                                 *)
LEMMA HandlerSteps ==
    ASSUME Inv, NEW c \in Call,
           \/ Notify(c) \/ Drop(c) \/ DispatchRefused(c) \/ InjectAccepted(c)
           \/ StartRefused(c) \/ StartSent(c) \/ StopClose(c)
           \/ ReconcileNothing(c) \/ AskOutOfIds(c) \/ AskRead(c)
           \/ AskTimeout(c)
    PROVE  Inv'
<1> USE DEF Inv
<1>0. calls[c] \in CallState /\ Named(calls[c])
  BY DEF TypeOK, HandlersAreNamed
<1>1. CASE Notify(c)
  <2>1. Named(IdleCall)
    BY DEF Named, IdleCall
  <2>2. calls' \in [Call -> CallState] /\ HandlersAreNamed'
    BY <1>1, <2>1, IdleCallType, WokenKeeps DEF Notify
  <2> QED BY <1>1, <2>2, QuietKeeps DEF Notify, tables, TypeOK
<1>2. CASE Drop(c) \/ DispatchRefused(c) \/ StartRefused(c) \/ AskOutOfIds(c)
           \/ AskTimeout(c)
  <2>1. Finish(c) /\ UNCHANGED <<tables, term, epoch>>
    BY <1>2 DEF Drop, DispatchRefused, StartRefused, AskOutOfIds, AskTimeout
  <2>2. calls' \in [Call -> CallState] /\ HandlersAreNamed'
    BY <2>1, EndKeeps
  <2> QED BY <2>1, <2>2, QuietKeeps DEF tables, TypeOK
<1>3. CASE InjectAccepted(c) \/ ReconcileNothing(c)
  <2>1. Commit(c) /\ UNCHANGED <<tables, term, epoch>>
    BY <1>3 DEF InjectAccepted, ReconcileNothing
  <2>2. calls' \in [Call -> CallState] /\ HandlersAreNamed'
    BY <2>1, EndKeeps
  <2> QED BY <2>1, <2>2, QuietKeeps DEF tables, TypeOK
<1>4. CASE StartSent(c)
  <2>1. calls[c].d \in DispatchId
    BY <1>0, <1>4 DEF Named, StartSent
  <2>2. calls' \in [Call -> CallState] /\ HandlersAreNamed'
    BY <1>4, <2>1, AtKeeps DEF StartSent
  <2> QED BY <1>4, <2>2, QuietKeeps DEF StartSent, tables, TypeOK
<1>5. CASE StopClose(c)
  <2>1. calls[c].d \in DispatchId
    BY <1>0, <1>5 DEF Named, StopClose
  <2>2. calls' \in [Call -> CallState] /\ HandlersAreNamed'
    BY <1>5, <2>1, AtKeeps DEF StopClose
  <2>3. term' \in [Terminal -> {"unborn", "live", "gone"}]
    BY <1>5 DEF StopClose, TypeOK
  <2> QED BY <1>5, <2>2, <2>3, QuietKeeps DEF StopClose, tables, TypeOK
<1>6. CASE AskRead(c)
  <2>1. Goto(c, "wait") \/ Finish(c)
    BY <1>6 DEF AskRead
  <2>2. calls' \in [Call -> CallState] /\ HandlersAreNamed'
    BY <2>1, EndKeeps, GotoKeeps
  <2> QED BY <1>6, <2>2, QuietKeeps DEF AskRead, tables, TypeOK
<1> QED BY <1>1, <1>2, <1>3, <1>4, <1>5, <1>6

(* Requests that only read before they begin, and the marks of ask.        *)
LEMMA BeginSteps ==
    ASSUME Inv, NEW c \in Call,
           \/ \E t \in Task, h \in Terminal, inject \in BOOLEAN :
                 DispatchTask(c, t, h, inject)
           \/ \E t \in Task, h \in Terminal \cup {None},
                 r \in DispatchId \cup {None} : WorkerStart(c, t, h, r)
           \/ \E d \in DispatchId : WorkerShow(c, d) \/ WorkerStop(c, d)
           \/ \E h \in Terminal, d \in DispatchId : SendWorkerDone(c, h, d)
           \/ \E h \in Terminal, d \in DispatchId, q \in Question \cup {None} :
                 Ask(c, h, d, q)
           \/ Deadline(c) \/ AskWoken(c) \/ AskNotify(c)
    PROVE  Inv'
<1> USE DEF Inv
<1>0. calls[c] \in CallState /\ Named(calls[c])
  BY DEF TypeOK, HandlersAreNamed
<1>1. ASSUME UNCHANGED <<tables, term, epoch>>,
             calls' \in [Call -> CallState], HandlersAreNamed'
      PROVE  Inv'
  BY <1>1, QuietKeeps DEF tables, TypeOK
<1>2. ASSUME NEW t \in Task, NEW h \in Terminal, NEW inject \in BOOLEAN,
             DispatchTask(c, t, h, inject)
      PROVE  Inv'
  <2> DEFINE k == [IdleCall EXCEPT !.pc = "dispatch", !.t = t, !.h = h,
                                   !.flag = inject, !.inc = Incarnation(h)]
  <2>1. Incarnation(h) \in Epoch \cup {None}
    BY DEF Incarnation, TypeOK
  <2>2. k \in CallState /\ k.pc = "dispatch" /\ k.t = t /\ k.h = h
    BY <2>1, IdleCallType DEF IdleCall, CallState
  <2>3. Begin(c, k)
    BY <1>2 DEF DispatchTask
  <2> HIDE DEF k
  <2>4. Named(k)
    BY <2>2 DEF Named
  <2>5. calls' \in [Call -> CallState] /\ HandlersAreNamed'
    BY <2>2, <2>3, <2>4, RecordKeeps
  <2> QED BY <1>1, <1>2, <2>5 DEF DispatchTask
<1>3. ASSUME NEW t \in Task, NEW h \in Terminal \cup {None},
             NEW r \in DispatchId \cup {None}, WorkerStart(c, t, h, r)
      PROVE  Inv'
  <2> DEFINE k == [IdleCall EXCEPT !.pc = "start", !.t = t, !.h = h, !.d = r]
  <2>1. k \in CallState /\ k.pc = "start" /\ k.t = t
    BY IdleCallType DEF IdleCall, CallState
  <2>2. Begin(c, k)
    BY <1>3 DEF WorkerStart
  <2> HIDE DEF k
  <2>3. Named(k)
    BY <2>1 DEF Named
  <2>4. calls' \in [Call -> CallState] /\ HandlersAreNamed'
    BY <2>1, <2>2, <2>3, RecordKeeps
  <2> QED BY <1>1, <1>3, <2>4 DEF WorkerStart
<1>4. ASSUME NEW d \in DispatchId, WorkerShow(c, d)
      PROVE  Inv'
  <2> DEFINE st == IF worker[d].st = "starting" THEN "start_unknown"
                   ELSE "stop_unknown"
             k  == [IdleCall EXCEPT !.pc = "show", !.d = d, !.st = st]
  <2>1. st \in {"start_unknown", "stop_unknown"}
    OBVIOUS
  <2>2. Begin(c, k)
    BY <1>4 DEF WorkerShow
  <2> HIDE DEF st
  <2>3. k \in CallState /\ k.pc = "show" /\ k.d = d /\ k.st = st
    BY <2>1, IdleCallType DEF IdleCall, CallState
  <2> HIDE DEF k
  <2>4. Named(k)
    BY <2>1, <2>3 DEF Named
  <2>5. calls' \in [Call -> CallState] /\ HandlersAreNamed'
    BY <2>2, <2>3, <2>4, RecordKeeps
  <2> QED BY <1>1, <1>4, <2>5 DEF WorkerShow
<1>5. ASSUME NEW d \in DispatchId, WorkerStop(c, d)
      PROVE  Inv'
  <2> DEFINE h == IF disp[d].who = worker[d].term THEN disp[d].who ELSE None
             k == [IdleCall EXCEPT !.pc = "stop", !.d = d, !.inc = disp[d].inc,
                                   !.h = h]
  <2>1. h \in Terminal \cup {None} /\ disp[d].inc \in Epoch \cup {None}
    BY DispatchFields DEF DispatchRow
  <2>2. Begin(c, k)
    BY <1>5 DEF WorkerStop
  <2> HIDE DEF h
  <2>3. k \in CallState /\ k.pc = "stop" /\ k.d = d
    BY <2>1, IdleCallType DEF IdleCall, CallState
  <2> HIDE DEF k
  <2>4. Named(k)
    BY <2>3 DEF Named
  <2>5. calls' \in [Call -> CallState] /\ HandlersAreNamed'
    BY <2>2, <2>3, <2>4, RecordKeeps
  <2> QED BY <1>1, <1>5, <2>5 DEF WorkerStop
<1>6. ASSUME NEW h \in Terminal, NEW d \in DispatchId, SendWorkerDone(c, h, d)
      PROVE  Inv'
  <2>1. calls' \in [Call -> CallState] /\ HandlersAreNamed'
    BY <1>6, AtKeeps DEF SendWorkerDone
  <2> QED BY <1>1, <1>6, <2>1 DEF SendWorkerDone
<1>7. ASSUME NEW h \in Terminal, NEW d \in DispatchId,
             NEW q \in Question \cup {None}, Ask(c, h, d, q)
      PROVE  Inv'
  <2> DEFINE j == [IdleCall EXCEPT !.pc = "ask", !.d = d]
             k == [IdleCall EXCEPT !.pc = "asking", !.d = d, !.q = q]
  <2>1. Begin(c, j) \/ Begin(c, k)
    BY <1>7 DEF Ask
  <2>2. j \in CallState /\ j.pc = "ask" /\ j.d = d
    BY IdleCallType DEF IdleCall, CallState
  <2>3. k \in CallState /\ k.pc = "asking"
    BY IdleCallType DEF IdleCall, CallState
  <2> HIDE DEF j, k
  <2>4. Named(j) /\ Named(k)
    BY <2>2, <2>3 DEF Named
  <2>5. calls' \in [Call -> CallState] /\ HandlersAreNamed'
    BY <2>1, <2>2, <2>3, <2>4, RecordKeeps
  <2> QED BY <1>1, <1>7, <2>5 DEF Ask
<1>8. CASE Deadline(c)
  <2> DEFINE k == [calls[c] EXCEPT !.late = TRUE]
  <2>1. k \in CallState /\ k.pc \in {"asking", "wait"}
    BY <1>0, <1>8 DEF CallState, Deadline
  <2>2. Begin(c, k)
    BY <1>8 DEF Deadline
  <2> HIDE DEF k
  <2>3. Named(k)
    BY <2>1 DEF Named
  <2>4. calls' \in [Call -> CallState] /\ HandlersAreNamed'
    BY <2>1, <2>2, <2>3, RecordKeeps
  <2> QED BY <1>1, <1>8, <2>4 DEF Deadline
<1>9. CASE AskWoken(c)
  <2> DEFINE k == [calls[c] EXCEPT !.pc = "asking", !.woken = FALSE]
  <2>1. k \in CallState /\ k.pc = "asking"
    BY <1>0, ZenonT(40) DEF CallState
  <2>2. Begin(c, k)
    BY <1>9 DEF AskWoken
  <2> HIDE DEF k
  <2>3. Named(k)
    BY <2>1 DEF Named
  <2>4. calls' \in [Call -> CallState] /\ HandlersAreNamed'
    BY <2>1, <2>2, <2>3, RecordKeeps
  <2> QED BY <1>1, <1>9, <2>4 DEF AskWoken
<1>10. CASE AskNotify(c)
  <2> DEFINE k == [calls[c] EXCEPT !.pc = "asking"]
  <2>1. k \in CallState /\ k.pc = "asking"
    BY <1>0, ZenonT(40) DEF CallState
  <2>2. calls' = Woken(c, k)
    BY <1>10 DEF AskNotify
  <2> HIDE DEF k
  <2>3. Named(k)
    BY <2>1 DEF Named
  <2>4. calls' \in [Call -> CallState] /\ HandlersAreNamed'
    BY <2>1, <2>2, <2>3, WokenKeeps
  <2> QED BY <1>1, <1>10, <2>4 DEF AskNotify
<1> QED BY <1>2, <1>3, <1>4, <1>5, <1>6, <1>7, <1>8, <1>9, <1>10

(* Steps that change worker rows and questions only.                       *)
LEMMA SideSteps ==
    ASSUME Inv, NEW c \in Call,
           \/ \E h \in Terminal : StartTerminal(c, h)
           \/ StartReady(c) \/ SetWorkerUnknown(c) \/ StopMark(c)
           \/ StopDone(c) \/ StopUnknown(c)
           \/ \E q \in Question : AskStore(c, q)
           \/ \E q \in Question, a \in Answer : ReplyToQuestion(c, q, a)
    PROVE  Inv'
<1> USE DEF Inv
<1>0. calls[c] \in CallState /\ Named(calls[c])
  BY DEF TypeOK, HandlersAreNamed
<1>1. ASSUME NEW h \in Terminal, StartTerminal(c, h) PROVE Inv'
  <2>1. calls[c].d \in DispatchId
    BY <1>0, <1>1 DEF Named, StartTerminal
  <2>2. calls' \in [Call -> CallState] /\ HandlersAreNamed'
    BY <1>1, <2>1, AtKeeps DEF StartTerminal
  <2>3. worker' \in [DispatchId -> WorkerRow]
    <3>1. worker[calls[c].d] \in WorkerRow
      BY <2>1 DEF TypeOK
    <3>2. [worker[calls[c].d] EXCEPT !.term = h] \in WorkerRow
      BY <3>1 DEF WorkerRow
    <3>3. worker \in [DispatchId -> WorkerRow]
      BY DEF TypeOK
    <3>4. worker' = worker \/
          worker' = [worker EXCEPT ![calls[c].d].term = h]
      BY <1>1 DEF StartTerminal
    <3> QED BY <2>1, <3>2, <3>3, <3>4
  <2>4. term' \in [Terminal -> {"unborn", "live", "gone"}]
    BY <1>1 DEF StartTerminal, TypeOK
  <2>5. UNCHANGED <<task, disp, gate, quest, epoch>>
    BY <1>1 DEF StartTerminal
  <2> QED BY <2>2, <2>3, <2>4, <2>5, QuietKeeps DEF TypeOK
<1>2. CASE StartReady(c) \/ SetWorkerUnknown(c) \/ StopDone(c) \/ StopUnknown(c)
  <2>1. calls[c].d \in DispatchId
    BY <1>0, <1>2 DEF Named, StartReady, SetWorkerUnknown, StopDone, StopUnknown
  <2>2. calls[c].pc = "show" => calls[c].st \in {"start_unknown", "stop_unknown"}
    BY <1>0 DEF Named
  <2>3. worker' \in [DispatchId -> WorkerRow]
    BY <1>2, <2>1, <2>2, WorkerSetType
       DEF StartReady, SetWorkerUnknown, StopDone, StopUnknown
  <2>4. calls' \in [Call -> CallState] /\ HandlersAreNamed'
    BY <1>2, EndKeeps DEF StartReady, SetWorkerUnknown, StopDone, StopUnknown
  <2>5. UNCHANGED <<task, disp, gate, quest, term, epoch>>
    BY <1>2 DEF StartReady, SetWorkerUnknown, StopDone, StopUnknown
  <2> QED BY <2>3, <2>4, <2>5, QuietKeeps DEF TypeOK
<1>3. CASE StopMark(c)
  <2>1. calls[c].d \in DispatchId
    BY <1>0, <1>3 DEF Named, StopMark
  <2>2. worker' \in [DispatchId -> WorkerRow]
    BY <1>3, <2>1, WorkerSetType DEF StopMark
  <2>3. calls' \in [Call -> CallState] /\ HandlersAreNamed'
    BY <1>3, GotoKeeps DEF StopMark
  <2> QED BY <1>3, <2>2, <2>3, QuietKeeps DEF TypeOK, StopMark
<1>4. ASSUME NEW q \in Question, AskStore(c, q) PROVE Inv'
  <2> DEFINE k == [calls[c] EXCEPT !.pc = "asked", !.q = q]
             row == [st |-> "pending", d |-> calls[c].d, ans |-> None]
  <2>1. calls[c].d \in DispatchId
    BY <1>0, <1>4 DEF Named, AskStore
  <2>2. row \in QuestRow
    BY <2>1 DEF QuestRow
  <2>3. quest' \in [Question -> QuestRow]
    BY <1>4, <2>2 DEF AskStore, TypeOK
  <2>4. k \in CallState /\ k.pc = "asked" /\ Begin(c, k)
    BY <1>0, <1>4 DEF CallState, AskStore
  <2> HIDE DEF k
  <2>5. Named(k)
    BY <2>4 DEF Named
  <2>6. calls' \in [Call -> CallState] /\ HandlersAreNamed'
    BY <2>4, <2>5, RecordKeeps
  <2> QED BY <1>4, <2>3, <2>6, QuietKeeps DEF TypeOK, AskStore
<1>5. ASSUME NEW q \in Question, NEW a \in Answer, ReplyToQuestion(c, q, a)
      PROVE  Inv'
  <2>1. quest' \in [Question -> QuestRow]
    <3> DEFINE row == [quest[q] EXCEPT !.st = "answered", !.ans = a]
    <3>1. quest \in [Question -> QuestRow]
      BY DEF TypeOK
    <3>2. row \in QuestRow
      BY <3>1 DEF QuestRow
    <3>3. quest' = [quest EXCEPT ![q] = row]
      BY <1>5, <3>1 DEF ReplyToQuestion
    <3> QED BY <3>1, <3>2, <3>3
  <2>2. calls' \in [Call -> CallState] /\ HandlersAreNamed'
    BY <1>5, EndKeeps DEF ReplyToQuestion
  <2> QED BY <1>5, <2>1, <2>2, QuietKeeps DEF TypeOK, ReplyToQuestion
<1> QED BY <1>1, <1>2, <1>3, <1>4, <1>5

(* A terminal goes away; the daemon restarts.                              *)
LEMMA WorldSteps ==
    ASSUME Inv, (\E h \in Terminal : TerminalExit(h)) \/ Restart
    PROVE  Inv'
<1> USE DEF Inv
<1>1. ASSUME NEW h \in Terminal, TerminalExit(h) PROVE Inv'
  <2>1. term' \in [Terminal -> {"unborn", "live", "gone"}]
    BY <1>1 DEF TerminalExit, TypeOK
  <2>2. HandlersAreNamed'
    BY <1>1 DEF TerminalExit, HandlersAreNamed, Named
  <2> QED BY <1>1, <2>1, <2>2, QuietKeeps DEF TypeOK, TerminalExit, tables
<1>2. CASE Restart
  <2>1. epoch' \in Epoch
    BY <1>2, DispatchAssumption DEF Restart, TypeOK, Epoch, DispatchAssumption
  <2>2. calls' \in [Call -> CallState] /\ HandlersAreNamed'
    BY <1>2, IdleCallType DEF Restart, HandlersAreNamed, Named, IdleCall
  <2>3. /\ term' \in [Terminal -> {"unborn", "live", "gone"}]
        /\ UNCHANGED <<task, disp, worker, gate, quest>>
    BY <1>2 DEF Restart, tables
  <2> QED BY <2>1, <2>2, <2>3, QuietKeeps DEF TypeOK
<1> QED BY <1>1, <1>2

(* task_create, task_update, gate_create, gate_resolve and reset.          *)
LEMMA TaskSteps ==
    ASSUME Inv, NEW c \in Call,
           \/ \E t \in Task, deps \in SUBSET Task : TaskCreate(c, t, deps)
           \/ \E t \in Task, st \in Updates : TaskUpdate(c, t, st)
           \/ \E g \in Gate, t \in Task : GateCreate(c, g, t)
           \/ \E g \in Gate : GateResolve(c, g)
           \/ \E scope \in {"tasks", "messages"} : Reset(c, scope)
    PROVE  Inv'
<1> USE DEF Inv
<1>0. ASSUME NEW t \in Task
      PROVE  NewestActive(t) \in SUBSET DispatchId
             /\ \A d \in NewestActive(t) : Live(disp[d].st) /\ disp[d].task = t
  BY DEF NewestActive, Of
<1>1. ASSUME NEW t \in Task, NEW deps \in SUBSET Task, TaskCreate(c, t, deps)
      PROVE  Inv'
  <2>1. calls' \in [Call -> CallState] /\ HandlersAreNamed'
    BY <1>1, EndKeeps DEF TaskCreate
  <2> DEFINE row == [st |-> IF deps = {} THEN "ready" ELSE "pending",
                     deps |-> deps,
                     late |-> \A u \in deps : task[u].st = "completed"]
  <2>2. row \in TaskRow /\ row.st # "dispatched"
    BY DEF TaskRow
  <2>3. task' = [task EXCEPT ![t] = row]
    BY <1>1 DEF TaskCreate
  <2> HIDE DEF row
  <2>4. task' \in [Task -> TaskRow] /\ task'[t].st # "dispatched"
        /\ \A u \in Task : u # t => task'[u] = task[u]
    BY <2>2, <2>3 DEF TypeOK
  <2>5. UNCHANGED <<disp, worker, gate, quest, term, epoch>>
    BY <1>1 DEF TaskCreate
  <2>6. LatestIsFresh' /\ RowsInOrder'
    BY <2>4, <2>5, SettlingKeeps, OrderKeeps
  <2> QED BY <2>1, <2>4, <2>5, <2>6 DEF TypeOK
<1>2. ASSUME NEW t \in Task, NEW st \in Updates, TaskUpdate(c, t, st)
      PROVE  Inv'
  <2>1. calls' \in [Call -> CallState] /\ HandlersAreNamed'
    BY <1>2, EndKeeps DEF TaskUpdate
  <2>2. /\ st \in {"pending", "ready", "dispatched", "completed", "failed",
                   "blocked"}
        /\ NoForcedDispatch => st # "dispatched"
    BY ConstantTypes DEF NoForcedDispatch
  <2>3. UNCHANGED <<worker, gate, quest, term, epoch>>
    BY <1>2 DEF TaskUpdate
  <2>4. /\ TaskSet(t, st) \in [Task -> TaskRow]
        /\ \A u \in Task : u # t => TaskSet(t, st)[u] = task[u]
        /\ NoForcedDispatch \/ st = "completed" =>
              TaskSet(t, st)[t].st # "dispatched"
    <3>1. t \in Task \cup {None}
      OBVIOUS
    <3>2. /\ TaskSet(t, st) \in [Task -> TaskRow]
          /\ \A u \in Task : u # t => TaskSet(t, st)[u] = task[u]
          /\ TaskSet(t, st)[t].st \in {st, "absent", "deleted"}
      BY <2>2, <3>1, TaskSetFacts
    <3> QED BY <2>2, <3>2
  <2>5. CASE st = "completed"
    <3>1. /\ task' = Promote(TaskSet(t, st), t)
          /\ disp' = Settled(NewestActive(t), "completed")
      BY <1>2, <2>5 DEF TaskUpdate
    <3>2. /\ task' \in [Task -> TaskRow] /\ task'[t].st # "dispatched"
          /\ \A u \in Task : u # t /\ task'[u].st = "dispatched" =>
                task[u].st = "dispatched"
      BY <2>4, <2>5, <3>1, PromoteFacts
    <3>3. /\ disp' \in [DispatchId -> DispatchRow]
          /\ \A d \in DispatchId :
                /\ disp'[d].task = disp[d].task
                /\ Live(disp'[d].st) <=> Live(disp[d].st)
                /\ disp'[d].st = "absent" <=> disp[d].st = "absent"
                /\ disp[d].task # t => disp'[d] = disp[d]
      BY <1>0, <3>1, SettledFacts
    <3>4. LatestIsFresh' /\ RowsInOrder'
      BY <3>2, <3>3, SettlingKeeps, OrderKeeps
    <3> QED BY <2>1, <2>3, <3>2, <3>3, <3>4 DEF TypeOK
  <2>6. CASE st # "completed"
    <3>1. task' = TaskSet(t, st) /\ disp' = disp
      BY <1>2, <2>6 DEF TaskUpdate
    <3>2. LatestIsFresh' /\ RowsInOrder'
      BY <2>4, <3>1, SettlingKeeps, OrderKeeps
    <3> QED BY <2>1, <2>3, <2>4, <3>1, <3>2 DEF TypeOK
  <2> QED BY <2>5, <2>6
<1>3. ASSUME NEW g \in Gate, NEW t \in Task, GateCreate(c, g, t)
      PROVE  Inv'
  <2>1. calls' \in [Call -> CallState] /\ HandlersAreNamed'
    BY <1>3, EndKeeps DEF GateCreate
  <2>2. UNCHANGED <<worker, quest, term, epoch>>
    BY <1>3 DEF GateCreate
  <2>3. gate' \in [Gate -> GateRow]
    BY <1>3 DEF GateCreate, TypeOK, GateRow
  <2>4. /\ task' = TaskSet(t, "blocked")
        /\ disp' = Settled(NewestActive(t), "completed")
    BY <1>3 DEF GateCreate
  <2>5. /\ task' \in [Task -> TaskRow] /\ task'[t].st # "dispatched"
        /\ \A u \in Task : u # t => task'[u] = task[u]
    BY <2>4, TaskSetFacts
  <2>6. /\ disp' \in [DispatchId -> DispatchRow]
        /\ \A d \in DispatchId :
              /\ disp'[d].task = disp[d].task
              /\ Live(disp'[d].st) <=> Live(disp[d].st)
              /\ disp'[d].st = "absent" <=> disp[d].st = "absent"
              /\ disp[d].task # t => disp'[d] = disp[d]
    BY <1>0, <2>4, SettledFacts
  <2>7. LatestIsFresh' /\ RowsInOrder'
    BY <2>5, <2>6, SettlingKeeps, OrderKeeps
  <2> QED BY <2>1, <2>2, <2>3, <2>5, <2>6, <2>7 DEF TypeOK
<1>4. ASSUME NEW g \in Gate, GateResolve(c, g)
      PROVE  Inv'
  <2>1. calls' \in [Call -> CallState] /\ HandlersAreNamed'
    BY <1>4, EndKeeps DEF GateResolve
  <2>2. UNCHANGED <<disp, worker, quest, term, epoch>>
    BY <1>4 DEF GateResolve
  <2>3. gate' \in [Gate -> GateRow] /\ gate[g].task \in Task \cup {None}
    BY <1>4 DEF GateResolve, TypeOK, GateRow
  <2>4. task' = TaskSet(gate[g].task, "ready")
    BY <1>4 DEF GateResolve
  <2>5. /\ task' \in [Task -> TaskRow]
        /\ gate[g].task \in Task => task'[gate[g].task].st # "dispatched"
        /\ \A u \in Task : u # gate[g].task => task'[u] = task[u]
    BY <2>3, <2>4, TaskSetFacts
  <2>6. LatestIsFresh' /\ RowsInOrder'
    BY <2>2, <2>3, <2>5, SettlingKeeps, OrderKeeps
  <2> QED BY <2>1, <2>2, <2>3, <2>5, <2>6 DEF TypeOK
<1>5. ASSUME NEW scope \in {"tasks", "messages"}, Reset(c, scope)
      PROVE  Inv'
  <2>1. calls' \in [Call -> CallState] /\ HandlersAreNamed'
    BY <1>5, EndKeeps DEF Reset
  <2>2. UNCHANGED <<term, epoch>>
    BY <1>5 DEF Reset
  <2>3. quest' \in [Question -> QuestRow]
    <3>1. [NoQuestion EXCEPT !.st = "deleted"] \in QuestRow
      BY DEF NoQuestion, QuestRow
    <3> QED BY <1>5, <3>1 DEF Reset, TypeOK
  <2>4. CASE scope = "messages"
    <3>1. UNCHANGED <<task, disp, worker, gate>>
      BY <1>5, <2>4 DEF Reset
    <3> QED BY <2>1, <2>2, <2>3, <3>1, QuietKeeps DEF TypeOK
  <2>5. CASE scope = "tasks"
    <3>1. /\ task' = [t \in Task |-> IF Live(task[t].st)
                        THEN [NoTask EXCEPT !.st = "deleted"] ELSE task[t]]
          /\ disp' = [d \in DispatchId |-> IF Live(disp[d].st)
                        THEN [NoDispatch EXCEPT !.st = "deleted"] ELSE disp[d]]
          /\ worker' = [d \in DispatchId |-> NoWorker]
          /\ gate' = [g \in Gate |-> IF Live(gate[g].st)
                        THEN [NoGate EXCEPT !.st = "deleted"] ELSE gate[g]]
      BY <1>5, <2>5 DEF Reset
    <3>2. /\ [NoTask EXCEPT !.st = "deleted"] \in TaskRow
          /\ [NoTask EXCEPT !.st = "deleted"].st = "deleted"
      BY DEF NoTask, TaskRow
    <3>3. /\ [NoDispatch EXCEPT !.st = "deleted"] \in DispatchRow
          /\ [NoDispatch EXCEPT !.st = "deleted"].st = "deleted"
      BY DEF NoDispatch, DispatchRow
    <3>4. [NoGate EXCEPT !.st = "deleted"] \in GateRow
      BY DEF NoGate, GateRow
    <3>5. NoWorker \in WorkerRow
      BY DEF NoWorker, WorkerRow
    <3>6. task' \in [Task -> TaskRow] /\ \A t \in Task : task'[t].st # "dispatched"
      BY <3>1, <3>2 DEF TypeOK, Live
    <3>7. /\ disp' \in [DispatchId -> DispatchRow]
          /\ \A d \in DispatchId : disp'[d].st = "absent" <=> disp[d].st = "absent"
      BY <3>1, <3>3 DEF TypeOK, Live
    <3>8. worker' \in [DispatchId -> WorkerRow] /\ gate' \in [Gate -> GateRow]
      BY <3>1, <3>4, <3>5 DEF TypeOK
    <3>9. LatestIsFresh' /\ RowsInOrder'
      BY <3>6, <3>7, OrderKeeps DEF LatestIsFresh
    <3> QED BY <2>1, <2>2, <2>3, <3>6, <3>7, <3>8, <3>9 DEF TypeOK
  <2> QED BY <2>4, <2>5
<1> QED BY <1>1, <1>2, <1>3, <1>4, <1>5

(* The failures of a Task are a number.                                    *)
LEMMA FailuresType ==
    ASSUME TypeOK, NEW t
    PROVE  Failures(t) \subseteq Nat
BY DispatchFields DEF Failures, Of

(* dispatch and worker-start insert a Dispatch.                            *)
LEMMA InsertSteps ==
    ASSUME Inv, NEW c \in Call, NEW d \in DispatchId,
           DispatchStore(c, d) \/ CreateStartingWorker(c, d)
    PROVE  Inv'
<1> USE DEF Inv
<1>0. calls[c] \in CallState /\ Named(calls[c])
  BY DEF TypeOK, HandlersAreNamed
<1>1. CASE DispatchStore(c, d)
  <2>1. calls[c].t \in Task /\ calls[c].h \in Terminal
    BY <1>0, <1>1 DEF Named, DispatchStore
  <2>2. PICK f \in Failures(calls[c].t) :
          disp' = [disp EXCEPT ![d] =
                    [st |-> "dispatched", task |-> calls[c].t, who |-> calls[c].h,
                     cap |-> calls[c].flag, inc |-> calls[c].inc,
                     revoked |-> FALSE, fails |-> f]]
    BY <1>1 DEF DispatchStore
  <2> DEFINE row == [st |-> "dispatched", task |-> calls[c].t,
                     who |-> calls[c].h, cap |-> calls[c].flag,
                     inc |-> calls[c].inc, revoked |-> FALSE, fails |-> f]
  <2>3. f \in Nat
    BY FailuresType
  <2>4. calls[c].flag \in BOOLEAN /\ calls[c].inc \in Epoch \cup {None}
    BY <1>0 DEF CallState
  <2>5. /\ row \in DispatchRow /\ row.st = "dispatched"
        /\ row.task = calls[c].t /\ ~row.revoked
    BY <2>1, <2>3, <2>4 DEF DispatchRow
  <2>6. disp' = [disp EXCEPT ![d] = row]
    BY <2>2
  <2> HIDE DEF row
  <2>7. NextDispatch(d) /\ task' = TaskSet(calls[c].t, "dispatched")
    BY <1>1 DEF DispatchStore
  <2>8. /\ task' \in [Task -> TaskRow] /\ disp' \in [DispatchId -> DispatchRow]
        /\ RowsInOrder' /\ LatestIsFresh'
    BY <2>1, <2>5, <2>6, <2>7, InsertKeeps
  <2>9. Begin(c, At("inject", calls[c].h, d)) \/ Commit(c)
    BY <1>1 DEF DispatchStore
  <2>10. calls' \in [Call -> CallState] /\ HandlersAreNamed'
    BY <2>1, <2>9, AtKeeps, EndKeeps
  <2>11. UNCHANGED <<worker, gate, quest, term, epoch>>
    BY <1>1 DEF DispatchStore
  <2> QED BY <2>8, <2>10, <2>11 DEF TypeOK
<1>2. CASE CreateStartingWorker(c, d)
  <2>1. calls[c].t \in Task
    BY <1>0, <1>2 DEF Named, CreateStartingWorker
  <2>2. PICK f \in Failures(calls[c].t) :
          disp' = [disp EXCEPT ![d] = [NoDispatch EXCEPT
                    !.st = "pending", !.task = calls[c].t, !.fails = f]]
    BY <1>2 DEF CreateStartingWorker
  <2> DEFINE row == [NoDispatch EXCEPT !.st = "pending", !.task = calls[c].t,
                                       !.fails = f]
  <2>3. f \in Nat
    BY FailuresType
  <2>4. /\ row \in DispatchRow /\ row.st = "pending"
        /\ row.task = calls[c].t /\ ~row.revoked
    BY <2>1, <2>3 DEF DispatchRow, NoDispatch
  <2>5. disp' = [disp EXCEPT ![d] = row]
    BY <2>2
  <2> HIDE DEF row
  <2>6. NextDispatch(d) /\ task' = TaskSet(calls[c].t, "dispatched")
    BY <1>2 DEF CreateStartingWorker
  <2>7. /\ task' \in [Task -> TaskRow] /\ disp' \in [DispatchId -> DispatchRow]
        /\ RowsInOrder' /\ LatestIsFresh'
    BY <2>1, <2>4, <2>5, <2>6, InsertKeeps
  <2>8. calls[c].h \in Terminal \cup {None}
    BY <1>0 DEF CallState
  <2>9. Begin(c, At("starting", calls[c].h, d))
    BY <1>2 DEF CreateStartingWorker
  <2>10. calls' \in [Call -> CallState] /\ HandlersAreNamed'
    BY <2>8, <2>9, AtKeeps
  <2> DEFINE w == [st |-> "starting", term |-> None, epoch |-> epoch]
  <2>11. w \in WorkerRow
    BY DEF TypeOK, WorkerRow
  <2>12. worker' \in [DispatchId -> WorkerRow]
    BY <1>2, <2>11 DEF CreateStartingWorker, TypeOK
  <2>13. UNCHANGED <<gate, quest, term, epoch>>
    BY <1>2 DEF CreateStartingWorker
  <2> QED BY <2>7, <2>10, <2>12, <2>13 DEF TypeOK
<1> QED BY <1>1, <1>2

(* fail_dispatch and fail_worker_start leave the Task undispatched.        *)
LEMMA FailFacts ==
    ASSUME Inv, NEW d \in DispatchId, Live(disp[d].st), Fail(d)
    PROVE  /\ task' \in [Task -> TaskRow] /\ disp' \in [DispatchId -> DispatchRow]
           /\ RowsInOrder' /\ LatestIsFresh'
<1> USE DEF Inv
<1> DEFINE st == IF Broken(d) THEN "circuit_broken" ELSE "failed"
           ts == IF Broken(d) THEN "failed" ELSE "ready"
           t  == disp[d].task
           row == [disp[d] EXCEPT !.st = st, !.fails = @ + 1, !.revoked = TRUE]
<1>1. /\ disp[d] \in DispatchRow /\ t \in Task \cup {None} /\ disp[d].fails \in Nat
  BY DispatchFields
<1>2. st \in {"circuit_broken", "failed"} /\ ts \in {"failed", "ready"}
  OBVIOUS
<1>3. /\ disp' = [disp EXCEPT ![d] = row]
      /\ task' = TaskSet(t, ts)
  BY DEF Fail, TypeOK
<1> HIDE DEF st, ts
<1>4. row \in DispatchRow /\ row.st = st /\ row.task = t
  <2> DEFINE r == disp[d]
             f == disp[d].fails + 1
  <2>1. f \in Nat /\ r \in DispatchRow /\ t = r.task
    BY <1>1
  <2>2. row = [r EXCEPT !.st = st, !.fails = f, !.revoked = TRUE]
    OBVIOUS
  <2> HIDE DEF r, f, row, t
  <2>3. row \in DispatchRow
    BY <1>2, <2>1, <2>2 DEF DispatchRow
  <2>4. row.st = st /\ row.task = r.task
    BY <2>1, <2>2 DEF DispatchRow
  <2> QED BY <2>1, <2>3, <2>4
<1> HIDE DEF row
<1>5. /\ disp' \in [DispatchId -> DispatchRow]
      /\ disp'[d] = row /\ \A e \in DispatchId : e # d => disp'[e] = disp[e]
  BY <1>3, <1>4 DEF TypeOK
<1>6. \A e \in DispatchId :
         /\ disp'[e].task = disp[e].task
         /\ Live(disp'[e].st) <=> Live(disp[e].st)
         /\ disp'[e].st = "absent" <=> disp[e].st = "absent"
         /\ disp[e].task # t => disp'[e] = disp[e]
  <2> SUFFICES ASSUME NEW e \in DispatchId
               PROVE  /\ disp'[e].task = disp[e].task
                      /\ Live(disp'[e].st) <=> Live(disp[e].st)
                      /\ disp'[e].st = "absent" <=> disp[e].st = "absent"
                      /\ disp[e].task # t => disp'[e] = disp[e]
    OBVIOUS
  <2>1. CASE e = d
    BY <1>2, <1>4, <1>5, <2>1 DEF Live
  <2>2. CASE e # d
    BY <1>5, <2>2
  <2> QED BY <2>1, <2>2
<1> HIDE DEF t
<1>7. /\ task' \in [Task -> TaskRow]
      /\ \A u \in Task : u # t => task'[u] = task[u]
      /\ t \in Task => task'[t].st \in {ts, "absent", "deleted"}
  BY <1>1, <1>2, <1>3, TaskSetFacts
<1>8. t \in Task => task'[t].st # "dispatched"
  BY <1>2, <1>7
<1>9. RowsInOrder'
  BY <1>6, OrderKeeps
<1>10. LatestIsFresh'
  BY <1>1, <1>6, <1>7, <1>8, SettlingKeeps
<1> QED BY <1>5, <1>7, <1>9, <1>10

(* A start that fails, after the Dispatch was inserted.                    *)
LEMMA FailSteps ==
    ASSUME Inv, NEW c \in Call, InjectFailed(c) \/ StartFailed(c)
    PROVE  Inv'
<1> USE DEF Inv
<1> DEFINE d == calls[c].d
<1>0. d \in DispatchId
  <2>1. Named(calls[c])
    BY DEF HandlersAreNamed
  <2> QED BY <2>1 DEF Named, InjectFailed, StartFailed
<1>1. calls' \in [Call -> CallState] /\ HandlersAreNamed'
  <2>1. Finish(c) \/ Commit(c)
    BY DEF InjectFailed, StartFailed
  <2> QED BY <2>1, EndKeeps
<1>2. UNCHANGED <<gate, quest, term, epoch>>
  BY DEF InjectFailed, StartFailed
<1>3. worker' \in [DispatchId -> WorkerRow]
  <2>1. worker' = worker \/ worker' = WorkerSet(d, "failed")
    BY DEF InjectFailed, StartFailed
  <2> QED BY <1>0, <2>1, WorkerSetType DEF TypeOK
<1>4. \/ Live(disp[d].st) /\ Fail(d)
      \/ UNCHANGED <<task, disp>>
  BY DEF InjectFailed, StartFailed
<1> HIDE DEF d
<1>5. CASE Live(disp[d].st) /\ Fail(d)
  <2>1. /\ task' \in [Task -> TaskRow] /\ disp' \in [DispatchId -> DispatchRow]
        /\ RowsInOrder' /\ LatestIsFresh'
    BY <1>0, <1>5, FailFacts
  <2> QED BY <1>1, <1>2, <1>3, <2>1 DEF TypeOK
<1>6. CASE UNCHANGED <<task, disp>>
  BY <1>1, <1>2, <1>3, <1>6, QuietKeeps DEF TypeOK
<1> QED BY <1>4, <1>5, <1>6

(* The agent is ready: its Dispatch is active, and revoked if it was.      *)
LEMMA StartDispatchSteps ==
    ASSUME Inv, NEW c \in Call, StartDispatch(c)
    PROVE  Inv'
<1> USE DEF Inv
<1> DEFINE d == calls[c].d
           h == calls[c].h
           row == [disp[d] EXCEPT !.st = "dispatched", !.who = h,
                                  !.inc = epoch, !.cap = TRUE]
<1>0. d \in DispatchId /\ h \in Terminal
  <2>1. Named(calls[c])
    BY DEF HandlersAreNamed
  <2> QED BY <2>1 DEF Named, StartDispatch
<1>1. calls' \in [Call -> CallState] /\ HandlersAreNamed'
  BY GotoKeeps DEF StartDispatch
<1>2. UNCHANGED <<task, gate, quest, term, epoch>>
  BY DEF StartDispatch
<1>3. worker' \in [DispatchId -> WorkerRow]
  <2>1. [worker[d] EXCEPT !.st = "starting", !.term = h] \in WorkerRow
    <3>1. worker[d] \in WorkerRow
      BY <1>0 DEF TypeOK
    <3> HIDE DEF d, h
    <3> QED BY <1>0, <3>1 DEF WorkerRow
  <2>2. \/ worker' = worker
        \/ worker' = [worker EXCEPT ![d] =
                        [worker[d] EXCEPT !.st = "starting", !.term = h]]
    BY DEF StartDispatch, TypeOK
  <2> QED BY <1>0, <2>1, <2>2 DEF TypeOK
<1>4. \/ disp' = disp
      \/ Live(disp[d].st) /\ disp' = [disp EXCEPT ![d] = row]
  BY DEF StartDispatch, TypeOK
<1>5. /\ row \in DispatchRow /\ row.st = "dispatched"
      /\ row.task = disp[d].task /\ row.revoked = disp[d].revoked
  BY <1>0, DispatchFields, ZenonT(40) DEF DispatchRow, TypeOK
<1> HIDE DEF row, d, h
<1>6. CASE disp' = disp
  BY <1>1, <1>2, <1>3, <1>6, QuietKeeps DEF TypeOK
<1>7. CASE Live(disp[d].st) /\ disp' = [disp EXCEPT ![d] = row]
  <2>1. /\ disp' \in [DispatchId -> DispatchRow] /\ disp'[d] = row
        /\ \A e \in DispatchId : e # d => disp'[e] = disp[e]
    BY <1>0, <1>5, <1>7 DEF TypeOK
  <2>2. RowsInOrder'
    <3>1. disp'[d].st # "absent" /\ disp[d].st # "absent"
      BY <1>5, <1>7, <2>1 DEF Live
    <3>2. \A e \in DispatchId : disp'[e].st = "absent" <=> disp[e].st = "absent"
      BY <2>1, <3>1
    <3> QED BY <3>2, OrderKeeps
  <2>3. ASSUME NoForcedDispatch, NEW u \in Task, task'[u].st = "dispatched"
        PROVE  \E e \in Latest(u)' : Active(e)' /\ ~disp'[e].revoked
    <3>1. PICK e \in Latest(u) : Active(e) /\ ~disp[e].revoked
      BY <1>2, <2>3 DEF LatestIsFresh
    <3>2. Of(u)' = Of(u)
      BY <1>5, <1>7, <2>1 DEF Of, Live
    <3>3. e \in DispatchId /\ e \in Latest(u)'
      BY <3>1, <3>2 DEF Latest, Of
    <3>4. Active(e)' /\ ~disp'[e].revoked
      BY <1>5, <2>1, <3>1, <3>3 DEF Active
    <3> QED BY <3>3, <3>4
  <2>4. LatestIsFresh'
    BY <2>3 DEF LatestIsFresh
  <2> QED BY <1>1, <1>2, <1>3, <2>1, <2>2, <2>4 DEF TypeOK
<1> QED BY <1>4, <1>6, <1>7

(* Settling the one Dispatch d: its Task ends undispatched.                *)
LEMMA SettleOneKeeps ==
    ASSUME Inv, NEW d \in DispatchId, Live(disp[d].st),
           NEW st \in {"completed", "failed"},
           disp' = Settled({d}, st), task' \in [Task -> TaskRow],
           \A u \in Task : u # disp[d].task /\ task'[u].st = "dispatched" =>
              task[u].st = "dispatched",
           disp[d].task \in Task => task'[disp[d].task].st # "dispatched"
    PROVE  /\ disp' \in [DispatchId -> DispatchRow]
           /\ RowsInOrder' /\ LatestIsFresh'
<1> USE DEF Inv
<1> DEFINE t == disp[d].task
<1>1. t \in Task \cup {None}
  BY DispatchFields
<1>2. {d} \in SUBSET DispatchId /\ \A e \in {d} : Live(disp[e].st)
  OBVIOUS
<1>3. /\ disp' \in [DispatchId -> DispatchRow]
      /\ \A e \in DispatchId :
            /\ disp'[e].task = disp[e].task
            /\ Live(disp'[e].st) <=> Live(disp[e].st)
            /\ disp'[e].st = "absent" <=> disp[e].st = "absent"
            /\ e \notin {d} => disp'[e] = disp[e]
  BY <1>2, SettledFacts
<1>4. \A e \in DispatchId : disp[e].task # t => disp'[e] = disp[e]
  BY <1>3
<1>5. RowsInOrder'
  BY <1>3, OrderKeeps
<1>6. LatestIsFresh'
  BY <1>1, <1>3, <1>4, SettlingKeeps, ZenonT(40)
<1> QED BY <1>3, <1>5, <1>6

(* worker-abandon blocks the Task of the Dispatch it settles.              *)
LEMMA AbandonSteps ==
    ASSUME Inv, NEW c \in Call, NEW d \in DispatchId, WorkerAbandon(c, d)
    PROVE  Inv'
<1> USE DEF Inv
<1> DEFINE t == disp[d].task
<1>1. calls' \in [Call -> CallState] /\ HandlersAreNamed'
  BY EndKeeps DEF WorkerAbandon
<1>2. UNCHANGED <<gate, quest, term, epoch>>
  BY DEF WorkerAbandon
<1>3. CASE d \in Latest(t) /\ ~WorkerSettled(d)
  <2>1. /\ worker' = WorkerSet(d, "abandoned")
        /\ disp' = Settled({d}, "failed") /\ task' = TaskSet(t, "blocked")
        /\ Live(disp[d].st)
    BY <1>3 DEF WorkerAbandon, HasWorker
  <2>2. worker' \in [DispatchId -> WorkerRow]
    BY <2>1, WorkerSetType
  <2>3. t \in Task \cup {None}
    BY DispatchFields
  <2>4. /\ task' \in [Task -> TaskRow]
        /\ \A u \in Task : u # t => task'[u] = task[u]
        /\ t \in Task => task'[t].st # "dispatched"
    BY <2>1, <2>3, TaskSetFacts
  <2>5. disp' \in [DispatchId -> DispatchRow] /\ RowsInOrder' /\ LatestIsFresh'
    BY <2>1, <2>4, SettleOneKeeps
  <2> QED BY <1>1, <1>2, <2>2, <2>4, <2>5 DEF TypeOK
<1>4. CASE ~(d \in Latest(t) /\ ~WorkerSettled(d))
  <2>1. UNCHANGED <<task, disp, worker>>
    BY <1>4 DEF WorkerAbandon
  <2> QED BY <1>1, <1>2, <2>1, QuietKeeps DEF TypeOK
<1> QED BY <1>3, <1>4

(* An accepted worker_done ends the Task.                                  *)
LEMMA ReconcileSteps ==
    ASSUME Inv, NEW c \in Call, NEW o \in Outcome, Reconcile(c, o)
    PROVE  Inv'
<1> USE DEF Inv
<1> DEFINE d == calls[c].d
           t == disp[d].task
           st == IF o = "succeeded" THEN "completed" ELSE "failed"
<1>0. d \in DispatchId
  <2>1. Named(calls[c])
    BY DEF HandlersAreNamed
  <2> QED BY <2>1 DEF Named, Reconcile
<1>1. calls' \in [Call -> CallState] /\ HandlersAreNamed'
  BY EndKeeps DEF Reconcile
<1>2. UNCHANGED <<gate, term, epoch>>
  BY DEF Reconcile
<1>3. st \in {"completed", "failed"} /\ o \in {"succeeded", "failed"}
  BY DEF Outcome
<1>4. /\ disp' = Settled({d}, st)
      /\ task' = Promote(TaskSet(t, st), t) \/ task' = TaskSet(t, st)
  BY DEF Reconcile
<1>5. t \in Task /\ Live(disp[d].st)
  BY DEF Reconcile, AcceptedReport, Live
<1>6. worker' \in [DispatchId -> WorkerRow]
  <2>1. worker' = worker \/ worker' = WorkerSet(d, o)
    BY DEF Reconcile
  <2> QED BY <1>0, <1>3, <2>1, WorkerSetType DEF TypeOK
<1>7. quest' \in [Question -> QuestRow]
  <2>1. ASSUME NEW q \in Question
        PROVE  quest[q] \in QuestRow /\ [quest[q] EXCEPT !.st = "closed"] \in QuestRow
    BY DEF TypeOK, QuestRow
  <2> QED BY <2>1 DEF Reconcile
<1> HIDE DEF st
<1>8. /\ TaskSet(t, st) \in [Task -> TaskRow]
      /\ \A u \in Task : u # t => TaskSet(t, st)[u] = task[u]
      /\ TaskSet(t, st)[t].st # "dispatched"
  <2>1. /\ TaskSet(t, st) \in [Task -> TaskRow]
        /\ \A u \in Task : u # t => TaskSet(t, st)[u] = task[u]
        /\ TaskSet(t, st)[t].st \in {st, "absent", "deleted"}
    BY <1>3, <1>5, TaskSetFacts
  <2> QED BY <1>3, <2>1
<1>9. /\ task' \in [Task -> TaskRow]
      /\ \A u \in Task : u # t /\ task'[u].st = "dispatched" =>
            task[u].st = "dispatched"
      /\ task'[t].st # "dispatched"
  <2>1. CASE task' = Promote(TaskSet(t, st), t)
    BY <1>5, <1>8, <2>1, PromoteFacts, ZenonT(40)
  <2>2. CASE task' = TaskSet(t, st)
    BY <1>8, <2>2
  <2> QED BY <1>4, <2>1, <2>2
<1>10. disp' \in [DispatchId -> DispatchRow] /\ RowsInOrder' /\ LatestIsFresh'
  BY <1>0, <1>3, <1>4, <1>5, <1>9, SettleOneKeeps
<1> QED BY <1>1, <1>2, <1>6, <1>7, <1>9, <1>10 DEF TypeOK

-----------------------------------------------------------------------------
(* The invariant is inductive.                                             *)

(* The empty tables satisfy it.                                            *)
LEMMA InitInv == Init => Inv
<1> SUFFICES ASSUME Init PROVE Inv
  OBVIOUS
<1>1. /\ NoTask \in TaskRow /\ NoDispatch \in DispatchRow
      /\ NoWorker \in WorkerRow /\ NoGate \in GateRow /\ NoQuestion \in QuestRow
  BY DEF NoTask, TaskRow, NoDispatch, DispatchRow, NoWorker, WorkerRow, NoGate,
         GateRow, NoQuestion, QuestRow
<1>2. TypeOK
  BY <1>1, ConstantTypes, IdleCallType DEF Init, TypeOK
<1>3. Named(IdleCall)
  BY DEF Named, IdleCall
<1>4. HandlersAreNamed
  BY <1>3 DEF Init, HandlersAreNamed
<1>5. RowsInOrder
  BY DEF Init, RowsInOrder, NoDispatch
<1>6. LatestIsFresh
  BY DEF Init, LatestIsFresh, NoTask
<1> QED BY <1>2, <1>4, <1>5, <1>6 DEF Inv

(* Every step keeps it.                                                    *)
LEMMA NextInv == Inv /\ [Next]_vars => Inv'
<1> SUFFICES ASSUME Inv, [Next]_vars PROVE Inv'
  OBVIOUS
<1>1. ASSUME NEW c \in Call, Step(c) PROVE Inv'
  BY <1>1, HandlerSteps, BeginSteps, SideSteps, InsertSteps, FailSteps,
     StartDispatchSteps, ReconcileSteps DEF Step
<1>2. ASSUME NEW c \in Call, Request(c) PROVE Inv'
  BY <1>2, BeginSteps, SideSteps, TaskSteps, AbandonSteps DEF Request
<1>3. ASSUME NEW c \in Call, Deadline(c) \/ Drop(c) PROVE Inv'
  BY <1>3, HandlerSteps, BeginSteps
<1>4. ASSUME NEW h \in Terminal, TerminalExit(h) PROVE Inv'
  BY <1>4, WorldSteps
<1>5. CASE Restart
  BY <1>5, WorldSteps
<1>6. CASE UNCHANGED vars
  <2>1. UNCHANGED <<task, disp, worker, gate, quest, term, epoch, calls>>
    BY <1>6 DEF vars
  <2>2. HandlersAreNamed'
    BY <2>1 DEF Inv, HandlersAreNamed, Named
  <2> QED BY <2>1, <2>2, QuietKeeps DEF Inv, TypeOK
<1> QED BY <1>1, <1>2, <1>3, <1>4, <1>5, <1>6 DEF Next, Serve

(* So every reachable state satisfies it.                                  *)
LEMMA SpecInv == Spec => []Inv
BY InitInv, NextInv, PTL DEF Spec

-----------------------------------------------------------------------------
(* The theorems.                                                           *)

(* Every table and every handler record is well formed, for any number of  *)
(* Tasks, terminals and concurrent requests, across restarts.              *)
THEOREM DispatchType == Spec => []TypeOK
<1>1. Inv => TypeOK
  BY DEF Inv
<1> QED BY <1>1, SpecInv, PTL

(* dispatch, worker-start, worker-abandon, gates, task-update, worker_done *)
(* and every failure path leave no Task dispatched without an active       *)
(* latest Dispatch, if task-update does not do so.                         *)
THEOREM DispatchedTaskHasDispatch ==
    ASSUME NoForcedDispatch
    PROVE  Spec => []DispatchedHasDispatch
<1>1. Inv => DispatchedHasDispatch
  BY DEF Inv, LatestIsFresh, DispatchedHasDispatch
<1> QED BY <1>1, SpecInv, PTL

(* reconcile_lifecycle accepts no report of a Dispatch that was ever       *)
(* settled, although finish_local_worker_start may make it active again:   *)
(* a Task that is dispatched has a latest Dispatch that never was.         *)
THEOREM SettledDispatchNeverReports ==
    ASSUME NoForcedDispatch
    PROVE  Spec => RevokedNeverReports
<1>1. ASSUME Inv, NEW c \in Call, NEW o \in Outcome, Reconcile(c, o)
      PROVE  ~disp[calls[c].d].revoked
  <2> DEFINE d == calls[c].d
             t == disp[d].task
  <2>1. t \in Task /\ task[t].st = "dispatched" /\ d \in Latest(t)
    BY <1>1 DEF Reconcile, AcceptedReport
  <2>2. PICK e \in Latest(t) : ~disp[e].revoked
    BY <1>1, <2>1 DEF Inv, LatestIsFresh
  <2>3. d <= e /\ e <= d /\ d \in Nat /\ e \in Nat
    BY <2>1, <2>2, ConstantTypes DEF Latest, Of
  <2>4. d = e
    BY <2>3
  <2> QED BY <2>2, <2>4
<1>2. Inv /\ [Next]_vars =>
        [\A c \in Call, o \in Outcome : Reconcile(c, o) => ~disp[calls[c].d].revoked]_vars
  BY <1>1
<1> QED BY <1>2, SpecInv, PTL DEF Spec, RevokedNeverReports
=============================================================================
