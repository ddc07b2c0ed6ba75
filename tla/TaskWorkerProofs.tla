-------------------------- MODULE TaskWorkerProofs --------------------------
(***************************************************************************)
(* What TaskDispatch promises about handlers that overlap: a start is not  *)
(* called unknown while it goes on, a question is closed for good, no Task *)
(* and no answer is forgotten.  The theorems rest on the invariant of      *)
(* TaskDispatchProofs, which gives the tables and handlers their types.    *)
(***************************************************************************)
EXTENDS TaskDispatchProofs

-----------------------------------------------------------------------------
(* The inductive invariant of workers, Dispatches and questions.           *)

(* A worker-start that has inserted its rows, and one that has not made    *)
(* its Dispatch active yet.                                                *)
Starting(k) == k.pc \in {"starting", "readying", "input", "sent"}
Placing(k)  == k.pc \in {"starting", "readying"}

(* A start belongs to this run of the daemon, a worker-show that will      *)
(* write to an earlier one; reset may have deleted the row of either.      *)
EpochOK(k) ==
    /\ Starting(k) => /\ disp[k.d].st # "absent"
                      /\ worker[k.d].st = "none" \/ worker[k.d].epoch = epoch
    /\ k.pc = "show" => /\ disp[k.d].st # "absent"
                        /\ worker[k.d].st = "none" \/ worker[k.d].epoch # epoch

(* Until the agent is ready nothing can have come from its Dispatch.       *)
PlacingOK(k) ==
    Placing(k) => /\ disp[k.d].st # "dispatched"
                  /\ \A q \in Question : quest[q].st = "closed" => quest[q].d # k.d

HandlersInPlace == \A c \in Call : EpochOK(calls[c]) /\ PlacingOK(calls[c])

(* A Dispatch has one start.                                               *)
OneStart ==
    \A b, c \in Call : Placing(calls[b]) /\ Placing(calls[c])
                         /\ calls[b].d = calls[c].d => b = c

(* No worker is of a later run, and one whose start is unknown is of an    *)
(* earlier one.                                                            *)
WorkerOK(d) ==
    worker[d].st # "none" =>
        /\ worker[d].epoch \in Epoch /\ worker[d].epoch <= epoch
        /\ worker[d].st = "start_unknown" => worker[d].epoch # epoch
WorkersInEpoch == \A d \in DispatchId : WorkerOK(d)

(* A closed question names a Dispatch that was settled.                    *)
ClosedOK(q) ==
    quest[q].st = "closed" =>
        /\ quest[q].d \in DispatchId
        /\ disp[quest[q].d].st \notin {"absent", "pending", "dispatched"}
QuestionsInPlace == \A q \in Question : ClosedOK(q)

WorkerInv == HandlersInPlace /\ OneStart /\ WorkersInEpoch /\ QuestionsInPlace

-----------------------------------------------------------------------------
(* What most steps do: they begin no start and no show, make no Dispatch   *)
(* active, give no worker a run or a new doubt, and close no question.     *)

Follows(k, l) ==
    /\ Starting(l) => Starting(k) /\ l.d = k.d
    /\ Placing(l) => Placing(k)
    /\ l.pc = "show" => k.pc = "show" /\ l.d = k.d
CallsFollow == \A c \in Call : Follows(calls[c], calls'[c])

RowFollows(r, s) ==
    /\ s.st = "absent" <=> r.st = "absent"
    /\ s.st = "dispatched" => r.st = "dispatched"
    /\ s.st = "pending" => r.st = "pending"
RowsFollow == \A d \in DispatchId : RowFollows(disp[d], disp'[d])

WorkerFollows(r, s) ==
    s.st # "none" => /\ r.st # "none" /\ s.epoch = r.epoch
                     /\ s.st = "start_unknown" =>
                           r.st = "start_unknown" \/ r.epoch # epoch
WorkersFollow == \A d \in DispatchId : WorkerFollows(worker[d], worker'[d])

QuestionsFollow ==
    \A q \in Question : quest'[q].st = "closed" =>
        quest[q].st = "closed" /\ quest'[q].d = quest[q].d

(* Such a step keeps the invariant.                                        *)
LEMMA FollowingKeeps ==
    ASSUME Inv, HandlersAreNamed', WorkerInv, epoch' = epoch,
           CallsFollow, RowsFollow, WorkersFollow, QuestionsFollow
    PROVE  WorkerInv'
<1>1. ASSUME NEW c \in Call PROVE EpochOK(calls[c])' /\ PlacingOK(calls[c])'
  <2> DEFINE k == calls[c]
             l == calls'[c]
  <2>1. EpochOK(k) /\ PlacingOK(k) /\ Follows(k, l)
    BY DEF WorkerInv, HandlersInPlace, CallsFollow
  <2>2. Starting(l) \/ l.pc = "show" => l.d \in DispatchId
    BY DEF HandlersAreNamed, Named, Starting
  <2>3. Placing(l) => Starting(l)
    BY DEF Placing, Starting
  <2>4. EpochOK(calls[c])'
    <3> SUFFICES ASSUME Starting(l) \/ l.pc = "show"
                 PROVE  EpochOK(calls[c])'
      BY DEF EpochOK, Starting
    <3>1. l.d = k.d /\ l.d \in DispatchId
      BY <2>1, <2>2 DEF Follows
    <3>2. RowFollows(disp[l.d], disp'[l.d]) /\ WorkerFollows(worker[l.d], worker'[l.d])
      BY <3>1 DEF RowsFollow, WorkersFollow
    <3> QED BY <2>1, <3>1, <3>2 DEF EpochOK, Follows, RowFollows, WorkerFollows, Starting
  <2>5. PlacingOK(calls[c])'
    <3> SUFFICES ASSUME Placing(l) PROVE PlacingOK(calls[c])'
      BY DEF PlacingOK, Placing
    <3>1. l.d = k.d /\ l.d \in DispatchId /\ Placing(k)
      BY <2>1, <2>2, <2>3 DEF Follows
    <3>2. RowFollows(disp[l.d], disp'[l.d])
      BY <3>1 DEF RowsFollow
    <3> QED BY <2>1, <3>1, <3>2 DEF PlacingOK, RowFollows, QuestionsFollow
  <2> QED BY <2>4, <2>5
<1>2. OneStart'
  <2> SUFFICES ASSUME NEW b \in Call, NEW c \in Call, Placing(calls'[b]),
                      Placing(calls'[c]), calls'[b].d = calls'[c].d
               PROVE  b = c
    BY DEF OneStart, Placing
  <2>1. Follows(calls[b], calls'[b]) /\ Follows(calls[c], calls'[c])
    BY DEF CallsFollow
  <2> QED BY <2>1 DEF Follows, WorkerInv, OneStart, Placing, Starting
<1>3. WorkersInEpoch'
  BY DEF WorkerInv, WorkersInEpoch, WorkerOK, WorkersFollow, WorkerFollows
<1>4. QuestionsInPlace'
  BY DEF WorkerInv, QuestionsInPlace, ClosedOK, QuestionsFollow, RowsFollow, RowFollows
<1> QED BY <1>1, <1>2, <1>3, <1>4 DEF WorkerInv, HandlersInPlace

-----------------------------------------------------------------------------
(* Handlers that follow.                                                   *)

(* One handler goes on, or begins with something else.                     *)
LEMMA BeginFollows ==
    ASSUME Inv, NEW c \in Call, NEW k, Begin(c, k), Follows(calls[c], k)
    PROVE  CallsFollow
<1> SUFFICES ASSUME NEW b \in Call PROVE Follows(calls[b], calls'[b])
  BY DEF CallsFollow
<1>1. calls'[b] = IF b = c THEN k ELSE calls[b]
  BY DEF Begin, Inv, TypeOK
<1> QED BY <1>1 DEF Follows

(* It ends, or has committed.                                              *)
LEMMA EndFollows ==
    ASSUME Inv, NEW c \in Call, Finish(c) \/ Commit(c)
    PROVE  CallsFollow
<1>1. /\ IdleCall.pc = "idle" /\ [IdleCall EXCEPT !.pc = "notify"].pc = "notify"
  BY DEF IdleCall
<1>2. Follows(calls[c], IdleCall) /\ Follows(calls[c], [IdleCall EXCEPT !.pc = "notify"])
  BY <1>1 DEF Follows, Starting, Placing
<1> QED BY <1>2, BeginFollows DEF Finish, Commit

(* It goes on elsewhere.                                                   *)
LEMMA ElsewhereFollows ==
    ASSUME Inv, NEW c \in Call, NEW k, Begin(c, k),
           k.pc \notin {"starting", "readying", "input", "sent", "show"}
    PROVE  CallsFollow
<1>1. Follows(calls[c], k)
  BY DEF Follows, Starting, Placing
<1> QED BY <1>1, BeginFollows

(* notify() marks handlers and begins nothing.                             *)
LEMMA WokenFollows ==
    ASSUME Inv, NEW c \in Call, NEW k, calls' = Woken(c, k), Follows(calls[c], k)
    PROVE  CallsFollow
<1> SUFFICES ASSUME NEW b \in Call PROVE Follows(calls[b], calls'[b])
  BY DEF CallsFollow
<1>1. calls[b] \in CallState
  BY DEF Inv, TypeOK
<1>2. /\ [calls[b] EXCEPT !.woken = TRUE].pc = calls[b].pc
      /\ [calls[b] EXCEPT !.woken = TRUE].d = calls[b].d
  BY <1>1 DEF CallState
<1>3. \/ b = c /\ calls'[b] = k
      \/ calls'[b] = calls[b]
      \/ calls'[b] = [calls[b] EXCEPT !.woken = TRUE]
  BY DEF Woken
<1> QED BY <1>2, <1>3 DEF Follows, Starting, Placing

-----------------------------------------------------------------------------
(* Tables that follow.                                                     *)

(* Nothing changes.                                                        *)
LEMMA SameRowsFollow == disp' = disp => RowsFollow
BY DEF RowsFollow, RowFollows

(* The same for workers.                                                   *)
LEMMA SameWorkersFollow == worker' = worker => WorkersFollow
BY DEF WorkersFollow, WorkerFollows

(* And for questions.                                                      *)
LEMMA SameQuestionsFollow == quest' = quest => QuestionsFollow
BY DEF QuestionsFollow

(* Dispatches are settled.                                                 *)
LEMMA SettlingFollows ==
    ASSUME Inv, NEW D \in SUBSET DispatchId, \A d \in D : Live(disp[d].st),
           NEW st \in {"completed", "failed"}, disp' = Settled(D, st)
    PROVE  RowsFollow
<1> SUFFICES ASSUME NEW d \in DispatchId PROVE RowFollows(disp[d], disp'[d])
  BY DEF RowsFollow
<1>1. disp[d] \in DispatchRow
  BY DEF Inv, TypeOK
<1>2. [disp[d] EXCEPT !.st = st, !.revoked = TRUE].st = st
  BY <1>1 DEF DispatchRow
<1>3. CASE d \in D
  <2>1. disp'[d].st = st /\ disp[d].st # "absent"
    BY <1>2, <1>3 DEF Settled, Live
  <2> QED BY <2>1 DEF RowFollows
<1>4. CASE d \notin D
  <2>1. disp'[d] = disp[d]
    BY <1>4 DEF Settled
  <2> QED BY <2>1 DEF RowFollows
<1> QED BY <1>3, <1>4

(* A start that fails settles its Dispatch.                                *)
LEMMA FailFollows ==
    ASSUME Inv, NEW d \in DispatchId, Live(disp[d].st), Fail(d)
    PROVE  RowsFollow
<1> SUFFICES ASSUME NEW e \in DispatchId PROVE RowFollows(disp[e], disp'[e])
  BY DEF RowsFollow
<1>1. disp \in [DispatchId -> DispatchRow]
  BY DEF Inv, TypeOK
<1>2. CASE e = d
  <2>1. disp'[d].st \in {"circuit_broken", "failed"}
    BY <1>1 DEF Fail, DispatchRow
  <2> QED BY <1>2, <2>1 DEF RowFollows, Live
<1>3. CASE e # d
  <2>1. disp'[e] = disp[e]
    BY <1>1, <1>3 DEF Fail
  <2> QED BY <2>1 DEF RowFollows
<1> QED BY <1>2, <1>3

(* UPDATE worker_dispatches SET state, to unknown only of another run.     *)
LEMMA WorkerSetFollows ==
    ASSUME Inv, NEW d \in DispatchId,
           NEW st \in {"ready", "start_unknown", "failed", "succeeded",
                       "stopping", "stop_unknown", "stopped", "abandoned"},
           worker' = WorkerSet(d, st),
           st = "start_unknown" => worker[d].st = "none" \/ worker[d].epoch # epoch
    PROVE  WorkersFollow
<1> SUFFICES ASSUME NEW e \in DispatchId PROVE WorkerFollows(worker[e], worker'[e])
  BY DEF WorkersFollow
<1>1. worker \in [DispatchId -> WorkerRow]
  BY DEF Inv, TypeOK
<1>2. CASE worker[d].st = "none" \/ e # d
  <2>1. worker'[e] = worker[e]
    BY <1>1, <1>2 DEF WorkerSet
  <2> QED BY <2>1 DEF WorkerFollows
<1>3. CASE worker[d].st # "none" /\ e = d
  <2>1. worker'[e].st = st /\ worker'[e].epoch = worker[e].epoch
    BY <1>1, <1>3 DEF WorkerSet, WorkerRow
  <2> QED BY <1>3, <2>1 DEF WorkerFollows
<1> QED BY <1>2, <1>3

-----------------------------------------------------------------------------
(* One lemma per group of actions.                                         *)

(* Steps of handlers that change no table.                                 *)
LEMMA QuietSteps ==
    ASSUME Inv, Inv', WorkerInv, NEW c \in Call,
           \/ Notify(c) \/ Drop(c) \/ DispatchRefused(c) \/ InjectAccepted(c)
           \/ StartRefused(c) \/ StartSent(c) \/ StopClose(c)
           \/ ReconcileNothing(c) \/ AskOutOfIds(c) \/ AskRead(c)
           \/ AskTimeout(c) \/ Deadline(c) \/ AskWoken(c) \/ AskNotify(c)
    PROVE  WorkerInv'
<1>0. calls[c] \in CallState
  BY DEF Inv, TypeOK
<1>1. UNCHANGED <<tables, epoch>>
  BY DEF Notify, Drop, DispatchRefused, InjectAccepted, StartRefused, StartSent,
         StopClose, ReconcileNothing, AskOutOfIds, AskRead, AskTimeout, Deadline,
         AskWoken, AskNotify
<1>2. CallsFollow
  <2>1. CASE Drop(c) \/ DispatchRefused(c) \/ InjectAccepted(c) \/ StartRefused(c)
             \/ ReconcileNothing(c) \/ AskOutOfIds(c) \/ AskTimeout(c)
    <3>1. Finish(c) \/ Commit(c)
      BY <2>1 DEF Drop, DispatchRefused, InjectAccepted, StartRefused,
                  ReconcileNothing, AskOutOfIds, AskTimeout
    <3> QED BY <3>1, EndFollows
  <2>2. CASE Notify(c)
    <3>1. Follows(calls[c], IdleCall)
      BY DEF Follows, IdleCall, Starting, Placing
    <3> QED BY <2>2, <3>1, WokenFollows DEF Notify
  <2>3. CASE AskNotify(c)
    <3>1. [calls[c] EXCEPT !.pc = "asking"].pc = "asking"
      BY <1>0 DEF CallState
    <3>2. Follows(calls[c], [calls[c] EXCEPT !.pc = "asking"])
      BY <3>1 DEF Follows, Starting, Placing
    <3> QED BY <2>3, <3>2, WokenFollows DEF AskNotify
  <2>4. CASE StartSent(c)
    <3> DEFINE k == At("sent", None, calls[c].d)
    <3>1. k.pc = "sent" /\ k.d = calls[c].d /\ calls[c].pc = "input" /\ Begin(c, k)
      BY <2>4 DEF StartSent, At, IdleCall
    <3> HIDE DEF k
    <3>2. Follows(calls[c], k)
      BY <3>1 DEF Follows, Starting, Placing
    <3> QED BY <3>1, <3>2, BeginFollows
  <2>5. CASE StopClose(c)
    <3> DEFINE k == At("closed", None, calls[c].d)
    <3>1. k.pc = "closed" /\ Begin(c, k)
      BY <2>5 DEF StopClose, At, IdleCall
    <3> QED BY <3>1, ElsewhereFollows
  <2>6. CASE AskRead(c)
    <3> DEFINE k == [calls[c] EXCEPT !.pc = "wait"]
    <3>1. k.pc = "wait"
      BY <1>0 DEF CallState
    <3>2. Begin(c, k) \/ Finish(c)
      BY <2>6 DEF AskRead, Goto
    <3> QED BY <3>1, <3>2, ElsewhereFollows, EndFollows
  <2>7. CASE Deadline(c)
    <3> DEFINE k == [calls[c] EXCEPT !.late = TRUE]
    <3>1. k.pc \in {"asking", "wait"} /\ Begin(c, k)
      BY <1>0, <2>7 DEF CallState, Deadline
    <3> QED BY <3>1, ElsewhereFollows
  <2>8. CASE AskWoken(c)
    <3> DEFINE k == [calls[c] EXCEPT !.pc = "asking", !.woken = FALSE]
    <3>1. k.pc = "asking" /\ Begin(c, k)
      BY <1>0, <2>8 DEF CallState, AskWoken
    <3> QED BY <3>1, ElsewhereFollows
  <2> QED BY <2>1, <2>2, <2>3, <2>4, <2>5, <2>6, <2>7, <2>8
<1> QED BY <1>1, <1>2, FollowingKeeps, SameRowsFollow, SameWorkersFollow,
           SameQuestionsFollow DEF tables, Inv

(* Requests that only read before they begin, other than worker-show.      *)
LEMMA RequestSteps ==
    ASSUME Inv, Inv', WorkerInv, NEW c \in Call,
           \/ \E t \in Task, h \in Terminal, inject \in BOOLEAN :
                 DispatchTask(c, t, h, inject)
           \/ \E t \in Task, h \in Terminal \cup {None},
                 r \in DispatchId \cup {None} : WorkerStart(c, t, h, r)
           \/ \E d \in DispatchId : WorkerStop(c, d)
           \/ \E h \in Terminal, d \in DispatchId : SendWorkerDone(c, h, d)
           \/ \E h \in Terminal, d \in DispatchId, q \in Question \cup {None} :
                 Ask(c, h, d, q)
    PROVE  WorkerInv'
<1>1. UNCHANGED <<tables, epoch>>
  BY DEF DispatchTask, WorkerStart, WorkerStop, SendWorkerDone, Ask
<1>2. ASSUME NEW t, NEW h, NEW inject, DispatchTask(c, t, h, inject) PROVE CallsFollow
  <2> DEFINE k == [IdleCall EXCEPT !.pc = "dispatch", !.t = t, !.h = h,
                                   !.flag = inject, !.inc = Incarnation(h)]
  <2>1. k.pc = "dispatch" /\ Begin(c, k)
    BY <1>2 DEF DispatchTask, IdleCall
  <2> QED BY <2>1, ElsewhereFollows
<1>3. ASSUME NEW t, NEW h, NEW r, WorkerStart(c, t, h, r) PROVE CallsFollow
  <2> DEFINE k == [IdleCall EXCEPT !.pc = "start", !.t = t, !.h = h, !.d = r]
  <2>1. k.pc = "start" /\ Begin(c, k)
    BY <1>3 DEF WorkerStart, IdleCall
  <2> QED BY <2>1, ElsewhereFollows
<1>4. ASSUME NEW d, WorkerStop(c, d) PROVE CallsFollow
  <2> DEFINE k == [IdleCall EXCEPT !.pc = "stop", !.d = d, !.inc = disp[d].inc,
                     !.h = IF disp[d].who = worker[d].term THEN disp[d].who ELSE None]
  <2>1. k.pc = "stop" /\ Begin(c, k)
    BY <1>4 DEF WorkerStop, IdleCall
  <2> QED BY <2>1, ElsewhereFollows
<1>5. ASSUME NEW h, NEW d, SendWorkerDone(c, h, d) PROVE CallsFollow
  <2> DEFINE k == At("report", h, d)
  <2>1. k.pc = "report" /\ Begin(c, k)
    BY <1>5 DEF SendWorkerDone, At, IdleCall
  <2> QED BY <2>1, ElsewhereFollows
<1>6. ASSUME NEW h, NEW d, NEW q, Ask(c, h, d, q) PROVE CallsFollow
  <2> DEFINE j == [IdleCall EXCEPT !.pc = "ask", !.d = d]
             k == [IdleCall EXCEPT !.pc = "asking", !.d = d, !.q = q]
  <2>1. j.pc = "ask" /\ k.pc = "asking"
    BY DEF IdleCall
  <2>2. Begin(c, j) \/ Begin(c, k)
    BY <1>6 DEF Ask
  <2> QED BY <2>1, <2>2, ElsewhereFollows
<1>7. CallsFollow
  BY <1>2, <1>3, <1>4, <1>5, <1>6
<1> QED BY <1>1, <1>7, FollowingKeeps, SameRowsFollow, SameWorkersFollow,
           SameQuestionsFollow DEF tables, Inv

(* worker-show decides on a row of an earlier run.                         *)
LEMMA ShowSteps ==
    ASSUME Inv, Inv', WorkerInv, NEW c \in Call, NEW d \in DispatchId,
           WorkerShow(c, d)
    PROVE  WorkerInv'
<1> DEFINE k == [IdleCall EXCEPT !.pc = "show", !.d = d,
                   !.st = IF worker[d].st = "starting" THEN "start_unknown"
                          ELSE "stop_unknown"]
<1>1. k.pc = "show" /\ k.d = d
  BY DEF IdleCall
<1>2. Begin(c, k) /\ UNCHANGED <<tables, epoch>>
  BY DEF WorkerShow
<1> HIDE DEF k
<1>3. \A b \in Call : calls'[b] = IF b = c THEN k ELSE calls[b]
  BY <1>2 DEF Begin, Inv, TypeOK
<1>4. UNCHANGED <<disp, worker, quest, epoch>>
  BY <1>2 DEF tables
<1>5. disp[d].st # "absent" /\ worker[d].epoch # epoch
  BY DEF WorkerShow, HasWorker, Live
<1>6. HandlersInPlace'
  <2> SUFFICES ASSUME NEW b \in Call PROVE EpochOK(calls[b])' /\ PlacingOK(calls[b])'
    BY DEF HandlersInPlace
  <2>1. CASE b = c
    BY <1>1, <1>3, <1>4, <1>5, <2>1 DEF EpochOK, PlacingOK, Starting, Placing
  <2>2. CASE b # c
    <3>1. calls'[b] = calls[b]
      BY <1>3, <2>2
    <3> QED BY <1>4, <3>1 DEF WorkerInv, HandlersInPlace, EpochOK, PlacingOK, Starting,
                              Placing
  <2> QED BY <2>1, <2>2
<1>7. OneStart'
  BY <1>1, <1>3 DEF WorkerInv, OneStart, Placing
<1>8. WorkersInEpoch' /\ QuestionsInPlace'
  BY <1>4 DEF WorkerInv, WorkersInEpoch, WorkerOK, QuestionsInPlace, ClosedOK
<1> QED BY <1>6, <1>7, <1>8 DEF WorkerInv

(* Steps that change worker rows only.                                     *)
LEMMA WorkerRowSteps ==
    ASSUME Inv, Inv', WorkerInv, NEW c \in Call,
           \/ \E h \in Terminal : StartTerminal(c, h)
           \/ StartReady(c) \/ SetWorkerUnknown(c) \/ StopMark(c)
           \/ StopDone(c) \/ StopUnknown(c)
    PROVE  WorkerInv'
<1> DEFINE d == calls[c].d
<1>0. calls[c] \in CallState /\ d \in DispatchId
  BY DEF Inv, TypeOK, HandlersAreNamed, Named, StartTerminal, StartReady,
         SetWorkerUnknown, StopMark, StopDone, StopUnknown
<1>1. UNCHANGED <<disp, quest, epoch>>
  BY DEF StartTerminal, StartReady, SetWorkerUnknown, StopMark, StopDone, StopUnknown
<1>2. CallsFollow
  <2>1. CASE StartReady(c) \/ SetWorkerUnknown(c) \/ StopDone(c) \/ StopUnknown(c)
    BY <2>1, EndFollows DEF StartReady, SetWorkerUnknown, StopDone, StopUnknown
  <2>2. CASE StopMark(c)
    <3>1. [calls[c] EXCEPT !.pc = "stopping"].pc = "stopping"
      BY <1>0 DEF CallState
    <3> QED BY <2>2, <3>1, ElsewhereFollows DEF StopMark, Goto
  <2>3. ASSUME NEW h \in Terminal, StartTerminal(c, h) PROVE CallsFollow
    <3> DEFINE k == At("readying", h, calls[c].d)
    <3>1. k.pc = "readying" /\ k.d = calls[c].d /\ calls[c].pc = "starting" /\ Begin(c, k)
      BY <2>3 DEF StartTerminal, At, IdleCall
    <3> HIDE DEF k
    <3>2. Follows(calls[c], k)
      BY <3>1 DEF Follows, Starting, Placing
    <3> QED BY <3>1, <3>2, BeginFollows
  <2> QED BY <2>1, <2>2, <2>3
<1>3. WorkersFollow
  <2>1. CASE StartReady(c) \/ StopMark(c) \/ StopDone(c) \/ StopUnknown(c)
    BY <1>0, <2>1, WorkerSetFollows DEF StartReady, StopMark, StopDone, StopUnknown
  <2>2. CASE SetWorkerUnknown(c)
    <3>1. calls[c].st \in {"start_unknown", "stop_unknown"} /\ calls[c].pc = "show"
      BY <2>2 DEF SetWorkerUnknown, Inv, HandlersAreNamed, Named
    <3>2. worker[d].st = "none" \/ worker[d].epoch # epoch
      BY <3>1 DEF WorkerInv, HandlersInPlace, EpochOK
    <3> QED BY <1>0, <2>2, <3>1, <3>2, WorkerSetFollows DEF SetWorkerUnknown
  <2>3. ASSUME NEW h \in Terminal, StartTerminal(c, h) PROVE WorkersFollow
    <3>1. worker \in [DispatchId -> WorkerRow]
      BY DEF Inv, TypeOK
    <3>2. worker' = worker \/ worker' = [worker EXCEPT ![d].term = h]
      BY <2>3 DEF StartTerminal
    <3>3. ASSUME NEW e \in DispatchId
          PROVE  worker'[e].st = worker[e].st /\ worker'[e].epoch = worker[e].epoch
      BY <1>0, <3>1, <3>2 DEF WorkerRow
    <3> QED BY <3>3 DEF WorkersFollow, WorkerFollows
  <2> QED BY <2>1, <2>2, <2>3
<1> QED BY <1>1, <1>2, <1>3, FollowingKeeps, SameRowsFollow, SameQuestionsFollow DEF Inv

(* Steps that change questions only, and close none.                       *)
LEMMA QuestionSteps ==
    ASSUME Inv, Inv', WorkerInv, NEW c \in Call, NEW q \in Question,
           AskStore(c, q) \/ (\E a \in Answer : ReplyToQuestion(c, q, a))
    PROVE  WorkerInv'
<1>0. calls[c] \in CallState /\ quest \in [Question -> QuestRow]
  BY DEF Inv, TypeOK
<1>1. UNCHANGED <<disp, worker, epoch>>
  BY DEF AskStore, ReplyToQuestion
<1>2. CallsFollow
  <2>1. CASE AskStore(c, q)
    <3>1. [calls[c] EXCEPT !.pc = "asked", !.q = q].pc = "asked"
      BY <1>0 DEF CallState
    <3> QED BY <2>1, <3>1, ElsewhereFollows DEF AskStore
  <2>2. CASE \E a \in Answer : ReplyToQuestion(c, q, a)
    BY <2>2, EndFollows DEF ReplyToQuestion
  <2> QED BY <2>1, <2>2
<1>3. QuestionsFollow
  BY <1>0 DEF AskStore, ReplyToQuestion, QuestionsFollow, QuestRow
<1> QED BY <1>1, <1>2, <1>3, FollowingKeeps, SameRowsFollow, SameWorkersFollow DEF Inv

(* Steps that change Tasks, gates and Dispatches, and make none active.    *)
LEMMA SettlingSteps ==
    ASSUME Inv, Inv', WorkerInv, NEW c \in Call,
           \/ \E t \in Task, deps \in SUBSET Task : TaskCreate(c, t, deps)
           \/ \E t \in Task, st \in Updates : TaskUpdate(c, t, st)
           \/ \E g \in Gate, t \in Task : GateCreate(c, g, t)
           \/ \E g \in Gate : GateResolve(c, g)
           \/ \E d \in DispatchId : WorkerAbandon(c, d)
           \/ InjectFailed(c) \/ StartFailed(c)
    PROVE  WorkerInv'
<1>1. UNCHANGED <<quest, epoch>>
  BY DEF TaskCreate, TaskUpdate, GateCreate, GateResolve, WorkerAbandon, InjectFailed,
         StartFailed
<1>2. Finish(c) \/ Commit(c)
  BY DEF TaskCreate, TaskUpdate, GateCreate, GateResolve, WorkerAbandon, InjectFailed,
         StartFailed
<1>3. CallsFollow
  BY <1>2, EndFollows
<1>4. RowsFollow /\ WorkersFollow
  <2>1. CASE \/ \E t \in Task, deps \in SUBSET Task : TaskCreate(c, t, deps)
             \/ \E g \in Gate : GateResolve(c, g)
    BY <2>1, SameRowsFollow, SameWorkersFollow DEF TaskCreate, GateResolve
  <2>2. CASE \/ \E t \in Task, st \in Updates : TaskUpdate(c, t, st)
             \/ \E g \in Gate, t \in Task : GateCreate(c, g, t)
    <3>1. worker' = worker
      BY <2>2 DEF TaskUpdate, GateCreate
    <3>2. disp' = disp \/ \E t \in Task : disp' = Settled(NewestActive(t), "completed")
      BY <2>2 DEF TaskUpdate, GateCreate
    <3>3. ASSUME NEW t \in Task
          PROVE  /\ NewestActive(t) \in SUBSET DispatchId
                 /\ \A d \in NewestActive(t) : Live(disp[d].st)
      BY DEF NewestActive, Of
    <3> QED BY <3>1, <3>2, <3>3, SettlingFollows, SameRowsFollow, SameWorkersFollow
  <2>3. ASSUME NEW d \in DispatchId, WorkerAbandon(c, d)
        PROVE  RowsFollow /\ WorkersFollow
    <3>1. Live(disp[d].st)
      BY <2>3 DEF WorkerAbandon, HasWorker
    <3>2. \/ worker' = WorkerSet(d, "abandoned") /\ disp' = Settled({d}, "failed")
          \/ UNCHANGED <<disp, worker>>
      BY <2>3 DEF WorkerAbandon
    <3>3. CASE worker' = WorkerSet(d, "abandoned") /\ disp' = Settled({d}, "failed")
      <4>1. {d} \in SUBSET DispatchId /\ \A e \in {d} : Live(disp[e].st)
        BY <3>1
      <4>2. RowsFollow
        BY <3>3, <4>1, SettlingFollows
      <4> QED BY <3>3, <4>2, WorkerSetFollows
    <3> QED BY <3>2, <3>3, SameRowsFollow, SameWorkersFollow
  <2>4. CASE InjectFailed(c) \/ StartFailed(c)
    <3> DEFINE d == calls[c].d
    <3>1. d \in DispatchId
      BY <2>4 DEF Inv, HandlersAreNamed, Named, InjectFailed, StartFailed
    <3>2. disp' = disp \/ (Live(disp[d].st) /\ Fail(d))
      BY <2>4 DEF InjectFailed, StartFailed
    <3>3. worker' = worker \/ worker' = WorkerSet(d, "failed")
      BY <2>4 DEF InjectFailed, StartFailed
    <3> HIDE DEF d
    <3>4. RowsFollow
      BY <3>1, <3>2, FailFollows, SameRowsFollow
    <3>5. WorkersFollow
      BY <3>1, <3>3, WorkerSetFollows, SameWorkersFollow
    <3> QED BY <3>4, <3>5
  <2> QED BY <2>1, <2>2, <2>3, <2>4
<1> QED BY <1>1, <1>3, <1>4, FollowingKeeps, SameQuestionsFollow DEF Inv

(* reset deletes rows.                                                     *)
LEMMA ResetSteps ==
    ASSUME Inv, Inv', WorkerInv, NEW c \in Call, NEW scope, Reset(c, scope)
    PROVE  WorkerInv'
<1>1. epoch' = epoch /\ CallsFollow
  BY EndFollows DEF Reset
<1>2. QuestionsFollow
  <2>1. \A q \in Question : quest'[q] = quest[q] \/ quest'[q].st = "deleted"
    BY DEF Reset, NoQuestion
  <2> QED BY <2>1 DEF QuestionsFollow
<1>3. RowsFollow
  <2>1. ASSUME NEW d \in DispatchId
        PROVE  disp'[d] = disp[d] \/ (Live(disp[d].st) /\ disp'[d].st = "deleted")
    BY DEF Reset, NoDispatch
  <2> QED BY <2>1 DEF RowsFollow, RowFollows, Live
<1>4. WorkersFollow
  BY DEF Reset, WorkersFollow, WorkerFollows, NoWorker
<1> QED BY <1>1, <1>2, <1>3, <1>4, FollowingKeeps DEF Inv

(* A row is inserted where there was none: no handler and no closed        *)
(* question names it.                                                      *)
LEMMA InsertedKeeps ==
    ASSUME Inv, Inv', WorkerInv, NEW c \in Call, NEW d \in DispatchId, NEW k,
           NextDispatch(d), Begin(c, k), UNCHANGED <<quest, epoch>>,
           disp'[d].st # "absent",
           \A e \in DispatchId \ {d} : disp'[e] = disp[e] /\ worker'[e] = worker[e],
           \/ k.pc \in {"notify", "inject"} /\ worker' = worker
           \/ /\ k.pc = "starting" /\ k.d = d /\ disp'[d].st = "pending"
              /\ worker'[d].epoch = epoch /\ worker'[d].st = "starting"
    PROVE  WorkerInv'
<1>0. \A b \in Call : calls'[b] = IF b = c THEN k ELSE calls[b]
  BY DEF Begin, Inv, TypeOK
<1>1. disp[d].st = "absent"
  BY DEF NextDispatch
<1>2. ASSUME NEW b \in Call, b # c, Starting(calls[b]) \/ calls[b].pc = "show"
      PROVE  calls[b].d \in DispatchId \ {d}
  <2>1. calls[b].d \in DispatchId
    BY <1>2 DEF Inv, HandlersAreNamed, Named, Starting
  <2>2. disp[calls[b].d].st # "absent"
    BY <1>2 DEF WorkerInv, HandlersInPlace, EpochOK
  <2> QED BY <1>1, <2>1, <2>2
<1>3. ASSUME NEW q \in Question, quest[q].st = "closed"
      PROVE  quest[q].d \in DispatchId \ {d}
  BY <1>1, <1>3 DEF WorkerInv, QuestionsInPlace, ClosedOK
<1>4. HandlersInPlace'
  <2> SUFFICES ASSUME NEW b \in Call PROVE EpochOK(calls[b])' /\ PlacingOK(calls[b])'
    BY DEF HandlersInPlace
  <2>1. CASE b = c
    <3>1. calls'[b] = k
      BY <1>0, <2>1
    <3> QED BY <1>3, <3>1 DEF EpochOK, PlacingOK, Starting, Placing
  <2>2. CASE b # c
    <3>1. calls'[b] = calls[b]
      BY <1>0, <2>2
    <3>2. EpochOK(calls[b]) /\ PlacingOK(calls[b])
      BY DEF WorkerInv, HandlersInPlace
    <3>3. EpochOK(calls[b])'
      BY <1>2, <2>2, <3>1, <3>2 DEF EpochOK, Starting
    <3>4. PlacingOK(calls[b])'
      <4>1. Placing(calls[b]) => Starting(calls[b])
        BY DEF Placing, Starting
      <4> QED BY <1>2, <2>2, <3>1, <3>2, <4>1 DEF PlacingOK, Placing
    <3> QED BY <3>3, <3>4
  <2> QED BY <2>1, <2>2
<1>5. OneStart'
  <2> SUFFICES ASSUME NEW a \in Call, NEW b \in Call, Placing(calls'[a]),
                      Placing(calls'[b]), calls'[a].d = calls'[b].d
               PROVE  a = b
    BY DEF OneStart, Placing
  <2>1. ASSUME NEW b1 \in Call, b1 # c, Placing(calls'[b1]) PROVE calls'[b1].d # d
    BY <1>0, <1>2, <2>1 DEF Placing, Starting
  <2>2. Placing(k) => k.d = d
    BY DEF Placing
  <2>3. CASE a = c \/ b = c
    BY <1>0, <2>1, <2>2, <2>3
  <2>4. CASE a # c /\ b # c
    BY <1>0, <2>4 DEF WorkerInv, OneStart
  <2> QED BY <2>3, <2>4
<1>6. WorkersInEpoch'
  <2> SUFFICES ASSUME NEW e \in DispatchId PROVE WorkerOK(e)'
    BY DEF WorkersInEpoch
  <2>1. CASE worker'[e] = worker[e]
    BY <2>1 DEF WorkerInv, WorkersInEpoch, WorkerOK
  <2>2. CASE e = d /\ worker'[d].epoch = epoch /\ worker'[d].st = "starting"
    <3>1. epoch \in Epoch /\ epoch \in Nat
      BY ConstantTypes DEF Inv, TypeOK
    <3> QED BY <2>2, <3>1 DEF WorkerOK
  <2> QED BY <2>1, <2>2
<1>7. QuestionsInPlace'
  BY <1>3 DEF WorkerInv, QuestionsInPlace, ClosedOK
<1> QED BY <1>4, <1>5, <1>6, <1>7 DEF WorkerInv

(* dispatch and worker-start insert their rows.                            *)
LEMMA InsertingSteps ==
    ASSUME Inv, Inv', WorkerInv, NEW c \in Call, NEW d \in DispatchId,
           DispatchStore(c, d) \/ CreateStartingWorker(c, d)
    PROVE  WorkerInv'
<1>0. disp \in [DispatchId -> DispatchRow] /\ worker \in [DispatchId -> WorkerRow]
  BY DEF Inv, TypeOK
<1>1. CASE DispatchStore(c, d)
  <2>1. /\ disp'[d].st = "dispatched"
        /\ \A e \in DispatchId \ {d} : disp'[e] = disp[e]
    BY <1>0, <1>1 DEF DispatchStore
  <2>2. NextDispatch(d) /\ UNCHANGED <<worker, quest, epoch>>
    BY <1>1 DEF DispatchStore
  <2>3. \/ Begin(c, At("inject", calls[c].h, d))
        \/ Begin(c, [IdleCall EXCEPT !.pc = "notify"])
    BY <1>1 DEF DispatchStore, Commit
  <2>4. /\ At("inject", calls[c].h, d).pc = "inject"
        /\ [IdleCall EXCEPT !.pc = "notify"].pc = "notify"
    BY DEF At, IdleCall
  <2> QED BY <2>1, <2>2, <2>3, <2>4, InsertedKeeps
<1>2. CASE CreateStartingWorker(c, d)
  <2>1. /\ disp'[d].st = "pending"
        /\ \A e \in DispatchId \ {d} : disp'[e] = disp[e]
    BY <1>0, <1>2 DEF CreateStartingWorker, NoDispatch
  <2>2. /\ worker'[d].st = "starting" /\ worker'[d].epoch = epoch
        /\ \A e \in DispatchId \ {d} : worker'[e] = worker[e]
    BY <1>0, <1>2 DEF CreateStartingWorker
  <2>3. NextDispatch(d) /\ UNCHANGED <<quest, epoch>>
    BY <1>2 DEF CreateStartingWorker
  <2>4. Begin(c, At("starting", calls[c].h, d))
    BY <1>2 DEF CreateStartingWorker
  <2>5. /\ At("starting", calls[c].h, d).pc = "starting"
        /\ At("starting", calls[c].h, d).d = d
    BY DEF At, IdleCall
  <2> QED BY <2>1, <2>2, <2>3, <2>4, <2>5, InsertedKeeps
<1> QED BY <1>1, <1>2

(* The agent is ready: no other start has this Dispatch, and no question   *)
(* of it was closed.                                                       *)
LEMMA PlacedSteps ==
    ASSUME Inv, Inv', WorkerInv, NEW c \in Call, StartDispatch(c)
    PROVE  WorkerInv'
<1> DEFINE d == calls[c].d
           k == [calls[c] EXCEPT !.pc = "input"]
<1>0. /\ calls[c] \in CallState /\ d \in DispatchId /\ calls[c].pc = "readying"
      /\ disp \in [DispatchId -> DispatchRow] /\ worker \in [DispatchId -> WorkerRow]
  BY DEF Inv, TypeOK, HandlersAreNamed, Named, StartDispatch
<1>1. k.pc = "input" /\ k.d = d
  BY <1>0 DEF CallState
<1>2. \A b \in Call : calls'[b] = IF b = c THEN k ELSE calls[b]
  BY DEF StartDispatch, Goto, Begin, Inv, TypeOK
<1>3. UNCHANGED <<quest, epoch>>
  BY DEF StartDispatch
<1>4. /\ \A e \in DispatchId \ {d} : disp'[e] = disp[e]
      /\ disp'[d].st = "absent" <=> disp[d].st = "absent"
  BY <1>0, ZenonT(40) DEF StartDispatch, Live, DispatchRow
<1>5. \A e \in DispatchId :
         /\ worker'[e].st = "none" <=> worker[e].st = "none"
         /\ worker'[e].epoch = worker[e].epoch
         /\ worker'[e].st = "start_unknown" => worker[e].st = "start_unknown"
  BY <1>0 DEF StartDispatch, WorkerRow
<1> HIDE DEF k
<1>6. Placing(calls[c]) /\ EpochOK(calls[c]) /\ PlacingOK(calls[c])
  BY <1>0 DEF WorkerInv, HandlersInPlace, Placing
<1>7. HandlersInPlace'
  <2> SUFFICES ASSUME NEW b \in Call PROVE EpochOK(calls[b])' /\ PlacingOK(calls[b])'
    BY DEF HandlersInPlace
  <2>1. CASE b = c
    <3>1. calls'[b] = k
      BY <1>2, <2>1
    <3>2. EpochOK(calls[b])'
      BY <1>0, <1>1, <1>3, <1>4, <1>5, <1>6, <3>1 DEF EpochOK, Starting
    <3> QED BY <1>1, <3>1, <3>2 DEF PlacingOK, Placing
  <2>2. CASE b # c
    <3>1. calls'[b] = calls[b] /\ EpochOK(calls[b]) /\ PlacingOK(calls[b])
      BY <1>2, <2>2 DEF WorkerInv, HandlersInPlace
    <3>2. Starting(calls[b]) \/ calls[b].pc = "show" => calls[b].d \in DispatchId
      BY DEF Inv, HandlersAreNamed, Named, Starting
    <3>3. EpochOK(calls[b])'
      BY <1>3, <1>4, <1>5, <3>1, <3>2 DEF EpochOK, Starting
    <3>4. Placing(calls[b]) => calls[b].d # d /\ Starting(calls[b])
      BY <1>6, <2>2 DEF WorkerInv, OneStart, Placing, Starting
    <3>5. PlacingOK(calls[b])'
      BY <1>3, <1>4, <3>1, <3>2, <3>4 DEF PlacingOK, Placing
    <3> QED BY <3>3, <3>5
  <2> QED BY <2>1, <2>2
<1>8. OneStart'
  BY <1>1, <1>2 DEF WorkerInv, OneStart, Placing
<1>9. WorkersInEpoch'
  BY <1>3, <1>5 DEF WorkerInv, WorkersInEpoch, WorkerOK
<1>10. QuestionsInPlace'
  <2> SUFFICES ASSUME NEW q \in Question, quest[q].st = "closed" PROVE ClosedOK(q)'
    BY <1>3 DEF QuestionsInPlace, ClosedOK
  <2>1. ClosedOK(q) /\ quest[q].d # d
    BY <1>6 DEF WorkerInv, QuestionsInPlace, PlacingOK
  <2> QED BY <1>3, <1>4, <2>1 DEF ClosedOK
<1> QED BY <1>7, <1>8, <1>9, <1>10 DEF WorkerInv

(* An accepted report closes the questions of a Dispatch that was active,  *)
(* so that its start is past the step that makes it so.                    *)
LEMMA ReportSteps ==
    ASSUME Inv, Inv', WorkerInv, NEW c \in Call, NEW o \in Outcome, Reconcile(c, o)
    PROVE  WorkerInv'
<1> DEFINE d == calls[c].d
           st == IF o = "succeeded" THEN "completed" ELSE "failed"
<1>0. d \in DispatchId /\ disp[d].st = "dispatched" /\ o \in {"succeeded", "failed"}
  BY DEF Inv, HandlersAreNamed, Named, Reconcile, AcceptedReport, Outcome
<1>1. CallsFollow /\ epoch' = epoch
  BY EndFollows DEF Reconcile
<1>2. RowsFollow /\ disp'[d].st \in {"completed", "failed"}
  <2>1. st \in {"completed", "failed"} /\ disp' = Settled({d}, st)
    BY DEF Reconcile
  <2>2. {d} \in SUBSET DispatchId /\ \A e \in {d} : Live(disp[e].st)
    BY <1>0 DEF Live
  <2> HIDE DEF st
  <2>3. RowsFollow
    BY <2>1, <2>2, SettlingFollows
  <2>4. disp[d] \in DispatchRow
    BY <1>0 DEF Inv, TypeOK
  <2> QED BY <1>0, <2>1, <2>3, <2>4 DEF Settled, DispatchRow
<1>3. WorkersFollow
  <2>1. worker' = worker \/ worker' = WorkerSet(d, o)
    BY DEF Reconcile
  <2> QED BY <1>0, <2>1, WorkerSetFollows, SameWorkersFollow
<1>4. ASSUME NEW q \in Question, quest'[q].st = "closed"
      PROVE  quest'[q].d = quest[q].d /\ (quest[q].st = "closed" \/ quest[q].d = d)
  <2>1. quest[q] \in QuestRow
    BY DEF Inv, TypeOK
  <2>2. [quest[q] EXCEPT !.st = "closed"].d = quest[q].d
    BY <2>1 DEF QuestRow
  <2> QED BY <1>4, <2>2 DEF Reconcile
<1> HIDE DEF d
<1>5. HandlersInPlace'
  <2> SUFFICES ASSUME NEW b \in Call PROVE EpochOK(calls[b])' /\ PlacingOK(calls[b])'
    BY DEF HandlersInPlace
  <2> DEFINE k == calls[b]
             l == calls'[b]
  <2>1. EpochOK(k) /\ PlacingOK(k) /\ Follows(k, l)
    BY <1>1 DEF WorkerInv, HandlersInPlace, CallsFollow
  <2>2. /\ Starting(l) \/ l.pc = "show" => l.d \in DispatchId
        /\ Placing(l) => Starting(l)
    BY DEF Inv, HandlersAreNamed, Named, Starting, Placing
  <2>3. EpochOK(calls[b])'
    <3> SUFFICES ASSUME Starting(l) \/ l.pc = "show" PROVE EpochOK(calls[b])'
      BY DEF EpochOK, Starting
    <3>1. l.d = k.d /\ l.d \in DispatchId
      BY <2>1, <2>2 DEF Follows
    <3>2. RowFollows(disp[l.d], disp'[l.d]) /\ WorkerFollows(worker[l.d], worker'[l.d])
      BY <1>2, <1>3, <3>1 DEF RowsFollow, WorkersFollow
    <3> QED BY <1>1, <2>1, <3>1, <3>2 DEF EpochOK, Follows, RowFollows, WorkerFollows,
                                          Starting
  <2>4. PlacingOK(calls[b])'
    <3> SUFFICES ASSUME Placing(l) PROVE PlacingOK(calls[b])'
      BY DEF PlacingOK, Placing
    <3>1. l.d = k.d /\ l.d \in DispatchId /\ Placing(k)
      BY <2>1, <2>2 DEF Follows
    <3>2. RowFollows(disp[l.d], disp'[l.d])
      BY <1>2, <3>1 DEF RowsFollow
    <3>3. k.d # d
      BY <1>0, <2>1, <3>1 DEF PlacingOK
    <3> QED BY <1>4, <2>1, <3>1, <3>2, <3>3 DEF PlacingOK, RowFollows
  <2> QED BY <2>3, <2>4
<1>6. OneStart'
  <2> SUFFICES ASSUME NEW a \in Call, NEW b \in Call, Placing(calls'[a]),
                      Placing(calls'[b]), calls'[a].d = calls'[b].d
               PROVE  a = b
    BY DEF OneStart, Placing
  <2>1. Follows(calls[a], calls'[a]) /\ Follows(calls[b], calls'[b])
    BY <1>1 DEF CallsFollow
  <2> QED BY <2>1 DEF Follows, WorkerInv, OneStart, Placing, Starting
<1>7. WorkersInEpoch'
  BY <1>1, <1>3 DEF WorkerInv, WorkersInEpoch, WorkerOK, WorkersFollow, WorkerFollows
<1>8. QuestionsInPlace'
  <2> SUFFICES ASSUME NEW q \in Question, quest'[q].st = "closed" PROVE ClosedOK(q)'
    BY DEF QuestionsInPlace, ClosedOK
  <2>1. quest'[q].d = quest[q].d /\ (quest[q].st = "closed" \/ quest[q].d = d)
    BY <1>4
  <2>2. CASE quest[q].d = d
    BY <1>0, <1>2, <2>1, <2>2 DEF ClosedOK
  <2>3. CASE quest[q].st = "closed"
    <3>1. ClosedOK(q)
      BY DEF WorkerInv, QuestionsInPlace
    <3>2. quest[q].d \in DispatchId /\ RowFollows(disp[quest[q].d], disp'[quest[q].d])
      BY <1>2, <2>3, <3>1 DEF ClosedOK, RowsFollow
    <3> QED BY <2>1, <2>3, <3>1, <3>2 DEF ClosedOK, RowFollows
  <2> QED BY <2>1, <2>2, <2>3
<1> QED BY <1>5, <1>6, <1>7, <1>8 DEF WorkerInv

(* A restart makes every worker one of an earlier run, and leaves no       *)
(* handler.                                                                *)
LEMMA RestartSteps ==
    ASSUME Inv, Inv', WorkerInv, Restart
    PROVE  WorkerInv'
<1>1. /\ UNCHANGED <<disp, worker, quest>> /\ epoch' = epoch + 1
      /\ \A c \in Call : calls'[c].pc = "idle"
  BY DEF Restart, tables, IdleCall
<1>2. HandlersInPlace' /\ OneStart'
  BY <1>1 DEF HandlersInPlace, OneStart, EpochOK, PlacingOK, Starting, Placing
<1>3. WorkersInEpoch'
  <2> SUFFICES ASSUME NEW d \in DispatchId PROVE WorkerOK(d)'
    BY DEF WorkersInEpoch
  <2>1. WorkerOK(d) /\ epoch \in Nat
    BY ConstantTypes DEF WorkerInv, WorkersInEpoch, Inv, TypeOK
  <2>2. worker[d].epoch \in Epoch => worker[d].epoch \in Nat
    BY ConstantTypes
  <2> QED BY <1>1, <2>1, <2>2 DEF WorkerOK
<1>4. QuestionsInPlace'
  BY <1>1 DEF WorkerInv, QuestionsInPlace, ClosedOK
<1> QED BY <1>2, <1>3, <1>4 DEF WorkerInv

(* A terminal that goes away, or nothing at all.                           *)
LEMMA StillSteps ==
    ASSUME Inv, Inv', WorkerInv, UNCHANGED <<disp, worker, quest, epoch, calls>>
    PROVE  WorkerInv'
<1>1. CallsFollow
  BY DEF CallsFollow, Follows
<1> QED BY <1>1, FollowingKeeps, SameRowsFollow, SameWorkersFollow, SameQuestionsFollow
        DEF Inv

-----------------------------------------------------------------------------
(* The invariant is inductive.                                             *)

(* It holds of the empty tables.                                           *)
LEMMA InitWorker == Init => WorkerInv
<1> SUFFICES ASSUME Init PROVE WorkerInv
  OBVIOUS
<1>1. \A c \in Call : calls[c].pc = "idle"
  BY DEF Init, IdleCall
<1>2. HandlersInPlace /\ OneStart
  BY <1>1 DEF HandlersInPlace, EpochOK, PlacingOK, Starting, Placing, OneStart
<1>3. WorkersInEpoch
  BY DEF Init, WorkersInEpoch, WorkerOK, NoWorker
<1>4. QuestionsInPlace
  BY DEF Init, QuestionsInPlace, ClosedOK, NoQuestion
<1> QED BY <1>2, <1>3, <1>4 DEF WorkerInv

(* Every step keeps it.                                                    *)
LEMMA NextWorker == Inv /\ Inv' /\ WorkerInv /\ [Next]_vars => WorkerInv'
<1> SUFFICES ASSUME Inv, Inv', WorkerInv, [Next]_vars PROVE WorkerInv'
  OBVIOUS
<1>1. ASSUME NEW c \in Call, Step(c) PROVE WorkerInv'
  BY <1>1, QuietSteps, WorkerRowSteps, QuestionSteps, SettlingSteps, InsertingSteps,
     PlacedSteps, ReportSteps DEF Step
<1>2. ASSUME NEW c \in Call, Request(c) PROVE WorkerInv'
  BY <1>2, RequestSteps, ShowSteps, QuestionSteps, SettlingSteps, ResetSteps DEF Request
<1>3. ASSUME NEW c \in Call, Deadline(c) \/ Drop(c) PROVE WorkerInv'
  BY <1>3, QuietSteps
<1>4. ASSUME NEW h \in Terminal, TerminalExit(h) PROVE WorkerInv'
  BY <1>4, StillSteps DEF TerminalExit, tables
<1>5. CASE Restart
  BY <1>5, RestartSteps
<1>6. CASE UNCHANGED vars
  BY <1>6, StillSteps DEF vars
<1> QED BY <1>1, <1>2, <1>3, <1>4, <1>5, <1>6 DEF Next, Serve

(* So every reachable state satisfies it.                                  *)
LEMMA SpecWorker == Spec => []WorkerInv
BY InitWorker, NextWorker, SpecInv, PTL DEF Spec

(* worker-show calls no start unknown that is still going on, although it  *)
(* decides on one read and writes in a later step, between which the start *)
(* may go on, end or be deleted: only the runs of the daemon tell the two  *)
(* apart.                                                                  *)
THEOREM UnknownStartIsOver == Spec => []UnknownIsHonest
<1>1. Inv /\ WorkerInv => UnknownIsHonest
  <2> SUFFICES ASSUME WorkerInv, NEW d \in DispatchId, NEW c \in Call,
                      worker[d].st = "start_unknown", calls[c].d = d,
                      Starting(calls[c])
               PROVE  FALSE
    BY DEF UnknownIsHonest, Starting
  <2>1. WorkerOK(d) /\ EpochOK(calls[c])
    BY DEF WorkerInv, WorkersInEpoch, HandlersInPlace
  <2> QED BY <2>1 DEF WorkerOK, EpochOK
<1> QED BY <1>1, SpecInv, SpecWorker, PTL

(* A question that worker_done closed stays one of a settled Dispatch:     *)
(* worker-start, which makes a settled Dispatch active again when the      *)
(* agent is ready, does so only before any report of it can be accepted.   *)
THEOREM ClosedQuestionIsSettled == Spec => []ClosedMeansSettled
<1>1. WorkerInv => ClosedMeansSettled
  BY DEF WorkerInv, QuestionsInPlace, ClosedOK, ClosedMeansSettled, Active
<1> QED BY <1>1, SpecWorker, PTL

-----------------------------------------------------------------------------
(* Tasks that wait.                                                        *)

(* Nobody makes a Task pending again: task-update is not called with that  *)
(* status.                                                                 *)
NoForcedWait == "pending" \notin Updates

(* UPDATE tasks SET status, to neither pending nor completed.              *)
LEMMA SettingForgetsNone ==
    ASSUME Inv, NoForgottenTask, NEW t \in Task \cup {None},
           NEW st \in {"ready", "dispatched", "failed", "blocked"},
           task' = TaskSet(t, st)
    PROVE  NoForgottenTask'
<1>1. task \in [Task -> TaskRow]
  BY DEF Inv, TypeOK
<1>2. \A u \in Task : task'[u] = task[u] \/ task'[u].st = st
  BY <1>1 DEF TaskSet, TaskRow
<1> SUFFICES ASSUME NEW u \in Task, task'[u].st = "pending", ~task'[u].late
             PROVE  \E e \in task'[u].deps : task'[e].st # "completed"
  BY DEF NoForgottenTask
<1>3. task'[u] = task[u]
  BY <1>2
<1>4. PICK e \in task[u].deps : task[e].st # "completed"
  BY <1>3 DEF NoForgottenTask
<1>5. e \in Task
  BY <1>1, <1>4 DEF TaskRow
<1> QED BY <1>2, <1>3, <1>4, <1>5

(* UPDATE tasks SET status = 'completed', and promote_ready_tasks.         *)
LEMMA CompletingForgetsNone ==
    ASSUME Inv, NoForgottenTask, NEW t \in Task, Live(task[t].st),
           task' = Promote(TaskSet(t, "completed"), t)
    PROVE  NoForgottenTask'
<1> DEFINE tasks == TaskSet(t, "completed")
<1>1. task \in [Task -> TaskRow] /\ tasks = [task EXCEPT ![t].st = "completed"]
  BY DEF Inv, TypeOK, TaskSet
<1>2. /\ tasks \in [Task -> TaskRow] /\ tasks[t].st = "completed"
      /\ \A u \in Task : u # t => tasks[u] = task[u]
  BY <1>1 DEF TaskRow
<1> HIDE DEF tasks
<1>3. ASSUME NEW u \in Task
      PROVE  \/ /\ task'[u] = tasks[u]
                /\ tasks[u].st = "pending" /\ t \in tasks[u].deps =>
                      \E e \in tasks[u].deps : tasks[e].st # "completed"
             \/ task'[u].st = "ready" /\ tasks[u].st = "pending"
  <2>1. [tasks[u] EXCEPT !.st = "ready"].st = "ready"
    BY <1>2 DEF TaskRow
  <2> QED BY <2>1 DEF Promote, tasks
<1> SUFFICES ASSUME NEW u \in Task, task'[u].st = "pending", ~task'[u].late
             PROVE  \E e \in task'[u].deps : task'[e].st # "completed"
  BY DEF NoForgottenTask
<1>4. task'[u] = tasks[u] /\ u # t /\ tasks[u] = task[u]
  BY <1>2, <1>3
<1>5. \E e \in tasks[u].deps : tasks[e].st # "completed"
  <2>1. CASE t \in tasks[u].deps
    BY <1>3, <1>4, <2>1
  <2>2. CASE t \notin tasks[u].deps
    <3>1. PICK e \in task[u].deps : task[e].st # "completed"
      BY <1>4 DEF NoForgottenTask
    <3>2. e \in Task /\ e # t
      BY <1>1, <1>4, <2>2, <3>1 DEF TaskRow
    <3> QED BY <1>2, <1>4, <3>1, <3>2
  <2> QED BY <2>1, <2>2
<1>6. PICK e \in tasks[u].deps : tasks[e].st # "completed"
  BY <1>5
<1>7. e \in Task
  BY <1>2, <1>6 DEF TaskRow
<1>8. task'[e].st # "completed"
  BY <1>3, <1>6, <1>7
<1> QED BY <1>4, <1>6, <1>8

(* task-create makes a Task wait for another one, unless all are done.     *)
LEMMA CreatingForgetsNone ==
    ASSUME Inv, NoForgottenTask, NEW c \in Call, NEW t \in Task,
           NEW deps \in SUBSET Task, TaskCreate(c, t, deps)
    PROVE  NoForgottenTask'
<1>1. task \in [Task -> TaskRow] /\ task[t].st = "absent"
  BY DEF Inv, TypeOK, TaskCreate
<1>2. /\ \A u \in Task : u # t => task'[u] = task[u]
      /\ task'[t].deps = deps
      /\ task'[t].late = (\A u \in deps : task[u].st = "completed")
      /\ t \notin deps
  BY <1>1 DEF TaskCreate, Live
<1>3. task'[t].st \in {"ready", "pending"}
  BY <1>1 DEF TaskCreate
<1> SUFFICES ASSUME NEW u \in Task, task'[u].st = "pending", ~task'[u].late
             PROVE  \E e \in task'[u].deps : task'[e].st # "completed"
  BY DEF NoForgottenTask
<1>4. CASE u = t
  BY <1>2, <1>4
<1>5. CASE u # t
  <2>1. PICK e \in task[u].deps : task[e].st # "completed"
    BY <1>2, <1>5 DEF NoForgottenTask
  <2>2. e \in Task
    BY <1>1, <2>1 DEF TaskRow
  <2> QED BY <1>2, <1>3, <1>5, <2>1, <2>2
<1> QED BY <1>4, <1>5

(* Requests that change Tasks.                                             *)
LEMMA RequestsForgetNone ==
    ASSUME Inv, NoForgottenTask, NoForcedWait, NEW c \in Call,
           \/ \E t \in Task, deps \in SUBSET Task : TaskCreate(c, t, deps)
           \/ \E t \in Task, st \in Updates : TaskUpdate(c, t, st)
           \/ \E g \in Gate, t \in Task : GateCreate(c, g, t)
           \/ \E g \in Gate : GateResolve(c, g)
           \/ \E d \in DispatchId : WorkerAbandon(c, d)
           \/ \E scope \in {"tasks", "messages"} : Reset(c, scope)
    PROVE  NoForgottenTask'
<1>0. task' = task => NoForgottenTask'
  BY DEF NoForgottenTask
<1>1. CASE \E t \in Task, deps \in SUBSET Task : TaskCreate(c, t, deps)
  BY <1>1, CreatingForgetsNone
<1>2. ASSUME NEW t \in Task, NEW st \in Updates, TaskUpdate(c, t, st)
      PROVE  NoForgottenTask'
  <2>1. CASE st = "completed"
    BY <1>2, <2>1, CompletingForgetsNone DEF TaskUpdate
  <2>2. CASE st # "completed"
    <3>1. task' = TaskSet(t, st)
      BY <1>2, <2>2 DEF TaskUpdate
    <3>2. st \in {"ready", "dispatched", "failed", "blocked"}
      BY <2>2, ConstantTypes DEF NoForcedWait
    <3> QED BY <3>1, <3>2, SettingForgetsNone
  <2> QED BY <2>1, <2>2
<1>3. CASE \E g \in Gate, t \in Task : GateCreate(c, g, t)
  BY <1>3, SettingForgetsNone DEF GateCreate
<1>4. ASSUME NEW g \in Gate, GateResolve(c, g) PROVE NoForgottenTask'
  <2>1. gate[g].task \in Task \cup {None}
    BY DEF Inv, TypeOK, GateRow
  <2> QED BY <1>4, <2>1, SettingForgetsNone DEF GateResolve
<1>5. ASSUME NEW d \in DispatchId, WorkerAbandon(c, d) PROVE NoForgottenTask'
  <2>1. disp[d].task \in Task \cup {None}
    BY DispatchFields DEF Inv
  <2>2. task' = task \/ task' = TaskSet(disp[d].task, "blocked")
    BY <1>5 DEF WorkerAbandon
  <2> QED BY <1>0, <2>1, <2>2, SettingForgetsNone
<1>6. ASSUME NEW scope, Reset(c, scope) PROVE NoForgottenTask'
  <2>1. CASE task' = task
    BY <1>0, <2>1
  <2>2. CASE task' # task
    <3>1. \A t \in Task : task'[t].st \in {"deleted", "absent"}
      BY <1>6, <2>2 DEF Reset, NoTask, Live
    <3> QED BY <3>1 DEF NoForgottenTask
  <2> QED BY <2>1, <2>2
<1> QED BY <1>1, <1>2, <1>3, <1>4, <1>5, <1>6

(* Steps of handlers that change Tasks.                                    *)
LEMMA HandlersForgetNone ==
    ASSUME Inv, NoForgottenTask, NEW c \in Call,
           \/ \E d \in DispatchId : DispatchStore(c, d) \/ CreateStartingWorker(c, d)
           \/ InjectFailed(c) \/ StartFailed(c)
           \/ \E o \in Outcome : Reconcile(c, o)
    PROVE  NoForgottenTask'
<1>0. task' = task => NoForgottenTask'
  BY DEF NoForgottenTask
<1>1. CASE \E d \in DispatchId : DispatchStore(c, d) \/ CreateStartingWorker(c, d)
  <2>1. calls[c].pc \in {"dispatch", "start"} /\ task' = TaskSet(calls[c].t, "dispatched")
    BY <1>1 DEF DispatchStore, CreateStartingWorker
  <2>2. calls[c].t \in Task
    BY <2>1 DEF Inv, HandlersAreNamed, Named
  <2> QED BY <2>1, <2>2, SettingForgetsNone
<1>2. CASE InjectFailed(c) \/ StartFailed(c)
  <2> DEFINE d == calls[c].d
  <2>1. d \in DispatchId
    BY <1>2 DEF Inv, HandlersAreNamed, Named, InjectFailed, StartFailed
  <2>2. disp[d].task \in Task \cup {None}
    BY <2>1, DispatchFields DEF Inv
  <2>3. \/ task' = task \/ task' = TaskSet(disp[d].task, "failed")
        \/ task' = TaskSet(disp[d].task, "ready")
    BY <1>2 DEF InjectFailed, StartFailed, Fail
  <2> QED BY <1>0, <2>2, <2>3, SettingForgetsNone
<1>3. ASSUME NEW o \in Outcome, Reconcile(c, o) PROVE NoForgottenTask'
  <2> DEFINE t == disp[calls[c].d].task
  <2>1. t \in Task /\ Live(task[t].st)
    BY <1>3 DEF Reconcile, AcceptedReport, Live
  <2>2. \/ task' = Promote(TaskSet(t, "completed"), t) \/ task' = TaskSet(t, "failed")
    BY <1>3 DEF Reconcile
  <2> QED BY <2>1, <2>2, CompletingForgetsNone, SettingForgetsNone
<1> QED BY <1>1, <1>2, <1>3

(* task-update, worker_done and everything else that completes a Task      *)
(* release the Tasks that waited for it last, however completions, gates,  *)
(* retries and resets interleave: a Task that waits although nothing is    *)
(* left to wait for was created so.  (As long as nobody calls task-update  *)
(* with the status pending.)                                               *)
THEOREM NoTaskIsForgotten ==
    ASSUME NoForcedWait
    PROVE  Spec => []NoForgottenTask
<1>1. Init => NoForgottenTask
  BY DEF Init, NoForgottenTask, NoTask
<1>2. Inv /\ NoForgottenTask /\ [Next]_vars => NoForgottenTask'
  <2> SUFFICES ASSUME Inv, NoForgottenTask, [Next]_vars PROVE NoForgottenTask'
    OBVIOUS
  <2>0. task' = task => NoForgottenTask'
    BY DEF NoForgottenTask
  <2>1. ASSUME NEW c \in Call, Step(c) PROVE NoForgottenTask'
    BY <2>0, <2>1, HandlersForgetNone
       DEF Step, tables, Notify, DispatchRefused, InjectAccepted, StartRefused,
           StartTerminal, StartDispatch, StartSent, StartReady, SetWorkerUnknown,
           StopMark, StopClose, StopDone, StopUnknown, ReconcileNothing, AskStore,
           AskOutOfIds, AskNotify, AskRead, AskWoken, AskTimeout
  <2>2. ASSUME NEW c \in Call, Request(c) PROVE NoForgottenTask'
    BY <2>0, <2>2, RequestsForgetNone
       DEF Request, tables, DispatchTask, WorkerStart, WorkerShow, WorkerStop,
           SendWorkerDone, Ask, ReplyToQuestion
  <2>3. CASE Restart \/ UNCHANGED vars \/ \E h \in Terminal : TerminalExit(h)
    BY <2>0, <2>3 DEF Restart, vars, TerminalExit, tables
  <2>4. CASE \E c \in Call : Deadline(c) \/ Drop(c)
    BY <2>0, <2>4 DEF Deadline, Drop, tables
  <2> QED BY <2>1, <2>2, <2>3, <2>4 DEF Next, Serve
<1> QED BY <1>1, <1>2, SpecInv, PTL DEF Spec

-----------------------------------------------------------------------------
(* Answers.                                                                *)

(* An ask that has its question names it.                                  *)
AsksNamed ==
    \A c \in Call : calls[c].pc \in {"asked", "asking", "wait"} =>
        calls[c].q \in Question

(* Somebody is about to notify.                                            *)
Announcing(k) == k.pc \in {"notify", "asked"}

AnswerInv == AsksNamed /\ NoLostAnswer

(* A handler that announces nothing yet goes on, and no question changes:  *)
(* it starts to wait for a question it has just found pending.             *)
LEMMA ReadingKeepsAnswers ==
    ASSUME Inv, AnswerInv, NEW c \in Call, NEW k, Begin(c, k), quest' = quest,
           ~Announcing(calls[c]),
           k.pc \in {"asked", "asking", "wait"} => k.q \in Question,
           k.pc = "wait" => \/ quest[k.q].st = "pending"
                            \/ /\ calls[c].pc = "wait" /\ k.q = calls[c].q
                               /\ k.woken = calls[c].woken
    PROVE  AnswerInv'
<1>1. \A b \in Call : calls'[b] = IF b = c THEN k ELSE calls[b]
  BY DEF Begin, Inv, TypeOK
<1>2. AsksNamed'
  BY <1>1 DEF AnswerInv, AsksNamed
<1>3. ASSUME NEW n \in Call, Announcing(calls[n]) PROVE Announcing(calls'[n])
  BY <1>1, <1>3
<1>4. NoLostAnswer'
  <2> SUFFICES ASSUME NEW b \in Call, calls'[b].pc = "wait",
                      quest[calls'[b].q].st # "pending", ~calls'[b].woken
               PROVE  \E n \in Call : Announcing(calls'[n])
    BY DEF NoLostAnswer, Announcing
  <2>1. /\ calls[b].pc = "wait" /\ calls'[b].q = calls[b].q
        /\ calls'[b].woken = calls[b].woken
    BY <1>1
  <2>2. \E n \in Call : Announcing(calls[n])
    BY <2>1 DEF AnswerInv, NoLostAnswer, Announcing
  <2> QED BY <1>3, <2>2
<1> QED BY <1>2, <1>4 DEF AnswerInv

(* A handler that committed announces whatever it changed.                 *)
LEMMA CommittingKeepsAnswers ==
    ASSUME Inv, AnswerInv, NEW c \in Call, NEW k, Begin(c, k), Announcing(k),
           k.pc = "asked" => k.q \in Question
    PROVE  AnswerInv'
<1>1. \A b \in Call : calls'[b] = IF b = c THEN k ELSE calls[b]
  BY DEF Begin, Inv, TypeOK
<1>2. AsksNamed'
  BY <1>1 DEF AnswerInv, AsksNamed, Announcing
<1>3. NoLostAnswer'
  BY <1>1 DEF NoLostAnswer, Announcing
<1> QED BY <1>2, <1>3 DEF AnswerInv

(* notify() wakes everybody who waits.                                     *)
LEMMA NotifyingKeepsAnswers ==
    ASSUME Inv, AnswerInv, NEW c \in Call, NEW k, calls' = Woken(c, k),
           k.pc \in {"idle", "asking"}, k.pc = "asking" => k.q \in Question
    PROVE  AnswerInv'
<1>1. ASSUME NEW b \in Call
      PROVE  \/ b = c /\ calls'[b] = k
             \/ calls'[b] = calls[b] /\ calls[b].pc \notin {"asking", "wait"}
             \/ /\ calls'[b].pc = calls[b].pc /\ calls'[b].q = calls[b].q
                /\ calls'[b].woken
  <2>1. calls[b] \in CallState
    BY DEF Inv, TypeOK
  <2>2. LET w == [calls[b] EXCEPT !.woken = TRUE]
        IN  w.pc = calls[b].pc /\ w.q = calls[b].q /\ w.woken
    BY <2>1 DEF CallState
  <2> QED BY <2>2 DEF Woken
<1>2. AsksNamed'
  BY <1>1 DEF AnswerInv, AsksNamed
<1>3. NoLostAnswer'
  BY <1>1 DEF NoLostAnswer
<1> QED BY <1>2, <1>3 DEF AnswerInv

(* A handler that ends, having changed nothing.                            *)
LEMMA EndingKeepsAnswers ==
    ASSUME Inv, AnswerInv, NEW c \in Call, ~Announcing(calls[c]),
           \/ Commit(c)
           \/ Finish(c) /\ quest' = quest
    PROVE  AnswerInv'
<1>1. IdleCall.pc = "idle" /\ [IdleCall EXCEPT !.pc = "notify"].pc = "notify"
  BY DEF IdleCall
<1>2. Announcing([IdleCall EXCEPT !.pc = "notify"])
  BY <1>1 DEF Announcing
<1>3. CASE Commit(c)
  BY <1>1, <1>2, <1>3, CommittingKeepsAnswers DEF Commit
<1>4. CASE Finish(c) /\ quest' = quest
  BY <1>1, <1>4, ReadingKeepsAnswers DEF Finish
<1> QED BY <1>3, <1>4

(* Steps of handlers that end, or go on without their question.            *)
LEMMA WorkKeepsAnswers ==
    ASSUME Inv, AnswerInv, NEW c \in Call,
           \/ DispatchRefused(c) \/ InjectAccepted(c) \/ InjectFailed(c)
           \/ StartRefused(c) \/ StartReady(c) \/ StartFailed(c) \/ StartSent(c)
           \/ StartDispatch(c) \/ SetWorkerUnknown(c) \/ StopMark(c)
           \/ StopClose(c) \/ StopDone(c) \/ StopUnknown(c)
           \/ \E d \in DispatchId : DispatchStore(c, d) \/ CreateStartingWorker(c, d)
           \/ \E h \in Terminal : StartTerminal(c, h)
           \/ (\E o \in Outcome : Reconcile(c, o)) \/ ReconcileNothing(c)
           \/ AskOutOfIds(c) \/ AskTimeout(c)
    PROVE  AnswerInv'
<1>0. calls[c] \in CallState
  BY DEF Inv, TypeOK
<1>1. ~Announcing(calls[c])
  BY DEF Announcing, DispatchRefused, InjectAccepted, InjectFailed, StartRefused,
         StartReady, StartFailed, StartSent, StartDispatch, SetWorkerUnknown, StopMark,
         StopClose, StopDone, StopUnknown, DispatchStore, CreateStartingWorker,
         StartTerminal, Reconcile, ReconcileNothing, AskOutOfIds, AskTimeout
<1>2. ASSUME NEW k, Begin(c, k), quest' = quest, k.pc \notin {"asked", "asking", "wait"}
      PROVE  AnswerInv'
  BY <1>1, <1>2, ReadingKeepsAnswers
<1>3. CASE \/ DispatchRefused(c) \/ InjectAccepted(c) \/ InjectFailed(c)
           \/ StartRefused(c) \/ StartReady(c) \/ StartFailed(c)
           \/ SetWorkerUnknown(c) \/ StopDone(c) \/ StopUnknown(c)
           \/ (\E o \in Outcome : Reconcile(c, o)) \/ ReconcileNothing(c)
           \/ AskOutOfIds(c) \/ AskTimeout(c)
  <2>1. Commit(c) \/ (Finish(c) /\ quest' = quest)
    BY <1>3 DEF DispatchRefused, InjectAccepted, InjectFailed, StartRefused, StartReady,
         StartFailed, SetWorkerUnknown, StopDone, StopUnknown, Reconcile,
         ReconcileNothing, AskOutOfIds, AskTimeout, tables
  <2> QED BY <1>1, <2>1, EndingKeepsAnswers
<1>4. CASE StartSent(c) \/ StopClose(c) \/ \E h \in Terminal : StartTerminal(c, h)
  <2>1. quest' = quest
    BY <1>4 DEF StartSent, StopClose, StartTerminal, tables
  <2>2. PICK pc, h : /\ pc \in {"sent", "closed", "readying"}
                     /\ Begin(c, At(pc, h, calls[c].d))
    <3>1. CASE StartSent(c)
      BY <3>1 DEF StartSent
    <3>2. CASE StopClose(c)
      BY <3>2 DEF StopClose
    <3>3. ASSUME NEW h \in Terminal, StartTerminal(c, h)
          PROVE  Begin(c, At("readying", h, calls[c].d))
      BY <3>3 DEF StartTerminal
    <3> QED BY <1>4, <3>1, <3>2, <3>3
  <2>3. At(pc, h, calls[c].d).pc = pc
    BY DEF At, IdleCall
  <2> QED BY <1>2, <2>1, <2>2, <2>3
<1>5. CASE StartDispatch(c) \/ StopMark(c)
  <2>1. quest' = quest
    BY <1>5 DEF StartDispatch, StopMark
  <2>2. PICK pc \in {"input", "stopping"} : Begin(c, [calls[c] EXCEPT !.pc = pc])
    BY <1>5 DEF StartDispatch, StopMark, Goto
  <2>3. [calls[c] EXCEPT !.pc = pc].pc = pc
    BY <1>0 DEF CallState
  <2> QED BY <1>2, <2>1, <2>2, <2>3
<1>6. ASSUME NEW d \in DispatchId, DispatchStore(c, d) PROVE AnswerInv'
  <2>1. quest' = quest /\ (Commit(c) \/ Begin(c, At("inject", calls[c].h, d)))
    BY <1>6 DEF DispatchStore
  <2>2. At("inject", calls[c].h, d).pc = "inject"
    BY DEF At, IdleCall
  <2> QED BY <1>1, <1>2, <2>1, <2>2, EndingKeepsAnswers
<1>7. ASSUME NEW d \in DispatchId, CreateStartingWorker(c, d) PROVE AnswerInv'
  <2>1. quest' = quest /\ Begin(c, At("starting", calls[c].h, d))
    BY <1>7 DEF CreateStartingWorker
  <2>2. At("starting", calls[c].h, d).pc = "starting"
    BY DEF At, IdleCall
  <2> QED BY <1>2, <2>1, <2>2
<1> QED BY <1>3, <1>4, <1>5, <1>6, <1>7

(* Steps of an ask, and notify().                                          *)
LEMMA AsksKeepAnswers ==
    ASSUME Inv, AnswerInv, NEW c \in Call,
           \/ Notify(c) \/ AskNotify(c) \/ AskRead(c) \/ AskWoken(c) \/ Deadline(c)
           \/ \E q \in Question : AskStore(c, q)
    PROVE  AnswerInv'
<1>0. calls[c] \in CallState
  BY DEF Inv, TypeOK
<1>1. CASE Notify(c)
  <2>1. IdleCall.pc = "idle"
    BY DEF IdleCall
  <2> QED BY <1>1, <2>1, NotifyingKeepsAnswers DEF Notify
<1>2. CASE AskNotify(c)
  <2> DEFINE k == [calls[c] EXCEPT !.pc = "asking"]
  <2>1. k.pc = "asking" /\ k.q = calls[c].q
    BY <1>0 DEF CallState
  <2>2. calls[c].q \in Question /\ calls' = Woken(c, k)
    BY <1>2 DEF AskNotify, AnswerInv, AsksNamed
  <2> HIDE DEF k
  <2> QED BY <2>1, <2>2, NotifyingKeepsAnswers
<1>3. CASE AskRead(c)
  <2> DEFINE k == [calls[c] EXCEPT !.pc = "wait"]
  <2>1. k.pc = "wait" /\ k.q = calls[c].q
    BY <1>0 DEF CallState
  <2>2. /\ quest' = quest /\ ~Announcing(calls[c]) /\ calls[c].q \in Question
        /\ Finish(c) \/ (Begin(c, k) /\ quest[calls[c].q].st = "pending")
    BY <1>3 DEF AskRead, Goto, tables, Announcing, AnswerInv, AsksNamed
  <2> HIDE DEF k
  <2> QED BY <2>1, <2>2, ReadingKeepsAnswers, EndingKeepsAnswers
<1>4. CASE AskWoken(c)
  <2> DEFINE k == [calls[c] EXCEPT !.pc = "asking", !.woken = FALSE]
  <2>1. k.pc = "asking" /\ k.q = calls[c].q
    BY <1>0 DEF CallState
  <2>2. /\ quest' = quest /\ ~Announcing(calls[c]) /\ calls[c].q \in Question
        /\ Begin(c, k)
    BY <1>4 DEF AskWoken, tables, Announcing, AnswerInv, AsksNamed
  <2> HIDE DEF k
  <2> QED BY <2>1, <2>2, ReadingKeepsAnswers
<1>5. CASE Deadline(c)
  <2> DEFINE k == [calls[c] EXCEPT !.late = TRUE]
  <2>1. k.pc = calls[c].pc /\ k.q = calls[c].q /\ k.woken = calls[c].woken
    BY <1>0 DEF CallState
  <2>2. /\ quest' = quest /\ ~Announcing(calls[c]) /\ calls[c].q \in Question
        /\ Begin(c, k)
    BY <1>5 DEF Deadline, tables, Announcing, AnswerInv, AsksNamed
  <2> HIDE DEF k
  <2> QED BY <2>1, <2>2, ReadingKeepsAnswers
<1>6. ASSUME NEW q \in Question, AskStore(c, q) PROVE AnswerInv'
  <2> DEFINE k == [calls[c] EXCEPT !.pc = "asked", !.q = q]
  <2>1. k.pc = "asked" /\ k.q = q
    BY <1>0 DEF CallState
  <2>2. Begin(c, k)
    BY <1>6 DEF AskStore
  <2> HIDE DEF k
  <2> QED BY <2>1, <2>2, CommittingKeepsAnswers DEF Announcing
<1> QED BY <1>1, <1>2, <1>3, <1>4, <1>5, <1>6

(* Requests.                                                               *)
LEMMA RequestsKeepAnswers ==
    ASSUME Inv, AnswerInv, NEW c \in Call, Request(c)
    PROVE  AnswerInv'
<1>0. IdleCall.pc = "idle"
  BY DEF IdleCall
<1>1. calls[c].pc = "idle"
  BY DEF Request, Idle, TaskCreate, TaskUpdate, GateCreate, GateResolve, Reset,
         DispatchTask, WorkerStart, WorkerShow, WorkerStop, WorkerAbandon,
         SendWorkerDone, Ask, ReplyToQuestion
<1>2. ~Announcing(calls[c])
  BY <1>1 DEF Announcing
<1>3. ASSUME NEW k, Begin(c, k), quest' = quest, k.pc \notin {"asked", "asking", "wait"}
      PROVE  AnswerInv'
  BY <1>2, <1>3, ReadingKeepsAnswers
<1>4. ASSUME Commit(c) PROVE AnswerInv'
  BY <1>2, <1>4, EndingKeepsAnswers
<1>5. ASSUME NEW t, NEW h, NEW inject, DispatchTask(c, t, h, inject) PROVE AnswerInv'
  <2> DEFINE k == [IdleCall EXCEPT !.pc = "dispatch", !.t = t, !.h = h,
                                   !.flag = inject, !.inc = Incarnation(h)]
  <2>1. k.pc = "dispatch" /\ Begin(c, k) /\ quest' = quest
    BY <1>5 DEF DispatchTask, IdleCall, tables
  <2> QED BY <1>3, <2>1
<1>6. ASSUME NEW t, NEW h, NEW r, WorkerStart(c, t, h, r) PROVE AnswerInv'
  <2> DEFINE k == [IdleCall EXCEPT !.pc = "start", !.t = t, !.h = h, !.d = r]
  <2>1. k.pc = "start" /\ Begin(c, k) /\ quest' = quest
    BY <1>6 DEF WorkerStart, IdleCall, tables
  <2> QED BY <1>3, <2>1
<1>7. ASSUME NEW d, WorkerStop(c, d) PROVE AnswerInv'
  <2> DEFINE k == [IdleCall EXCEPT !.pc = "stop", !.d = d, !.inc = disp[d].inc,
                     !.h = IF disp[d].who = worker[d].term THEN disp[d].who ELSE None]
  <2>1. k.pc = "stop" /\ Begin(c, k) /\ quest' = quest
    BY <1>7 DEF WorkerStop, IdleCall, tables
  <2> QED BY <1>3, <2>1
<1>8. ASSUME NEW d, WorkerShow(c, d) PROVE AnswerInv'
  <2> DEFINE k == [IdleCall EXCEPT !.pc = "show", !.d = d,
                     !.st = IF worker[d].st = "starting" THEN "start_unknown"
                            ELSE "stop_unknown"]
  <2>1. k.pc = "show" /\ Begin(c, k) /\ quest' = quest
    BY <1>8 DEF WorkerShow, IdleCall, tables
  <2> QED BY <1>3, <2>1
<1>9. ASSUME NEW h, NEW d, SendWorkerDone(c, h, d) PROVE AnswerInv'
  <2>1. At("report", h, d).pc = "report" /\ Begin(c, At("report", h, d)) /\ quest' = quest
    BY <1>9 DEF SendWorkerDone, At, IdleCall, tables
  <2> QED BY <1>3, <2>1
<1>10. ASSUME NEW h, NEW d, NEW q \in Question \cup {None}, Ask(c, h, d, q)
       PROVE  AnswerInv'
  <2> DEFINE j == [IdleCall EXCEPT !.pc = "ask", !.d = d]
             k == [IdleCall EXCEPT !.pc = "asking", !.d = d, !.q = q]
  <2>1. j.pc = "ask" /\ k.pc = "asking" /\ k.q = q
    BY DEF IdleCall
  <2>2. quest' = quest /\ (Begin(c, j) \/ (Begin(c, k) /\ q \in Question))
    BY <1>10 DEF Ask, tables
  <2> HIDE DEF j, k
  <2> QED BY <1>2, <1>3, <2>1, <2>2, ReadingKeepsAnswers
<1> QED BY <1>4, <1>5, <1>6, <1>7, <1>8, <1>9, <1>10
        DEF Request, TaskCreate, TaskUpdate, GateCreate, GateResolve, Reset,
            WorkerAbandon, ReplyToQuestion

(* An ask that waits for an answer does not miss it: reply, worker_done    *)
(* and reset announce what they changed, the ask subscribes before it      *)
(* reads, and a mark set while it reads is still there when it waits.  (If *)
(* no handler is dropped between its commit and its notify.)               *)
THEOREM NoAnswerIsLost == ServedSpec => []NoLostAnswer
<1>1. Init => AnswerInv
  <2>1. ASSUME Init, NEW c \in Call PROVE calls[c].pc = "idle"
    BY <2>1 DEF Init, IdleCall
  <2> QED BY <2>1 DEF AnswerInv, AsksNamed, NoLostAnswer
<1>2. Inv /\ AnswerInv /\ [Serve]_vars => AnswerInv'
  <2> SUFFICES ASSUME Inv, AnswerInv, [Serve]_vars PROVE AnswerInv'
    OBVIOUS
  <2>1. ASSUME NEW c \in Call, Step(c) PROVE AnswerInv'
    BY <2>1, WorkKeepsAnswers, AsksKeepAnswers DEF Step
  <2>2. ASSUME NEW c \in Call, Request(c) \/ Deadline(c) PROVE AnswerInv'
    BY <2>2, RequestsKeepAnswers, AsksKeepAnswers
  <2>3. CASE UNCHANGED vars \/ \E h \in Terminal : TerminalExit(h)
    <3>1. UNCHANGED <<quest, calls>>
      BY <2>3 DEF vars, TerminalExit, tables
    <3> QED BY <3>1 DEF AnswerInv, AsksNamed, NoLostAnswer
  <2> QED BY <2>1, <2>2, <2>3 DEF Serve
<1>3. Inv /\ [Serve]_vars => Inv'
  BY NextInv DEF Next
<1>4. AnswerInv => NoLostAnswer
  BY DEF AnswerInv
<1> QED BY <1>1, <1>2, <1>3, <1>4, InitInv, PTL DEF ServedSpec
=============================================================================
