-------------------------- MODULE RunMailboxProofs --------------------------
(***************************************************************************)
(* The safety of RunMailbox for any number of Runs, terminals, messages,   *)
(* deliveries and concurrent requests, that it implements RunLease, that   *)
(* mail is handed out oldest first and a waiting check misses nothing.     *)
(***************************************************************************)
EXTENDS RunMailbox, FiniteSetTheorems, WellFoundedInduction, TLAPS

-----------------------------------------------------------------------------
(* The inductive invariant.                                                *)

Checking(c) == calls[c].pc \in {"resolved", "check", "wait"}

(* Only a Run with a row has a coordinator.                                *)
CoordinatorHasRow == \A r \in Run : r \notin runs => coord[r] = None

(* run_use remembers a terminal and a Run.                                 *)
UsesAreNamed ==
    \A c \in Call : calls[c].pc = "use" => calls[c].h \in Handle /\ calls[c].run \in Run

(* The generation a check remembers is never ahead of its Run's, and while *)
(* it is the Run's, the check's pane coordinates the Run.                  *)
ChecksAreBound ==
    \A c \in Call : Checking(c) =>
        /\ calls[c].pane \in Pane /\ calls[c].run \in drawn
        /\ calls[c].run \in runs => calls[c].gen <= gen[calls[c].run]
        /\ Current(c) => /\ coord[calls[c].run] # None
                         /\ PaneOf[coord[calls[c].run]] = calls[c].pane

(* Nobody but the Run's coordinator has seen an outstanding delivery.      *)
HeldByCoordinator ==
    \A d \in DeliveryId : deliv[d].st = "outstanding" =>
        \A p \in deliv[d].by : /\ coord[deliv[d].run] # None
                               /\ p = PaneOf[coord[deliv[d].run]]

(* An outstanding delivery lists stored messages of its Run.               *)
ListsOwnMail ==
    \A d \in DeliveryId : deliv[d].st = "outstanding" =>
        \A s \in deliv[d].ids : /\ msgs[s].st # "absent"
                                /\ msgs[s].run = deliv[d].run
                                /\ msgs[s].to = deliv[d].run

Inv ==
    /\ TypeOK /\ CoordinatorHasRow /\ UsesAreNamed /\ ChecksAreBound
    /\ OneRunPerPane /\ OutstandingIsCurrent /\ HeldByCoordinator
    /\ ListsOwnMail /\ ExclusiveDelivery /\ AckedMailWasHanded

-----------------------------------------------------------------------------
(* Handler records.                                                        *)

(* The types of the constants, from MailboxAssumption.                     *)
LEMMA ConstantTypes ==
    /\ PaneOf \in [Handle -> Pane]
    /\ MaxGen \in Nat /\ 0 \in 0 .. MaxGen
    /\ Sequence \subseteq Nat
BY MailboxAssumption DEF MailboxAssumption, Sequence

(* NULL is no id.                                                          *)
LEMMA NoneIsNew == None \notin Run \cup Handle \cup Pane \cup DeliveryId \cup Type
BY MailboxAssumption DEF MailboxAssumption

(* What a check asks for.                                                  *)
LEMMA AskType ==
    ASSUME NEW ask \in Asks
    PROVE  /\ ask.types \in SUBSET Type /\ ask.wait \in BOOLEAN
           /\ ask.mode \in {"consume", "peek", "all"}
BY MailboxAssumption DEF MailboxAssumption

(* A free slot is a handler record.                                        *)
LEMMA IdleCallType == IdleCall \in CallState
BY ConstantTypes DEF IdleCall, CallState

(* So is a handler about to notify.                                        *)
LEMMA NotifyCallType == [IdleCall EXCEPT !.pc = "notify"] \in CallState
BY IdleCallType DEF CallState

(* Replacing one handler record, when no Run changes, keeps the handlers'  *)
(* part of the invariant if the new record meets it.                       *)
LEMMA RecordKeeps ==
    ASSUME TypeOK, UsesAreNamed, ChecksAreBound,
           NEW c \in Call, NEW k \in CallState, Begin(c, k),
           UNCHANGED <<drawn, runs, coord, gen>>,
           k.pc = "use" => k.h \in Handle /\ k.run \in Run,
           k.pc \in {"resolved", "check", "wait"} =>
               /\ k.pane \in Pane /\ k.run \in drawn
               /\ k.run \in runs => k.gen <= gen[k.run]
               /\ k.run \in runs /\ gen[k.run] = k.gen =>
                     coord[k.run] # None /\ PaneOf[coord[k.run]] = k.pane
    PROVE  calls' \in [Call -> CallState] /\ UsesAreNamed' /\ ChecksAreBound'
<1>1. /\ calls' \in [Call -> CallState]
      /\ calls'[c] = k
      /\ \A n \in Call : n # c => calls'[n] = calls[n]
  BY DEF TypeOK, Begin
<1>2. UsesAreNamed'
  BY <1>1 DEF UsesAreNamed
<1>3. ChecksAreBound'
  BY <1>1 DEF ChecksAreBound, Checking, Current
<1> QED BY <1>1, <1>2, <1>3

(* A handler that ends or committed keeps the handlers' part.              *)
LEMMA FinishKeeps ==
    ASSUME TypeOK, UsesAreNamed, ChecksAreBound, NEW c \in Call,
           Finish(c) \/ Commit(c), UNCHANGED <<drawn, runs, coord, gen>>
    PROVE  calls' \in [Call -> CallState] /\ UsesAreNamed' /\ ChecksAreBound'
<1>1. CASE Finish(c)
  <2>1. Begin(c, IdleCall) /\ IdleCall.pc = "idle"
    BY <1>1 DEF Finish, Begin, IdleCall
  <2> QED BY <2>1, IdleCallType, RecordKeeps
<1>2. CASE Commit(c)
  <2> DEFINE k == [IdleCall EXCEPT !.pc = "notify"]
  <2>1. Begin(c, k) /\ k.pc = "notify"
    BY <1>2 DEF Commit, Begin, IdleCall
  <2>2. k \in CallState
    BY NotifyCallType
  <2> HIDE DEF k
  <2> QED BY <2>1, <2>2, RecordKeeps
<1> QED BY <1>1, <1>2

(* The tables' part of the invariant.                                      *)
TablesOK ==
    /\ CoordinatorHasRow /\ OneRunPerPane /\ OutstandingIsCurrent
    /\ HeldByCoordinator /\ ListsOwnMail /\ ExclusiveDelivery /\ AckedMailWasHanded

(* A step that changes no table keeps the rest of the invariant.           *)
LEMMA SameTables ==
    ASSUME TablesOK, UNCHANGED tables PROVE TablesOK'
BY DEF TablesOK, tables, CoordinatorHasRow, OneRunPerPane, BoundTo,
       OutstandingIsCurrent, Outstanding, HeldByCoordinator, ListsOwnMail,
       ExclusiveDelivery, AckedMailWasHanded

-----------------------------------------------------------------------------
(* Steps that leave the tables alone.                                      *)

(* Steps of handlers and terminals that change no table.                   *)
LEMMA HandlerSteps ==
    ASSUME Inv, NEW c \in Call,
           \/ Notify(c) \/ Drop(c) \/ Subscribe(c) \/ CheckFenced(c)
           \/ CheckOutOfIds(c) \/ WaitWoken(c) \/ WaitTimeout(c)
           \/ \E h \in Handle, r \in Run : RunUse(c, h, r)
           \/ \E p \in Pane, ack \in DeliveryId \cup {None}, ask \in Asks :
                 CheckMessages(c, p, ack, ask)
    PROVE  Inv'
<1>1. UNCHANGED <<tables, live>>
  BY DEF Notify, Drop, Subscribe, CheckFenced, CheckOutOfIds, WaitWoken,
         WaitTimeout, RunUse, CheckMessages
<1>2. TypeOK /\ UsesAreNamed /\ ChecksAreBound /\ TablesOK
  BY DEF Inv, TablesOK
<1>3. UNCHANGED <<drawn, runs, coord, gen>>
  BY <1>1 DEF tables
<1>4. SUFFICES calls' \in [Call -> CallState] /\ UsesAreNamed' /\ ChecksAreBound'
  <2>1. TablesOK'
    BY <1>1, <1>2, SameTables
  <2>2. (calls' \in [Call -> CallState]) => TypeOK'
    BY <1>1, <1>2 DEF TypeOK, tables
  <2> QED BY <1>4, <2>1, <2>2 DEF Inv, TablesOK
<1>5. CASE Drop(c) \/ CheckFenced(c) \/ CheckOutOfIds(c) \/ WaitTimeout(c)
  BY <1>2, <1>3, <1>5, FinishKeeps DEF Drop, CheckFenced, CheckOutOfIds, WaitTimeout
<1>6. CASE Notify(c)
  <2>1. \A n \in Call : calls'[n] = IdleCall \/ calls'[n] = calls[n]
                          \/ calls'[n] = [calls[n] EXCEPT !.woken = TRUE]
    BY <1>6 DEF Notify
  <2>2. \A n \in Call : [calls[n] EXCEPT !.woken = TRUE] \in CallState
    BY <1>2, ZenonT(40) DEF TypeOK, CallState
  <2>3. calls' \in [Call -> CallState]
    <3>1. \A n \in Call : calls'[n] \in CallState
      BY <1>2, <2>1, <2>2, IdleCallType DEF TypeOK
    <3>2. calls' = [n \in Call |-> calls'[n]]
      BY <1>6 DEF Notify
    <3> HIDE DEF CallState
    <3> QED BY <3>1, <3>2
  <2>4. ASSUME NEW n \in Call
        PROVE  \/ calls'[n].pc = "idle"
               \/ /\ calls'[n].pc = calls[n].pc /\ calls'[n].h = calls[n].h
                  /\ calls'[n].run = calls[n].run /\ calls'[n].gen = calls[n].gen
                  /\ calls'[n].pane = calls[n].pane
    <3>1. CASE calls'[n] = IdleCall
      BY <3>1 DEF IdleCall
    <3>2. CASE calls'[n] = calls[n]
      BY <3>2
    <3>3. CASE calls'[n] = [calls[n] EXCEPT !.woken = TRUE]
      BY <1>2, <3>3 DEF TypeOK, CallState
    <3> QED BY <2>1, <3>1, <3>2, <3>3
  <2>5. UsesAreNamed'
    BY <1>2, <2>4 DEF UsesAreNamed
  <2>6. ChecksAreBound'
    BY <1>2, <1>3, <2>4 DEF ChecksAreBound, Checking, Current
  <2> QED BY <2>3, <2>5, <2>6
<1>7. CASE Subscribe(c) \/ WaitWoken(c)
  <2>1. PICK k : /\ Begin(c, k)
                 /\ k = [calls[c] EXCEPT !.pc = "check"] \/
                    k = [calls[c] EXCEPT !.woken = FALSE, !.pc = "check"]
    BY <1>7 DEF Subscribe, WaitWoken
  <2>2. /\ k \in CallState /\ k.pc = "check" /\ k.run = calls[c].run
        /\ k.gen = calls[c].gen /\ k.pane = calls[c].pane
    <3>1. CASE k = [calls[c] EXCEPT !.pc = "check"]
      BY <1>2, <3>1 DEF TypeOK, CallState
    <3>2. CASE k = [calls[c] EXCEPT !.woken = FALSE, !.pc = "check"]
      BY <1>2, <3>2, ZenonT(40) DEF TypeOK, CallState
    <3> QED BY <2>1, <3>1, <3>2
  <2>3. Checking(c)
    BY <1>7 DEF Subscribe, WaitWoken, Checking
  <2>4. /\ k.pane \in Pane /\ k.run \in drawn
        /\ k.run \in runs => k.gen <= gen[k.run]
        /\ k.run \in runs /\ gen[k.run] = k.gen =>
              coord[k.run] # None /\ PaneOf[coord[k.run]] = k.pane
    BY <1>2, <2>2, <2>3 DEF ChecksAreBound, Current
  <2> QED BY <1>2, <1>3, <2>1, <2>2, <2>4, RecordKeeps
<1>8. ASSUME NEW h \in Handle, NEW r \in Run, RunUse(c, h, r)
      PROVE  calls' \in [Call -> CallState] /\ UsesAreNamed' /\ ChecksAreBound'
  <2> DEFINE k == [IdleCall EXCEPT !.pc = "use", !.h = h, !.run = r]
  <2>1. k \in CallState /\ k.pc = "use" /\ k.h = h /\ k.run = r
    BY IdleCallType DEF CallState, IdleCall
  <2>2. Begin(c, k)
    BY <1>8 DEF RunUse
  <2> HIDE DEF k
  <2> QED BY <1>2, <1>3, <2>1, <2>2, RecordKeeps
<1>9. ASSUME NEW p \in Pane, NEW ack \in DeliveryId \cup {None}, NEW ask \in Asks,
             CheckMessages(c, p, ack, ask)
      PROVE  calls' \in [Call -> CallState] /\ UsesAreNamed' /\ ChecksAreBound'
  <2>1. PICK r \in BoundTo(p) :
          Begin(c, [IdleCall EXCEPT
                     !.pc = "resolved", !.pane = p, !.run = r, !.gen = gen[r],
                     !.ack = ack, !.types = ask.types, !.mode = ask.mode,
                     !.wait = ask.wait])
    BY <1>9 DEF CheckMessages
  <2> DEFINE k == [IdleCall EXCEPT
                     !.pc = "resolved", !.pane = p, !.run = r, !.gen = gen[r],
                     !.ack = ack, !.types = ask.types, !.mode = ask.mode,
                     !.wait = ask.wait]
  <2>2. r \in runs /\ r \in drawn /\ r \in Run /\ coord[r] # None /\ PaneOf[coord[r]] = p
    BY <1>2 DEF BoundTo, TypeOK
  <2>3. gen[r] \in 0 .. MaxGen
    BY <1>2, <2>2 DEF TypeOK
  <2>4. k \in CallState /\ k.pc = "resolved" /\ k.pane = p /\ k.run = r /\ k.gen = gen[r]
    BY <2>2, <2>3, IdleCallType, AskType DEF CallState, IdleCall
  <2>5. k.gen <= gen[k.run]
    BY <2>3, <2>4, ConstantTypes
  <2>6. Begin(c, k)
    BY <2>1
  <2> HIDE DEF k
  <2> QED BY <1>2, <1>3, <2>2, <2>4, <2>5, <2>6, RecordKeeps
<1> QED BY <1>5, <1>6, <1>7, <1>8, <1>9

-----------------------------------------------------------------------------
(* Steps that bind a Run to a pane.                                        *)

(* Binding r to h, fencing the Runs F that change: r unless it was bound   *)
(* to h already, and whatever else the pane coordinated.                   *)
LEMMA RebindKeeps ==
    ASSUME Inv, NEW c \in Call, NEW r \in Run, NEW h \in Handle,
           NEW F \in SUBSET Run, Rebind(F, OnlyFor(r, h)), Commit(c),
           runs' \subseteq drawn', drawn' \subseteq Run,
           runs \subseteq runs', drawn \subseteq drawn',
           runs' \cap drawn \subseteq runs,
           r \in runs', F \subseteq runs', r \in F \/ coord[r] = h,
           BoundTo(PaneOf[h]) \ {r} \subseteq F,
           UNCHANGED <<msgs, live>>
    PROVE  Inv'
<1>1. TypeOK /\ UsesAreNamed /\ ChecksAreBound /\ CoordinatorHasRow /\ OneRunPerPane
      /\ OutstandingIsCurrent /\ HeldByCoordinator /\ ListsOwnMail
      /\ ExclusiveDelivery /\ AckedMailWasHanded
  BY DEF Inv
<1>2. /\ \A q \in Run : /\ q \in F => coord'[q] = IF q = r THEN h ELSE None
                        /\ q \notin F => coord'[q] = coord[q]
      /\ coord' \in [Run -> Handle \cup {None}]
  BY <1>1 DEF Rebind, OnlyFor, TypeOK
<1>3. /\ \A q \in Run : /\ q \in F => gen'[q] = gen[q] + 1
                        /\ q \notin F => gen'[q] = gen[q]
      /\ gen' \in [Run -> 0 .. MaxGen]
      /\ \A q \in Run : gen[q] \in Nat
  BY <1>1, ConstantTypes DEF Rebind, TypeOK
<1>4. \A d \in DeliveryId :
        deliv'[d] = IF deliv[d].st = "outstanding" /\ deliv[d].run \in F
                    THEN [deliv[d] EXCEPT !.st = "fenced"] ELSE deliv[d]
  BY DEF Rebind, Fence
<1>5. \A d \in DeliveryId :
        /\ deliv'[d] \in DeliveryRow
        /\ deliv'[d].run = deliv[d].run /\ deliv'[d].gen = deliv[d].gen
        /\ deliv'[d].ids = deliv[d].ids /\ deliv'[d].by = deliv[d].by
        /\ deliv'[d].st = IF deliv[d].st = "outstanding" /\ deliv[d].run \in F
                          THEN "fenced" ELSE deliv[d].st
  <2> SUFFICES ASSUME NEW d \in DeliveryId
               PROVE  /\ deliv'[d] \in DeliveryRow
                      /\ deliv'[d].run = deliv[d].run /\ deliv'[d].gen = deliv[d].gen
                      /\ deliv'[d].ids = deliv[d].ids /\ deliv'[d].by = deliv[d].by
                      /\ deliv'[d].st = IF deliv[d].st = "outstanding" /\ deliv[d].run \in F
                                        THEN "fenced" ELSE deliv[d].st
    OBVIOUS
  <2>1. deliv[d] \in DeliveryRow
    BY <1>1 DEF TypeOK
  <2>2. CASE deliv[d].st = "outstanding" /\ deliv[d].run \in F
    BY <1>4, <2>1, <2>2 DEF DeliveryRow
  <2>3. CASE ~(deliv[d].st = "outstanding" /\ deliv[d].run \in F)
    BY <1>4, <2>1, <2>3
  <2> QED BY <2>2, <2>3
<1>6. /\ calls' \in [Call -> CallState]
      /\ calls'[c].pc = "notify"
      /\ \A n \in Call : n # c => calls'[n] = calls[n]
  BY <1>1, NotifyCallType DEF Commit, TypeOK, IdleCall
<1>7. TypeOK'
  <2>1. deliv' \in [DeliveryId -> DeliveryRow]
    <3>1. deliv' = [d \in DeliveryId |-> deliv'[d]]
      BY DEF Rebind, Fence
    <3> QED BY <1>5, <3>1
  <2> QED BY <1>1, <1>2, <1>3, <1>6, <2>1 DEF TypeOK
<1>8. CoordinatorHasRow'
  BY <1>1, <1>2 DEF CoordinatorHasRow
<1>9. UsesAreNamed'
  BY <1>1, <1>6 DEF UsesAreNamed
<1>10. ChecksAreBound'
  <2> SUFFICES ASSUME NEW n \in Call, Checking(n)'
               PROVE  /\ calls'[n].pane \in Pane /\ calls'[n].run \in drawn'
                      /\ calls'[n].run \in runs' => calls'[n].gen <= gen'[calls'[n].run]
                      /\ Current(n)' => /\ coord'[calls'[n].run] # None
                                        /\ PaneOf[coord'[calls'[n].run]] = calls'[n].pane
    BY DEF ChecksAreBound
  <2>1. n # c /\ calls'[n] = calls[n] /\ Checking(n)
    BY <1>6 DEF Checking
  <2> DEFINE q == calls[n].run
  <2>2. /\ calls[n].pane \in Pane /\ q \in drawn
        /\ q \in runs => calls[n].gen <= gen[q]
        /\ Current(n) => coord[q] # None /\ PaneOf[coord[q]] = calls[n].pane
    BY <1>1, <2>1 DEF ChecksAreBound
  <2>3. q \in Run /\ calls[n].gen \in Nat
    BY <1>1, <2>2, ConstantTypes DEF TypeOK, CallState
  <2>4. CASE q \notin runs
    BY <2>1, <2>2, <2>4 DEF Current
  <2>5. CASE q \in runs /\ q \in F
    BY <1>3, <2>1, <2>2, <2>3, <2>5 DEF Current
  <2>6. CASE q \in runs /\ q \notin F
    BY <1>2, <1>3, <2>1, <2>2, <2>3, <2>6 DEF Current
  <2> QED BY <2>4, <2>5, <2>6
<1>11. OneRunPerPane'
  <2> SUFFICES ASSUME NEW p \in Pane, NEW x \in BoundTo(p)', NEW y \in BoundTo(p)'
               PROVE  x = y
    BY DEF OneRunPerPane
  <2>1. /\ x \in Run /\ y \in Run /\ coord'[x] # None /\ coord'[y] # None
        /\ PaneOf[coord'[x]] = p /\ PaneOf[coord'[y]] = p
    BY DEF BoundTo
  <2>2. \A z \in Run : coord'[z] # None /\ z # r =>
           z \notin F /\ coord[z] = coord'[z] /\ z \in runs
    BY <1>1, <1>2 DEF CoordinatorHasRow
  <2>3. coord'[r] = h
    BY <1>2
  <2>4. \A z \in Run : coord'[z] # None /\ z # r => PaneOf[coord'[z]] # PaneOf[h]
    BY <2>2 DEF BoundTo
  <2>5. CASE x = r \/ y = r
    BY <2>1, <2>3, <2>4, <2>5
  <2>6. CASE x # r /\ y # r
    <3>1. x \in BoundTo(p) /\ y \in BoundTo(p)
      BY <2>1, <2>2, <2>6 DEF BoundTo
    <3> QED BY <1>1, <3>1 DEF OneRunPerPane
  <2> QED BY <2>5, <2>6
<1>12. \A d \in DeliveryId : deliv'[d].st = "outstanding" =>
          /\ deliv[d].st = "outstanding" /\ deliv[d].run \notin F
          /\ deliv[d].run \in runs /\ deliv[d].run \in Run
  BY <1>1, <1>5 DEF OutstandingIsCurrent, TypeOK
<1>13. OutstandingIsCurrent'
  <2> SUFFICES ASSUME NEW d \in DeliveryId, deliv'[d].st = "outstanding"
               PROVE  /\ deliv'[d].run \in runs'
                      /\ deliv'[d].gen = gen'[deliv'[d].run]
                      /\ \A e \in DeliveryId :
                           /\ deliv'[e].st = "outstanding"
                           /\ deliv'[e].run = deliv'[d].run
                           => e = d
    BY DEF OutstandingIsCurrent, Outstanding
  <2>1. /\ deliv[d].run \in runs /\ deliv[d].gen = gen[deliv[d].run]
        /\ \A e \in DeliveryId : deliv[e].st = "outstanding" /\ deliv[e].run = deliv[d].run
                                => e = d
    BY <1>1, <1>12 DEF OutstandingIsCurrent, Outstanding
  <2>2. gen'[deliv[d].run] = gen[deliv[d].run]
    BY <1>3, <1>12
  <2> QED BY <1>5, <1>12, <2>1, <2>2
<1>14. HeldByCoordinator'
  BY <1>1, <1>2, <1>5, <1>12 DEF HeldByCoordinator
<1>15. ListsOwnMail'
  BY <1>1, <1>5, <1>12 DEF ListsOwnMail
<1>16. ExclusiveDelivery'
  BY <1>1, <1>5 DEF ExclusiveDelivery
<1>17. AckedMailWasHanded'
  BY <1>1, <1>5 DEF AckedMailWasHanded
<1> QED BY <1>7, <1>8, <1>9, <1>10, <1>11, <1>13, <1>14, <1>15, <1>16, <1>17 DEF Inv

(* run_create keeps the invariant.                                         *)
LEMMA RunCreateKeeps ==
    ASSUME Inv, NEW c \in Call, NEW h \in Handle, NEW r \in Run, RunCreate(c, h, r)
    PROVE  Inv'
<1> DEFINE F == BoundTo(PaneOf[h]) \cup {r}
<1>1. runs \subseteq drawn /\ drawn \subseteq Run
  BY DEF Inv, TypeOK
<1>2. /\ Rebind(F, OnlyFor(r, h)) /\ Commit(c) /\ UNCHANGED <<msgs, live>>
      /\ runs' = runs \cup {r} /\ drawn' = drawn \cup {r} /\ r \notin drawn
  BY DEF RunCreate
<1>3. F \in SUBSET Run /\ F \subseteq runs' /\ r \in F /\ BoundTo(PaneOf[h]) \ {r} \subseteq F
  BY <1>1, <1>2 DEF BoundTo
<1> HIDE DEF F
<1> QED BY <1>1, <1>2, <1>3, RebindKeeps

(* The transaction of run_use keeps the invariant.                         *)
LEMMA RunUseBindKeeps ==
    ASSUME Inv, NEW c \in Call, RunUseBind(c)
    PROVE  Inv'
<1> DEFINE h == calls[c].h
           r == calls[c].run
           F == (BoundTo(PaneOf[h]) \ {r}) \cup (IF coord[r] = h THEN {} ELSE {r})
<1>1. /\ TypeOK /\ UsesAreNamed /\ ChecksAreBound /\ TablesOK
      /\ runs \subseteq drawn /\ drawn \subseteq Run
  BY DEF Inv, TablesOK, TypeOK
<1>2. h \in Handle /\ r \in Run
  BY <1>1 DEF UsesAreNamed, RunUseBind
<1>3. UNCHANGED <<runs, drawn, msgs, live>>
  BY DEF RunUseBind
<1>4. CASE Finish(c) /\ UNCHANGED <<coord, gen, deliv>>
  <2>1. calls' \in [Call -> CallState] /\ UsesAreNamed' /\ ChecksAreBound'
    BY <1>1, <1>3, <1>4, FinishKeeps
  <2>2. TablesOK'
    BY <1>1, <1>3, <1>4, SameTables DEF tables
  <2>3. TypeOK'
    BY <1>1, <1>3, <1>4, <2>1 DEF TypeOK
  <2> QED BY <2>1, <2>2, <2>3 DEF Inv, TablesOK
<1>5. CASE r \in runs /\ Rebind(F, OnlyFor(r, h)) /\ Commit(c)
  <2>1. /\ F \in SUBSET Run /\ F \subseteq runs
        /\ r \in F \/ coord[r] = h
        /\ BoundTo(PaneOf[h]) \ {r} \subseteq F
    BY <1>1, <1>5 DEF BoundTo
  <2>2. /\ runs' \subseteq drawn' /\ drawn' \subseteq Run /\ runs \subseteq runs'
        /\ drawn \subseteq drawn' /\ runs' \cap drawn \subseteq runs
        /\ r \in runs' /\ F \subseteq runs' /\ UNCHANGED <<msgs, live>>
    <3> HIDE DEF F, h, r
    <3> QED BY <1>1, <1>3, <1>5, <2>1
  <2> HIDE DEF F, h, r
  <2> QED BY <1>2, <1>5, <2>1, <2>2, RebindKeeps
<1> QED BY <1>4, <1>5 DEF RunUseBind

-----------------------------------------------------------------------------
(* Steps that write mail, and reset.                                       *)

(* reset keeps the invariant.                                              *)
LEMMA ResetKeeps ==
    ASSUME Inv, NEW c \in Call, NEW scope \in {"all", "tasks", "messages"},
           Reset(c, scope)
    PROVE  Inv'
<1>1. TypeOK /\ UsesAreNamed /\ ChecksAreBound /\ TablesOK
  BY DEF Inv, TablesOK
<1>2. Commit(c) /\ UNCHANGED <<drawn, live>>
  BY DEF Reset
<1>3. /\ calls' \in [Call -> CallState]
      /\ calls'[c].pc = "notify"
      /\ \A n \in Call : n # c => calls'[n] = calls[n]
  BY <1>1, <1>2, NotifyCallType DEF Commit, TypeOK, IdleCall
<1>4. CASE scope = "tasks"
  <2>1. UNCHANGED tables
    BY <1>2, <1>4 DEF Reset, tables
  <2>2. calls' \in [Call -> CallState] /\ UsesAreNamed' /\ ChecksAreBound'
    BY <1>1, <1>2, <2>1, FinishKeeps DEF tables
  <2>3. TypeOK'
    BY <1>1, <1>2, <2>1, <2>2 DEF TypeOK, tables
  <2> QED BY <1>1, <2>1, <2>2, <2>3, SameTables DEF Inv, TablesOK
<1>5. CASE scope \in {"all", "messages"}
  <2>1. /\ msgs' = [s \in Sequence |-> NoMessage]
        /\ deliv' = [d \in DeliveryId |->
                      IF deliv[d].st = "free" THEN deliv[d]
                      ELSE [NoDelivery EXCEPT !.st = "deleted"]]
    BY <1>5 DEF Reset
  <2>2. \A s \in Sequence : msgs'[s].st = "absent" /\ msgs'[s] \in MessageRow
    BY <2>1 DEF NoMessage, MessageRow
  <2>3. /\ [NoDelivery EXCEPT !.st = "deleted"] \in DeliveryRow
        /\ [NoDelivery EXCEPT !.st = "deleted"].st = "deleted"
        /\ [NoDelivery EXCEPT !.st = "deleted"].by = {}
    BY ConstantTypes DEF NoDelivery, DeliveryRow
  <2>4. \A d \in DeliveryId : /\ deliv'[d] \in DeliveryRow
                              /\ deliv'[d].st # "outstanding"
                              /\ deliv'[d] = deliv[d] \/ deliv'[d].by = {}
    BY <1>1, <2>1, <2>3 DEF TypeOK
  <2>5. \/ UNCHANGED <<runs, coord, gen>>
        \/ runs' = {} /\ coord' = [q \in Run |-> None] /\ gen' = [q \in Run |-> 0]
    BY DEF Reset
  <2>6. TypeOK'
    <3>1. msgs' \in [Sequence -> MessageRow]
      BY <2>1, <2>2
    <3>2. deliv' \in [DeliveryId -> DeliveryRow]
      <4>1. deliv' = [d \in DeliveryId |-> deliv'[d]]
        BY <2>1
      <4> QED BY <2>4, <4>1
    <3>3. /\ runs' \subseteq drawn' /\ coord' \in [Run -> Handle \cup {None}]
          /\ gen' \in [Run -> 0 .. MaxGen]
      BY <1>1, <1>2, <2>5, ConstantTypes DEF TypeOK
    <3> QED BY <1>1, <1>2, <1>3, <3>1, <3>2, <3>3 DEF TypeOK
  <2>7. UsesAreNamed'
    BY <1>1, <1>3 DEF UsesAreNamed
  <2>8. ChecksAreBound'
    <3>1. CASE UNCHANGED <<runs, coord, gen>>
      BY <1>1, <1>2, <3>1, FinishKeeps
    <3>2. CASE runs' = {}
      BY <1>1, <1>2, <1>3, <3>2 DEF ChecksAreBound, Checking, Current
    <3> QED BY <2>5, <3>1, <3>2
  <2>9. CoordinatorHasRow' /\ OneRunPerPane'
    BY <1>1, <2>5 DEF TablesOK, CoordinatorHasRow, OneRunPerPane, BoundTo
  <2>10. OutstandingIsCurrent' /\ HeldByCoordinator' /\ ListsOwnMail'
    BY <2>4 DEF OutstandingIsCurrent, HeldByCoordinator, ListsOwnMail
  <2>11. ExclusiveDelivery'
    BY <1>1, <2>4 DEF TablesOK, ExclusiveDelivery
  <2>12. AckedMailWasHanded'
    BY <2>2 DEF AckedMailWasHanded
  <2> QED BY <2>6, <2>7, <2>8, <2>9, <2>10, <2>11, <2>12 DEF Inv
<1> QED BY <1>4, <1>5

(* send_message and reply keep the invariant.                              *)
LEMMA MailKeeps ==
    ASSUME Inv, NEW c \in Call,
           \/ \E to, r \in Run, type \in Type : SendMessage(c, to, r, type)
           \/ \E m \in Sequence : Reply(c, m)
    PROVE  Inv'
<1>1. TypeOK /\ UsesAreNamed /\ ChecksAreBound /\ TablesOK
  BY DEF Inv, TablesOK
<1>2. Commit(c) /\ UNCHANGED <<runs, drawn, coord, gen, deliv, live>>
  BY DEF SendMessage, Reply
<1>3. /\ msgs' \in [Sequence -> MessageRow]
      /\ \A s \in Sequence : msgs[s].st # "absent" =>
            /\ msgs'[s].st # "absent"
            /\ msgs'[s].to = msgs[s].to /\ msgs'[s].run = msgs[s].run
      /\ \A s \in Sequence : msgs'[s].st = "acked" => msgs[s].st = "acked"
  <2>1. ASSUME NEW to \in Run, NEW r \in Run, NEW type \in Type,
               SendMessage(c, to, r, type)
        PROVE  <1>3!:
    <3>1. PICK s \in Sequence, st \in {"unread", "suppressed"} :
            /\ msgs[s].st = "absent"
            /\ msgs' = [msgs EXCEPT ![s] =
                          [st |-> st, to |-> to, run |-> r, type |-> type]]
      BY <2>1 DEF SendMessage, NextSequence, Absent
    <3>2. [st |-> st, to |-> to, run |-> r, type |-> type] \in MessageRow
      BY DEF MessageRow
    <3> QED BY <1>1, <3>1, <3>2 DEF TypeOK
  <2>2. ASSUME NEW m \in Sequence, Reply(c, m)
        PROVE  <1>3!:
    <3>1. msgs[m].st # "absent"
          /\ msgs' = [msgs EXCEPT ![m].st = IF @ = "unread" THEN "replied" ELSE @]
      BY <2>2 DEF Reply
    <3>2. msgs[m] \in MessageRow
      BY <1>1 DEF TypeOK
    <3>3. /\ msgs'[m] \in MessageRow
          /\ msgs'[m].st = IF msgs[m].st = "unread" THEN "replied" ELSE msgs[m].st
          /\ msgs'[m].to = msgs[m].to /\ msgs'[m].run = msgs[m].run
      BY <1>1, <3>1, <3>2 DEF TypeOK, MessageRow
    <3>4. \A s \in Sequence : s # m => msgs'[s] = msgs[s]
      BY <1>1, <3>1 DEF TypeOK
    <3>5. msgs' \in [Sequence -> MessageRow]
      <4>1. \A s \in Sequence : msgs'[s] \in MessageRow
        BY <1>1, <3>3, <3>4 DEF TypeOK
      <4>2. msgs' = [s \in Sequence |-> msgs'[s]]
        BY <1>1, <3>1 DEF TypeOK
      <4> QED BY <4>1, <4>2
    <3> QED BY <3>1, <3>3, <3>4, <3>5
  <2> QED BY <2>1, <2>2
<1>4. calls' \in [Call -> CallState] /\ UsesAreNamed' /\ ChecksAreBound'
  BY <1>1, <1>2, FinishKeeps
<1>5. TypeOK'
  BY <1>1, <1>2, <1>3, <1>4 DEF TypeOK
<1>6. /\ CoordinatorHasRow' /\ OneRunPerPane' /\ OutstandingIsCurrent'
      /\ HeldByCoordinator' /\ ExclusiveDelivery'
  BY <1>1, <1>2 DEF TablesOK, CoordinatorHasRow, OneRunPerPane, BoundTo,
       OutstandingIsCurrent, Outstanding, HeldByCoordinator, ExclusiveDelivery
<1>7. ListsOwnMail'
  <2>1. \A d \in DeliveryId : deliv[d].ids \subseteq Sequence
    BY <1>1 DEF TypeOK, DeliveryRow
  <2> QED BY <1>1, <1>2, <1>3, <2>1 DEF TablesOK, ListsOwnMail
<1>8. AckedMailWasHanded'
  BY <1>1, <1>2, <1>3 DEF TablesOK, AckedMailWasHanded
<1> QED BY <1>4, <1>5, <1>6, <1>7, <1>8 DEF Inv

-----------------------------------------------------------------------------
(* Steps of check that write the tables.                                   *)

(* What holds when check_run_mailbox passes its two tests.                 *)
LEMMA AcceptedFacts ==
    ASSUME Inv, NEW c \in Call, Accepted(c)
    PROVE  LET r == calls[c].run IN
           /\ r \in runs /\ r \in Run /\ gen[r] = calls[c].gen /\ coord[r] # None
           /\ calls[c].pane \in Pane /\ PaneOf[coord[r]] = calls[c].pane
           /\ Acking(c) => /\ calls[c].ack \in DeliveryId
                           /\ deliv[calls[c].ack].st = "outstanding"
                           /\ deliv[calls[c].ack].run = r
                           /\ Outstanding(r) = {calls[c].ack}
<1>1. TypeOK /\ ChecksAreBound /\ OutstandingIsCurrent
  BY DEF Inv
<1>2. Checking(c) /\ Current(c)
  BY DEF Accepted, Checking
<1>3. /\ calls[c].run \in runs /\ calls[c].run \in Run /\ gen[calls[c].run] = calls[c].gen
      /\ coord[calls[c].run] # None /\ calls[c].pane \in Pane
      /\ PaneOf[coord[calls[c].run]] = calls[c].pane
  BY <1>1, <1>2 DEF ChecksAreBound, Current, TypeOK
<1>4. calls[c].ack \in DeliveryId \cup {None}
  BY <1>1 DEF TypeOK, CallState
<1>5. Acking(c) => /\ calls[c].ack \in DeliveryId
                   /\ deliv[calls[c].ack].st = "outstanding"
                   /\ deliv[calls[c].ack].run = calls[c].run
  BY <1>4 DEF Acking, Accepted, AckAccepted
<1>6. Acking(c) => Outstanding(calls[c].run) = {calls[c].ack}
  BY <1>1, <1>5 DEF OutstandingIsCurrent
<1> QED BY <1>3, <1>5, <1>6

(* What the --ack part of the transaction does to one message ...          *)
LEMMA AckedMsgsFacts ==
    ASSUME Inv, NEW c \in Call, NEW s \in Sequence
    PROVE  /\ AckedMsgs(c)[s] \in MessageRow
           /\ AckedMsgs(c)[s].to = msgs[s].to /\ AckedMsgs(c)[s].run = msgs[s].run
           /\ AckedMsgs(c)[s].st =
                 IF s \in AckedIds(c) /\ msgs[s].st = "unread" THEN "acked" ELSE msgs[s].st
<1>1. msgs[s] \in MessageRow
  BY DEF Inv, TypeOK
<1>2. CASE s \in AckedIds(c) /\ msgs[s].st = "unread"
  BY <1>1, <1>2 DEF AckedMsgs, MessageRow
<1>3. CASE ~(s \in AckedIds(c) /\ msgs[s].st = "unread")
  BY <1>1, <1>3 DEF AckedMsgs
<1> QED BY <1>2, <1>3

(* A delivery row is its fields.                                           *)
LEMMA DeliveryRowFields ==
    ASSUME NEW D \in DeliveryRow, NEW E,
           \/ \E st, by : E = [D EXCEPT !.st = st, !.by = by]
           \/ \E by : E = [D EXCEPT !.by = by],
           E.st \in {"free", "outstanding", "acknowledged", "fenced", "deleted"},
           E.by \in SUBSET Pane
    PROVE  /\ E \in DeliveryRow /\ E.run = D.run /\ E.gen = D.gen /\ E.ids = D.ids
<1>1. /\ E.run = D.run /\ E.gen = D.gen /\ E.ids = D.ids /\ E.types = D.types
      /\ E = [st |-> E.st, run |-> E.run, gen |-> E.gen, ids |-> E.ids,
              types |-> E.types, by |-> E.by]
  BY DEF DeliveryRow
<1> QED BY <1>1 DEF DeliveryRow

(* ... and to one delivery.                                                *)
LEMMA AckedDelivFacts ==
    ASSUME Inv, NEW c \in Call, Accepted(c), NEW d \in DeliveryId
    PROVE  /\ AckedDeliv(c)[d] \in DeliveryRow
           /\ AckedDeliv(c)[d].run = deliv[d].run /\ AckedDeliv(c)[d].gen = deliv[d].gen
           /\ AckedDeliv(c)[d].ids = deliv[d].ids
           /\ IF Acking(c) /\ d = calls[c].ack
              THEN /\ AckedDeliv(c)[d].st = "acknowledged"
                   /\ AckedDeliv(c)[d].by = deliv[d].by \cup {calls[c].pane}
              ELSE AckedDeliv(c)[d] = deliv[d]
<1>1. deliv[d] \in DeliveryRow /\ deliv \in [DeliveryId -> DeliveryRow]
  BY DEF Inv, TypeOK
<1>2. calls[c].pane \in Pane /\ (Acking(c) => calls[c].ack \in DeliveryId)
  BY AcceptedFacts
<1>3. CASE Acking(c) /\ d = calls[c].ack
  <2> DEFINE D == deliv[d]
             E == AckedDeliv(c)[d]
             p == calls[c].pane
  <2>1. E = [D EXCEPT !.st = "acknowledged", !.by = @ \cup {p}]
    BY <1>1, <1>3 DEF AckedDeliv
  <2>2. D \in DeliveryRow /\ p \in Pane
    BY <1>1, <1>2
  <2> HIDE DEF D, E, p
  <2>3. E.st = "acknowledged" /\ E.by = D.by \cup {p} /\ D.by \in SUBSET Pane
    BY <2>1, <2>2 DEF DeliveryRow
  <2>4. E \in DeliveryRow /\ E.run = D.run /\ E.gen = D.gen /\ E.ids = D.ids
    BY <2>1, <2>2, <2>3, DeliveryRowFields
  <2> QED BY <1>3, <2>3, <2>4 DEF D, E, p
<1>4. CASE ~(Acking(c) /\ d = calls[c].ack)
  BY <1>1, <1>4 DEF AckedDeliv
<1> QED BY <1>3, <1>4

(* A page of unread mail holds unread mail of the Run that the same        *)
(* transaction did not acknowledge.                                        *)
LEMMA FetchedFacts ==
    ASSUME NEW c \in Call, NEW s \in Fetched(c)
    PROVE  /\ s \in Sequence /\ msgs[s].st = "unread"
           /\ msgs[s].to = calls[c].run /\ msgs[s].run = calls[c].run
           /\ s \notin AckedIds(c)
BY DEF Fetched, OfRun, Oldest, Listed

(* The tables after a check: its acknowledgement, and at most one delivery *)
(* shown again or one new delivery.                                        *)
LEMMA CheckKeepsTables ==
    ASSUME Inv, NEW c \in Call, Accepted(c), msgs' = AckedMsgs(c),
           UNCHANGED <<runs, drawn, coord, gen, live>>,
           NEW d \in DeliveryId, deliv' \in [DeliveryId -> DeliveryRow],
           \A e \in DeliveryId : e # d => deliv'[e] = AckedDeliv(c)[e],
           \/ deliv'[d] = AckedDeliv(c)[d]
           \/ /\ d \in Held(c)
              /\ deliv'[d].st = deliv[d].st /\ deliv'[d].run = deliv[d].run
              /\ deliv'[d].gen = deliv[d].gen /\ deliv'[d].ids = deliv[d].ids
              /\ deliv'[d].by = deliv[d].by \cup {calls[c].pane}
           \/ /\ Held(c) = {} /\ deliv[d].st = "free"
              /\ deliv'[d].st = "outstanding" /\ deliv'[d].run = calls[c].run
              /\ deliv'[d].gen = calls[c].gen /\ deliv'[d].ids = Fetched(c)
              /\ deliv'[d].by = {calls[c].pane}
    PROVE  TablesOK' /\ msgs' \in [Sequence -> MessageRow]
<1> DEFINE r == calls[c].run
           p == calls[c].pane
           a == calls[c].ack
<1>1. /\ r \in runs /\ r \in Run /\ gen[r] = calls[c].gen /\ coord[r] # None
      /\ p \in Pane /\ PaneOf[coord[r]] = p
      /\ Acking(c) => /\ a \in DeliveryId /\ deliv[a].st = "outstanding"
                      /\ deliv[a].run = r /\ Outstanding(r) = {a}
  BY AcceptedFacts
<1>2. /\ TypeOK /\ CoordinatorHasRow /\ OneRunPerPane /\ OutstandingIsCurrent
      /\ HeldByCoordinator /\ ListsOwnMail /\ ExclusiveDelivery /\ AckedMailWasHanded
  BY DEF Inv
<1>3. /\ \A s \in Sequence :
           /\ msgs'[s] \in MessageRow
           /\ msgs'[s].to = msgs[s].to /\ msgs'[s].run = msgs[s].run
           /\ msgs'[s].st = IF s \in AckedIds(c) /\ msgs[s].st = "unread"
                            THEN "acked" ELSE msgs[s].st
      /\ msgs' \in [Sequence -> MessageRow]
  <2>1. \A s \in Sequence :
           /\ msgs'[s] \in MessageRow
           /\ msgs'[s].to = msgs[s].to /\ msgs'[s].run = msgs[s].run
           /\ msgs'[s].st = IF s \in AckedIds(c) /\ msgs[s].st = "unread"
                            THEN "acked" ELSE msgs[s].st
    BY AckedMsgsFacts
  <2>2. msgs' = [s \in Sequence |-> msgs'[s]]
    BY DEF AckedMsgs
  <2> QED BY <2>1, <2>2
(* Every delivery is acknowledged now, shown now, new, or as before.       *)
<1>4. \A e \in DeliveryId :
        \/ /\ Acking(c) /\ e = a /\ deliv'[e].st = "acknowledged"
           /\ deliv'[e].run = deliv[e].run /\ deliv'[e].ids = deliv[e].ids
           /\ deliv'[e].by = deliv[e].by \cup {p}
        \/ /\ e \in Held(c) /\ deliv[e].st = "outstanding" /\ deliv[e].run = r
           /\ deliv'[e].st = "outstanding" /\ deliv'[e].run = r
           /\ deliv'[e].gen = deliv[e].gen /\ deliv'[e].ids = deliv[e].ids
           /\ deliv'[e].by = deliv[e].by \cup {p}
        \/ /\ e = d /\ Held(c) = {} /\ deliv[e].st = "free"
           /\ deliv'[e].st = "outstanding" /\ deliv'[e].run = r
           /\ deliv'[e].gen = calls[c].gen /\ deliv'[e].ids = Fetched(c)
           /\ deliv'[e].by = {p}
        \/ /\ deliv'[e] = deliv[e] /\ ~(Acking(c) /\ e = a)
  <2> SUFFICES ASSUME NEW e \in DeliveryId PROVE <1>4!(e)
    OBVIOUS
  <2>1. /\ AckedDeliv(c)[e].run = deliv[e].run
        /\ AckedDeliv(c)[e].ids = deliv[e].ids
        /\ IF Acking(c) /\ e = a
           THEN /\ AckedDeliv(c)[e].st = "acknowledged"
                /\ AckedDeliv(c)[e].by = deliv[e].by \cup {p}
           ELSE AckedDeliv(c)[e] = deliv[e]
    BY AckedDelivFacts
  <2>2. CASE deliv'[e] = AckedDeliv(c)[e]
    BY <2>1, <2>2
  <2>3. CASE e = d /\ deliv'[e] # AckedDeliv(c)[e]
    BY <2>3 DEF Held, Outstanding
  <2> QED BY <2>2, <2>3
<1> HIDE DEF r, p, a
<1>5. CoordinatorHasRow' /\ OneRunPerPane'
  BY <1>2 DEF CoordinatorHasRow, OneRunPerPane, BoundTo
<1>6. OutstandingIsCurrent'
  <2> SUFFICES ASSUME NEW e \in DeliveryId, deliv'[e].st = "outstanding"
               PROVE  /\ deliv'[e].run \in runs /\ deliv'[e].gen = gen[deliv'[e].run]
                      /\ \A f \in DeliveryId :
                           deliv'[f].st = "outstanding" /\ deliv'[f].run = deliv'[e].run
                           => f = e
    BY DEF OutstandingIsCurrent, Outstanding
  <2>1. \A f \in DeliveryId : deliv[f].st = "outstanding" =>
          /\ deliv[f].run \in runs /\ deliv[f].gen = gen[deliv[f].run]
          /\ \A g \in DeliveryId :
               deliv[g].st = "outstanding" /\ deliv[g].run = deliv[f].run => g = f
    BY <1>2 DEF OutstandingIsCurrent, Outstanding
  <2>2. \A f \in DeliveryId : /\ deliv'[f].st = "outstanding" /\ deliv[f].st # "free"
                              => /\ deliv[f].st = "outstanding"
                                 /\ deliv'[f].run = deliv[f].run
                                 /\ deliv'[f].gen = deliv[f].gen
                                 /\ ~(Acking(c) /\ f = a)
    BY <1>4 DEF Held, a
  <2>3. \A f \in DeliveryId : deliv'[f].st = "outstanding" /\ deliv[f].st = "free"
                              => f = d /\ Held(c) = {} /\ deliv'[f].run = r
                                 /\ deliv'[f].gen = calls[c].gen
    BY <1>4
  <2>4. Held(c) = {} => \A f \in DeliveryId :
          deliv[f].st = "outstanding" /\ ~(Acking(c) /\ f = a) => deliv[f].run # r
    BY DEF Held, Outstanding, r, a
  <2>5. CASE deliv[e].st = "free"
    BY <1>1, <2>2, <2>3, <2>4, <2>5
  <2>6. CASE deliv[e].st # "free"
    BY <2>1, <2>2, <2>3, <2>4, <2>6
  <2> QED BY <2>5, <2>6
<1>7. HeldByCoordinator'
  <2>1. \A e \in DeliveryId : deliv[e].st = "outstanding" /\ deliv[e].run = r =>
          \A x \in deliv[e].by : x = p
    BY <1>1, <1>2 DEF HeldByCoordinator
  <2> QED BY <1>1, <1>2, <1>4, <2>1 DEF HeldByCoordinator
<1>8. ListsOwnMail'
  <2>1. \A e \in DeliveryId : deliv[e].ids \subseteq Sequence
    BY <1>2 DEF TypeOK, DeliveryRow
  <2>2. \A s \in Fetched(c) : /\ s \in Sequence /\ msgs[s].st = "unread"
                              /\ msgs[s].to = r /\ msgs[s].run = r
    BY FetchedFacts DEF r
  <2>3. \A s \in Sequence : msgs[s].st # "absent" => msgs'[s].st # "absent"
    BY <1>3
  <2> QED BY <1>2, <1>3, <1>4, <2>1, <2>2, <2>3 DEF ListsOwnMail
<1>9. ExclusiveDelivery'
  <2>1. \A e \in DeliveryId : deliv[e].st = "outstanding" /\ deliv[e].run = r =>
          \A x \in deliv[e].by : x = p
    BY <1>1, <1>2 DEF HeldByCoordinator
  <2> QED BY <1>1, <1>2, <1>4, <2>1 DEF ExclusiveDelivery
<1>10. AckedMailWasHanded'
  <2> SUFFICES ASSUME NEW s \in Sequence, msgs'[s].st = "acked"
               PROVE  \E e \in DeliveryId : /\ deliv'[e].st = "acknowledged"
                                            /\ s \in deliv'[e].ids
                                            /\ deliv'[e].run = msgs'[s].run
    BY DEF AckedMailWasHanded
  <2>1. CASE s \in AckedIds(c) /\ msgs[s].st = "unread"
    <3>1. Acking(c) /\ s \in deliv[a].ids
      BY <2>1 DEF AckedIds, a
    <3>2. deliv'[a].st = "acknowledged" /\ deliv'[a].ids = deliv[a].ids
          /\ deliv'[a].run = deliv[a].run /\ a \in DeliveryId
      BY <1>1, <1>4, <3>1 DEF Held, a
    <3>3. msgs[s].run = deliv[a].run
      BY <1>1, <1>2, <3>1 DEF ListsOwnMail
    <3> QED BY <1>3, <3>1, <3>2, <3>3
  <2>2. CASE ~(s \in AckedIds(c) /\ msgs[s].st = "unread")
    <3>1. msgs[s].st = "acked"
      BY <1>3, <2>2
    <3>2. PICK e \in DeliveryId : /\ deliv[e].st = "acknowledged" /\ s \in deliv[e].ids
                                  /\ deliv[e].run = msgs[s].run
      BY <1>2, <3>1 DEF AckedMailWasHanded
    <3>3. deliv'[e] = deliv[e]
      BY <1>1, <1>4, <3>2
    <3> QED BY <1>3, <3>2, <3>3
  <2> QED BY <2>1, <2>2
<1> QED BY <1>3, <1>5, <1>6, <1>7, <1>8, <1>9, <1>10 DEF TablesOK

(* A check that returns, or starts to wait, keeps the handlers' part.      *)
LEMMA ReturnOrWaitKeeps ==
    ASSUME Inv, NEW c \in Call, Accepted(c), UNCHANGED <<drawn, runs, coord, gen>>,
           Finish(c) \/ Begin(c, [calls[c] EXCEPT !.pc = "wait"])
    PROVE  calls' \in [Call -> CallState] /\ UsesAreNamed' /\ ChecksAreBound'
<1>1. TypeOK /\ UsesAreNamed /\ ChecksAreBound
  BY DEF Inv
<1>2. CASE Finish(c)
  BY <1>1, <1>2, FinishKeeps
<1>3. CASE Begin(c, [calls[c] EXCEPT !.pc = "wait"])
  <2> DEFINE k == [calls[c] EXCEPT !.pc = "wait"]
  <2>1. /\ k \in CallState /\ k.pc = "wait" /\ k.run = calls[c].run
        /\ k.gen = calls[c].gen /\ k.pane = calls[c].pane
    BY <1>1 DEF TypeOK, CallState
  <2>2. Checking(c)
    BY DEF Accepted, Checking
  <2>3. /\ k.pane \in Pane /\ k.run \in drawn
        /\ k.run \in runs => k.gen <= gen[k.run]
        /\ k.run \in runs /\ gen[k.run] = k.gen =>
              coord[k.run] # None /\ PaneOf[coord[k.run]] = k.pane
    BY <1>1, <2>1, <2>2 DEF ChecksAreBound, Current
  <2>4. Begin(c, k)
    BY <1>3
  <2> HIDE DEF k
  <2> QED BY <1>1, <2>1, <2>3, <2>4, RecordKeeps
<1> QED BY <1>2, <1>3

(* The transaction of check_run_mailbox keeps the invariant.               *)
LEMMA CheckKeeps ==
    ASSUME Inv, NEW c \in Call,
           \/ CheckLook(c) \/ CheckReplay(c) \/ CheckEmpty(c)
           \/ \E d \in DeliveryId : CheckDeliver(c, d)
    PROVE  Inv'
<1>1. /\ Accepted(c) /\ msgs' = AckedMsgs(c)
      /\ UNCHANGED <<runs, drawn, coord, gen, live>>
      /\ Finish(c) \/ Begin(c, [calls[c] EXCEPT !.pc = "wait"])
  BY DEF CheckLook, CheckReplay, CheckEmpty, CheckDeliver, ReturnOrWait
<1>2. calls' \in [Call -> CallState] /\ UsesAreNamed' /\ ChecksAreBound'
  BY <1>1, ReturnOrWaitKeeps
<1>3. /\ deliv \in [DeliveryId -> DeliveryRow] /\ calls[c].pane \in Pane
      /\ calls[c].run \in Run /\ calls[c].gen \in 0 .. MaxGen
      /\ calls[c].types \in SUBSET Type
  BY <1>1, AcceptedFacts DEF Inv, TypeOK, CallState
<1>4. /\ AckedDeliv(c) \in [DeliveryId -> DeliveryRow]
      /\ \A e \in DeliveryId : ~Acking(c) \/ e # calls[c].ack
                                => AckedDeliv(c)[e] = deliv[e]
  <2>1. \A e \in DeliveryId : /\ AckedDeliv(c)[e] \in DeliveryRow
                              /\ ~Acking(c) \/ e # calls[c].ack
                                 => AckedDeliv(c)[e] = deliv[e]
    BY <1>1, AckedDelivFacts
  <2>2. AckedDeliv(c) = [e \in DeliveryId |-> AckedDeliv(c)[e]]
    BY <1>3 DEF AckedDeliv
  <2> QED BY <2>1, <2>2
<1>5. SUFFICES /\ TablesOK' /\ msgs' \in [Sequence -> MessageRow]
               /\ deliv' \in [DeliveryId -> DeliveryRow]
  <2>1. TypeOK'
    BY <1>1, <1>2, <1>5 DEF Inv, TypeOK
  <2> QED BY <1>2, <1>5, <2>1 DEF Inv, TablesOK
<1>6. CASE DeliveryId = {}
  <2>1. deliv' = AckedDeliv(c) /\ deliv' \in [DeliveryId -> DeliveryRow]
    BY <1>4, <1>6 DEF CheckLook, CheckReplay, CheckEmpty, CheckDeliver, Held, Outstanding
  <2>2. ~Acking(c)
    BY <1>1, <1>6, AcceptedFacts
  <2>3. msgs' = msgs /\ deliv' = deliv
    BY <1>1, <2>1, <2>2 DEF AckedMsgs, AckedIds, AckedDeliv, Inv, TypeOK
  <2>4. UNCHANGED tables
    BY <1>1, <2>3 DEF tables
  <2> QED BY <2>1, <2>3, <2>4, SameTables DEF Inv, TypeOK, TablesOK
<1>7. CASE CheckLook(c) \/ CheckEmpty(c)
  <2>1. deliv' = AckedDeliv(c)
    BY <1>7 DEF CheckLook, CheckEmpty
  <2>2. CASE DeliveryId # {}
    <3>1. PICK d \in DeliveryId : TRUE
      BY <2>2
    <3> QED BY <1>1, <1>4, <2>1, CheckKeepsTables
  <2> QED BY <1>6, <2>2
<1>8. CASE CheckReplay(c)
  <2>1. PICK d \in Held(c) :
          deliv' = [AckedDeliv(c) EXCEPT ![d].by = @ \cup {calls[c].pane}]
    BY <1>8 DEF CheckReplay
  <2>2. d \in DeliveryId /\ (~Acking(c) \/ d # calls[c].ack)
    BY DEF Held, Outstanding
  <2> DEFINE D == deliv[d]
             E == deliv'[d]
             p == calls[c].pane
  <2>3. /\ D \in DeliveryRow /\ E = [D EXCEPT !.by = @ \cup {p}]
        /\ \A e \in DeliveryId : e # d => deliv'[e] = AckedDeliv(c)[e]
        /\ deliv' = [e \in DeliveryId |-> deliv'[e]]
    BY <1>3, <1>4, <2>1, <2>2
  <2>4. E \in DeliveryRow /\ E.run = D.run /\ E.gen = D.gen /\ E.ids = D.ids
        /\ E.st = D.st /\ E.by = D.by \cup {p}
    <3>1. p \in Pane
      BY <1>3
    <3> HIDE DEF D, E, p
    <3>2. /\ E.st = D.st /\ E.by = D.by \cup {p} /\ D.by \in SUBSET Pane
          /\ D.st \in {"free", "outstanding", "acknowledged", "fenced", "deleted"}
      BY <2>3 DEF DeliveryRow
    <3> QED BY <2>3, <3>1, <3>2, DeliveryRowFields
  <2>5. deliv' \in [DeliveryId -> DeliveryRow]
    <3>1. \A e \in DeliveryId : deliv'[e] \in DeliveryRow
      BY <1>4, <2>3, <2>4
    <3> QED BY <2>3, <3>1
  <2> QED BY <1>1, <2>2, <2>3, <2>4, <2>5, CheckKeepsTables
<1>9. ASSUME NEW d \in DeliveryId, CheckDeliver(c, d)
      PROVE  /\ TablesOK' /\ msgs' \in [Sequence -> MessageRow]
             /\ deliv' \in [DeliveryId -> DeliveryRow]
  <2> DEFINE E == [st |-> "outstanding", run |-> calls[c].run, gen |-> calls[c].gen,
                   ids |-> Fetched(c), types |-> calls[c].types, by |-> {calls[c].pane}]
  <2>1. /\ Held(c) = {} /\ deliv[d].st = "free"
        /\ deliv' = [AckedDeliv(c) EXCEPT ![d] = E]
    BY <1>9 DEF CheckDeliver
  <2>2. Fetched(c) \in SUBSET Sequence
    BY FetchedFacts
  <2>3. E \in DeliveryRow
    BY <1>3, <2>2 DEF DeliveryRow
  <2>4. /\ E.st = "outstanding" /\ E.run = calls[c].run /\ E.gen = calls[c].gen
        /\ E.ids = Fetched(c) /\ E.by = {calls[c].pane}
    OBVIOUS
  <2> HIDE DEF E
  <2>5. /\ deliv' \in [DeliveryId -> DeliveryRow] /\ deliv'[d] = E
        /\ \A e \in DeliveryId : e # d => deliv'[e] = AckedDeliv(c)[e]
    BY <1>4, <2>1, <2>3
  <2> QED BY <1>1, <2>1, <2>4, <2>5, CheckKeepsTables
<1> QED BY <1>7, <1>8, <1>9

-----------------------------------------------------------------------------
(* The theorems.                                                           *)

(* The empty tables satisfy the invariant.                                 *)
LEMMA InitInv == Init => Inv
<1> SUFFICES ASSUME Init PROVE Inv
  OBVIOUS
<1>1. NoMessage \in MessageRow /\ NoMessage.st = "absent"
  BY DEF NoMessage, MessageRow
<1>2. NoDelivery \in DeliveryRow /\ NoDelivery.st = "free" /\ NoDelivery.by = {}
  BY ConstantTypes DEF NoDelivery, DeliveryRow
<1>3. IdleCall \in CallState /\ IdleCall.pc = "idle"
  BY IdleCallType DEF IdleCall
<1>4. TypeOK
  BY <1>1, <1>2, <1>3, ConstantTypes DEF Init, TypeOK
<1>5. CoordinatorHasRow /\ UsesAreNamed /\ ChecksAreBound /\ OneRunPerPane
  BY <1>3 DEF Init, CoordinatorHasRow, UsesAreNamed, ChecksAreBound, Checking,
              OneRunPerPane, BoundTo
<1>6. OutstandingIsCurrent /\ HeldByCoordinator /\ ListsOwnMail /\ ExclusiveDelivery
  BY <1>2 DEF Init, OutstandingIsCurrent, HeldByCoordinator, ListsOwnMail,
              ExclusiveDelivery
<1>7. AckedMailWasHanded
  BY <1>1 DEF Init, AckedMailWasHanded
<1> QED BY <1>4, <1>5, <1>6, <1>7 DEF Inv

(* Every step keeps the invariant.                                         *)
LEMMA NextInv == Inv /\ [Next]_vars => Inv'
<1> SUFFICES ASSUME Inv, [Next]_vars PROVE Inv'
  OBVIOUS
<1>1. ASSUME NEW c \in Call, Step(c) PROVE Inv'
  BY <1>1, HandlerSteps, RunUseBindKeeps, CheckKeeps DEF Step
<1>2. ASSUME NEW c \in Call, Request(c) PROVE Inv'
  <2>1. CASE \E h \in Handle, r \in Run : RunCreate(c, h, r)
    BY <2>1, RunCreateKeeps
  <2>2. CASE \E h \in Handle, r \in Run : RunUse(c, h, r)
    BY <2>2, HandlerSteps
  <2>3. CASE \E scope \in {"all", "tasks", "messages"} : Reset(c, scope)
    BY <2>3, ResetKeeps
  <2>4. CASE \/ \E to, r \in Run, t \in Type : SendMessage(c, to, r, t)
             \/ \E m \in Sequence : Reply(c, m)
    BY <2>4, MailKeeps
  <2>5. CASE \E p \in Pane, ack \in DeliveryId \cup {None}, ask \in Asks :
               CheckMessages(c, p, ack, ask)
    BY <2>5, HandlerSteps
  <2> QED BY <1>2, <2>1, <2>2, <2>3, <2>4, <2>5 DEF Request
<1>3. ASSUME NEW c \in Call, WaitTimeout(c) \/ Drop(c) PROVE Inv'
  BY <1>3, HandlerSteps
<1>4. ASSUME NEW h \in Handle, TerminalExit(h) PROVE Inv'
  <2>1. UNCHANGED <<tables, calls>> /\ live' \subseteq Handle
    BY <1>4 DEF TerminalExit, Inv, TypeOK
  <2>2. TablesOK'
    BY <2>1, SameTables DEF Inv, TablesOK
  <2>3. TypeOK' /\ UsesAreNamed' /\ ChecksAreBound'
    BY <2>1 DEF Inv, TypeOK, UsesAreNamed, ChecksAreBound, Checking, Current, tables
  <2> QED BY <2>2, <2>3 DEF Inv, TablesOK
<1>5. CASE UNCHANGED vars
  <2>1. UNCHANGED tables /\ UNCHANGED <<live, calls>>
    BY <1>5 DEF vars, tables
  <2>2. TablesOK'
    BY <2>1, SameTables DEF Inv, TablesOK
  <2>3. TypeOK' /\ UsesAreNamed' /\ ChecksAreBound'
    BY <2>1 DEF Inv, TypeOK, UsesAreNamed, ChecksAreBound, Checking, Current, tables
  <2> QED BY <2>2, <2>3 DEF Inv, TablesOK
<1> QED BY <1>1, <1>2, <1>3, <1>4, <1>5 DEF Next, Serve

(* So every reachable state satisfies it.                                  *)
LEMMA SpecInv == Spec => []Inv
BY InitInv, NextInv, PTL DEF Spec

(* Every table and handler record keeps its type.                          *)
THEOREM MailboxType == Spec => []TypeOK
<1>1. Inv => TypeOK
  BY DEF Inv
<1> QED BY <1>1, SpecInv, PTL

(* A terminal pane never coordinates two Runs, whatever run_create, run_use *)
(* and reset calls race: the release of the pane's other Runs and the      *)
(* binding are one transaction.                                            *)
THEOREM PaneCoordinatesOneRun == Spec => []OneRunPerPane
<1>1. Inv => OneRunPerPane
  BY DEF Inv
<1> QED BY <1>1, SpecInv, PTL

(* A Run's only outstanding delivery is of its current consumer            *)
(* generation: run_create and run_use fence in the transaction that        *)
(* raises the generation.                                                  *)
THEOREM OutstandingDeliveryIsCurrent == Spec => []OutstandingIsCurrent
<1>1. Inv => OutstandingIsCurrent
  BY DEF Inv
<1> QED BY <1>1, SpecInv, PTL

(* No delivery is ever shown to, or acknowledged by, two panes: a check    *)
(* that resolved its mailbox before a takeover is refused by the           *)
(* generation it remembers.                                                *)
THEOREM DeliveryHasOneConsumer == Spec => []ExclusiveDelivery
<1>1. Inv => ExclusiveDelivery
  BY DEF Inv
<1> QED BY <1>1, SpecInv, PTL

(* Mail an acknowledgement marked read is listed by an acknowledged        *)
(* delivery of its Run: no mail is lost by a takeover.                     *)
THEOREM AckedMailWasDelivered == Spec => []AckedMailWasHanded
<1>1. Inv => AckedMailWasHanded
  BY DEF Inv
<1> QED BY <1>1, SpecInv, PTL

-----------------------------------------------------------------------------
(***************************************************************************)
(* RunMailbox implements RunLease: every transaction of the authority is   *)
(* one step of the lease or leaves it alone.                               *)
(***************************************************************************)

(* The lease that the tables stand for.                                    *)
Queue   == [r \in Run |-> MailOf(r) \ LeasedOf(r)]
Leases  == [r \in Run |-> LeasedOf(r)]
Settled == {s \in Sequence : msgs[s].st = "acked"}

-----------------------------------------------------------------------------
(* What a check writes.                                                    *)

CheckWrites(c) == \/ CheckLook(c) \/ CheckReplay(c) \/ CheckEmpty(c)
                  \/ \E d \in DeliveryId : CheckDeliver(c, d)

(* The deliveries of `new` are created from free ids.                      *)
Creates(c, new) ==
    \A d \in new :
        /\ CheckDeliver(c, d) /\ d \in DeliveryId /\ new = {d} /\ Held(c) = {}
        /\ deliv[d].st = "free" /\ ~(Acking(c) /\ d = calls[c].ack)
        /\ deliv'[d].st = "outstanding" /\ deliv'[d].run = calls[c].run
        /\ deliv'[d].ids = Fetched(c) /\ deliv'[d].types = calls[c].types

(* The other deliveries keep their mail, and the one that the check        *)
(* acknowledges is settled.                                                *)
Settles(c, new) ==
    \A e \in DeliveryId \ new :
        /\ deliv'[e].run = deliv[e].run /\ deliv'[e].ids = deliv[e].ids
        /\ deliv'[e].types = deliv[e].types
        /\ deliv'[e].st = IF Acking(c) /\ e = calls[c].ack THEN "acknowledged"
                          ELSE deliv[e].st

(* A check creates at most one delivery and settles at most one.           *)
LEMMA CheckEffect ==
    ASSUME Inv, NEW c \in Call, CheckWrites(c)
    PROVE  /\ Accepted(c) /\ msgs' = AckedMsgs(c)
           /\ \E new \in SUBSET DeliveryId : Creates(c, new) /\ Settles(c, new)
<1>1. Accepted(c) /\ msgs' = AckedMsgs(c)
  BY DEF CheckWrites, CheckLook, CheckReplay, CheckEmpty, CheckDeliver
<1>2. deliv \in [DeliveryId -> DeliveryRow] /\ (Acking(c) => calls[c].ack \in DeliveryId)
  BY <1>1, AcceptedFacts DEF Inv, TypeOK
<1>3. /\ AckedDeliv(c) = [e \in DeliveryId |-> AckedDeliv(c)[e]]
      /\ \A e \in DeliveryId :
           LET D == AckedDeliv(c)[e] IN
           /\ D = [D EXCEPT !.by = D.by] /\ D \in DeliveryRow
           /\ D.run = deliv[e].run /\ D.ids = deliv[e].ids /\ D.types = deliv[e].types
           /\ D.st = IF Acking(c) /\ e = calls[c].ack THEN "acknowledged" ELSE deliv[e].st
  <2>1. AckedDeliv(c) = [e \in DeliveryId |-> AckedDeliv(c)[e]]
    BY <1>2 DEF AckedDeliv
  <2>2. ASSUME NEW e \in DeliveryId
        PROVE  LET D == AckedDeliv(c)[e] IN
               /\ D = [D EXCEPT !.by = D.by] /\ D \in DeliveryRow
               /\ D.run = deliv[e].run /\ D.ids = deliv[e].ids
               /\ D.types = deliv[e].types
               /\ D.st = IF Acking(c) /\ e = calls[c].ack
                         THEN "acknowledged" ELSE deliv[e].st
    <3>1. deliv[e] \in DeliveryRow /\ AckedDeliv(c)[e] \in DeliveryRow
      BY <1>1, <1>2, AckedDelivFacts
    <3>2. CASE Acking(c) /\ e = calls[c].ack
      <4>1. AckedDeliv(c)[e] = [deliv[e] EXCEPT !.st = "acknowledged",
                                                !.by = @ \cup {calls[c].pane}]
        BY <1>2, <3>2 DEF AckedDeliv
      <4> QED BY <3>1, <3>2, <4>1 DEF DeliveryRow
    <3>3. CASE ~(Acking(c) /\ e = calls[c].ack)
      BY <1>1, <3>1, <3>3, AckedDelivFacts DEF DeliveryRow
    <3> QED BY <3>2, <3>3
  <2> QED BY <2>1, <2>2
<1>4. CASE CheckLook(c) \/ CheckEmpty(c)
  <2>1. deliv' = AckedDeliv(c)
    BY <1>4 DEF CheckLook, CheckEmpty
  <2>2. Settles(c, {}) /\ Creates(c, {})
    BY <1>3, <2>1 DEF Settles, Creates
  <2> QED BY <1>1, <2>2
<1>5. CASE CheckReplay(c)
  <2>1. PICK d \in DeliveryId :
          deliv' = [AckedDeliv(c) EXCEPT ![d].by = @ \cup {calls[c].pane}]
    BY <1>5 DEF CheckReplay, Held, Outstanding
  <2>2. \A e \in DeliveryId : e # d => deliv'[e] = AckedDeliv(c)[e]
    BY <1>3, <2>1
  <2>3. /\ deliv'[d].run = AckedDeliv(c)[d].run /\ deliv'[d].ids = AckedDeliv(c)[d].ids
        /\ deliv'[d].types = AckedDeliv(c)[d].types /\ deliv'[d].st = AckedDeliv(c)[d].st
    <3> DEFINE D == AckedDeliv(c)[d]
               p == calls[c].pane
    <3>1. D \in DeliveryRow /\ deliv'[d] = [D EXCEPT !.by = D.by \cup {p}]
      BY <1>3, <2>1
    <3> HIDE DEF D, p
    <3>2. /\ deliv'[d].run = D.run /\ deliv'[d].ids = D.ids
          /\ deliv'[d].types = D.types /\ deliv'[d].st = D.st
      BY <3>1 DEF DeliveryRow
    <3> QED BY <3>2 DEF D
  <2>4. Settles(c, {}) /\ Creates(c, {})
    BY <1>3, <2>2, <2>3 DEF Settles, Creates
  <2> QED BY <1>1, <2>4
<1>6. ASSUME NEW d \in DeliveryId, CheckDeliver(c, d)
      PROVE  Creates(c, {d}) /\ Settles(c, {d})
  <2>1. /\ Held(c) = {} /\ deliv[d].st = "free"
        /\ deliv' = [AckedDeliv(c) EXCEPT ![d] =
             [st |-> "outstanding", run |-> calls[c].run, gen |-> calls[c].gen,
              ids |-> Fetched(c), types |-> calls[c].types, by |-> {calls[c].pane}]]
    BY <1>6 DEF CheckDeliver
  <2>2. ~(Acking(c) /\ d = calls[c].ack)
    BY <2>1 DEF Acking
  <2>3. \A e \in DeliveryId : e # d => deliv'[e] = AckedDeliv(c)[e]
    BY <1>3, <2>1
  <2>4. Settles(c, {d})
    BY <1>3, <2>3 DEF Settles
  <2>5. /\ deliv'[d].st = "outstanding" /\ deliv'[d].run = calls[c].run
        /\ deliv'[d].ids = Fetched(c) /\ deliv'[d].types = calls[c].types
    BY <1>3, <2>1
  <2> QED BY <1>6, <2>1, <2>2, <2>4, <2>5 DEF Creates
<1> QED BY <1>1, <1>4, <1>5, <1>6 DEF CheckWrites

-----------------------------------------------------------------------------
(* The steps of the lease.                                                 *)

(* A step that changes no message and no delivery's Run, mail or state     *)
(* leaves the lease alone.                                                 *)
LEMMA SameLease ==
    ASSUME UNCHANGED <<msgs, deliv>>
    PROVE  Queue' = Queue /\ Leases' = Leases /\ Settled' = Settled
BY DEF Queue, Leases, Settled, MailOf, LeasedOf, Outstanding

(* run_create and run_use revoke the leases of the Runs they fence.        *)
LEMMA RebindRevokes ==
    ASSUME Inv, NEW F \in SUBSET Run, NEW to, Rebind(F, to), UNCHANGED msgs
    PROVE  Lease!Revoke(F)
<1>1. \A d \in DeliveryId :
        /\ deliv'[d].run = deliv[d].run /\ deliv'[d].ids = deliv[d].ids
        /\ deliv'[d].st = IF deliv[d].st = "outstanding" /\ deliv[d].run \in F
                          THEN "fenced" ELSE deliv[d].st
  <2> SUFFICES ASSUME NEW d \in DeliveryId
               PROVE  /\ deliv'[d].run = deliv[d].run /\ deliv'[d].ids = deliv[d].ids
                      /\ deliv'[d].st = IF deliv[d].st = "outstanding" /\ deliv[d].run \in F
                                        THEN "fenced" ELSE deliv[d].st
    OBVIOUS
  <2>1. deliv[d] \in DeliveryRow
    BY DEF Inv, TypeOK
  <2>2. deliv'[d] = IF deliv[d].st = "outstanding" /\ deliv[d].run \in F
                    THEN [deliv[d] EXCEPT !.st = "fenced"] ELSE deliv[d]
    BY DEF Rebind, Fence
  <2> QED BY <2>1, <2>2 DEF DeliveryRow
<1>2. \A r \in Run : Outstanding(r)' = IF r \in F THEN {} ELSE Outstanding(r)
  BY <1>1 DEF Outstanding
<1>3. \A r \in Run : MailOf(r)' = MailOf(r) /\ LeasedOf(r) \subseteq MailOf(r)
  BY DEF MailOf, LeasedOf
<1>4. \A r \in Run : LeasedOf(r)' = IF r \in F THEN {} ELSE LeasedOf(r)
  <2> SUFFICES ASSUME NEW r \in Run
               PROVE  LeasedOf(r)' = IF r \in F THEN {} ELSE LeasedOf(r)
    OBVIOUS
  <2>1. CASE r \in F
    BY <1>2, <2>1 DEF LeasedOf
  <2>2. CASE r \notin F
    <3>1. Outstanding(r)' = Outstanding(r) /\ MailOf(r)' = MailOf(r)
      BY <1>2, <1>3, <2>2
    <3>2. \A d \in Outstanding(r) : deliv'[d].ids = deliv[d].ids
      BY <1>1 DEF Outstanding
    <3> QED BY <2>2, <3>1, <3>2 DEF LeasedOf
  <2> QED BY <2>1, <2>2
<1>5. \A r \in Run : (MailOf(r) \ LeasedOf(r))' =
         IF r \in F THEN (MailOf(r) \ LeasedOf(r)) \cup LeasedOf(r)
         ELSE MailOf(r) \ LeasedOf(r)
  BY <1>3, <1>4
<1>6. Settled' = Settled
  BY DEF Settled
<1> QED BY <1>4, <1>5, <1>6 DEF Lease!Revoke, Settled

(* reset of the messages purges the lease.                                 *)
LEMMA ResetPurges ==
    ASSUME NEW c \in Call, NEW scope \in {"all", "messages"}, Reset(c, scope)
    PROVE  Lease!Purge
<1>1. \A s \in Sequence : msgs'[s].st = "absent"
  BY DEF Reset, NoMessage
<1>2. \A r \in Run : MailOf(r)' = {} /\ LeasedOf(r)' = {}
  BY <1>1 DEF MailOf, LeasedOf
<1>3. Settled' = {}
  BY <1>1 DEF Settled
<1> QED BY <1>2, <1>3 DEF Lease!Purge, Settled

(* A message to a Run under that Run is posted; a suppressed one, and one  *)
(* under another Run, is no mail of the Run.                               *)
LEMMA SendPosts ==
    ASSUME Inv, NEW c \in Call, NEW to \in Run, NEW r \in Run, NEW type \in Type,
           SendMessage(c, to, r, type)
    PROVE  \/ \E s \in Sequence : Lease!Post(r, s)
           \/ Queue' = Queue /\ Leases' = Leases /\ Settled' = Settled
<1>1. PICK s \in Sequence, st \in {"unread", "suppressed"} :
        /\ msgs[s].st = "absent"
        /\ msgs' = [msgs EXCEPT ![s] = [st |-> st, to |-> to, run |-> r, type |-> type]]
  BY DEF SendMessage, NextSequence, Absent
<1>2. /\ msgs'[s].st = st /\ msgs'[s].to = to /\ msgs'[s].run = r
      /\ \A t \in Sequence : t # s => msgs'[t] = msgs[t]
  BY <1>1 DEF Inv, TypeOK
<1>3. deliv' = deliv /\ \A q \in Run : Outstanding(q)' = Outstanding(q)
  BY DEF SendMessage, Outstanding
<1>4. \A q \in Run : \A d \in Outstanding(q) : s \notin deliv[d].ids
  BY <1>1 DEF Inv, ListsOwnMail, Outstanding
<1>5. Settled' = Settled
  BY <1>1, <1>2 DEF Settled
<1>6. \A q \in Run : s \notin MailOf(q) /\ LeasedOf(q) \subseteq MailOf(q)
  BY <1>1 DEF MailOf, LeasedOf
<1>7. \A q \in Run : MailOf(q)' = IF st = "unread" /\ to = r /\ q = r
                                  THEN MailOf(q) \cup {s} ELSE MailOf(q)
  BY <1>1, <1>2, <1>6 DEF MailOf
<1>8. \A q \in Run : LeasedOf(q)' = LeasedOf(q)
  <2> SUFFICES ASSUME NEW q \in Run PROVE LeasedOf(q)' = LeasedOf(q)
    OBVIOUS
  <2>1. LeasedOf(q)' = {t \in MailOf(q)' : \E d \in Outstanding(q) : t \in deliv[d].ids}
    BY <1>3 DEF LeasedOf
  <2> QED BY <1>4, <1>7, <2>1 DEF LeasedOf
<1>9. CASE st = "unread" /\ to = r
  <2>1. \A q \in Run : (MailOf(q) \ LeasedOf(q))' =
           IF q = r THEN (MailOf(q) \ LeasedOf(q)) \cup {s} ELSE MailOf(q) \ LeasedOf(q)
    BY <1>6, <1>7, <1>8, <1>9
  <2>2. Lease!Post(r, s)
    BY <1>5, <1>6, <1>8, <2>1 DEF Lease!Post, Settled
  <2> QED BY <2>2
<1>10. CASE ~(st = "unread" /\ to = r)
  BY <1>5, <1>7, <1>8, <1>10 DEF Queue, Leases
<1> QED BY <1>9, <1>10

(* A reply withdraws the letter it answers.                                *)
LEMMA ReplyWithdraws ==
    ASSUME Inv, NEW c \in Call, NEW m \in Sequence, Reply(c, m)
    PROVE  \/ Lease!Withdraw(m)
           \/ Queue' = Queue /\ Leases' = Leases /\ Settled' = Settled
<1>1. msgs[m] \in MessageRow /\ deliv' = deliv
  BY DEF Inv, TypeOK, Reply
<1>2. /\ msgs'[m].st = IF msgs[m].st = "unread" THEN "replied" ELSE msgs[m].st
      /\ msgs'[m].to = msgs[m].to /\ msgs'[m].run = msgs[m].run
      /\ \A t \in Sequence : t # m => msgs'[t] = msgs[t]
  BY <1>1 DEF Reply, MessageRow, Inv, TypeOK
<1>3. \A q \in Run : MailOf(q)' = MailOf(q) \ {m}
                     \/ (msgs[m].st # "unread" /\ MailOf(q)' = MailOf(q))
  BY <1>2 DEF MailOf
<1>4. \A q \in Run : LeasedOf(q)' =
         {t \in MailOf(q)' : \E d \in Outstanding(q) : t \in deliv[d].ids}
  BY <1>1 DEF LeasedOf, Outstanding
<1>5. Settled' = Settled
  BY <1>2 DEF Settled
<1>6. \A q \in Run : msgs[m].st # "unread" => m \notin MailOf(q)
  BY DEF MailOf
<1>7. \A q \in Run : /\ LeasedOf(q)' = LeasedOf(q) \ {m}
                     /\ (MailOf(q) \ LeasedOf(q))' = (MailOf(q) \ LeasedOf(q)) \ {m}
  BY <1>3, <1>4, <1>6 DEF LeasedOf
<1>8. Lease!Withdraw(m)
  BY <1>5, <1>7 DEF Lease!Withdraw, Settled
<1> QED BY <1>8

(* A check exchanges its consumer's lease: what it acknowledges is the     *)
(* whole lease of the Run, and a delivery it creates is the next one.      *)
LEMMA CheckExchanges ==
    ASSUME Inv, NEW c \in Call, CheckWrites(c)
    PROVE  \E r \in Run, ack \in BOOLEAN, N \in SUBSET Sequence :
              Lease!Exchange(r, ack, N)
<1> DEFINE a == calls[c].ack
<1>r. PICK r : r = calls[c].run
  OBVIOUS
<1>1. Accepted(c) /\ msgs' = AckedMsgs(c)
  BY CheckEffect
<1>2. PICK new \in SUBSET DeliveryId : Creates(c, new) /\ Settles(c, new)
  BY CheckEffect
<1>3. /\ r \in Run
      /\ Acking(c) => a \in DeliveryId /\ deliv[a].run = r /\ Outstanding(r) = {a}
  BY <1>r, <1>1, AcceptedFacts
<1>4. \A s \in Sequence :
        /\ msgs'[s].to = msgs[s].to /\ msgs'[s].run = msgs[s].run
        /\ msgs'[s].st = IF s \in AckedIds(c) /\ msgs[s].st = "unread"
                         THEN "acked" ELSE msgs[s].st
  BY <1>1, AckedMsgsFacts
<1>5. \A s \in Sequence : s \in AckedIds(c) => msgs[s].to = r /\ msgs[s].run = r
  BY <1>3 DEF AckedIds, Acking, Inv, ListsOwnMail
<1>6. LeasedOf(r) \subseteq MailOf(r) /\ (Acking(c) => LeasedOf(r) = MailOf(r) \cap AckedIds(c))
  BY <1>3 DEF LeasedOf, AckedIds
<1>7. \A q \in Run : MailOf(q)' = IF q = r /\ Acking(c) THEN MailOf(q) \ LeasedOf(q)
                                  ELSE MailOf(q)
  <2>1. \A q \in Run : MailOf(q)' = MailOf(q) \ AckedIds(c)
    BY <1>4 DEF MailOf
  <2>2. \A q \in Run : q # r => MailOf(q) \cap AckedIds(c) = {}
    BY <1>5 DEF MailOf
  <2>3. ~Acking(c) => AckedIds(c) = {}
    BY DEF AckedIds
  <2> QED BY <1>6, <2>1, <2>2, <2>3
<1>8. Settled' = IF Acking(c) THEN Settled \cup LeasedOf(r) ELSE Settled
  <2>1. Settled' = Settled \cup {s \in Sequence : s \in AckedIds(c) /\ msgs[s].st = "unread"}
    BY <1>4 DEF Settled
  <2>2. {s \in Sequence : s \in AckedIds(c) /\ msgs[s].st = "unread"}
          = MailOf(r) \cap AckedIds(c)
    BY <1>5 DEF MailOf
  <2>3. ~Acking(c) => AckedIds(c) = {}
    BY DEF AckedIds
  <2> QED BY <1>6, <2>1, <2>2, <2>3
<1>9. \A q \in Run : Outstanding(q)' =
         IF q = r THEN (Outstanding(q) \ (IF Acking(c) THEN {a} ELSE {})) \cup new
         ELSE Outstanding(q)
  <2> SUFFICES ASSUME NEW q \in Run, NEW e \in DeliveryId
               PROVE  (deliv'[e].st = "outstanding" /\ deliv'[e].run = q)
                      <=> \/ /\ deliv[e].st = "outstanding" /\ deliv[e].run = q
                             /\ q = r => ~(Acking(c) /\ e = a)
                          \/ q = r /\ e \in new
    BY <1>2 DEF Outstanding
  <2>1. CASE e \in new
    BY <1>r, <1>2, <2>1 DEF Creates
  <2>2. CASE e \notin new
    BY <1>2, <1>3, <2>2 DEF Settles
  <2> QED BY <2>1, <2>2
<1>10. \A q \in Run : \A d \in Outstanding(q) : deliv'[d].ids = deliv[d].ids
  BY <1>2 DEF Outstanding, Settles, Creates
<1> DEFINE N == IF new = {} THEN {} ELSE Fetched(c)
           kept == IF Acking(c) THEN {} ELSE LeasedOf(r)
<1>11. /\ new # {} => kept = {} /\ Outstanding(r)' = new
       /\ \A d \in new : deliv'[d].ids = N
       /\ N \subseteq MailOf(r) \ LeasedOf(r)
       /\ N \subseteq MailOf(r)'
  <2>1. new # {} => Outstanding(r) \ (IF Acking(c) THEN {a} ELSE {}) = {}
    BY <1>r, <1>2 DEF Creates, Held
  <2>2. new # {} => Outstanding(r)' = new
    BY <1>3, <1>9, <2>1
  <2>3. new # {} => kept = {}
    BY <2>1 DEF LeasedOf
  <2>4. \A d \in new : deliv'[d].ids = N
    BY <1>2 DEF Creates
  <2>5. N \subseteq MailOf(r) /\ N \cap AckedIds(c) = {}
    BY <1>r, FetchedFacts DEF MailOf
  <2>6. N \cap LeasedOf(r) = {}
    BY <1>6, <2>3, <2>5
  <2>7. N \subseteq MailOf(r)'
    BY <1>3, <1>7, <2>5, <2>6
  <2> QED BY <2>2, <2>3, <2>4, <2>5, <2>6, <2>7
<1> HIDE DEF N, kept
<1>12. LeasedOf(r)' = kept \cup N
  <2>1. CASE new # {}
    <3>1. LeasedOf(r)' = {s \in MailOf(r)' : \E d \in new : s \in N}
      BY <1>11, <2>1 DEF LeasedOf
    <3> QED BY <1>11, <2>1, <3>1
  <2>2. CASE new = {} /\ Acking(c)
    <3>1. Outstanding(r)' = {} /\ N = {} /\ kept = {}
      BY <1>3, <1>9, <2>2 DEF N, kept
    <3> QED BY <3>1 DEF LeasedOf
  <2>3. CASE new = {} /\ ~Acking(c)
    <3>1. /\ Outstanding(r)' = Outstanding(r) /\ MailOf(r)' = MailOf(r)
          /\ N = {} /\ kept = LeasedOf(r)
      BY <1>3, <1>7, <1>9, <2>3 DEF N, kept
    <3> QED BY <1>3, <1>10, <3>1 DEF LeasedOf
  <2> QED BY <2>1, <2>2, <2>3
<1>13. \A q \in Run : LeasedOf(q)' = IF q = r THEN kept \cup N ELSE LeasedOf(q)
  <2>1. \A q \in Run : q # r => LeasedOf(q)' = LeasedOf(q)
    BY <1>7, <1>9, <1>10 DEF LeasedOf
  <2> QED BY <1>12, <2>1
<1>14. \A q \in Run : (MailOf(q) \ LeasedOf(q))' =
          IF q = r THEN (MailOf(q) \ LeasedOf(q)) \ N ELSE MailOf(q) \ LeasedOf(q)
  <2>1. (MailOf(r) \ LeasedOf(r))' = (MailOf(r) \ LeasedOf(r)) \ N
    BY <1>3, <1>7, <1>11, <1>12 DEF kept
  <2> QED BY <1>7, <1>13, <2>1
<1>15. PICK ack \in BOOLEAN : ack = Acking(c)
  BY DEF Acking
<1>16. PICK M \in SUBSET Sequence : M = N
  BY <1>11 DEF MailOf
<1>17. Lease!Exchange(r, ack, M)
  <2>1. M \subseteq Queue[r] /\ (M # {} => kept = {})
    BY <1>3, <1>11, <1>16 DEF Queue, N
  <2>2. Queue' = [Queue EXCEPT ![r] = @ \ M]
    BY <1>3, <1>14, <1>16 DEF Queue
  <2>3. Leases' = [Leases EXCEPT ![r] = kept \cup M]
    BY <1>3, <1>13, <1>16 DEF Leases
  <2>4. kept = IF ack THEN {} ELSE Leases[r]
    BY <1>3, <1>15 DEF kept, Leases
  <2>5. Settled' = IF ack THEN Settled \cup Leases[r] ELSE Settled
    BY <1>3, <1>8, <1>15 DEF Leases
  <2> QED BY <2>1, <2>2, <2>3, <2>4, <2>5 DEF Lease!Exchange, Queue, Leases, Settled
<1> QED BY <1>3, <1>17

-----------------------------------------------------------------------------
(* The refinement.                                                         *)

(* The empty tables are the empty lease.                                   *)
LEMMA InitLease == Init => Lease!Init
<1> SUFFICES ASSUME Init PROVE Lease!Init
  OBVIOUS
<1>1. \A s \in Sequence : msgs[s].st = "absent"
  BY DEF Init, NoMessage
<1>2. \A r \in Run : MailOf(r) = {} /\ LeasedOf(r) = {}
  BY <1>1 DEF MailOf, LeasedOf
<1>3. {s \in Sequence : msgs[s].st = "acked"} = {}
  BY <1>1
<1> QED BY <1>2, <1>3 DEF Lease!Init

(* The transactions that write messages or deliveries: a check, or one     *)
(* whose handler goes on to notify.                                        *)
Writes(c) ==
    \/ \E F \in SUBSET Run : \E to : Rebind(F, to) /\ UNCHANGED msgs
    \/ \E scope \in {"all", "messages"} : Reset(c, scope)
    \/ \E to, r \in Run, t \in Type : SendMessage(c, to, r, t)
    \/ \E m \in Sequence : Reply(c, m)

(* Every step is one of them or leaves both tables alone.                  *)
LEMMA Transactions ==
    ASSUME Inv, [Next]_vars
    PROVE  \/ UNCHANGED <<msgs, deliv>>
           \/ \E c \in Call : CheckWrites(c) \/ Writes(c)
<1>1. ASSUME NEW c \in Call, Step(c)
      PROVE  UNCHANGED <<msgs, deliv>> \/ CheckWrites(c) \/ Writes(c)
  <2>1. CASE \/ Notify(c) \/ Subscribe(c) \/ CheckFenced(c) \/ CheckOutOfIds(c)
             \/ WaitWoken(c)
    BY <2>1 DEF Notify, Subscribe, CheckFenced, CheckOutOfIds, WaitWoken, tables
  <2>2. CASE RunUseBind(c) /\ ~UNCHANGED <<msgs, deliv>>
    <3> DEFINE others == BoundTo(PaneOf[calls[c].h]) \ {calls[c].run}
    <3>1. /\ calls[c].run \in runs /\ UNCHANGED msgs
          /\ Rebind(others \cup (IF coord[calls[c].run] = calls[c].h THEN {}
                                 ELSE {calls[c].run}),
                    OnlyFor(calls[c].run, calls[c].h))
      BY <2>2 DEF RunUseBind
    <3>2. PICK F, to : /\ Rebind(F, to)
                       /\ F = others \cup (IF coord[calls[c].run] = calls[c].h THEN {}
                                           ELSE {calls[c].run})
      BY <3>1
    <3>3. F \in SUBSET Run
      BY <3>1, <3>2 DEF Inv, TypeOK, BoundTo
    <3> QED BY <3>1, <3>2, <3>3 DEF Writes
  <2> QED BY <1>1, <2>1, <2>2 DEF Step, CheckWrites
<1>2. ASSUME NEW c \in Call, Request(c)
      PROVE  UNCHANGED <<msgs, deliv>> \/ Writes(c)
  <2>1. ASSUME NEW h \in Handle, NEW r \in Run, RunCreate(c, h, r)
        PROVE  Writes(c)
    <3>1. /\ UNCHANGED msgs
          /\ Rebind(BoundTo(PaneOf[h]) \cup {r}, OnlyFor(r, h))
      BY <2>1 DEF RunCreate
    <3>2. PICK F, to : Rebind(F, to) /\ F = BoundTo(PaneOf[h]) \cup {r}
      BY <3>1
    <3>3. F \in SUBSET Run
      BY <3>2 DEF Inv, TypeOK, BoundTo
    <3> QED BY <3>1, <3>2, <3>3 DEF Writes
  <2>2. CASE \/ \E h \in Handle, r \in Run : RunUse(c, h, r)
             \/ \E p \in Pane, ack \in DeliveryId \cup {None}, ask \in Asks :
                   CheckMessages(c, p, ack, ask)
             \/ Reset(c, "tasks")
    BY <2>2 DEF RunUse, CheckMessages, Reset, tables
  <2>3. CASE \/ \E scope \in {"all", "messages"} : Reset(c, scope)
             \/ \E to, r \in Run, t \in Type : SendMessage(c, to, r, t)
             \/ \E m \in Sequence : Reply(c, m)
    BY <2>3 DEF Writes
  <2> QED BY <1>2, <2>1, <2>2, <2>3 DEF Request
<1>3. CASE \/ \E c \in Call : WaitTimeout(c) \/ Drop(c)
           \/ \E h \in Handle : TerminalExit(h)
           \/ UNCHANGED vars
  BY <1>3 DEF WaitTimeout, Drop, TerminalExit, tables, vars
<1> QED BY <1>1, <1>2, <1>3 DEF Next, Serve

(* Every step is a step of the lease or leaves it alone.                   *)
LEMMA NextLease ==
    ASSUME Inv, [Next]_vars PROVE [Lease!Next]_(Lease!vars)
<1> DEFINE Same == Queue' = Queue /\ Leases' = Leases /\ Settled' = Settled
<1>1. SUFFICES Lease!Next \/ Same
  BY DEF Lease!vars, Queue, Leases, Settled
<1>2. CASE UNCHANGED <<msgs, deliv>>
  BY <1>2, SameLease
<1>3. ASSUME NEW c \in Call, CheckWrites(c) PROVE Lease!Next
  BY <1>3, CheckExchanges DEF Lease!Next
<1>4. ASSUME NEW c \in Call, Writes(c) PROVE Lease!Next \/ Same
  <2>1. CASE \E F \in SUBSET Run : \E to : Rebind(F, to) /\ UNCHANGED msgs
    BY <2>1, RebindRevokes DEF Lease!Next
  <2>2. CASE \E scope \in {"all", "messages"} : Reset(c, scope)
    BY <2>2, ResetPurges DEF Lease!Next
  <2>3. CASE \E to, r \in Run, t \in Type : SendMessage(c, to, r, t)
    BY <2>3, SendPosts DEF Lease!Next
  <2>4. CASE \E m \in Sequence : Reply(c, m)
    BY <2>4, ReplyWithdraws DEF Lease!Next
  <2> QED BY <1>4, <2>1, <2>2, <2>3, <2>4 DEF Writes
<1> QED BY <1>2, <1>3, <1>4, Transactions

(* The mailbox of a Run keeps the promise of RunLease: whichever requests  *)
(* race, are cancelled or repeated, mail is queued until it is leased to   *)
(* one consumer as a batch, a batch is settled whole by its consumer's     *)
(* acknowledgement or returned whole by a takeover, and nothing but a      *)
(* reply or a reset takes mail away.                                       *)
THEOREM MailboxImplementsLease == Spec => ImplementsLease
<1>1. Inv /\ [Next]_vars => [Lease!Next]_(Lease!vars)
  BY NextLease
<1> QED BY <1>1, InitLease, SpecInv, PTL DEF Spec, ImplementsLease, Lease!Spec

-----------------------------------------------------------------------------
(* Pages of a list.                                                        *)

(* A set of sequence numbers that is not empty has a least one ...         *)
LEMMA LeastNumber ==
    ASSUME NEW T \in SUBSET Nat, T # {}
    PROVE  \E x \in T : \A y \in T : x <= y
<1>1. IsWellFoundedOn(OpToRel(<, Nat), Nat)
  BY NatLessThanWellFounded
<1>2. PICK x \in T : \A y \in T : <<y, x>> \notin OpToRel(<, Nat)
  BY <1>1, WFMin
<1>3. ASSUME NEW y \in T, y < x PROVE <<y, x>> \in {ss \in Nat \X Nat : ss[1] < ss[2]}
  BY <1>3
<1>4. \A y \in T : ~(y < x)
  BY <1>2, <1>3 DEF OpToRel
<1> QED BY <1>4

(* ... and a greatest one.                                                 *)
LEMMA GreatestNumber ==
    ASSUME NEW n \in Nat, NEW T \in SUBSET (1 .. n), T # {}
    PROVE  \E x \in T : \A y \in T : y <= x
<1> DEFINE U == {n - x : x \in T}
<1>1. U \in SUBSET Nat /\ U # {}
  <2>1. \A x \in T : n - x \in Nat
    OBVIOUS
  <2>2. PICK x \in T : TRUE
    OBVIOUS
  <2>3. n - x \in U
    OBVIOUS
  <2> QED BY <2>1, <2>3
<1>2. PICK u \in U : \A v \in U : u <= v
  BY <1>1, LeastNumber
<1>3. PICK x \in T : u = n - x
  OBVIOUS
<1>4. \A y \in T : u <= n - y
  BY <1>2
<1> QED BY <1>3, <1>4

(* Sets of sequence numbers are finite, and smaller sets have fewer.       *)
LEMMA Counting ==
    ASSUME NEW S \in SUBSET Sequence, NEW T \in SUBSET S
    PROVE  /\ Cardinality(S) \in Nat /\ Cardinality(T) \in Nat
           /\ Cardinality(T) <= Cardinality(S)
<1>1. IsFiniteSet(Sequence)
  BY MailboxAssumption, FS_Interval DEF MailboxAssumption, Sequence
<1>2. IsFiniteSet(S) /\ IsFiniteSet(T)
  <2>1. IsFiniteSet(S)
    BY <1>1, FS_Subset
  <2> QED BY <2>1, FS_Subset
<1> QED BY <1>2, FS_CardinalityType, FS_Subset

(* The page of the oldest has no gap.                                      *)
LEMMA OldestHasNoGap ==
    ASSUME NEW S \in SUBSET Sequence, NEW L \in Nat,
           NEW s \in Oldest(S, L), NEW t \in S, t < s
    PROVE  t \in Oldest(S, L)
<1> DEFINE A == {u \in S : u < t}
           B == {u \in S : u < s}
<1>1. s \in Nat /\ t \in Nat /\ S \subseteq Nat
  BY ConstantTypes DEF Oldest
<1>2. A \in SUBSET B /\ B \in SUBSET Sequence
  <2>1. \A u \in S : u < t => u < s
    BY <1>1
  <2> QED BY <2>1
<1>3. Cardinality(B) < L
  BY DEF Oldest
<1>4. Cardinality(A) \in Nat /\ Cardinality(B) \in Nat /\ Cardinality(A) <= Cardinality(B)
  BY <1>2, Counting
<1>5. Cardinality(A) < L
  <2> HIDE DEF A, B
  <2> QED BY <1>3, <1>4
<1> QED BY <1>5 DEF Oldest

(* Removing what is not on the page brings nothing onto it: the least      *)
(* number removed has a whole page before it.                              *)
LEMMA OldestWithout ==
    ASSUME NEW S \in SUBSET Sequence, NEW L \in Nat, NEW X, X \cap Oldest(S, L) = {}
    PROVE  Oldest(S \ X, L) \subseteq Oldest(S, L)
<1> SUFFICES ASSUME NEW x \in Oldest(S \ X, L), x \notin Oldest(S, L) PROVE FALSE
  OBVIOUS
<1>1. S \subseteq Nat /\ x \in S
  BY ConstantTypes DEF Oldest
<1> DEFINE A == {u \in S : u < x}
           B == {u \in S \ X : u < x}
<1>2. Cardinality(B) < L /\ ~(Cardinality(A) < L)
  BY <1>1 DEF Oldest
<1>3. A # B
  BY <1>2
<1>4. A \cap X # {} /\ A \cap X \in SUBSET Nat
  BY <1>1, <1>3
<1>5. PICK y \in A \cap X : \A z \in A \cap X : y <= z
  <2> HIDE DEF A
  <2> QED BY <1>4, LeastNumber
<1> DEFINE C == {u \in S : u < y}
<1>6. C \in SUBSET B /\ B \in SUBSET Sequence
  <2>1. \A u \in S : u < y => u < x /\ u \notin X
    BY <1>1, <1>5
  <2> QED BY <2>1
<1>7. ~(Cardinality(C) < L)
  BY <1>5 DEF Oldest
<1>8. Cardinality(C) \in Nat /\ Cardinality(B) \in Nat /\ Cardinality(C) <= Cardinality(B)
  BY <1>6, Counting
<1> HIDE DEF A, B, C
<1> QED BY <1>2, <1>7, <1>8

(* The same for the page of the newest.                                    *)
LEMMA NewestWithout ==
    ASSUME NEW S \in SUBSET Sequence, NEW L \in Nat, NEW X, X \cap Newest(S, L) = {}
    PROVE  Newest(S \ X, L) \subseteq Newest(S, L)
<1> SUFFICES ASSUME NEW x \in Newest(S \ X, L), x \notin Newest(S, L) PROVE FALSE
  OBVIOUS
<1>1. S \subseteq Nat /\ x \in S
  BY ConstantTypes DEF Newest
<1> DEFINE A == {u \in S : u > x}
           B == {u \in S \ X : u > x}
<1>2. Cardinality(B) < L /\ ~(Cardinality(A) < L)
  BY <1>1 DEF Newest
<1>3. A # B
  BY <1>2
<1>4. A \cap X # {} /\ A \cap X \in SUBSET (1 .. MaxSeq) /\ MaxSeq \in Nat
  BY <1>1, <1>3, MailboxAssumption DEF Sequence, MailboxAssumption
<1>5. PICK y \in A \cap X : \A z \in A \cap X : z <= y
  <2> HIDE DEF A
  <2> QED BY <1>4, GreatestNumber
<1> DEFINE C == {u \in S : u > y}
<1>6. C \in SUBSET B /\ B \in SUBSET Sequence
  <2>1. \A u \in S : u > y => u > x /\ u \notin X
    BY <1>1, <1>5
  <2> QED BY <2>1
<1>7. ~(Cardinality(C) < L)
  BY <1>5 DEF Newest
<1>8. Cardinality(C) \in Nat /\ Cardinality(B) \in Nat /\ Cardinality(C) <= Cardinality(B)
  BY <1>6, Counting
<1> HIDE DEF A, B, C
<1> QED BY <1>2, <1>7, <1>8

-----------------------------------------------------------------------------
(* Oldest first.                                                           *)

(* Sequence numbers are given in order.                                    *)
NumbersInOrder ==
    \A s, t \in Sequence : t < s /\ msgs[s].st # "absent" => msgs[t].st # "absent"

(* A delivery, settled or not, lists stored messages.                      *)
ListsStoredMail ==
    \A d \in DeliveryId :
        /\ deliv[d].st = "free" => deliv[d].ids = {}
        /\ \A s \in deliv[d].ids : s \in Sequence /\ msgs[s].st # "absent"

OrderInv == NumbersInOrder /\ ListsStoredMail /\ OldestFirst

(* A step that changes no message's address, makes no message unread or    *)
(* absent and no delivery's list other than empty keeps the order.         *)
LEMMA OrderKept ==
    ASSUME OrderInv,
           \A s \in Sequence :
              /\ msgs'[s].st = "absent" <=> msgs[s].st = "absent"
              /\ msgs'[s].st = "unread" => msgs[s].st = "unread"
              /\ msgs'[s].to = msgs[s].to /\ msgs'[s].run = msgs[s].run,
           \A d \in DeliveryId :
              /\ deliv'[d].st = "free" => deliv[d].st = "free"
              /\ deliv'[d].ids = deliv[d].ids /\ deliv'[d].types = deliv[d].types
              /\ deliv'[d].run = deliv[d].run
    PROVE  OrderInv'
<1>1. NumbersInOrder'
  BY DEF OrderInv, NumbersInOrder
<1>2. ListsStoredMail'
  BY DEF OrderInv, ListsStoredMail
<1>3. OldestFirst'
  BY DEF OrderInv, OldestFirst
<1> QED BY <1>1, <1>2, <1>3 DEF OrderInv

(* Fencing changes no list.                                                *)
LEMMA RebindOrder ==
    ASSUME Inv, OrderInv, NEW F, NEW to, Rebind(F, to), UNCHANGED msgs
    PROVE  OrderInv'
<1>1. ASSUME NEW d \in DeliveryId
      PROVE  /\ deliv'[d].st = "free" => deliv[d].st = "free"
             /\ deliv'[d].ids = deliv[d].ids /\ deliv'[d].types = deliv[d].types
             /\ deliv'[d].run = deliv[d].run
  <2>1. deliv[d] \in DeliveryRow
    BY DEF Inv, TypeOK
  <2>2. deliv'[d] = deliv[d] \/ deliv'[d] = [deliv[d] EXCEPT !.st = "fenced"]
    BY DEF Rebind, Fence
  <2> QED BY <2>1, <2>2 DEF DeliveryRow
<1> QED BY <1>1, OrderKept

(* A reset leaves no list.                                                 *)
LEMMA ResetOrder ==
    ASSUME OrderInv, NEW c \in Call, NEW scope \in {"all", "messages"}, Reset(c, scope)
    PROVE  OrderInv'
<1>1. \A s \in Sequence : msgs'[s].st = "absent"
  BY DEF Reset, NoMessage
<1>2. \A d \in DeliveryId : deliv'[d].ids = {}
  BY DEF Reset, NoDelivery, OrderInv, ListsStoredMail
<1> QED BY <1>1, <1>2 DEF OrderInv, NumbersInOrder, ListsStoredMail, OldestFirst

(* A new message is newer than all that are listed.                        *)
LEMMA SendOrder ==
    ASSUME Inv, OrderInv, NEW c \in Call, NEW to \in Run, NEW r \in Run,
           NEW type \in Type, SendMessage(c, to, r, type)
    PROVE  OrderInv'
<1>1. PICK s \in Sequence, st \in {"unread", "suppressed"} :
        /\ NextSequence(s)
        /\ msgs' = [msgs EXCEPT ![s] = [st |-> st, to |-> to, run |-> r, type |-> type]]
  BY DEF SendMessage
<1>2. /\ msgs'[s].st = st /\ msgs'[s].st # "absent" /\ msgs[s].st = "absent"
      /\ \A t \in Sequence : t # s => msgs'[t] = msgs[t]
      /\ \A t \in Sequence : t < s => msgs[t].st # "absent"
  BY <1>1, ConstantTypes DEF Inv, TypeOK, NextSequence, Absent
<1>3. deliv' = deliv /\ Sequence \subseteq Nat
  BY ConstantTypes DEF SendMessage
<1>4. \A t \in Sequence : s < t => msgs[t].st = "absent"
  BY <1>2 DEF OrderInv, NumbersInOrder
<1>5. NumbersInOrder'
  BY <1>2, <1>3, <1>4 DEF OrderInv, NumbersInOrder
<1>6. ListsStoredMail'
  BY <1>2, <1>3 DEF OrderInv, ListsStoredMail
<1>7. OldestFirst'
  <2> SUFFICES ASSUME NEW d \in DeliveryId, deliv[d].types = {},
                      NEW x \in deliv[d].ids, NEW t \in Sequence,
                      t < x, t \notin deliv[d].ids,
                      msgs'[t].to = deliv[d].run, msgs'[t].run = deliv[d].run
               PROVE  msgs'[t].st # "unread"
    BY <1>3 DEF OldestFirst
  <2>1. x \in Sequence /\ msgs[x].st # "absent"
    BY DEF OrderInv, ListsStoredMail
  <2>2. t # s
    BY <1>4, <2>1
  <2> QED BY <1>2, <2>2 DEF OrderInv, OldestFirst
<1> QED BY <1>5, <1>6, <1>7 DEF OrderInv

(* A reply makes nothing unread.                                           *)
LEMMA ReplyOrder ==
    ASSUME Inv, OrderInv, NEW c \in Call, NEW m \in Sequence, Reply(c, m)
    PROVE  OrderInv'
<1>1. /\ msgs'[m].st = IF msgs[m].st = "unread" THEN "replied" ELSE msgs[m].st
      /\ msgs'[m].to = msgs[m].to /\ msgs'[m].run = msgs[m].run
      /\ \A t \in Sequence : t # m => msgs'[t] = msgs[t]
  <2>1. msgs[m] \in MessageRow
    BY DEF Inv, TypeOK
  <2> QED BY <2>1 DEF Reply, MessageRow, Inv, TypeOK
<1>2. deliv' = deliv
  BY DEF Reply
<1> QED BY <1>1, <1>2, OrderKept

(* A delivery that a check creates is a page without gaps.                 *)
LEMMA CheckOrder ==
    ASSUME Inv, OrderInv, NEW c \in Call, CheckWrites(c)
    PROVE  OrderInv'
<1>1. Accepted(c) /\ msgs' = AckedMsgs(c)
  BY CheckEffect
<1>2. PICK new \in SUBSET DeliveryId : Creates(c, new) /\ Settles(c, new)
  BY CheckEffect
<1>3. \A s \in Sequence :
        /\ msgs'[s].to = msgs[s].to /\ msgs'[s].run = msgs[s].run
        /\ msgs'[s].st = IF s \in AckedIds(c) /\ msgs[s].st = "unread"
                         THEN "acked" ELSE msgs[s].st
  BY <1>1, AckedMsgsFacts
<1>4. NumbersInOrder'
  BY <1>3 DEF OrderInv, NumbersInOrder
<1>5. ListsStoredMail'
  <2> SUFFICES ASSUME NEW d \in DeliveryId
               PROVE  /\ deliv'[d].st = "free" => deliv'[d].ids = {}
                      /\ \A s \in deliv'[d].ids : s \in Sequence /\ msgs'[s].st # "absent"
    BY DEF ListsStoredMail
  <2>1. CASE d \in new
    BY <1>2, <1>3, <2>1, FetchedFacts DEF Creates
  <2>2. CASE d \notin new
    BY <1>2, <1>3, <2>2 DEF Settles, OrderInv, ListsStoredMail
  <2> QED BY <2>1, <2>2
<1>6. OldestFirst'
  <2> SUFFICES ASSUME NEW d \in DeliveryId, deliv'[d].types = {},
                      NEW s \in deliv'[d].ids, NEW t \in Sequence,
                      t < s, t \notin deliv'[d].ids,
                      msgs'[t].to = deliv'[d].run, msgs'[t].run = deliv'[d].run
               PROVE  msgs'[t].st # "unread"
    BY DEF OldestFirst
  <2>1. CASE d \in new
    <3> DEFINE r == calls[c].run
               S == Listed(r, {}, TRUE) \ AckedIds(c)
    <3>1. deliv'[d].ids = Fetched(c) /\ deliv'[d].run = r /\ calls[c].types = {}
      BY <1>2, <2>1 DEF Creates
    <3>2. S \in SUBSET Sequence /\ FetchLimit \in Nat
      BY MailboxAssumption DEF Listed, MailboxAssumption
    <3>3. Fetched(c) = OfRun(Oldest(S, FetchLimit), r)
      BY <3>1 DEF Fetched
    <3> SUFFICES ASSUME msgs'[t].st = "unread" PROVE FALSE
      OBVIOUS
    <3>4. t \in S
      BY <1>3, <3>1 DEF Listed
    <3>5. s \in Oldest(S, FetchLimit)
      BY <3>1, <3>3 DEF OfRun
    <3>6. t \in Oldest(S, FetchLimit)
      <4> HIDE DEF S
      <4> QED BY <3>2, <3>4, <3>5, OldestHasNoGap
    <3>7. t \in Fetched(c)
      BY <1>3, <3>1, <3>3, <3>6 DEF OfRun
    <3> QED BY <3>1, <3>7
  <2>2. CASE d \notin new
    <3>1. /\ deliv'[d].run = deliv[d].run /\ deliv'[d].ids = deliv[d].ids
          /\ deliv'[d].types = deliv[d].types
      BY <1>2, <2>2 DEF Settles
    <3> QED BY <1>3, <3>1 DEF OrderInv, OldestFirst
  <2> QED BY <2>1, <2>2
<1> QED BY <1>4, <1>5, <1>6 DEF OrderInv

(* The empty tables are in order.                                          *)
LEMMA InitOrder == Init => OrderInv
BY DEF Init, NoMessage, NoDelivery, OrderInv, NumbersInOrder, ListsStoredMail, OldestFirst

(* Every step keeps the order.                                             *)
LEMMA NextOrder == Inv /\ OrderInv /\ [Next]_vars => OrderInv'
<1> SUFFICES ASSUME Inv, OrderInv, [Next]_vars PROVE OrderInv'
  OBVIOUS
<1>1. CASE UNCHANGED <<msgs, deliv>>
  BY <1>1, OrderKept
<1>2. ASSUME NEW c \in Call, Writes(c) PROVE OrderInv'
  BY <1>2, RebindOrder, ResetOrder, SendOrder, ReplyOrder DEF Writes
<1> QED BY <1>1, <1>2, CheckOrder, Transactions

(* Mail is handed out oldest first, whatever was sent, answered, acked and *)
(* fenced in between: list_messages takes the page from the oldest unread  *)
(* message on, and sequence numbers are given in order.                    *)
THEOREM MailIsHandedOutInOrder == Spec => []OldestFirst
<1>1. OrderInv => OldestFirst
  BY DEF OrderInv
<1> QED BY <1>1, InitOrder, NextOrder, SpecInv, PTL DEF Spec

-----------------------------------------------------------------------------
(* No lost wakeup.                                                         *)

(* A check that waits has settled the delivery it was asked to settle.     *)
WaitersHaveAcked ==
    \A c \in Call :
        calls[c].pc = "wait" =>
            \/ calls[c].ack = None
            \/ deliv[calls[c].ack].st \in {"acknowledged", "fenced", "deleted"}

WakeInv == WaitersHaveAcked /\ NoLostWakeup

(* So it acknowledges nothing when it looks again.                         *)
LEMMA WaiterAcksNothing ==
    ASSUME WaitersHaveAcked, NEW c \in Call, calls[c].pc = "wait"
    PROVE  ~Acking(c) /\ AckedIds(c) = {}
BY DEF WaitersHaveAcked, Acking, AckedIds

(* A delivery that is settled, fenced or deleted stays so.                 *)
LEMMA SettledForGood ==
    ASSUME Inv, [Next]_vars, NEW d \in DeliveryId,
           deliv[d].st \in {"acknowledged", "fenced", "deleted"}
    PROVE  deliv'[d].st \in {"acknowledged", "fenced", "deleted"}
<1>1. CASE UNCHANGED <<msgs, deliv>>
  BY <1>1
<1>2. ASSUME NEW c \in Call, CheckWrites(c)
      PROVE  deliv'[d].st \in {"acknowledged", "fenced", "deleted"}
  <2>1. PICK new \in SUBSET DeliveryId : Creates(c, new) /\ Settles(c, new)
    BY <1>2, CheckEffect
  <2>2. d \notin new
    BY <2>1 DEF Creates
  <2> QED BY <2>1, <2>2 DEF Settles
<1>3. ASSUME NEW F, NEW to, Rebind(F, to)
      PROVE  deliv'[d].st \in {"acknowledged", "fenced", "deleted"}
  BY <1>3 DEF Rebind, Fence
<1>4. ASSUME NEW c \in Call, NEW scope \in {"all", "messages"}, Reset(c, scope)
      PROVE  deliv'[d].st \in {"acknowledged", "fenced", "deleted"}
  BY <1>4 DEF Reset, NoDelivery
<1>5. ASSUME NEW c \in Call,
             \/ \E to, r \in Run, t \in Type : SendMessage(c, to, r, t)
             \/ \E m \in Sequence : Reply(c, m)
      PROVE  deliv'[d].st \in {"acknowledged", "fenced", "deleted"}
  BY <1>5 DEF SendMessage, Reply
<1> QED BY <1>1, <1>2, <1>3, <1>4, <1>5, Transactions DEF Writes

(* A step that starts no wait keeps the first part.                        *)
LEMMA OthersHaveAcked ==
    ASSUME Inv, [Next]_vars, WaitersHaveAcked,
           \A c \in Call : calls'[c].pc = "wait" =>
                calls[c].pc = "wait" /\ calls'[c].ack = calls[c].ack
    PROVE  WaitersHaveAcked'
<1>1. \A c \in Call : calls[c].ack \in DeliveryId \cup {None}
  BY DEF Inv, TypeOK, CallState
<1> QED BY <1>1, SettledForGood DEF WaitersHaveAcked

(* What a check sees depends on its own record and the two tables.         *)
LEMMA SameView ==
    ASSUME NEW c \in Call, UNCHANGED <<calls[c], msgs, deliv>>
    PROVE  HasMail(c)' = HasMail(c)
BY DEF HasMail, Fetched, Looked, Listed, OfRun, AckedIds, Acking

(* A transaction that commits is about to notify.                          *)
LEMMA CommitAnnounces ==
    ASSUME Inv, [Next]_vars, WakeInv, NEW n \in Call, calls[n].pc # "wait", Commit(n)
    PROVE  WakeInv'
<1>1. calls'[n].pc = "notify" /\ \A c \in Call : c # n => calls'[c] = calls[c]
  BY DEF Commit, IdleCall, Inv, TypeOK
<1>2. WaitersHaveAcked'
  BY <1>1, OthersHaveAcked DEF WakeInv
<1> QED BY <1>1, <1>2 DEF WakeInv, NoLostWakeup

(* A handler's step that writes nothing and starts no wait wakes nobody    *)
(* and need not.                                                           *)
LEMMA QuietStep ==
    ASSUME Inv, [Next]_vars, WakeInv, UNCHANGED <<runs, gen, msgs, deliv>>,
           NEW n \in Call, calls[n].pc # "notify", calls'[n].pc # "wait",
           \A c \in Call : c # n => calls'[c] = calls[c]
    PROVE  WakeInv'
<1>1. WaitersHaveAcked'
  BY OthersHaveAcked DEF WakeInv
<1>2. NoLostWakeup'
  <2> SUFFICES ASSUME NEW c \in Call, calls'[c].pc = "wait", Current(c)', HasMail(c)'
               PROVE  calls'[c].woken \/ \E k \in Call : calls'[k].pc = "notify"
    BY DEF NoLostWakeup
  <2>1. c # n /\ calls'[c] = calls[c]
    OBVIOUS
  <2>2. Current(c) /\ HasMail(c)
    BY <2>1, SameView DEF Current
  <2> QED BY <2>1, <2>2 DEF WakeInv, NoLostWakeup
<1> QED BY <1>1, <1>2 DEF WakeInv

(* The channel marks everyone who waits.                                   *)
LEMMA NotifyWakes ==
    ASSUME Inv, [Next]_vars, WakeInv, NEW n \in Call, Notify(n)
    PROVE  WakeInv'
<1>1. \A c \in Call : calls[c] \in CallState
  BY DEF Inv, TypeOK
<1>2. ASSUME NEW c \in Call, calls'[c].pc = "wait"
      PROVE  calls[c].pc = "wait" /\ calls'[c].ack = calls[c].ack /\ calls'[c].woken
  <2>1. c # n
    BY <1>2 DEF Notify, IdleCall
  <2>2. calls[c].pc = "wait"
    <3>1. CASE calls[c].pc \in {"check", "wait"}
      <4>1. calls'[c] = [calls[c] EXCEPT !.woken = TRUE]
        BY <2>1, <3>1 DEF Notify
      <4> QED BY <1>1, <1>2, <4>1 DEF CallState
    <3>2. CASE calls[c].pc \notin {"check", "wait"}
      <4>1. calls'[c] = calls[c]
        BY <2>1, <3>2 DEF Notify
      <4> QED BY <1>2, <4>1
    <3> QED BY <3>1, <3>2
  <2>3. calls'[c] = [calls[c] EXCEPT !.woken = TRUE]
    BY <2>1, <2>2 DEF Notify
  <2> QED BY <1>1, <2>2, <2>3 DEF CallState
<1>3. WaitersHaveAcked'
  BY <1>2, OthersHaveAcked DEF WakeInv
<1> QED BY <1>2, <1>3 DEF WakeInv, NoLostWakeup

(* What a check lists after another check, or itself, wrote: the unread    *)
(* mail without what was acknowledged, and all the mail.                   *)
LEMMA ListedAfterCheck ==
    ASSUME Inv, NEW n \in Call, CheckWrites(n), NEW q, NEW T
    PROVE  /\ Listed(q, T, TRUE)' = Listed(q, T, TRUE) \ AckedIds(n)
           /\ Listed(q, T, FALSE)' = Listed(q, T, FALSE)
           /\ \A s \in Sequence : msgs'[s].run = msgs[s].run
<1>1. ASSUME NEW s \in Sequence
      PROVE  /\ msgs'[s].to = msgs[s].to /\ msgs'[s].run = msgs[s].run
             /\ msgs'[s].type = msgs[s].type
             /\ msgs'[s].st = IF s \in AckedIds(n) /\ msgs[s].st = "unread"
                              THEN "acked" ELSE msgs[s].st
  <2>1. msgs[s] \in MessageRow
    BY DEF Inv, TypeOK
  <2>2. msgs'[s] = IF s \in AckedIds(n) /\ msgs[s].st = "unread"
                   THEN [msgs[s] EXCEPT !.st = "acked"] ELSE msgs[s]
    BY CheckEffect DEF AckedMsgs
  <2> QED BY <2>1, <2>2 DEF MessageRow
<1>2. Listed(q, T, TRUE)' = Listed(q, T, TRUE) \ AckedIds(n)
  BY <1>1 DEF Listed
<1>3. Listed(q, T, FALSE)' = Listed(q, T, FALSE)
  BY <1>1 DEF Listed
<1> QED BY <1>1, <1>2, <1>3

(* The mail a check looks through, without what it acknowledges itself.    *)
View(c) ==
    LET k == calls[c] IN
    CASE k.mode = "consume" -> Oldest(Listed(k.run, k.types, TRUE) \ AckedIds(c), FetchLimit)
      [] k.mode = "peek"    -> Newest(Listed(k.run, k.types, TRUE) \ AckedIds(c), LookLimit)
      [] k.mode = "all"     -> Newest(Listed(k.run, k.types, FALSE), LookLimit)

ViewIsMail ==
    \A c \in Call :
        /\ HasMail(c) <=> \E s \in View(c) : msgs[s].run = calls[c].run
        /\ View(c) \subseteq Sequence

(* A check has mail when what it looks through holds mail of its Run.      *)
LEMMA ViewFacts == Inv => ViewIsMail
<1> SUFFICES ASSUME Inv, NEW c \in Call
             PROVE  /\ HasMail(c) <=> \E s \in View(c) : msgs[s].run = calls[c].run
                    /\ View(c) \subseteq Sequence
  BY DEF ViewIsMail
<1>1. calls[c].mode \in {"consume", "peek", "all"}
  BY DEF Inv, TypeOK, CallState
<1>2. CASE calls[c].mode = "consume"
  BY <1>2 DEF HasMail, Fetched, OfRun, View, Oldest, Listed
<1>3. CASE calls[c].mode = "peek"
  BY <1>3 DEF HasMail, Looked, OfRun, View, Newest, Listed
<1>4. CASE calls[c].mode = "all"
  BY <1>4 DEF HasMail, Looked, OfRun, View, Newest, Listed
<1> QED BY <1>1, <1>2, <1>3, <1>4

(* Another check's acknowledgement brings no mail to one that waits.       *)
LEMMA OtherCheck ==
    ASSUME Inv, Inv', WaitersHaveAcked, WaitersHaveAcked', NEW n \in Call, CheckWrites(n),
           NEW c \in Call, calls[c].pc = "wait", calls'[c] = calls[c], ~HasMail(c)
    PROVE  ~HasMail(c)'
<1>1. PICK q, T : q = calls[c].run /\ T = calls[c].types
  OBVIOUS
<1>2. PICK X : X = AckedIds(n)
  OBVIOUS
<1>3. AckedIds(c) = {} /\ AckedIds(c)' = {}
  <2>1. AckedIds(c)' = {}
    BY WaiterAcksNothing DEF WaitersHaveAcked, Acking, AckedIds
  <2> QED BY <2>1, WaiterAcksNothing
<1>4. \A s \in X \cap Sequence : msgs[s].to = msgs[s].run
  <2>1. Accepted(n)
    BY CheckEffect
  <2> QED BY <1>2, <2>1, AcceptedFacts DEF AckedIds, Acking, Inv, ListsOwnMail
<1>5. PICK U, A : U = Listed(q, T, TRUE) /\ A = Listed(q, T, FALSE)
  OBVIOUS
<1>6. /\ Listed(q, T, TRUE)' = U \ X /\ Listed(q, T, FALSE)' = A
      /\ U \in SUBSET Sequence /\ A \in SUBSET Sequence
      /\ \A s \in Sequence : msgs'[s].run = msgs[s].run
      /\ \A s \in U : msgs[s].to = q
  <2>1. /\ Listed(q, T, TRUE)' = U \ X /\ Listed(q, T, FALSE)' = A
        /\ \A s \in Sequence : msgs'[s].run = msgs[s].run
    BY <1>2, <1>5, ListedAfterCheck
  <2>2. /\ U \in SUBSET Sequence /\ A \in SUBSET Sequence
        /\ \A s \in U : msgs[s].to = q
    BY <1>5 DEF Listed
  <2> QED BY <2>1, <2>2
<1>7. \A s \in View(c) : msgs[s].run # q
  BY <1>1, ViewFacts DEF ViewIsMail
<1>8. FetchLimit \in Nat /\ LookLimit \in Nat
  BY MailboxAssumption DEF MailboxAssumption
<1>9. View(c)' \subseteq View(c)
  <2>1. calls[c].mode \in {"consume", "peek", "all"}
    BY DEF Inv, TypeOK, CallState
  <2>2. CASE calls[c].mode = "consume"
    <3>1. View(c) = Oldest(U, FetchLimit) /\ View(c)' = Oldest(U \ X, FetchLimit)
      BY <1>1, <1>3, <1>5, <1>6, <2>2 DEF View
    <3>2. X \cap Oldest(U, FetchLimit) = {}
      <4>1. Oldest(U, FetchLimit) \subseteq U
        BY DEF Oldest
      <4> QED BY <1>4, <1>6, <1>7, <3>1, <4>1
    <3>3. Oldest(U \ X, FetchLimit) \subseteq Oldest(U, FetchLimit)
      BY <1>6, <1>8, <3>2, OldestWithout
    <3> QED BY <3>1, <3>3
  <2>3. CASE calls[c].mode = "peek"
    <3>1. View(c) = Newest(U, LookLimit) /\ View(c)' = Newest(U \ X, LookLimit)
      BY <1>1, <1>3, <1>5, <1>6, <2>3 DEF View
    <3>2. X \cap Newest(U, LookLimit) = {}
      <4>1. Newest(U, LookLimit) \subseteq U
        BY DEF Newest
      <4> QED BY <1>4, <1>6, <1>7, <3>1, <4>1
    <3>3. Newest(U \ X, LookLimit) \subseteq Newest(U, LookLimit)
      BY <1>6, <1>8, <3>2, NewestWithout
    <3> QED BY <3>1, <3>3
  <2>4. CASE calls[c].mode = "all"
    BY <1>1, <1>5, <1>6, <2>4 DEF View
  <2> QED BY <2>1, <2>2, <2>3, <2>4
<1>10. View(c) \subseteq Sequence
  BY ViewFacts DEF ViewIsMail
<1>11. HasMail(c)' <=> \E s \in View(c)' : msgs'[s].run = calls'[c].run
  <2>1. ViewIsMail'
    BY ViewFacts, PTL
  <2> QED BY <2>1 DEF ViewIsMail
<1> QED BY <1>1, <1>6, <1>7, <1>9, <1>10, <1>11

(* A check that starts to wait has acknowledged and has no mail.           *)
LEMMA OwnCheck ==
    ASSUME Inv, Inv', NEW n \in Call, CheckWrites(n), calls'[n].pc = "wait"
    PROVE  /\ ~HasMail(n)'
           /\ \/ calls'[n].ack = None
              \/ deliv'[calls'[n].ack].st \in {"acknowledged", "fenced", "deleted"}
<1>1. calls \in [Call -> CallState] /\ calls[n] \in CallState
  BY DEF Inv, TypeOK
<1>2. CheckLook(n) \/ CheckEmpty(n)
  BY <1>1 DEF CheckWrites, CheckReplay, CheckDeliver, Finish, IdleCall
<1>3. Begin(n, [calls[n] EXCEPT !.pc = "wait"]) /\ ~HasMail(n)
  <2>1. CASE CheckLook(n)
    BY <1>1, <2>1 DEF CheckLook, ReturnOrWait, Finish, IdleCall, HasMail
  <2>2. CASE CheckEmpty(n)
    BY <1>1, <2>2 DEF CheckEmpty, ReturnOrWait, Finish, IdleCall, HasMail
  <2> QED BY <1>2, <2>1, <2>2
<1>4. /\ calls'[n].ack = calls[n].ack /\ calls'[n].run = calls[n].run
      /\ calls'[n].types = calls[n].types /\ calls'[n].mode = calls[n].mode
  <2>1. calls'[n] = [calls[n] EXCEPT !.pc = "wait"]
    BY <1>1, <1>3 DEF Begin
  <2> QED BY <1>1, <2>1 DEF CallState
<1>5. Accepted(n) /\ deliv' = AckedDeliv(n)
  BY <1>2 DEF CheckLook, CheckEmpty
<1>6. calls[n].ack = None \/ deliv'[calls[n].ack].st = "acknowledged"
  <2>1. CASE calls[n].ack # None
    <3>1. calls[n].ack \in DeliveryId /\ deliv[calls[n].ack].st \in {"outstanding", "acknowledged"}
      BY <1>1, <1>5, <2>1 DEF Accepted, AckAccepted, CallState
    <3> QED BY <1>5, <2>1, <3>1, AckedDelivFacts DEF Acking
  <2> QED BY <2>1
<1>7. AckedIds(n)' = {}
  BY <1>4, <1>6 DEF AckedIds, Acking
<1>8. View(n)' = View(n)
  <2>1. PICK q, T, X : q = calls[n].run /\ T = calls[n].types /\ X = AckedIds(n)
    OBVIOUS
  <2>2. /\ Listed(q, T, TRUE)' = Listed(q, T, TRUE) \ X
        /\ Listed(q, T, FALSE)' = Listed(q, T, FALSE)
    BY <2>1, ListedAfterCheck
  <2>3. Listed(q, T, TRUE)' \ {} = Listed(q, T, TRUE) \ X
    BY <2>2
  <2>4. calls[n].mode \in {"consume", "peek", "all"}
    BY <1>1 DEF CallState
  <2> QED BY <1>4, <1>7, <2>1, <2>2, <2>3, <2>4 DEF View, Oldest, Newest
<1>9. ~HasMail(n)'
  <2>1. ViewIsMail /\ ViewIsMail'
    BY ViewFacts, PTL
  <2>2. \A s \in Sequence : msgs'[s].run = msgs[s].run
    BY ListedAfterCheck
  <2> QED BY <1>3, <1>4, <1>8, <2>1, <2>2 DEF ViewIsMail
<1> QED BY <1>4, <1>6, <1>9

(* So a check leaves no waiter with mail that nobody announced.            *)
LEMMA CheckWakes ==
    ASSUME Inv, Inv', [Next]_vars, WakeInv, NEW n \in Call, CheckWrites(n)
    PROVE  WakeInv'
<1>1. calls \in [Call -> CallState]
  BY DEF Inv, TypeOK
<1>2. /\ calls[n].pc = "check" /\ calls'[n].pc \in {"idle", "wait"}
      /\ \A c \in Call : c # n => calls'[c] = calls[c]
      /\ UNCHANGED <<runs, gen>>
  BY <1>1 DEF CheckWrites, CheckLook, CheckReplay, CheckEmpty, CheckDeliver, Accepted,
              ReturnOrWait, Finish, Begin, IdleCall, CallState
<1>3. WaitersHaveAcked'
  <2>1. ASSUME NEW c \in Call, calls'[c].pc = "wait"
        PROVE  \/ calls'[c].ack = None
               \/ deliv'[calls'[c].ack].st \in {"acknowledged", "fenced", "deleted"}
    <3>1. CASE c = n
      BY <2>1, <3>1, OwnCheck
    <3>2. CASE c # n
      <4>1. calls'[c] = calls[c] /\ calls[c].ack \in DeliveryId \cup {None}
        BY <1>1, <1>2, <3>2 DEF CallState
      <4> QED BY <2>1, <4>1, SettledForGood DEF WakeInv, WaitersHaveAcked
    <3> QED BY <3>1, <3>2
  <2> QED BY <2>1 DEF WaitersHaveAcked
<1>4. NoLostWakeup'
  <2> SUFFICES ASSUME NEW c \in Call, calls'[c].pc = "wait", Current(c)', HasMail(c)'
               PROVE  calls'[c].woken \/ \E k \in Call : calls'[k].pc = "notify"
    BY DEF NoLostWakeup
  <2>1. c # n /\ calls'[c] = calls[c]
    BY <1>2, OwnCheck
  <2>2. Current(c) /\ HasMail(c)
    <3>1. HasMail(c)
      BY <1>3, <2>1, OtherCheck DEF WakeInv
    <3> QED BY <1>2, <2>1, <3>1 DEF Current
  <2> QED BY <1>2, <2>1, <2>2 DEF WakeInv, NoLostWakeup
<1> QED BY <1>3, <1>4 DEF WakeInv

(* Every step of a daemon that cancels nothing keeps the invariant.        *)
LEMMA ServeWakes == Inv /\ WakeInv /\ [Serve]_vars => WakeInv'
<1> SUFFICES ASSUME Inv, WakeInv, [Serve]_vars PROVE WakeInv'
  OBVIOUS
<1>1. [Next]_vars /\ calls \in [Call -> CallState]
  BY DEF Next, Inv, TypeOK
<1>2. Inv'
  BY <1>1, NextInv
<1>3. ASSUME NEW n \in Call, Step(n) PROVE WakeInv'
  <2>1. CASE Notify(n)
    BY <1>1, <2>1, NotifyWakes
  <2>2. CASE CheckWrites(n)
    BY <1>1, <1>2, <2>2, CheckWakes
  <2>3. CASE RunUseBind(n) /\ Commit(n)
    BY <1>1, <2>3, CommitAnnounces DEF RunUseBind
  <2>4. CASE \/ RunUseBind(n) /\ Finish(n) /\ UNCHANGED <<coord, gen, deliv>>
             \/ Subscribe(n) \/ CheckFenced(n) \/ CheckOutOfIds(n) \/ WaitWoken(n)
    <3>1. UNCHANGED <<runs, gen, msgs, deliv>> /\ calls[n].pc # "notify"
      BY <2>4 DEF RunUseBind, Subscribe, CheckFenced, CheckOutOfIds, Accepted,
                  WaitWoken, tables
    <3>2. \E k : Begin(n, k) /\ k.pc # "wait"
      <4>1. CASE Finish(n)
        <5>1. Begin(n, IdleCall) /\ IdleCall.pc = "idle"
          BY <4>1 DEF Finish, Begin, IdleCall
        <5> QED BY <5>1
      <4>2. CASE Subscribe(n)
        <5>1. [calls[n] EXCEPT !.pc = "check"].pc = "check"
          BY <1>1 DEF CallState
        <5> QED BY <4>2, <5>1 DEF Subscribe
      <4>3. CASE WaitWoken(n)
        <5>1. [calls[n] EXCEPT !.woken = FALSE, !.pc = "check"].pc = "check"
          BY <1>1 DEF CallState
        <5> QED BY <4>3, <5>1 DEF WaitWoken
      <4> QED BY <2>4, <4>1, <4>2, <4>3 DEF CheckFenced, CheckOutOfIds
    <3>3. calls'[n].pc # "wait" /\ \A c \in Call : c # n => calls'[c] = calls[c]
      BY <1>1, <3>2 DEF Begin
    <3> QED BY <1>1, <3>1, <3>3, QuietStep
  <2> QED BY <1>3, <2>1, <2>2, <2>3, <2>4 DEF Step, CheckWrites, RunUseBind
<1>4. ASSUME NEW n \in Call, Request(n) PROVE WakeInv'
  <2>1. Idle(n)
    BY <1>4 DEF Request, RunCreate, RunUse, Reset, SendMessage, Reply, CheckMessages
  <2>2. CASE Commit(n)
    BY <1>1, <2>1, <2>2, CommitAnnounces DEF Idle
  <2>3. CASE \/ \E h \in Handle, r \in Run : RunUse(n, h, r)
             \/ \E p \in Pane, ack \in DeliveryId \cup {None}, ask \in Asks :
                   CheckMessages(n, p, ack, ask)
    <3>1. UNCHANGED <<runs, gen, msgs, deliv>> /\ calls[n].pc # "notify"
      BY <2>1, <2>3 DEF RunUse, CheckMessages, Idle, tables
    <3>2. \E k : Begin(n, k) /\ k.pc # "wait"
      <4>1. ASSUME NEW h \in Handle, NEW r \in Run, RunUse(n, h, r)
            PROVE  \E k : Begin(n, k) /\ k.pc # "wait"
        <5> DEFINE used == [IdleCall EXCEPT !.pc = "use", !.h = h, !.run = r]
        <5>1. Begin(n, used) /\ used.pc # "wait"
          BY <4>1 DEF RunUse, IdleCall
        <5> QED BY <5>1
      <4>2. ASSUME NEW p \in Pane, NEW ack \in DeliveryId \cup {None}, NEW ask \in Asks,
                   CheckMessages(n, p, ack, ask)
            PROVE  \E k : Begin(n, k) /\ k.pc # "wait"
        <5> DEFINE Resolved(r) == [IdleCall EXCEPT
                     !.pc = "resolved", !.pane = p, !.run = r, !.gen = gen[r],
                     !.ack = ack, !.types = ask.types, !.mode = ask.mode,
                     !.wait = ask.wait]
        <5>1. PICK r \in BoundTo(p) : Begin(n, Resolved(r))
          BY <4>2 DEF CheckMessages
        <5>2. Resolved(r).pc = "resolved"
          BY DEF IdleCall
        <5> HIDE DEF Resolved
        <5> QED BY <5>1, <5>2
      <4> QED BY <2>3, <4>1, <4>2
    <3>3. calls'[n].pc # "wait" /\ \A c \in Call : c # n => calls'[c] = calls[c]
      BY <1>1, <3>2 DEF Begin
    <3> QED BY <1>1, <3>1, <3>3, QuietStep
  <2> QED BY <1>4, <2>2, <2>3 DEF Request, RunCreate, Reset, SendMessage, Reply
<1>5. ASSUME NEW n \in Call, WaitTimeout(n) PROVE WakeInv'
  <2>1. /\ UNCHANGED <<runs, gen, msgs, deliv>>
        /\ calls[n].pc # "notify" /\ calls'[n].pc # "wait"
        /\ \A c \in Call : c # n => calls'[c] = calls[c]
    BY <1>1, <1>5 DEF WaitTimeout, Finish, IdleCall, tables
  <2> QED BY <1>1, <2>1, QuietStep
<1>6. CASE \/ \E h \in Handle : TerminalExit(h)
           \/ UNCHANGED vars
  <2>1. UNCHANGED <<runs, gen, msgs, deliv, calls>>
    BY <1>6 DEF TerminalExit, vars, tables
  <2>2. WaitersHaveAcked'
    BY <2>1 DEF WakeInv, WaitersHaveAcked
  <2>3. \A c \in Call : Current(c)' = Current(c) /\ HasMail(c)' = HasMail(c)
    BY <2>1, SameView DEF Current
  <2> QED BY <2>1, <2>2, <2>3 DEF WakeInv, NoLostWakeup
<1> QED BY <1>3, <1>4, <1>5, <1>6 DEF Serve

(* No wakeup is lost in a daemon that cancels no handler: a blocked check  *)
(* whose page holds mail is marked by the watch channel, or a handler that *)
(* committed has yet to notify, whatever sends, replies, takeovers, resets *)
(* and other checks of the same consumer run between its query and its     *)
(* wait.                                                                   *)
THEOREM NoWakeupIsLost == ServedSpec => []NoLostWakeup
<1>1. Init => WakeInv
  BY DEF Init, WakeInv, WaitersHaveAcked, NoLostWakeup, IdleCall
<1>2. Inv /\ [Serve]_vars => Inv'
  BY NextInv DEF Next
<1>3. WakeInv => NoLostWakeup
  BY DEF WakeInv
<1> QED BY <1>1, <1>2, <1>3, InitInv, ServeWakes, PTL DEF ServedSpec
=============================================================================
