---------------------------- MODULE ReverseCalls ----------------------------
(* The calls the daemon makes of a client on the same connection: unary calls *)
(* and server streams, from ReverseProtocolClient and ReverseCalls on the     *)
(* daemon's side to IncomingCalls on the client's.                            *)
(*                                                                            *)
(* As in PeerCalls every payload counts one byte.  The daemon's caller and    *)
(* its session are two tasks: what the caller reads or cancels reaches the    *)
(* session as a control message, later.                                       *)
EXTENDS FrameLink

CONSTANTS
    ReverseUnary, ReverseStream,   \* the calls the daemon may make, by kind
    ReverseCredit,  \* INITIAL_CALL_CREDIT_BYTES of the daemon: responses
    MaxReverse,     \* MAX_ACTIVE_CALLS of the daemon
    MaxIncoming,    \* MAX_ACTIVE_REVERSE_CALLS of the client
    MaxBuffered,    \* MAX_STREAM_BUFFERED_ITEMS of the daemon
    MaxYields       \* bound: payloads a client's handler yields

ReverseId == ReverseUnary \cup ReverseStream

(* The client serves as many calls as the daemon may have: 128 and 64.        *)
ASSUME ReverseAssumption ==
    /\ None \notin ReverseId /\ ReverseUnary \cap ReverseStream = {}
    /\ {ReverseCredit, MaxBuffered, MaxYields} \subseteq Nat \ {0}
    /\ MaxReverse \in Nat /\ MaxIncoming \in Nat /\ MaxReverse <= MaxIncoming

VARIABLES
    reverse,      \* the daemon's calls, their callers and control messages
    incoming      \* IncomingCalls

reverseVars == <<reverse, incoming>>

(* `st`: pending and retired calls are in the maps of those names.  `lent`:   *)
(* the byte of the request.  `channel` holds the items the caller has not     *)
(* read, 0 for the error; `read` counts the Credit messages the session has   *)
(* not handled and `drop` says that a Cancel message comes after them.        *)
ReverseCall ==
    [st : {"idle", "pending", "retired", "done"}, lent : 0 .. 1,
     credit : 0 .. ReverseCredit, buffered : 0 .. MaxBuffered,
     channel : Seq(0 .. MaxYields), read : 0 .. MaxYields, drop : BOOLEAN,
     caller : {"waiting", "complete", "cut"}, got : 0 .. MaxYields]

(* `failure` is IncomingCall.failure, `waiting` its creditWaiter.  History:   *)
(* `returned`, the handler came to its end; `early`, the timer fired before   *)
(* the request was whole; `unsent`, the CallEnd did not fit the queue.        *)
IncomingCall ==
    [st : {"absent", "receiving", "running", "gone"}, request : BOOLEAN,
     failure : BOOLEAN, credit : 0 .. ReverseCredit, waiting : BOOLEAN,
     yields : 0 .. MaxYields, returned : BOOLEAN, early : BOOLEAN, unsent : BOOLEAN]

Known   == {c \in ReverseId : reverse[c].st \in {"pending", "retired"}}
Serving == {c \in ReverseId : incoming[c].st \in {"receiving", "running"}}

(* The type invariant: credit, buffers and channels stay within their limits. *)
ReverseTypeOK ==
    /\ reverse \in [ReverseId -> ReverseCall]
    /\ incoming \in [ReverseId -> IncomingCall]

(* The state after the calls in `refused` were refused and nothing else.      *)
ReverseInitBut(refused) ==
    /\ reverse = [c \in ReverseId |->
                    [st |-> IF c \in refused THEN "done" ELSE "idle", lent |-> 0,
                     credit |-> ReverseCredit, buffered |-> 0, channel |-> <<>>,
                     read |-> 0, drop |-> FALSE, got |-> 0,
                     caller |-> IF c \in refused THEN "cut" ELSE "waiting"]]
    /\ incoming = [c \in ReverseId |->
                     [st |-> "absent", request |-> FALSE, failure |-> FALSE,
                      credit |-> ReverseCredit, waiting |-> FALSE, yields |-> 0,
                      returned |-> FALSE, early |-> FALSE, unsent |-> FALSE]]

ReverseInit == ReverseInitBut({})

-----------------------------------------------------------------------------
(* The daemon's books.                                                        *)

(* Mutant: the channel has no place for the error.                            *)
ChannelExact == MaxBuffered

(* STREAM_CAPACITY.                                                           *)
ChannelCapacity == MaxBuffered + 1

(* try_send: the item is dropped when the channel is full or its reader gone. *)
Fits(d) == d.caller = "waiting" /\ Len(d.channel) < ChannelCapacity

(* fail_kind: the caller of a unary call has its error, a stream gets one.    *)
Failed(c, d) ==
    IF c \in ReverseUnary THEN [d EXCEPT !.caller = "cut"]
    ELSE IF Fits(d) THEN [d EXCEPT !.channel = Append(@, 0)] ELSE d

(* retire: the caller is told, the call remembered until the client has ended *)
(* it.                                                                        *)
Retired(c, d) == [Failed(c, d) EXCEPT !.st = "retired"]

(* The session of the daemon sends frames and keeps the rest.                 *)
Says(frames) ==
    /\ Open
    /\ toClient' = toClient \o frames
    /\ UNCHANGED <<incoming, outbox, skipped, aborted, toDaemon, link>>

Replies(frames) ==
    /\ toDaemon' = Tail(toDaemon)
    /\ toClient' = toClient \o frames
    /\ UNCHANGED <<incoming, outbox, skipped, aborted, link>>

CancelFrame(c) == <<Frame("cancel", c)>>

-----------------------------------------------------------------------------
(* The daemon's callers.                                                      *)

(* ReverseCalls::start.                                                       *)
ReverseStart(c) ==
    /\ reverse[c].st = "idle"
    /\ Cardinality(Known) < MaxReverse
    /\ reverse' = [reverse EXCEPT ![c].st = "pending", ![c].lent = 1]
    /\ Says(<<Frame("start", c), Frame("payload", c), Frame("end", c)>>)

(* The limit of calls is reached, the deadline has passed or the caller left. *)
ReverseRefused(c) ==
    /\ reverse[c].st = "idle"
    /\ reverse' = [reverse EXCEPT ![c].st = "done", ![c].caller = "cut"]
    /\ Says(<<>>)

(* ReverseProtocolStream::receive: an item, the error, or the end of the      *)
(* stream once the session has dropped its side of the channel.               *)
ReverseReceive(c) ==
    /\ c \in ReverseStream
    /\ reverse[c].caller = "waiting"
    /\ LET d == reverse[c] IN
       reverse' = [reverse EXCEPT ![c] =
         CASE d.channel # <<>> /\ Head(d.channel) # 0 ->
                [d EXCEPT !.got = Head(d.channel), !.channel = Tail(@), !.read = @ + 1]
           [] d.channel # <<>> /\ Head(d.channel) = 0 ->
                [d EXCEPT !.caller = "cut", !.channel = <<>>]
           [] OTHER -> [d EXCEPT !.caller = "complete"]]
    /\ reverse[c].channel # <<>> \/ reverse[c].st \in {"retired", "done"}
    /\ UNCHANGED <<incoming, linkVars>>

(* The caller is dropped or past its deadline: CallCancellation sends Cancel, *)
(* unless the caller left before it had read the id of its call.              *)
ReverseDrop(c) == \E armed \in BOOLEAN :
    /\ reverse[c].st # "idle"
    /\ reverse[c].caller = "waiting"
    /\ armed \/ reverse[c].got = 0
    /\ reverse' = [reverse EXCEPT ![c].caller = "cut", ![c].channel = <<>>,
                                  ![c].drop = armed]
    /\ UNCHANGED <<incoming, linkVars>>

(* ReverseControl::Credit: a place in the buffer and a byte of credit.        *)
ReverseControlCredit(c) ==
    /\ reverse[c].read > 0
    /\ LET d == [reverse[c] EXCEPT !.read = @ - 1]
           overdrawn == d.buffered = 0 \/ d.credit = ReverseCredit
       IN CASE d.st # "pending" ->
                 reverse' = [reverse EXCEPT ![c] = d] /\ Says(<<>>)
            [] d.st = "pending" /\ overdrawn ->
                 reverse' = [reverse EXCEPT ![c] = Retired(c, d)] /\ Says(CancelFrame(c))
            [] OTHER ->
                 /\ reverse' = [reverse EXCEPT ![c] =
                                  [d EXCEPT !.buffered = @ - 1, !.credit = @ + 1]]
                 /\ Says(<<Counted("window", c, 1)>>)

(* ReverseControl::Cancel.                                                    *)
ReverseControlCancel(c) ==
    /\ reverse[c].drop
    /\ reverse[c].read = 0
    /\ LET d == [reverse[c] EXCEPT !.drop = FALSE] IN
       IF d.st = "pending"
       THEN reverse' = [reverse EXCEPT ![c] = Retired(c, d)] /\ Says(CancelFrame(c))
       ELSE reverse' = [reverse EXCEPT ![c] = d] /\ Says(<<>>)

(* ReverseCalls::expire, the deadline of a pending call.                      *)
ReverseExpire(c) ==
    /\ reverse[c].st = "pending"
    /\ reverse' = [reverse EXCEPT ![c] = Retired(c, @)]
    /\ Says(CancelFrame(c))

-----------------------------------------------------------------------------
(* What the daemon does with a frame of a reverse call.                       *)

(* What its books do not allow; the session ends with it.                     *)
RefusedByDaemon(f) ==
    /\ f.call \in ReverseId
    /\ LET d == reverse[f.call] IN
       \/ d.st \notin {"pending", "retired"}
       \/ f.kind = "payload" /\ d.credit = 0
       \/ /\ f.kind = "payload" /\ d.st = "pending"
          /\ f.call \in ReverseUnary /\ d.buffered = 1
       \/ f.kind = "window" /\ d.lent = 0

Expects(frame) == DaemonReads(frame) /\ ~RefusedByDaemon(frame)

(* Mutant: the limit of buffered items is not tested.                         *)
KeptWhileItFits(c, d) == c \in ReverseUnary \/ Fits(d)

(* A stream keeps as many items as MAX_STREAM_BUFFERED_ITEMS says.            *)
Kept(c, d) == c \in ReverseUnary \/ (d.buffered < MaxBuffered /\ Fits(d))

(* receive_payload: a payload of a retired call is dropped, one that is not   *)
(* kept retires its call.                                                     *)
ReversePayload(c) == \E n \in 1 .. MaxYields :
    /\ Expects(Counted("payload", c, n))
    /\ LET d == [reverse[c] EXCEPT !.credit = @ - 1]
       IN \/ /\ d.st = "retired"
             /\ reverse' = [reverse EXCEPT ![c] = d]
             /\ Replies(<<>>)
          \/ /\ d.st = "pending" /\ Kept(c, d)
             /\ reverse' = [reverse EXCEPT ![c] =
                              [d EXCEPT !.buffered = @ + 1,
                                        !.channel = IF c \in ReverseStream THEN Append(@, n)
                                                    ELSE @]]
             /\ Replies(<<>>)
          \/ /\ d.st = "pending" /\ ~Kept(c, d)
             /\ reverse' = [reverse EXCEPT ![c] = Retired(c, d)]
             /\ Replies(CancelFrame(c))

(* receive_end: a unary call has its answer if a payload came before.         *)
ReverseEnd(c) == \E n \in 0 .. 1 :
    /\ Expects(Counted("end", c, n))
    /\ LET d == [reverse[c] EXCEPT !.st = "done"] IN
       reverse' = [reverse EXCEPT ![c] =
         CASE reverse[c].st = "retired" -> d
           [] reverse[c].st = "pending" /\ n = 0 -> Failed(c, d)
           [] reverse[c].st = "pending" /\ n = 1 /\ c \in ReverseStream -> d
           [] OTHER -> [d EXCEPT !.caller = IF @ = "waiting" /\ d.buffered = 1
                                            THEN "complete" ELSE "cut"]]
    /\ Replies(<<>>)

(* receive_window_update.                                                     *)
ReverseWindow(c) ==
    /\ Expects(Counted("window", c, 1))
    /\ reverse' = [reverse EXCEPT ![c].lent = 0]
    /\ Replies(<<>>)

-----------------------------------------------------------------------------
(* The client.                                                                *)

(* No payload of the call waits to be transmitted.                            *)
Sent(c) == \A i \in DOMAIN outbox : outbox[i].signal # c

(* The CallEnd of a call; with a full queue it is lost.                       *)
EndBatch(c, n) == Batch(<<Counted("end", c, n)>>, None)

Gone(c, queue) ==
    [incoming[c] EXCEPT !.st = "gone", !.request = FALSE, !.waiting = FALSE,
                        !.unsent = Len(queue) >= MaxBatches]

(* fail, and cancel: the call is aborted, removed and ended with an error.    *)
FailAfter(c, queue) ==
    /\ incoming' = [incoming EXCEPT ![c] = Gone(c, queue)]
    /\ aborted' = aborted \cup {c}
    /\ outbox' = Queued(queue, EndBatch(c, 0))

(* What IncomingCalls does not allow; it throws, and the peer terminates.     *)
RefusedByClient(f) ==
    /\ f.call \in ReverseId
    /\ LET k == incoming[f.call] IN
       \/ f.kind = "start" /\ Cardinality(Serving) >= MaxIncoming
       \/ f.kind \in {"payload", "end"} /\ k.st \notin {"receiving", "running"}
       \/ f.kind = "payload" /\ ~k.failure /\ k.request
       \/ f.kind \in {"cancel", "window"} /\ k.st = "absent"
       \/ f.kind = "window" /\ k.st # "gone" /\ k.credit = ReverseCredit

Hears(frame) ==
    /\ ClientReads(frame)
    /\ ~RefusedByClient(frame)
    /\ toClient' = Tail(toClient)
    /\ UNCHANGED <<reverse, skipped, toDaemon, link>>

IncomingStart(c) ==
    /\ Hears(Frame("start", c))
    /\ incoming' = [incoming EXCEPT ![c].st = "receiving"]
    /\ UNCHANGED <<outbox, aborted>>

(* IncomingCalls.payload: the request is kept, or marked as failed when the   *)
(* requests of all calls exceed MAX_PENDING_REQUEST_BYTES.                    *)
IncomingPayload(c) ==
    /\ Hears(Frame("payload", c))
    /\ \/ incoming' = [incoming EXCEPT ![c].request = TRUE]
       \/ incoming' = [incoming EXCEPT ![c].failure = TRUE]
    /\ UNCHANGED <<outbox, aborted>>

(* endRequest: the byte of the request is given back and the handler invoked, *)
(* if there is one.                                                           *)
IncomingEnd(c) ==
    /\ Hears(Frame("end", c))
    /\ LET queue == Queued(outbox, Batch(<<Counted("window", c, 1)>>, None)) IN
       \/ incoming[c].failure /\ FailAfter(c, outbox)
       \/ ~incoming[c].failure /\ FailAfter(c, queue)
       \/ /\ ~incoming[c].failure
          /\ incoming' = [incoming EXCEPT ![c].st = "running", ![c].request = FALSE]
          /\ outbox' = queue
          /\ UNCHANGED aborted

(* Mutant: the Cancel of a call that is over is answered, too.                *)
AnsweredAgain(c) == TRUE

(* Only a call that is still there is ended.                                  *)
Answered(c) == c \in Serving

(* Mutant: a cancelled call is dropped without a CallEnd.                     *)
CancelledQuietly(c) ==
    /\ incoming' = [incoming EXCEPT ![c] = Gone(c, <<>>)]
    /\ aborted' = aborted \cup {c}
    /\ UNCHANGED outbox

Cancelled(c) == FailAfter(c, outbox)

(* IncomingCalls.cancel.                                                      *)
IncomingCancel(c) ==
    /\ Hears(Frame("cancel", c))
    /\ IF Answered(c) THEN Cancelled(c) ELSE UNCHANGED <<incoming, outbox, aborted>>

(* Mutant: a handler that waits for credit is woken and uses none.            *)
CreditedFree(k) == [k EXCEPT !.credit = @ + 1]

(* addCredit: the handler that waits takes the byte at once, and is waiting   *)
(* for its payload to be sent then.                                           *)
Credited(k) == IF k.waiting THEN k ELSE [k EXCEPT !.credit = @ + 1]

IncomingCredit(c) ==
    /\ Hears(Counted("window", c, 1))
    /\ LET k == incoming[c]
           n == k.yields + 1
       IN IF c \notin Serving THEN UNCHANGED <<incoming, outbox, aborted>>
          ELSE IF ~k.waiting
          THEN /\ incoming' = [incoming EXCEPT ![c] = Credited(k)]
               /\ UNCHANGED <<outbox, aborted>>
          ELSE IF ~CanSend THEN FailAfter(c, outbox)
          ELSE /\ incoming' = [incoming EXCEPT ![c] =
                                 [Credited(k) EXCEPT !.waiting = FALSE, !.yields = n]]
               /\ outbox' = Append(outbox, Batch(<<Counted("payload", c, n)>>, c))
               /\ UNCHANGED aborted

(* What handlers and timers do.                                               *)
Works(c) ==
    /\ Open
    /\ incoming[c].st = "running" /\ ~incoming[c].waiting
    /\ Sent(c)
    /\ UNCHANGED <<reverse, skipped, toDaemon, toClient, link>>

(* sendPayload: without credit the handler waits; a full queue fails the call.*)
HandlerYield(c) ==
    /\ Works(c)
    /\ incoming[c].yields < IF c \in ReverseUnary THEN 1 ELSE MaxYields
    /\ LET n == incoming[c].yields + 1 IN
       IF incoming[c].credit = 0
       THEN /\ incoming' = [incoming EXCEPT ![c].waiting = TRUE]
            /\ UNCHANGED <<outbox, aborted>>
       ELSE IF ~CanSend THEN FailAfter(c, outbox)
       ELSE /\ incoming' = [incoming EXCEPT ![c].yields = n, ![c].credit = @ - 1]
            /\ outbox' = Append(outbox, Batch(<<Counted("payload", c, n)>>, c))
            /\ UNCHANGED aborted

(* The handler is done: the call is removed, then ended.                      *)
HandlerReturn(c) ==
    /\ Works(c)
    /\ c \in ReverseUnary => incoming[c].yields = 1
    /\ incoming' = [incoming EXCEPT ![c] = [Gone(c, outbox) EXCEPT !.returned = TRUE]]
    /\ outbox' = Queued(outbox, EndBatch(c, 1))
    /\ UNCHANGED aborted

(* The handler throws, or the timer of the call fires.                        *)
IncomingFail(c) ==
    /\ Open
    /\ c \in Serving
    /\ incoming' = [incoming EXCEPT ![c] =
                      [Gone(c, outbox) EXCEPT !.early = incoming[c].st = "receiving"]]
    /\ aborted' = aborted \cup {c}
    /\ outbox' = Queued(outbox, EndBatch(c, 0))
    /\ UNCHANGED <<reverse, skipped, toDaemon, toClient, link>>

-----------------------------------------------------------------------------
(* fail_all, and IncomingCalls.close.                                         *)
ReverseDown ==
    /\ reverse' = [c \in ReverseId |->
                     LET d == [reverse[c] EXCEPT !.st = "done"] IN
                     CASE reverse[c].st = "pending" -> Failed(c, d)
                       [] reverse[c].st = "idle" -> [d EXCEPT !.caller = "cut"]
                       [] OTHER -> d]
    /\ incoming' = [c \in ReverseId |->
                      [incoming[c] EXCEPT !.st = "gone", !.request = FALSE,
                                          !.waiting = FALSE]]

ReverseCaller(c) ==
    \/ ReverseStart(c) \/ ReverseRefused(c) \/ ReverseReceive(c) \/ ReverseDrop(c)
    \/ ReverseControlCredit(c) \/ ReverseControlCancel(c) \/ ReverseExpire(c)

ReverseAnswered(c) == ReversePayload(c) \/ ReverseEnd(c) \/ ReverseWindow(c)

IncomingReceives(c) ==
    \/ IncomingStart(c) \/ IncomingPayload(c) \/ IncomingEnd(c)
    \/ IncomingCancel(c) \/ IncomingCredit(c)

IncomingHandler(c) == HandlerYield(c) \/ HandlerReturn(c) \/ IncomingFail(c)

ReverseNext == \E c \in ReverseId :
    ReverseCaller(c) \/ ReverseAnswered(c) \/ IncomingReceives(c) \/ IncomingHandler(c)

(* A frame of a reverse call that one side refuses, or a retired call whose   *)
(* CallEnd does not come in time (RETIRED_CALL_TIMEOUT).                      *)
DaemonRefuses == Open /\ toDaemon # <<>> /\ ~Head(toDaemon).gap
                   /\ RefusedByDaemon(Head(toDaemon).frame)
ClientRefuses == Open /\ toClient # <<>> /\ RefusedByClient(Head(toClient))
Unanswered    == Open /\ \E c \in ReverseId : reverse[c].st = "retired"

-----------------------------------------------------------------------------
(* Properties.                                                                *)

(* The two sides agree on what the reverse calls are: whatever deadlines,     *)
(* cancellations, ends and credit cross, the daemon is never sent a frame it  *)
(* must refuse, and the client only when its timer fired before the request   *)
(* was whole.                                                                 *)
ReverseAgreed ==
    /\ ~DaemonRefuses
    /\ ClientRefuses => \E c \in ReverseId : incoming[c].early

(* A call the daemon gave up is ended by the client: when nothing is under    *)
(* way, a call that is still retired is one whose CallEnd did not fit the     *)
(* queue.  (Its timeout ends the connection.)                                 *)
RetiredIsAnswered ==
    Open /\ outbox = <<>> /\ toDaemon = <<>> /\ toClient = <<>> =>
        \A c \in ReverseId : reverse[c].st = "retired" => incoming[c].unsent

(* A caller that is told its call is complete has every payload the handler   *)
(* yielded, in order, and the handler returned: the error of a call that      *)
(* failed always finds a place in the channel.                                *)
ReverseCompleteMeansAll ==
    \A c \in ReverseId :
        reverse[c].caller = "complete" =>
            /\ incoming[c].returned
            /\ c \in ReverseStream => reverse[c].got = incoming[c].yields

(* Flow control of a reverse stream invents and loses no credit while both    *)
(* sides know the call: what the client may send, what is under way or        *)
(* buffered, and the credit on its way back make up the initial credit.       *)
ReverseCreditConserved ==
    \A c \in ReverseStream :
        reverse[c].st = "pending" /\ incoming[c].st = "running" =>
            incoming[c].credit + reverse[c].buffered
              + Cardinality({i \in DOMAIN outbox : outbox[i].signal = c})
              + Cardinality({i \in DOMAIN toDaemon :
                               toDaemon[i].frame.call = c /\ toDaemon[i].frame.kind = "payload"})
              + Cardinality({i \in DOMAIN toClient :
                               toClient[i].call = c /\ toClient[i].kind = "window"})
            = ReverseCredit
=============================================================================
