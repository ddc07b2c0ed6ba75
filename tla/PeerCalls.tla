------------------------------ MODULE PeerCalls ------------------------------
(* The calls a client makes of the daemon: unary calls, server streams and    *)
(* duplex streams, from RuntimePeer and its PendingCalls, DuplexRequests,     *)
(* RuntimeEventStream and LocallyCancelledCalls on the client's side to       *)
(* ProtocolCalls and ProtocolSession on the daemon's.                         *)
(*                                                                            *)
(* Call ids are drawn in increasing order and never again; an id is retired   *)
(* from the moment it is drawn, that is, when its client record is not idle.  *)
(* Every payload counts one byte: what the properties tell apart is the       *)
(* number of payloads against the credit, and their order.  A waiting read    *)
(* of a stream is a Read that follows the payload at once.                    *)
EXTENDS FrameLink

CONSTANTS
    Unary, Stream, Duplex,   \* the calls a client may make, by kind
    Credit,       \* INITIAL_CALL_CREDIT_BYTES of the client: responses
    InputCredit,  \* INITIAL_CALL_CREDIT_BYTES of the daemon: duplex requests
    MaxEvents,    \* MAX_BUFFERED_EVENTS of a stream
    MaxRequest,   \* MAX_PENDING_REQUEST_BYTES of a connection
    MaxResponse,  \* MAX_PENDING_RESPONSE_BYTES of a connection
    MaxPending,   \* MAX_PENDING_CALLS of a connection
    MaxActive,    \* max_active_calls of the daemon's session
    InputDepth,   \* INPUT_QUEUE_DEPTH of a duplex call
    RingLimit,    \* MAX_LOCALLY_CANCELLED_CALLS
    MaxItems,     \* bound: payloads a handler yields
    MaxSends      \* bound: messages a duplex caller sends

Call == Unary \cup Stream \cup Duplex

ASSUME PeerAssumption ==
    /\ IsFiniteSet(Call) /\ None \notin Call
    /\ Unary \cap Stream = {} /\ Unary \cap Duplex = {} /\ Stream \cap Duplex = {}
    /\ Credit \in Nat \ {0} /\ InputCredit \in Nat \ {0} /\ RingLimit \in Nat \ {0}
    /\ MaxItems \in Nat \ {0}
    /\ {MaxEvents, MaxRequest, MaxResponse, MaxPending, MaxActive, InputDepth,
        MaxSends} \subseteq Nat

VARIABLES
    client,         \* PendingCalls: what the client keeps of each call
    requestBytes,   \* PendingCalls.requestBytes
    responseBytes,  \* PendingCalls.responseBytes
    duplex,         \* DuplexRequests
    ring,           \* LocallyCancelledCalls
    daemon          \* ProtocolCalls and the handlers it dispatched

peerVars == <<client, requestBytes, responseBytes, duplex, ring, daemon>>
callVars == <<client, requestBytes, responseBytes, duplex, aborted>>

(* `st`: live and ended (isRemoteEnded) calls are in the map, the others are  *)
(* not.  `end`: the caller has its whole answer, or an error instead.  `got`  *)
(* is history: the last payload the caller has read.                          *)
ClientCall ==
    [st : {"idle", "live", "ended", "done"}, end : {"none", "complete", "cut"},
     buffered : Seq(1 .. MaxItems), credit : 0 .. Credit, got : 0 .. MaxItems]

(* `sends` counts the sends waiting in `tail`; `asked` and `lost` are history: *)
(* all the sends, and those that were rejected, which their callers are told. *)
DuplexRequest ==
    [st : {"none", "open", "ending", "ended", "closed"},
     credit : 0 .. InputCredit, sends : 0 .. MaxSends, asked : 0 .. MaxSends,
     lost : 0 .. MaxSends]

(* `st`: receiving and running calls are in the map.  `held` is the queue     *)
(* `pending` of a running stream, `input` the unread duplex messages, `seen`  *)
(* and `emitted` are history: messages received, payloads yielded.  So is     *)
(* `torn`: the call was answered more after an error had ended it.            *)
DaemonCall ==
    [st : {"absent", "receiving", "running", "gone"}, credit : 0 .. Credit,
     held : Seq(1 .. MaxItems), emitted : 0 .. MaxItems, complete : BOOLEAN,
     inputCredit : 0 .. InputCredit, input : 0 .. MaxSends + 1,
     seen : 0 .. MaxSends + 1, inputOpen : BOOLEAN, torn : BOOLEAN]

(* LocallyCancelledCalls: the set, the ring storage and the next slot.        *)
CancelledRing ==
    [ids : SUBSET Call, storage : Seq(Call), next : 1 .. RingLimit]

Pending == {c \in Call : client[c].st \in {"live", "ended"}}
Active  == {c \in Call : daemon[c].st \in {"receiving", "running"}}

PeerTypeOK ==
    /\ client \in [Call -> ClientCall]
    /\ requestBytes \in Nat /\ responseBytes \in Nat
    /\ duplex \in [Call -> DuplexRequest]
    /\ ring \in CancelledRing
    /\ daemon \in [Call -> DaemonCall]

(* The state after the calls in `refused` were refused and nothing else.      *)
PeerInitBut(refused) ==
    /\ client = [c \in Call |->
                   [st |-> IF c \in refused THEN "done" ELSE "idle",
                    end |-> IF c \in refused THEN "cut" ELSE "none",
                    buffered |-> <<>>, credit |-> Credit, got |-> 0]]
    /\ requestBytes = 0
    /\ responseBytes = 0
    /\ duplex = [c \in Call |-> [st |-> "none", credit |-> InputCredit,
                                 sends |-> 0, asked |-> 0, lost |-> 0]]
    /\ ring = [ids |-> {}, storage |-> <<>>, next |-> 1]
    /\ daemon = [c \in Call |->
                   [st |-> "absent", credit |-> Credit, held |-> <<>>,
                    emitted |-> 0, complete |-> FALSE, inputCredit |-> InputCredit,
                    input |-> 0, seen |-> 0, inputOpen |-> FALSE, torn |-> FALSE]]

PeerInit == PeerInitBut({})

-----------------------------------------------------------------------------
(* The client's bookkeeping.                                                  *)

(* Mutant: a call that was cancelled here is not remembered.                  *)
RememberedNot(r, c) == r

(* Mutant: the next slot is not taken modulo the limit.                       *)
RememberedPast(r, c) ==
    IF Len(r.storage) < RingLimit
    THEN [r EXCEPT !.ids = @ \cup {c}, !.storage = Append(@, c)]
    ELSE [ids |-> r.ids \cup {c}, storage |-> [r.storage EXCEPT ![r.next] = c],
          next |-> r.next + 1]

(* LocallyCancelledCalls.insert: past the limit the oldest slot is reused and *)
(* the id that was in it forgotten.                                           *)
Remembered(r, c) ==
    CASE c \in r.ids -> r
      [] c \notin r.ids /\ Len(r.storage) < RingLimit ->
           [r EXCEPT !.ids = @ \cup {c}, !.storage = Append(@, c)]
      [] OTHER ->
           [ids |-> (r.ids \cup {c}) \ {r.storage[r.next]},
            storage |-> [r.storage EXCEPT ![r.next] = c],
            next |-> (r.next % RingLimit) + 1]

Forgotten(r, c) == [r EXCEPT !.ids = @ \ {c}]

(* Mutant: the sends that wait are not woken.                                 *)
ClosedAsleep(q) == [q EXCEPT !.st = IF @ = "none" THEN @ ELSE "closed"]

(* DuplexRequests.close: every send that waits is rejected.                   *)
Closed(q) == [q EXCEPT !.st = IF @ = "none" THEN @ ELSE "closed",
                       !.sends = 0, !.lost = @ + q.sends]

(* Mutant: the request bytes of a call are kept for the connection's life.    *)
ReleasedNever(c) == requestBytes

(* The request bytes of a call are released once, at its remote end or when   *)
(* it is taken.                                                               *)
Released(c) == requestBytes - (IF client[c].st = "live" THEN 1 ELSE 0)

(* PendingCalls.take and what the caller is told.  take fires the call's      *)
(* AbortController and closes its duplex request.                             *)
Take(c, end) ==
    /\ client' = [client EXCEPT ![c].st = "done", ![c].end = end,
                                ![c].buffered = <<>>]
    /\ requestBytes' = Released(c)
    /\ responseBytes' = responseBytes - Len(client[c].buffered)
    /\ aborted' = aborted \cup {c}
    /\ duplex' = [duplex EXCEPT ![c] = Closed(@)]

(* RuntimePeer.cancel with the batches queued before its Cancel frame.        *)
CancelAfter(c, queue) ==
    /\ Take(c, "cut")
    /\ ring' = Remembered(ring, c)
    /\ outbox' = Queued(queue, Batch(<<Frame("cancel", c)>>, None))

(* abandon: the call leaves the map and its handler is cancelled.             *)
Abandoned(d) == [d EXCEPT !.st = "gone", !.held = <<>>, !.input = 0]

(* terminate and, for the daemon, cancel_all: every pending call fails, every *)
(* active one is abandoned.                                                   *)
Terminate(reason) ==
    /\ Down(reason)
    /\ client' = [c \in Call |->
                    IF c \in Pending
                    THEN [client[c] EXCEPT !.st = "done", !.end = "cut", !.buffered = <<>>]
                    ELSE client[c]]
    /\ requestBytes' = 0
    /\ responseBytes' = 0
    /\ aborted' = aborted \cup Pending
    /\ duplex' = [c \in Call |-> Closed(duplex[c])]
    /\ daemon' = [c \in Call |->
                    IF c \in Active THEN Abandoned(daemon[c]) ELSE daemon[c]]
    /\ UNCHANGED ring

(* No batch that is bound to the signal of the call waits to be transmitted.  *)
Quiet(c) == \A i \in DOMAIN outbox : outbox[i].signal # c

(* The caller has its stream: the start batch is transmitted, or gone.  (Only *)
(* a caller that has it sends, so a batch after a send is not the start.)     *)
Opened(c) == duplex[c].asked > 0 \/ Quiet(c)

-----------------------------------------------------------------------------
(* What callers do.                                                           *)

(* Mutant: more credit is given back than was used.                           *)
RestoredMore(c, n) == Batch(<<Counted("window", c, n + 1)>>, None)

(* ProtocolSender.restoreCredit.                                              *)
Restored(c, n) == Batch(<<Counted("window", c, n)>>, None)

(* unary, subscribe and duplex: admission, reservation, and the start batch.  *)
Start(c) ==
    /\ Open
    /\ client[c].st = "idle"
    /\ Cardinality(Pending) < MaxPending
    /\ requestBytes < MaxRequest
    /\ CanSend
    /\ client' = [client EXCEPT ![c].st = "live"]
    /\ requestBytes' = requestBytes + 1
    /\ duplex' = IF c \in Duplex
                 THEN [duplex EXCEPT ![c].st = "open", ![c].credit = @ - 1]
                 ELSE duplex
    /\ outbox' = Append(outbox,
                   Batch(<<Frame("start", c), Frame("payload", c)>> \o
                         (IF c \in Duplex THEN <<>> ELSE <<Frame("end", c)>>), c))
    /\ UNCHANGED <<responseBytes, ring, daemon, skipped, aborted, toDaemon, toClient, link>>

(* The call fails before anything of it is queued: too many pending calls, a  *)
(* spent request budget, a full queue, a signal that had fired already.       *)
StartRefused(c) ==
    /\ Open
    /\ client[c].st = "idle"
    /\ client' = [client EXCEPT ![c].st = "done", ![c].end = "cut"]
    /\ UNCHANGED <<requestBytes, responseBytes, duplex, ring, daemon, linkVars>>

(* The call's signal fires, its deadline passes or its caller cancels it; so  *)
(* does a send or an end of a duplex call that is refused: too many sends     *)
(* wait, or the request is closed although its responses are not read yet.    *)
Cancel(c) ==
    /\ Open
    /\ client[c].st \in {"live", "ended"}
    /\ CancelAfter(c, outbox)
    /\ UNCHANGED <<daemon, skipped, toDaemon, toClient, link>>

(* RuntimeEventStream.return: what is buffered counts as consumed; a stream   *)
(* that has not ended is cancelled then.                                      *)
Return(c) ==
    /\ Open
    /\ c \notin Unary
    /\ Opened(c)
    /\ \/ /\ client[c].st = "live"
          /\ LET n == Len(client[c].buffered)
             IN CancelAfter(c,
                  IF n = 0 THEN outbox
                  ELSE Queued(outbox, Restored(c, n)))
       \/ /\ client[c].st = "ended"
          /\ Take(c, "cut")
          /\ UNCHANGED <<ring, outbox>>
    /\ UNCHANGED <<daemon, skipped, toDaemon, toClient, link>>

(* RuntimeEventStream.next and restoreCredit.  The frame that gives the       *)
(* credit back may not fit the queue, and is lost then.                       *)
Read(c) ==
    /\ Open
    /\ c \notin Unary
    /\ client[c].st \in {"live", "ended"}
    /\ client[c].buffered # <<>>
    /\ LET read == [client[c] EXCEPT !.got = Head(client[c].buffered),
                                     !.buffered = Tail(@)]
       IN IF client[c].st = "live"
          THEN /\ client' = [client EXCEPT ![c] = [read EXCEPT !.credit = @ + 1]]
               /\ outbox' = Queued(outbox, Restored(c, 1))
          ELSE /\ client' = [client EXCEPT
                               ![c] = IF read.buffered = <<>>
                                      THEN [read EXCEPT !.st = "done", !.end = "complete"]
                                      ELSE read]
               /\ UNCHANGED outbox
    /\ responseBytes' = responseBytes - 1
    /\ UNCHANGED <<requestBytes, duplex, ring, daemon, skipped, aborted, toDaemon,
                   toClient, link>>

(* RuntimeDuplex.send: the message waits for the ones before it in `tail`.    *)
DuplexSend(c) ==
    /\ Open
    /\ duplex[c].st = "open"
    /\ Opened(c)
    /\ duplex[c].asked < MaxSends
    /\ duplex' = [duplex EXCEPT ![c].sends = @ + 1, ![c].asked = @ + 1]
    /\ UNCHANGED <<client, requestBytes, responseBytes, ring, daemon, linkVars>>

(* The first send that waits has its turn when the one before it is           *)
(* transmitted and there is credit.                                           *)
FlushTurn(c) ==
    /\ Open
    /\ duplex[c].st \in {"open", "ending"}
    /\ duplex[c].sends > 0
    /\ duplex[c].credit > 0
    /\ Quiet(c)

DuplexFlush(c) ==
    /\ FlushTurn(c)
    /\ CanSend
    /\ duplex' = [duplex EXCEPT ![c].sends = @ - 1, ![c].credit = @ - 1]
    /\ outbox' = Append(outbox, Batch(<<Frame("payload", c)>>, c))
    /\ UNCHANGED <<client, requestBytes, responseBytes, ring, aborted>>
    /\ UNCHANGED <<daemon, skipped, toDaemon, toClient, link>>

(* What goes on behind a send that fails, for its failure settles `tail`      *)
(* before it cancels the call: the next send, if there is credit, or an end   *)
(* that waited for this one.                                                  *)
Follower(q, c) ==
    CASE q.sends > 1 /\ q.credit > 1 -> {Batch(<<Frame("payload", c)>>, c)}
      [] q.sends = 1 /\ q.st = "ending" -> {Batch(<<Frame("end", c)>>, None)}
      [] OTHER -> {}

(* The send fails: the queue is full, or the frame or the bytes queued exceed *)
(* their limit, which neither the credit nor DuplexRequests.send rules out.   *)
(* That cancels the call.  What follows may fail as well, and leaves no trace *)
(* then.                                                                      *)
DuplexFlushFails(c) ==
    /\ FlushTurn(c)
    /\ \/ CancelAfter(c, outbox)
       \/ \E batch \in Follower(duplex[c], c) : CancelAfter(c, Queued(outbox, batch))
    /\ UNCHANGED <<daemon, skipped, toDaemon, toClient, link>>

(* Mutant: the end does not wait.                                             *)
TailDoneAtOnce(c) == TRUE

(* request.tail: every send was transmitted.                                  *)
TailDone(c) == duplex[c].sends = 0 /\ Quiet(c)

(* RuntimeDuplex.end: no send is taken from here on; CallEnd waits for the    *)
(* sends before it to be transmitted, and is not bound to the call's signal.  *)
DuplexEnd(c) ==
    /\ Open
    /\ \/ /\ duplex[c].st = "open" /\ Opened(c)
          /\ duplex' = [duplex EXCEPT ![c].st = "ending"]
          /\ UNCHANGED <<client, requestBytes, responseBytes, ring, aborted, outbox>>
       \/ /\ duplex[c].st = "ending"
          /\ TailDone(c)
          /\ IF CanSend
             THEN /\ duplex' = [duplex EXCEPT ![c].st = "ended"]
                  /\ outbox' = Append(outbox, Batch(<<Frame("end", c)>>, None))
                  /\ UNCHANGED <<client, requestBytes, responseBytes, ring, aborted>>
             ELSE CancelAfter(c, outbox)
    /\ UNCHANGED <<daemon, skipped, toDaemon, toClient, link>>

-----------------------------------------------------------------------------
(* What the client does with a frame from the daemon.                         *)

(* What the client's books do not allow: a payload of a call that is over and *)
(* forgotten, that has ended, that exceeds the credit or is a unary call's    *)
(* second; a second end of a stream; credit past the limit of a request.      *)
Unexpected(f) ==
    LET call == client[f.call]
    IN \/ /\ f.kind = "payload"
          /\ \/ call.st = "ended"
             \/ call.st \in {"idle", "done"} /\ f.call \notin ring.ids
             \/ call.st = "live" /\ call.credit = 0
             \/ call.st = "live" /\ f.call \in Unary /\ call.buffered # <<>>
       \/ f.kind = "end" /\ (call.st = "idle" \/ (call.st = "ended" /\ f.n = 1))
       \/ /\ f.kind = "window"
          /\ duplex[f.call].st \notin {"none", "closed"}
          /\ duplex[f.call].credit = InputCredit

(* Such a frame ends the connection.                                          *)
RefuseFrame ==
    /\ Open
    /\ toClient # <<>>
    /\ Head(toClient).call \in Call
    /\ Unexpected(Head(toClient))
    /\ Terminate("rejected")

Accepts(frame) ==
    /\ ClientReads(frame)
    /\ ~Unexpected(frame)
    /\ toClient' = Tail(toClient)
    /\ UNCHANGED <<daemon, skipped, toDaemon, link>>

(* acceptCallPayload: a payload for a call that was cancelled here is dropped,*)
(* one that does not fit a buffer cancels its call.                           *)
ReceivePayload(c) == \E n \in 1 .. MaxItems :
    LET full == \/ responseBytes = MaxResponse
                \/ c \notin Unary /\ Len(client[c].buffered) = MaxEvents
    IN /\ Accepts(Counted("payload", c, n))
       /\ \/ /\ client[c].st = "done"
             /\ UNCHANGED <<callVars, ring, outbox>>
          \/ /\ client[c].st = "live" /\ full
             /\ CancelAfter(c, outbox)
          \/ /\ client[c].st = "live" /\ ~full
             /\ client' = [client EXCEPT ![c].buffered = Append(@, n), ![c].credit = @ - 1]
             /\ responseBytes' = responseBytes + 1
             /\ UNCHANGED <<requestBytes, duplex, aborted, ring, outbox>>

(* Mutant: the end of a stream does not wait for its reader.                  *)
DrainedAlways(c) == TRUE

Drained(c) == client[c].buffered = <<>>

(* finishCall with an OK status: a stream keeps its place in the map until    *)
(* its buffer is read; markStreamEnded releases the rest of it at once.       *)
ReceiveEnd(c) ==
    /\ Accepts(Counted("end", c, 1))
    /\ \/ /\ client[c].st = "done"
          /\ ring' = Forgotten(ring, c)
          /\ UNCHANGED callVars
       \/ /\ client[c].st = "live" /\ c \in Unary
          /\ Take(c, IF Len(client[c].buffered) = 1 THEN "complete" ELSE "cut")
          /\ UNCHANGED ring
       \/ /\ client[c].st = "live" /\ c \notin Unary /\ Drained(c)
          /\ Take(c, "complete")
          /\ UNCHANGED ring
       \/ /\ client[c].st = "live" /\ c \notin Unary /\ ~Drained(c)
          /\ client' = [client EXCEPT ![c].st = "ended"]
          /\ requestBytes' = Released(c)
          /\ aborted' = aborted \cup {c}
          /\ duplex' = [duplex EXCEPT ![c] = Closed(@)]
          /\ UNCHANGED <<responseBytes, ring>>
    /\ UNCHANGED outbox

(* finishCall with an error status: the call fails, whatever is buffered.     *)
ReceiveFailure(c) ==
    /\ Accepts(Counted("end", c, 0))
    /\ IF c \in Pending
       THEN Take(c, "cut") /\ UNCHANGED ring
       ELSE ring' = Forgotten(ring, c) /\ UNCHANGED callVars
    /\ UNCHANGED outbox

(* updateCredit: DuplexRequests.update, or a call that is over.               *)
ReceiveInputCredit(c) ==
    /\ Accepts(Counted("window", c, 1))
    /\ duplex' = IF duplex[c].st \in {"none", "closed"} THEN duplex
                 ELSE [duplex EXCEPT ![c].credit = @ + 1]
    /\ UNCHANGED <<client, requestBytes, responseBytes, aborted, ring, outbox>>

-----------------------------------------------------------------------------
(* The daemon.  `Answer` removes the frame it read and appends its replies.   *)

EndOk(c)    == Counted("end", c, 1)
EndError(c) == Counted("end", c, 0)

DaemonKeeps == UNCHANGED <<callVars, ring, outbox, skipped, link>>

Answer(frames) ==
    /\ toDaemon' = Tail(toDaemon)
    /\ toClient' = toClient \o frames
    /\ DaemonKeeps

Emit(frames) ==
    /\ Open
    /\ toClient' = toClient \o frames
    /\ UNCHANGED toDaemon
    /\ DaemonKeeps

(* ProtocolCalls::start.                                                      *)
DaemonStart(c) ==
    /\ DaemonReads(Frame("start", c))
    /\ IF Cardinality(Active) < MaxActive
       THEN /\ daemon' = [daemon EXCEPT ![c].st = "receiving"]
            /\ Answer(<<>>)
       ELSE /\ UNCHANGED daemon
            /\ Answer(<<EndError(c)>>)

(* The messages in the channel of a duplex call: the first one, which came    *)
(* with the dispatch, is consumed before any of them.                         *)
InChannel(d) == IF d.input = d.seen THEN d.input - 1 ELSE d.input

(* A duplex message is taken while the input is open and the handler is       *)
(* there, as far as the credit and the channel allow.                         *)
Takes(d) ==
    /\ d.inputOpen /\ ~d.complete
    /\ d.inputCredit > 0
    /\ InChannel(d) < InputDepth

(* ProtocolCalls::receive_payload: the request, which dispatches a duplex     *)
(* call, or one of its later messages.  What does not fit ends the call.  (A  *)
(* spent budget of the connection is a DaemonFail just before.)               *)
DaemonPayload(c) ==
    /\ DaemonReads(Frame("payload", c))
    /\ LET d == daemon[c] IN
       CASE d.st = "receiving" /\ d.seen = 0 /\ c \notin Duplex ->
              daemon' = [daemon EXCEPT ![c].seen = 1] /\ Answer(<<>>)
         [] d.st = "receiving" /\ d.seen = 0 /\ c \in Duplex ->
              /\ daemon' = [daemon EXCEPT ![c].st = "running", ![c].inputOpen = TRUE,
                              ![c].input = 1, ![c].seen = 1, ![c].inputCredit = @ - 1]
              /\ Answer(<<>>)
         [] d.st = "running" /\ Takes(d) ->
              /\ daemon' = [daemon EXCEPT ![c].input = @ + 1, ![c].seen = @ + 1,
                                          ![c].inputCredit = @ - 1]
              /\ Answer(<<>>)
         [] c \in Active /\ d.seen > 0 /\ ~(d.st = "running" /\ Takes(d)) ->
              daemon' = [daemon EXCEPT ![c] = Abandoned(@)] /\ Answer(<<EndError(c)>>)
         [] OTHER -> UNCHANGED daemon /\ Answer(<<EndError(c)>>)

(* ProtocolCalls::end: dispatch, or the end of a duplex call's input.         *)
DaemonEnd(c) ==
    /\ DaemonReads(Frame("end", c))
    /\ LET d == daemon[c] IN
       CASE d.st = "receiving" ->
              daemon' = [daemon EXCEPT ![c].st = "running"] /\ Answer(<<>>)
         [] d.st = "running" /\ d.inputOpen ->
              daemon' = [daemon EXCEPT ![c].inputOpen = FALSE] /\ Answer(<<>>)
         [] d.st = "running" /\ ~d.inputOpen ->
              daemon' = [daemon EXCEPT ![c] = Abandoned(@)] /\ Answer(<<EndError(c)>>)
         [] OTHER -> UNCHANGED daemon /\ Answer(<<EndError(c)>>)

(* ProtocolCalls::cancel: only a call that is still there is answered.        *)
DaemonCancel(c) ==
    /\ DaemonReads(Frame("cancel", c))
    /\ IF c \in Active
       THEN daemon' = [daemon EXCEPT ![c] = Abandoned(@)] /\ Answer(<<EndError(c)>>)
       ELSE UNCHANGED daemon /\ Answer(<<>>)

(* ProtocolCalls::update_credit: the held payloads that fit are sent, and the *)
(* end behind the last of them; credit past the limit ends the call.          *)
DaemonCredit(c) ==
    /\ \E n \in 1 .. Credit :
         /\ DaemonReads(Counted("window", c, n))
         /\ LET d     == daemon[c]
                fits  == IF d.credit + n < Len(d.held) THEN d.credit + n ELSE Len(d.held)
                sent  == [i \in 1 .. fits |-> Counted("payload", c, d.held[i])]
                left  == SubSeq(d.held, fits + 1, Len(d.held))
                ends  == d.complete /\ left = <<>>
            IN CASE c \notin Active -> UNCHANGED daemon /\ Answer(<<>>)
                 [] c \in Active /\ d.credit + n > Credit ->
                      /\ daemon' = [daemon EXCEPT ![c] = Abandoned(@)]
                      /\ Answer(<<EndError(c)>>)
                 [] OTHER ->
                      /\ daemon' = [daemon EXCEPT
                           ![c].credit = @ + n - fits, ![c].held = left,
                           ![c].st = IF ends THEN "gone" ELSE @]
                      /\ Answer(sent \o IF ends THEN <<EndOk(c)>> ELSE <<>>)

(* The same when the frame of the k-th of these payloads exceeds the client's *)
(* limit: send_stream_payload gives the call up and ends it with an error,    *)
(* but the replies behind it are sent all the same, the OK status too.  (Such *)
(* a payload takes nearly all the credit, so that it is the only one; the m   *)
(* payloads up to the last that is sent are not bound by one byte each.)      *)
DaemonOversized(c) ==
    /\ c \in Active
    /\ \E n \in 1 .. Credit :
         /\ DaemonReads(Counted("window", c, n))
         /\ daemon[c].credit + n <= Credit
         /\ LET d == daemon[c]
            IN \E m \in 1 .. Len(d.held) : \E k \in 1 .. m :
                 LET sent == [i \in 1 .. m |-> IF i = k THEN EndError(c)
                                               ELSE Counted("payload", c, d.held[i])]
                     ends == d.complete /\ m = Len(d.held)
                 IN /\ k <= d.credit + n
                    /\ daemon' = [daemon EXCEPT ![c] = [Abandoned(d) EXCEPT !.torn = TRUE]]
                    /\ Answer(sent \o IF ends THEN <<EndOk(c)>> ELSE <<>>)

(* ProtocolOutcome::StreamPayload: sent while credit lasts, held after that.  *)
DaemonYield(c) ==
    /\ c \notin Unary
    /\ daemon[c].st = "running" /\ ~daemon[c].complete
    /\ daemon[c].emitted < MaxItems
    /\ LET d == daemon[c]
           n == d.emitted + 1
       IN IF d.held = <<>> /\ d.credit > 0
          THEN /\ daemon' = [daemon EXCEPT ![c].emitted = n, ![c].credit = @ - 1]
               /\ Emit(<<Counted("payload", c, n)>>)
          ELSE /\ daemon' = [daemon EXCEPT ![c].emitted = n, ![c].held = Append(@, n)]
               /\ Emit(<<>>)

(* ProtocolOutcome::Complete and StreamComplete.                              *)
DaemonComplete(c) ==
    /\ daemon[c].st = "running" /\ ~daemon[c].complete
    /\ \/ /\ c \in Unary
          /\ daemon' = [daemon EXCEPT ![c].st = "gone", ![c].complete = TRUE,
                                      ![c].emitted = 1]
          /\ Emit(<<Counted("payload", c, 1), EndOk(c)>>)
       \/ /\ c \notin Unary /\ daemon[c].held = <<>>
          /\ daemon' = [daemon EXCEPT ![c].st = "gone", ![c].complete = TRUE,
                                      ![c].input = 0]
          /\ Emit(<<EndOk(c)>>)
       \/ /\ c \notin Unary /\ daemon[c].held # <<>>
          /\ daemon' = [daemon EXCEPT ![c].complete = TRUE, ![c].input = 0]
          /\ Emit(<<>>)

(* ProtocolOutcome::Failed, and expire: the deadlines of assembly, execution  *)
(* and response delivery.                                                     *)
DaemonFail(c) ==
    /\ c \in Active
    /\ daemon' = [daemon EXCEPT ![c] = Abandoned(@)]
    /\ Emit(<<EndError(c)>>)

(* response_delivery_deadline: payloads are not held for ever.                *)
DeliveryDeadline(c) == daemon[c].held # <<>> /\ DaemonFail(c)

(* receive_duplex_payload, and the dispatch of the first message: a message   *)
(* read gives its credit back.                                                *)
DaemonConsume(c) ==
    /\ daemon[c].st = "running" /\ ~daemon[c].complete
    /\ daemon[c].input > 0
    /\ daemon' = [daemon EXCEPT ![c].input = @ - 1, ![c].inputCredit = @ + 1]
    /\ Emit(<<Counted("window", c, 1)>>)

-----------------------------------------------------------------------------
Caller(c) ==
    \/ Start(c) \/ StartRefused(c) \/ Cancel(c) \/ Return(c) \/ Read(c)
    \/ DuplexSend(c) \/ DuplexFlush(c) \/ DuplexFlushFails(c) \/ DuplexEnd(c)

ClientReceives(c) ==
    \/ ReceivePayload(c) \/ ReceiveEnd(c) \/ ReceiveFailure(c) \/ ReceiveInputCredit(c)

DaemonReceives(c) ==
    \/ DaemonStart(c) \/ DaemonPayload(c) \/ DaemonEnd(c) \/ DaemonCancel(c)
    \/ DaemonCredit(c)

Handler(c) ==
    \/ DaemonYield(c) \/ DaemonComplete(c) \/ DaemonFail(c) \/ DaemonConsume(c)

PeerNext == \E c \in Call :
    \/ Caller(c) \/ ClientReceives(c) \/ DaemonReceives(c) \/ DaemonOversized(c)
    \/ Handler(c)

Deliver == Transmit /\ UNCHANGED peerVars

RefuseGap == GapArrives /\ Terminate("gap")

(* The socket closes under the peers, or one of them leaves.                  *)
Disconnect == Open /\ Terminate("closed")

-----------------------------------------------------------------------------
(* Properties.                                                                *)

(* Where frames of a kind of the call are, the bytes of credit that frames    *)
(* give back, and the frames under way to the daemon without their numbers.   *)
Carrying(frames, kind, c) ==
    {j \in DOMAIN frames : frames[j].kind = kind /\ frames[j].call = c}
CreditBytes(frames, c) ==
    UNION {{j} \X (1 .. frames[j].n) : j \in Carrying(frames, "window", c)}
Inbound == [i \in DOMAIN toDaemon |-> toDaemon[i].frame]

(* The response bytes of a stream that the daemon may not send at the moment: *)
(* payloads under way or not read yet, and credit on its way back.            *)
ResponseCredit(c) ==
    Cardinality(Carrying(toClient, "payload", c)) + Len(client[c].buffered)
      + Cardinality(CreditBytes(Inbound, c))
      + Cardinality(UNION {{i} \X CreditBytes(outbox[i].frames, c) : i \in DOMAIN outbox})

(* The same of the messages of a duplex call, for the client.                 *)
RequestCredit(c) ==
    Cardinality(UNION {{i} \X Carrying(outbox[i].frames, "payload", c) : i \in DOMAIN outbox})
      + Cardinality(Carrying(Inbound, "payload", c)) + daemon[c].input
      + Cardinality(Carrying(toClient, "window", c))

(* Flow control invents no credit: what the daemon may send on a stream and   *)
(* what is on its way never exceed the initial credit, so that neither a      *)
(* payload nor a WindowUpdate can overrun its limit; and the messages of a    *)
(* duplex call account for every byte, so that none is lost either.           *)
CreditConserved ==
    \A c \in Call : client[c].st = "live" /\ c \in Active =>
        /\ daemon[c].credit + ResponseCredit(c) <= Credit
        /\ c \in Duplex /\ ~daemon[c].complete =>
              duplex[c].credit + RequestCredit(c) = InputCredit

(* A caller whose call completed was given every payload the handler yielded, *)
(* and what waits in a buffer continues what was read before without a hole.  *)
CompleteMeansAll ==
    \A c \in Call :
        /\ client[c].end = "complete" =>
              daemon[c].complete /\ (c \notin Unary => client[c].got = daemon[c].emitted)
        /\ \A i \in DOMAIN client[c].buffered :
              client[c].buffered[i] = client[c].got + i

(* The byte budgets of the connection are exact: take, markStreamEnded and    *)
(* restoreResponseBytes together release what a call reserved, once.          *)
BudgetsExact ==
    /\ requestBytes = Cardinality({c \in Call : client[c].st = "live"})
    /\ responseBytes =
          Cardinality(UNION {{c} \X DOMAIN client[c].buffered : c \in Call})

(* The client ends the connection over a late frame of a call only when it    *)
(* has given up more calls than LocallyCancelledCalls remembers, or when the  *)
(* daemon answered on after an oversized payload (ErrorEndsCall).             *)
LateFramesTolerated ==
    [][RefuseFrame =>
         \/ Cardinality({c \in aborted \cap Call : client[c].end = "cut"}) > RingLimit
         \/ daemon[Head(toClient).call].torn
      ]_<<peerVars, linkVars>>

(* The daemon takes the end of a duplex request for what it is: of the        *)
(* messages the caller sent before it, every one was received but those whose *)
(* send has failed, as the caller was told.                                   *)
InputEndMeansAll ==
    \A c \in Duplex :
        daemon[c].st = "running" /\ ~daemon[c].inputOpen =>
            daemon[c].seen + duplex[c].lost = duplex[c].asked + 1

(* A message of a duplex call does not wait for ever for the ones before it   *)
(* or for credit: it is sent, or its sender learns that the call is over.     *)
SendsSettle ==
    \A c \in Duplex : duplex[c].sends > 0 ~> duplex[c].sends = 0

(* "cancel and timeout terminate only their addressed call"                   *)
(* (packages/protocol/README.md:19): the connection survives every call that  *)
(* is given up.                                                               *)
CancelIsLocal == link # "gap"

(* "A non-OK status terminates the entire call."                              *)
(* (packages/protocol/proto/agent_start/protocol/v1/frame.proto:87): no       *)
(* payload and no OK status of a call follows its CallEnd with an error.      *)
ErrorEndsCall ==
    \A c \in Call : \A i, j \in DOMAIN toClient :
        i < j /\ toClient[i] = EndError(c) =>
            toClient[j] # EndOk(c) /\ j \notin Carrying(toClient, "payload", c)
=============================================================================
