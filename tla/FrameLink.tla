------------------------------ MODULE FrameLink ------------------------------
(* One WebSocket between a client (packages/protocol/typescript, RuntimePeer) *)
(* and the daemon (apps/daemon/src/rpc, ProtocolConnection): the client's     *)
(* ProtocolSender, its queue of batches, and one FIFO of frames per direction.*)
(*                                                                            *)
(* encodeBatch gives every frame its sequence number when the batch is        *)
(* queued; a batch whose AbortSignal has fired is not transmitted, or not to  *)
(* its end.  The daemon tests one thing about a number, that it follows the   *)
(* last one, so a frame carries just that: "gap" is TRUE when some number     *)
(* between it and the frame transmitted before it was never sent.             *)
EXTENDS Naturals, Sequences, FiniteSets

CONSTANTS
    MaxBatches,   \* MAX_PENDING_SEND_BATCHES, the limit of the sender's queue
    None          \* no AbortSignal

ASSUME BatchesAssumption == MaxBatches \in Nat \ {0}

VARIABLES
    outbox,       \* ProtocolSender.tail: the batches not transmitted to the end
    skipped,      \* a sequence number was given out and will never be sent
    aborted,      \* the calls whose AbortController has fired
    toDaemon,     \* frames under way to the daemon
    toClient,     \* frames under way to the client
    link          \* "open", or why the connection is gone

linkVars == <<outbox, skipped, aborted, toDaemon, toClient, link>>

Open == link = "open"

(* A frame, and a frame that carries the number of a payload or of credit.    *)
Frame(kind, c) == [kind |-> kind, call |-> c, n |-> 0]
Counted(kind, c, n) == [kind |-> kind, call |-> c, n |-> n]

Batch(frames, signal) == [frames |-> frames, signal |-> signal]

(* sendBatch: a batch that does not fit the queue is refused with             *)
(* RESOURCE_EXHAUSTED and leaves no trace.                                    *)
Queued(queue, batch) ==
    IF Len(queue) < MaxBatches THEN Append(queue, batch) ELSE queue

CanSend == Len(outbox) < MaxBatches

LinkInit ==
    /\ outbox = <<>>
    /\ skipped = FALSE
    /\ aborted = {}
    /\ toDaemon = <<>>
    /\ toClient = <<>>
    /\ link = "open"

(* transmitFrames, one frame: throwIfAborted before each frame drops the rest *)
(* of the batch, whose numbers are already given out.                         *)
Transmit ==
    /\ Open
    /\ outbox # <<>>
    /\ LET batch == Head(outbox)
           rest  == Tail(batch.frames)
       IN IF batch.signal \in aborted
          THEN /\ outbox' = Tail(outbox)
               /\ skipped' = TRUE
               /\ UNCHANGED toDaemon
          ELSE /\ toDaemon' = Append(toDaemon,
                                [frame |-> Head(batch.frames), gap |-> skipped])
               /\ skipped' = FALSE
               /\ outbox' = IF rest = <<>> THEN Tail(outbox)
                            ELSE <<Batch(rest, batch.signal)>> \o Tail(outbox)
    /\ UNCHANGED <<aborted, toClient, link>>

(* The connection is gone, with every frame on it.  What either side still    *)
(* does until it notices changes nothing that the other side will see.        *)
Down(reason) ==
    /\ link' = reason
    /\ outbox' = <<>> /\ toDaemon' = <<>> /\ toClient' = <<>>
    /\ skipped' = FALSE

(* ProtocolConnection::advance_incoming_sequence refuses a frame whose number *)
(* does not follow the last one.                                              *)
GapArrives == Open /\ toDaemon # <<>> /\ Head(toDaemon).gap

(* The next frame for the daemon, in order.                                   *)
DaemonReads(frame) ==
    /\ Open
    /\ toDaemon # <<>>
    /\ ~Head(toDaemon).gap
    /\ frame = Head(toDaemon).frame

(* The next frame for the client: the daemon gives a number to a frame when   *)
(* it sends it, so its frames always follow one another.                      *)
ClientReads(frame) ==
    /\ Open
    /\ toClient # <<>>
    /\ frame = Head(toClient)
=============================================================================
