-------------------------------- MODULE PeerFrames ---------------------------
(* The types of what is under way on a connection, for the proofs: the queue  *)
(* of the sender, the frames on their way to the daemon and those on their way *)
(* to the client.                                                             *)
EXTENDS RuntimePeer

Id == Call \cup ReverseId

FrameType ==
    [kind : {"start", "payload", "end", "cancel", "window"}, call : Id, n : Nat]
SentType  == [frame : FrameType, gap : BOOLEAN]
BatchType == [frames : Seq(FrameType), signal : Id \cup {None}]

(* A batch is not empty, and starts a call with its first frame or not at all.*)
BatchOK(b) ==
    /\ b \in BatchType /\ b.frames # <<>>
    /\ \A j \in DOMAIN b.frames : j > 1 => b.frames[j].kind # "start"
=============================================================================
