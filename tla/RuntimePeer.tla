----------------------------- MODULE RuntimePeer -----------------------------
(* One connection between a client and the daemon: the calls that each side   *)
(* makes of the other share the sender's queue, the order of the frames and   *)
(* the connection's end.                                                      *)
EXTENDS PeerCalls, ReverseCalls

(* A client draws odd ids for its calls, the daemon even ones.                *)
ASSUME IdsAssumption == Call \cap ReverseId = {}

vars == <<peerVars, reverseVars, linkVars>>

Init == LinkInit /\ PeerInit /\ ReverseInit

(* A frame of a reverse call that one side refuses, or a retired call whose   *)
(* CallEnd does not come within RETIRED_CALL_TIMEOUT, ends the connection.    *)
RefuseReverse == (DaemonRefuses \/ ClientRefuses \/ Unanswered) /\ Terminate("reverse")

Ends == RefuseGap \/ RefuseFrame \/ RefuseReverse \/ Disconnect

Next ==
    \/ PeerNext /\ UNCHANGED reverseVars
    \/ ReverseNext /\ UNCHANGED peerVars
    \/ Deliver /\ UNCHANGED reverseVars
    \/ Ends /\ ReverseDown

(* The event loops of both sides go on: the sender drains its queue, frames   *)
(* that arrive are handled, a handler of a duplex call reads its input, and   *)
(* payloads held too long end their call.  Nobody has to call, to read, to    *)
(* cancel, to yield or to end anything.                                       *)
ClientTurn ==
    \/ (RefuseFrame \/ (ClientRefuses /\ Terminate("reverse"))) /\ ReverseDown
    \/ (\E c \in Call : ClientReceives(c)) /\ UNCHANGED reverseVars
    \/ (\E c \in ReverseId : IncomingReceives(c)) /\ UNCHANGED peerVars

DaemonTurn ==
    \/ (RefuseGap \/ (DaemonRefuses /\ Terminate("reverse"))) /\ ReverseDown
    \/ (\E c \in Call : DaemonReceives(c)) /\ UNCHANGED reverseVars
    \/ (\E c \in ReverseId : ReverseAnswered(c)) /\ UNCHANGED peerVars

Fairness ==
    /\ WF_vars(Deliver /\ UNCHANGED reverseVars)
    /\ WF_vars(ClientTurn)
    /\ WF_vars(DaemonTurn)
    /\ \A c \in Duplex :
          /\ WF_vars((DuplexFlush(c) \/ DuplexFlushFails(c)) /\ UNCHANGED reverseVars)
          /\ WF_vars(DaemonConsume(c) /\ UNCHANGED reverseVars)
          /\ WF_vars(DeliveryDeadline(c) /\ UNCHANGED reverseVars)

Spec == Init /\ [][Next]_vars /\ Fairness
=============================================================================
