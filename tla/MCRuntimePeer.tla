---------------------------- MODULE MCRuntimePeer ----------------------------
(* RuntimePeer on small instances.                                            *)
EXTENDS RuntimePeer

(* The calls that are made; the others were refused before (StartRefused,     *)
(* ReverseRefused), so each initial state is one that the connection reaches  *)
(* from Init.                                                                 *)
Made == {Unary \cup Stream, Duplex, ReverseUnary, ReverseStream,
         Unary \cup {CHOOSE c \in ReverseUnary : TRUE}}

SomeCalls ==
    /\ LinkInit
    /\ \E made \in Made :
          /\ PeerInitBut(Call \ made)
          /\ ReverseInitBut(ReverseId \ made)

MCSpec == SomeCalls /\ [][Next]_vars /\ Fairness
=============================================================================
