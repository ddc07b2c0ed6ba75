-------------------------- MODULE PeerCreditProofs ---------------------------
(* Flow control of the client's calls: the credit of the responses and that   *)
(* of the messages of a duplex call, for any number of calls and any limits.  *)
(* The second half is about late frames: what the client may still hear of    *)
(* calls that have ended or were given up.                                    *)
EXTENDS PeerCallsProofs, FunctionTheorems

-----------------------------------------------------------------------------
(* How many frames of a call are in a queue.                                  *)

IsWindow(f, c) == f.kind = "window" /\ f.call = c

(* Credit on its way to the client, and credit in the queue of the client.    *)
Grants(q, c)  == {i \in 1 .. Len(q) : IsWindow(q[i], c)}
Refunds(o, c) == {i \in 1 .. Len(o) : IsWindow(o[i].frames[1], c)}

Marked(p, kind, c) == Cardinality(Marks(p, kind, c))
Granted(q, c)      == Cardinality(Grants(q, c))
Refunded(o, c)     == Cardinality(Refunds(o, c))

(* T are the places S after the first element has left the queue.             *)
Shifted(S, T) ==
    /\ \A i \in T : i \in Nat /\ i > 0 /\ i + 1 \in S
    /\ \A i \in S : i \in Nat /\ i > 0 /\ (i = 1 \/ i - 1 \in T)

(* They are as many, but for the first.                                       *)
LEMMA ShiftSize ==
    ASSUME NEW S, NEW T, IsFiniteSet(S), Shifted(S, T)
    PROVE  /\ IsFiniteSet(T) /\ Cardinality(S) \in Nat /\ Cardinality(T) \in Nat
           /\ 1 \in S => Cardinality(S) = Cardinality(T) + 1
           /\ 1 \notin S => Cardinality(S) = Cardinality(T)
<1>1. PICK R : R = S \ {1}
  OBVIOUS
<1>2. IsFiniteSet(R) /\ Cardinality(R) = IF 1 \in S THEN Cardinality(S) - 1 ELSE Cardinality(S)
  BY <1>1, FS_RemoveElement
<1>3. PICK f : f = [i \in R |-> i - 1]
  OBVIOUS
<1>4. \A i \in R : i \in Nat /\ i > 0 /\ i - 1 \in T
  BY <1>1 DEF Shifted
<1>5. f \in [R -> T]
  BY <1>3, <1>4
<1>6. \A i, j \in R : f[i] = f[j] => i = j
  BY <1>3, <1>4
<1>7. ASSUME NEW t \in T PROVE \E i \in R : f[i] = t
  <2>1. t \in Nat /\ t > 0 /\ t + 1 \in S
    BY DEF Shifted
  <2>2. t + 1 # 1 /\ (t + 1) - 1 = t
    BY <2>1
  <2>3. t + 1 \in R
    BY <1>1, <2>1, <2>2
  <2>4. f[t + 1] = t
    BY <1>3, <2>2, <2>3
  <2> QED BY <2>3, <2>4
<1>8. f \in Bijection(R, T)
  BY <1>5, <1>6, <1>7, Fun_IsBij DEF Injection
<1>9. IsFiniteSet(T) /\ Cardinality(T) = Cardinality(R)
  BY <1>2, <1>8, FS_Bijection DEF ExistsBijection
<1>10. Cardinality(S) \in Nat /\ Cardinality(T) \in Nat
  BY <1>9, FS_CardinalityType
<1>11. PICK m, n, l : m = Cardinality(S) /\ n = Cardinality(T) /\ l = Cardinality(R)
  OBVIOUS
<1>12. 1 \in S => m = n + 1
  <2> SUFFICES ASSUME 1 \in S PROVE m = n + 1
    OBVIOUS
  <2>1. l = m - 1 /\ n = l /\ m \in Nat /\ n \in Nat
    BY <1>2, <1>9, <1>10, <1>11
  <2> QED BY <2>1
<1> QED BY <1>2, <1>9, <1>10, <1>11, <1>12

(* One place more.                                                            *)
LEMMA GrowSize ==
    ASSUME NEW S, NEW T, NEW n, IsFiniteSet(S), n \notin S, T = S \cup {n}
    PROVE  Cardinality(T) = Cardinality(S) + 1 /\ Cardinality(S) \in Nat
BY FS_AddElement, FS_CardinalityType

(* Places are finitely many.                                                  *)
LEMMA PlacesFinite ==
    ASSUME NEW n \in Nat, NEW S, S \subseteq 1 .. n
    PROVE  IsFiniteSet(S) /\ Cardinality(S) \in Nat
<1>1. IsFiniteSet(1 .. n)
  BY FS_Interval
<1>2. IsFiniteSet(S)
  BY <1>1, FS_Subset
<1> QED BY <1>2, FS_CardinalityType

(* The places of a queue and one more.                                        *)
LEMMA PlacesNext ==
    ASSUME NEW n \in Nat
    PROVE  /\ \A i \in 1 .. n + 1 : i \in 1 .. n \/ i = n + 1
           /\ \A i \in 1 .. n : i \in 1 .. n + 1 /\ i # n + 1
           /\ n + 1 \in 1 .. n + 1
OBVIOUS

(* The counts are numbers.                                                    *)
LEMMA MarkedNat ==
    ASSUME NEW p \in Seq(SentType), NEW kind, NEW c
    PROVE  IsFiniteSet(Marks(p, kind, c)) /\ Marked(p, kind, c) \in Nat
<1>1. Marks(p, kind, c) \subseteq 1 .. Len(p) /\ Len(p) \in Nat
  BY LenProperties DEF Marks
<1> QED BY <1>1, PlacesFinite DEF Marked

(* So is the credit under way to the client.                                  *)
LEMMA GrantedNat ==
    ASSUME NEW q \in Seq(FrameType), NEW c
    PROVE  IsFiniteSet(Grants(q, c)) /\ Granted(q, c) \in Nat
<1>1. Grants(q, c) \subseteq 1 .. Len(q) /\ Len(q) \in Nat
  BY LenProperties DEF Grants
<1> QED BY <1>1, PlacesFinite DEF Granted

(* And what waits in the queue of the client.                                 *)
LEMMA RefundedNat ==
    ASSUME NEW o \in Seq(BatchType), NEW c
    PROVE  IsFiniteSet(Refunds(o, c)) /\ Refunded(o, c) \in Nat
<1>1. Refunds(o, c) \subseteq 1 .. Len(o) /\ Len(o) \in Nat
  BY LenProperties DEF Refunds
<1> QED BY <1>1, PlacesFinite DEF Refunded

(* A frame arrives at the daemon.                                             *)
LEMMA MarkedTail ==
    ASSUME NEW p \in Seq(SentType), p # <<>>, NEW kind, NEW c
    PROVE  /\ Marked(p, kind, c) \in Nat /\ Marked(Tail(p), kind, c) \in Nat
           /\ Head(p).frame.kind = kind /\ Head(p).frame.call = c =>
                 Marked(p, kind, c) = Marked(Tail(p), kind, c) + 1
           /\ ~(Head(p).frame.kind = kind /\ Head(p).frame.call = c) =>
                 Marked(p, kind, c) = Marked(Tail(p), kind, c)
<1>1. PICK S, T : S = Marks(p, kind, c) /\ T = Marks(Tail(p), kind, c)
  OBVIOUS
<1>2. IsFiniteSet(S)
  BY <1>1, MarkedNat
<1>3. /\ Shifted(S, T)
      /\ 1 \in S <=> Head(p).frame.kind = kind /\ Head(p).frame.call = c
  BY <1>1, MarksTail DEF Shifted
<1> QED BY <1>1, <1>2, <1>3, ShiftSize DEF Marked

(* A frame is transmitted.                                                    *)
LEMMA MarkedAppend ==
    ASSUME NEW p \in Seq(SentType), NEW e \in SentType, NEW kind, NEW c
    PROVE  /\ e.frame.kind = kind /\ e.frame.call = c =>
                 Marked(Append(p, e), kind, c) = Marked(p, kind, c) + 1
           /\ ~(e.frame.kind = kind /\ e.frame.call = c) =>
                 Marked(Append(p, e), kind, c) = Marked(p, kind, c)
<1>1. PICK n, r : n = Len(p) /\ n \in Nat /\ r = Append(p, e)
  BY LenProperties
<1>2. Len(r) = n + 1 /\ r[n + 1] = e /\ \A i \in 1 .. n : r[i] = p[i]
  BY <1>1, AppendProperties
<1>3. /\ \A i \in 1 .. n + 1 : i \in 1 .. n \/ i = n + 1
      /\ \A i \in 1 .. n : i \in 1 .. n + 1 /\ i # n + 1
      /\ n + 1 \in 1 .. n + 1
  BY <1>1
<1>4. PICK S, T : S = Marks(p, kind, c) /\ T = Marks(r, kind, c)
  OBVIOUS
<1>5. n + 1 \notin S /\ IsFiniteSet(S)
  <2>1. IsFiniteSet(Marks(p, kind, c))
    BY MarkedNat
  <2> QED BY <1>1, <1>3, <1>4, <2>1 DEF Marks
<1>6. e.frame.kind = kind /\ e.frame.call = c => T = S \cup {n + 1}
  BY <1>1, <1>2, <1>3, <1>4 DEF Marks
<1>7. ~(e.frame.kind = kind /\ e.frame.call = c) => T = S
  BY <1>1, <1>2, <1>3, <1>4 DEF Marks
<1> QED BY <1>1, <1>4, <1>5, <1>6, <1>7, GrowSize DEF Marked

(* A frame arrives at the client.                                             *)
LEMMA GrantedTail ==
    ASSUME NEW q \in Seq(FrameType), q # <<>>, NEW c
    PROVE  /\ Granted(q, c) \in Nat /\ Granted(Tail(q), c) \in Nat
           /\ IsWindow(Head(q), c) => Granted(q, c) = Granted(Tail(q), c) + 1
           /\ ~IsWindow(Head(q), c) => Granted(q, c) = Granted(Tail(q), c)
<1>1. PICK n : n = Len(q) /\ n \in Nat /\ n # 0
  BY LenProperties, EmptySeq
<1>2. PICK t : t = Tail(q)
  OBVIOUS
<1>3. Len(t) = n - 1 /\ (\A i \in 1 .. n - 1 : t[i] = q[i + 1]) /\ Head(q) = q[1]
  BY <1>1, <1>2, HeadTailProperties
<1>4. /\ \A i \in 1 .. n - 1 : i \in Nat /\ i > 0 /\ i + 1 \in 1 .. n
      /\ \A i \in 1 .. n : /\ i \in Nat /\ i > 0
                           /\ i = 1 \/ (i - 1 \in 1 .. n - 1 /\ (i - 1) + 1 = i)
      /\ 1 \in 1 .. n
  BY <1>1
<1>5. PICK S, T : S = Grants(q, c) /\ T = Grants(t, c)
  OBVIOUS
<1>6. \A i \in T : i \in Nat /\ i > 0 /\ i + 1 \in S
  BY <1>1, <1>3, <1>4, <1>5 DEF Grants
<1>7. \A i \in S : i \in Nat /\ i > 0 /\ (i = 1 \/ i - 1 \in T)
  BY <1>1, <1>3, <1>4, <1>5 DEF Grants
<1>8. 1 \in S <=> IsWindow(Head(q), c)
  BY <1>1, <1>3, <1>4, <1>5 DEF Grants
<1>9. IsFiniteSet(S)
  BY <1>5, GrantedNat
<1> QED BY <1>2, <1>5, <1>6, <1>7, <1>8, <1>9, ShiftSize DEF Granted, Shifted

(* Frames that give no credit of the call are sent to the client.             *)
LEMMA GrantedMore ==
    ASSUME NEW q \in Seq(FrameType), NEW q2 \in Seq(FrameType), NEW c, Len(q) <= Len(q2),
           \A i \in 1 .. Len(q) : q2[i] = q[i],
           \A i \in Len(q) + 1 .. Len(q2) : ~IsWindow(q2[i], c)
    PROVE  Granted(q2, c) = Granted(q, c)
<1>1. PICK m, n : m = Len(q) /\ n = Len(q2) /\ m \in Nat /\ n \in Nat /\ m <= n
  BY LenProperties
<1>2. /\ \A i \in 1 .. n : i \in 1 .. m \/ i \in m + 1 .. n
      /\ \A i \in 1 .. m : i \in 1 .. n
  BY <1>1
<1>3. Grants(q2, c) = Grants(q, c)
  BY <1>1, <1>2 DEF Grants
<1> QED BY <1>3 DEF Granted

(* The same, as a concatenation.                                              *)
LEMMA GrantedConcat ==
    ASSUME NEW q \in Seq(FrameType), NEW s \in Seq(FrameType), NEW c,
           \A i \in 1 .. Len(s) : ~IsWindow(s[i], c)
    PROVE  Granted(q \o s, c) = Granted(q, c)
<1>1. PICK m, n, r : m = Len(q) /\ n = Len(s) /\ m \in Nat /\ n \in Nat /\ r = q \o s
  BY LenProperties
<1>2. /\ r \in Seq(FrameType) /\ Len(r) = m + n
      /\ \A i \in 1 .. m + n : r[i] = IF i <= m THEN q[i] ELSE s[i - m]
  BY <1>1, ConcatProperties
<1>3. /\ \A i \in m + 1 .. m + n : i - m \in 1 .. n /\ i \in 1 .. m + n /\ ~(i <= m)
      /\ \A i \in 1 .. m : i \in 1 .. m + n /\ i <= m
      /\ m <= m + n
  BY <1>1
<1>4. \A i \in m + 1 .. m + n : ~IsWindow(r[i], c)
  BY <1>1, <1>2, <1>3
<1>5. \A i \in 1 .. m : r[i] = q[i]
  BY <1>2, <1>3
<1>6. /\ Len(q) <= Len(r) /\ (\A i \in 1 .. Len(q) : r[i] = q[i])
      /\ \A i \in Len(q) + 1 .. Len(r) : ~IsWindow(r[i], c)
  BY <1>1, <1>2, <1>3, <1>4, <1>5
<1>7. Granted(r, c) = Granted(q, c)
  BY <1>2, <1>6, GrantedMore
<1> QED BY <1>1, <1>7

(* Credit is sent to the client.                                              *)
LEMMA GrantedOne ==
    ASSUME NEW q \in Seq(FrameType), NEW f \in FrameType, NEW c, IsWindow(f, c)
    PROVE  Granted(q \o <<f>>, c) = Granted(q, c) + 1
<1>1. PICK n, r : n = Len(q) /\ n \in Nat /\ r = q \o <<f>>
  BY LenProperties
<1>2. Len(r) = n + 1 /\ r[n + 1] = f /\ \A i \in 1 .. n : r[i] = q[i]
  BY <1>1
<1>3. /\ \A i \in 1 .. n + 1 : i \in 1 .. n \/ i = n + 1
      /\ \A i \in 1 .. n : i \in 1 .. n + 1 /\ i # n + 1
      /\ n + 1 \in 1 .. n + 1
  BY <1>1
<1>4. PICK S, T : S = Grants(q, c) /\ T = Grants(r, c)
  OBVIOUS
<1>5. n + 1 \notin S /\ IsFiniteSet(S)
  BY <1>1, <1>3, <1>4, GrantedNat DEF Grants
<1>6. T = S \cup {n + 1}
  BY <1>1, <1>2, <1>3, <1>4 DEF Grants
<1> QED BY <1>1, <1>4, <1>5, <1>6, GrowSize DEF Granted

(* A batch leaves the queue of the client.                                    *)
LEMMA RefundedTail ==
    ASSUME NEW o \in Seq(BatchType), o # <<>>, NEW c, NEW b, b = o[1]
    PROVE  /\ Refunded(o, c) \in Nat /\ Refunded(Tail(o), c) \in Nat
           /\ IsWindow(b.frames[1], c) => Refunded(o, c) = Refunded(Tail(o), c) + 1
           /\ ~IsWindow(b.frames[1], c) => Refunded(o, c) = Refunded(Tail(o), c)
<1>1. PICK n : n = Len(o) /\ n \in Nat /\ n # 0
  BY LenProperties, EmptySeq
<1>2. PICK t : t = Tail(o)
  OBVIOUS
<1>3. Len(t) = n - 1 /\ (\A i \in 1 .. n - 1 : t[i] = o[i + 1])
  BY <1>1, <1>2, HeadTailProperties
<1>4. /\ \A i \in 1 .. n - 1 : i \in Nat /\ i > 0 /\ i + 1 \in 1 .. n
      /\ \A i \in 1 .. n : /\ i \in Nat /\ i > 0
                           /\ i = 1 \/ (i - 1 \in 1 .. n - 1 /\ (i - 1) + 1 = i)
      /\ 1 \in 1 .. n
  BY <1>1
<1>5. PICK S, T : S = Refunds(o, c) /\ T = Refunds(t, c)
  OBVIOUS
<1>6. \A i \in T : i \in Nat /\ i > 0 /\ i + 1 \in S
  BY <1>1, <1>3, <1>4, <1>5 DEF Refunds
<1>7. \A i \in S : i \in Nat /\ i > 0 /\ (i = 1 \/ i - 1 \in T)
  BY <1>1, <1>3, <1>4, <1>5 DEF Refunds
<1>8. 1 \in S <=> IsWindow(b.frames[1], c)
  BY <1>1, <1>4, <1>5 DEF Refunds
<1>9. IsFiniteSet(S)
  BY <1>5, RefundedNat
<1> QED BY <1>2, <1>5, <1>6, <1>7, <1>8, <1>9, ShiftSize DEF Refunded, Shifted

(* Batches that give no credit of the call are queued.                        *)
LEMMA RefundedMore ==
    ASSUME NEW o \in Seq(BatchType), NEW o2, NEW a, NEW c, Sends(o, o2, a),
           \A i \in Len(o) + 1 .. Len(o2) : ~IsWindow(o2[i].frames[1], c)
    PROVE  Refunded(o2, c) = Refunded(o, c)
<1>1. PICK m, n : /\ m = Len(o) /\ n = Len(o2) /\ m \in Nat /\ n \in Nat /\ m <= n
                  /\ \A i \in 1 .. m : o2[i] = o[i]
  BY LenProperties DEF Sends
<1>2. /\ \A i \in 1 .. n : i \in 1 .. m \/ i \in m + 1 .. n
      /\ \A i \in 1 .. m : i \in 1 .. n
  BY <1>1
<1>3. Refunds(o2, c) = Refunds(o, c)
  BY <1>1, <1>2 DEF Refunds
<1> QED BY <1>3 DEF Refunded

(* One batch is queued.                                                       *)
LEMMA RefundedAppend ==
    ASSUME NEW o \in Seq(BatchType), NEW b \in BatchType, NEW c
    PROVE  /\ IsWindow(b.frames[1], c) => Refunded(Append(o, b), c) = Refunded(o, c) + 1
           /\ ~IsWindow(b.frames[1], c) => Refunded(Append(o, b), c) = Refunded(o, c)
<1>1. PICK n, r : n = Len(o) /\ n \in Nat /\ r = Append(o, b)
  BY LenProperties
<1>2. Len(r) = n + 1 /\ r[n + 1] = b /\ \A i \in 1 .. n : r[i] = o[i]
  BY <1>1, AppendProperties
<1>3. /\ \A i \in 1 .. n + 1 : i \in 1 .. n \/ i = n + 1
      /\ \A i \in 1 .. n : i \in 1 .. n + 1 /\ i # n + 1
      /\ n + 1 \in 1 .. n + 1
  BY <1>1
<1>4. PICK S, T : S = Refunds(o, c) /\ T = Refunds(r, c)
  OBVIOUS
<1>5. n + 1 \notin S /\ IsFiniteSet(S)
  BY <1>1, <1>3, <1>4, RefundedNat DEF Refunds
<1>6. IsWindow(b.frames[1], c) => T = S \cup {n + 1}
  BY <1>1, <1>2, <1>3, <1>4 DEF Refunds
<1>7. ~IsWindow(b.frames[1], c) => T = S
  BY <1>1, <1>2, <1>3, <1>4 DEF Refunds
<1> QED BY <1>1, <1>4, <1>5, <1>6, <1>7, GrowSize DEF Refunded

-----------------------------------------------------------------------------
(* The invariant.                                                             *)

(* A batch that gives credit back is one frame, and gives one byte.           *)
Refunding(b, c) ==
    \A j \in 1 .. Len(b.frames) :
        IsWindow(b.frames[j], c) => Len(b.frames) = 1 /\ b.frames[j].n = 1

(* What the daemon has had of the credit of the responses, and what is on its *)
(* way back to it.                                                            *)
Loan(p, o, d, c) == d.credit + Handed(d) + Marked(p, "window", c) + Refunded(o, c)

(* It is the initial credit and what the caller has read, or less.            *)
Lent(p, o, k, d, c) ==
    /\ \A i \in Marks(p, "window", c) : p[i].frame.n = 1
    /\ \A i \in 1 .. Len(o) : Refunding(o[i], c)
    /\ d.st # "gone" => Loan(p, o, d, c) <= Credit + k.got

(* The credit of a duplex request that the client has, that of the messages   *)
(* queued, under way or not read yet, and what is on its way back.            *)
Debt(p, o, q, x, d, c) ==
    x.credit + Waits(o, c) + Marked(p, "payload", c) + d.input + Granted(q, c)

(* It is the initial credit, or less when the call is over.                   *)
Owed(p, o, q, x, d, c) ==
    /\ Debt(p, o, q, x, d, c) <= InputCredit
    /\ Alive(p, o, d, c) /\ ~d.complete => Debt(p, o, q, x, d, c) = InputCredit

CreditOK(p, o, q, x, k, d, c) ==
    k.st \in {"idle", "live"} =>
        /\ Lent(p, o, k, d, c)
        /\ c \in Duplex => /\ Owed(p, o, q, x, d, c)
                           /\ k.st = "live" => x.st \in {"open", "ending", "ended"}

CreditInv ==
    \A c \in Call : CreditOK(toDaemon, outbox, toClient, duplex[c], client[c], daemon[c], c)

(* Everything that the other invariants say.                                  *)
PeerInv == BooksInv /\ StartInv /\ ResponsesInv /\ MessagesInv

(* The types of what the invariant speaks of.                                 *)
LEMMA CreditTypes ==
    ASSUME PeerInv, NEW c \in Call
    PROVE  /\ toDaemon \in Seq(SentType) /\ outbox \in Seq(BatchType) /\ toClient \in Seq(FrameType)
           /\ \A i \in 1 .. Len(outbox) : BatchOK(outbox[i])
           /\ client[c] \in ClientCall /\ duplex[c] \in DuplexRequest /\ DaemonOK(daemon[c], c)
           /\ client[c].got \in Nat /\ duplex[c].credit \in 0 .. InputCredit
           /\ c # None /\ c \in Id /\ LinkInv
<1>1. LinkInv /\ DaemonOK(daemon[c], c)
  BY DEF PeerInv, StartInv
<1>2. /\ toDaemon \in Seq(SentType) /\ outbox \in Seq(BatchType) /\ toClient \in Seq(FrameType)
      /\ \A i \in 1 .. Len(outbox) : BatchOK(outbox[i])
  BY <1>1, LenProperties DEF LinkInv
<1>3. /\ client[c] \in ClientCall /\ duplex[c] \in DuplexRequest /\ client[c].got \in Nat
  BY CallRecords, ReceivedNat DEF PeerInv
<1>4. duplex[c].credit \in 0 .. InputCredit
  BY <1>3 DEF DuplexRequest
<1>5. c # None /\ c \in Id
  BY PeerAssumption DEF PeerAssumption, Id
<1> QED BY <1>1, <1>2, <1>3, <1>4, <1>5

(* What is under way of call c did not change, as far as its credit goes.     *)
SameCredit(p, p2, o, o2, q, q2, c) ==
    /\ (\A i \in Marks(p, "window", c) : p[i].frame.n = 1) =>
          \A i \in Marks(p2, "window", c) : p2[i].frame.n = 1
    /\ (\A i \in 1 .. Len(o) : Refunding(o[i], c)) => \A i \in 1 .. Len(o2) : Refunding(o2[i], c)
    /\ Marked(p2, "window", c) = Marked(p, "window", c)
    /\ Marked(p2, "payload", c) = Marked(p, "payload", c)
    /\ Refunded(o2, c) = Refunded(o, c) /\ Granted(q2, c) = Granted(q, c)
    /\ c \in Duplex => /\ Waits(o2, c) = Waits(o, c)
                       /\ \A d : Alive(p2, o2, d, c) <=> Alive(p, o, d, c)

(* Then the invariant holds still.                                            *)
LEMMA SameKeeps ==
    ASSUME NEW p, NEW p2, NEW o, NEW o2, NEW q, NEW q2, NEW x, NEW k, NEW d, NEW c,
           SameCredit(p, p2, o, o2, q, q2, c), CreditOK(p, o, q, x, k, d, c)
    PROVE  CreditOK(p2, o2, q2, x, k, d, c)
<1> SUFFICES ASSUME k.st \in {"idle", "live"}
             PROVE  /\ Lent(p2, o2, k, d, c)
                    /\ c \in Duplex => /\ Owed(p2, o2, q2, x, d, c)
                                       /\ k.st = "live" => x.st \in {"open", "ending", "ended"}
  BY DEF CreditOK
<1>1. Lent(p, o, k, d, c)
  BY DEF CreditOK
<1>2. Lent(p2, o2, k, d, c)
  BY <1>1 DEF Lent, Loan, SameCredit
<1>3. ASSUME c \in Duplex PROVE Owed(p2, o2, q2, x, d, c)
  <2>1. Owed(p, o, q, x, d, c)
    BY <1>3 DEF CreditOK
  <2>2. /\ Marked(p2, "payload", c) = Marked(p, "payload", c) /\ Granted(q2, c) = Granted(q, c)
        /\ Waits(o2, c) = Waits(o, c) /\ (Alive(p2, o2, d, c) <=> Alive(p, o, d, c))
    BY <1>3 DEF SameCredit
  <2> QED BY <2>1, <2>2 DEF Owed, Debt
<1> QED BY <1>2, <1>3 DEF CreditOK

(* A frame of another kind arrives at the daemon, or one of another call.     *)
LEMMA WindowsTail ==
    ASSUME NEW p \in Seq(SentType), p # <<>>, NEW c,
           \A i \in Marks(p, "window", c) : p[i].frame.n = 1
    PROVE  \A i \in Marks(Tail(p), "window", c) : Tail(p)[i].frame.n = 1
<1>1. PICK t : t = Tail(p)
  OBVIOUS
<1>2. PICK n : n = Len(p) /\ n \in Nat /\ n # 0
  BY LenProperties, EmptySeq
<1>3. Len(t) = n - 1 /\ \A i \in 1 .. n - 1 : t[i] = p[i + 1]
  BY <1>1, <1>2, HeadTailProperties
<1>4. \A i \in Marks(t, "window", c) : i \in 1 .. n - 1 /\ i + 1 \in Marks(p, "window", c)
  BY <1>1, <1>3, MarksTail DEF Marks
<1> QED BY <1>1, <1>3, <1>4

(* Steps of other calls.                                                      *)
LEMMA OtherCredit ==
    ASSUME PeerInv, NEW a, StepOf(a), NEW c \in Call, c # a
    PROVE  SameCredit(toDaemon, toDaemon', outbox, outbox', toClient, toClient', c)
<1>1. /\ toDaemon \in Seq(SentType) /\ outbox \in Seq(BatchType) /\ toClient \in Seq(FrameType)
      /\ \A i \in 1 .. Len(outbox) : BatchOK(outbox[i])
      /\ c # None
  BY CreditTypes
<1>2. PICK p, p2, o, o2 : p = toDaemon /\ p2 = toDaemon' /\ o = outbox /\ o2 = outbox'
  OBVIOUS
<1>3. PICK q, q1, q2 : /\ q = toClient /\ q2 = toClient'
                       /\ Reads(q, q1, a) /\ Answers(q1, q2, a)
  BY DEF StepOf
<1>4. Arrives(p, p2, a) /\ Sends(o, o2, a) /\ p \in Seq(SentType) /\ o \in Seq(BatchType)
      /\ q \in Seq(FrameType)
  BY <1>1, <1>2, <1>3 DEF StepOf
<1>5. /\ (\A i \in Marks(p, "window", c) : p[i].frame.n = 1) =>
            \A i \in Marks(p2, "window", c) : p2[i].frame.n = 1
      /\ Marked(p2, "window", c) = Marked(p, "window", c)
      /\ Marked(p2, "payload", c) = Marked(p, "payload", c)
      /\ SameIn(p, p2, c)
  <2>1. CASE p2 = p
    BY <2>1 DEF SameIn
  <2>2. CASE p # <<>> /\ Head(p).frame.call = a /\ p2 = Tail(p)
    <3>1. SameIn(p, p2, c)
      BY <1>4, <2>2, InTail
    <3>2. /\ Marked(p2, "window", c) = Marked(p, "window", c)
          /\ Marked(p2, "payload", c) = Marked(p, "payload", c)
      BY <1>4, <2>2, MarkedTail
    <3>3. (\A i \in Marks(p, "window", c) : p[i].frame.n = 1) =>
            \A i \in Marks(p2, "window", c) : p2[i].frame.n = 1
      BY <1>4, <2>2, WindowsTail
    <3> QED BY <3>1, <3>2, <3>3
  <2> QED BY <1>4, <2>1, <2>2 DEF Arrives
<1>6. ASSUME NEW i \in Len(o) + 1 .. Len(o2)
      PROVE  ~IsWindow(o2[i].frames[1], c) /\ Refunding(o2[i], c)
  <2>1. BatchOK(o2[i]) /\ Of(o2[i], a)
    BY <1>4 DEF Sends
  <2>2. DOMAIN o2[i].frames = 1 .. Len(o2[i].frames) /\ 1 \in 1 .. Len(o2[i].frames)
    BY <2>1, BatchFrames
  <2>3. \A j \in 1 .. Len(o2[i].frames) : o2[i].frames[j].call # c
    BY <2>1, <2>2 DEF Of
  <2> QED BY <2>2, <2>3 DEF IsWindow, Refunding
<1>7. Refunded(o2, c) = Refunded(o, c)
  BY <1>4, <1>6, RefundedMore
<1>8. ASSUME \A i \in 1 .. Len(o) : Refunding(o[i], c), NEW i \in 1 .. Len(o2)
      PROVE  Refunding(o2[i], c)
  <2>1. PICK m, n : m = Len(o) /\ n = Len(o2) /\ m \in Nat /\ n \in Nat
    BY <1>4, LenProperties DEF Sends
  <2>2. i \in 1 .. m \/ i \in m + 1 .. n
    BY <2>1
  <2>3. i \in 1 .. m => o2[i] = o[i]
    BY <1>4, <2>1 DEF Sends
  <2> QED BY <1>6, <1>8, <2>1, <2>2, <2>3
<1>9. Granted(q2, c) = Granted(q, c)
  <2>1. q1 \in Seq(FrameType) /\ Granted(q1, c) = Granted(q, c)
    <3>1. CASE q1 = q
      BY <1>4, <3>1
    <3>2. CASE q # <<>> /\ Head(q).call = a /\ q1 = Tail(q)
      <4>1. ~IsWindow(Head(q), c)
        BY <3>2 DEF IsWindow
      <4> QED BY <1>4, <3>2, <4>1, GrantedTail, HeadTailProperties
    <3> QED BY <1>3, <3>1, <3>2 DEF Reads
  <2>2. \A i \in Len(q1) + 1 .. Len(q2) : ~IsWindow(q2[i], c)
    BY <1>3 DEF Answers, IsWindow
  <2>3. q2 \in Seq(FrameType) /\ Len(q1) <= Len(q2) /\ \A i \in 1 .. Len(q1) : q2[i] = q1[i]
    BY <1>3 DEF Answers
  <2> QED BY <2>1, <2>2, <2>3, GrantedMore
<1>10. ASSUME c \in Duplex
       PROVE  /\ Waits(o2, c) = Waits(o, c)
              /\ \A d : Alive(p2, o2, d, c) <=> Alive(p, o, d, c)
  <2>1. \A i \in 1 .. Len(o) : Shape(o[i], c)
    BY <1>2, <1>10, MessageParts DEF PeerInv, MessagesInv
  <2>2. SameOut(o, o2, c)
    BY <1>1, <1>4, <2>1, OutOther
  <2>3. Waits(o2, c) = Waits(o, c)
    BY <2>2 DEF SameOut, Waits
  <2>4. Marks(p2, "start", c) = {} <=> Marks(p, "start", c) = {}
    BY <1>5 DEF SameIn, Spoken
  <2>5. Opens(o2, c) = {} <=> Opens(o, c) = {}
    BY <2>2 DEF SameOut
  <2> QED BY <2>3, <2>4, <2>5 DEF Alive
<1> QED BY <1>2, <1>3, <1>5, <1>7, <1>8, <1>9, <1>10 DEF SameCredit

(* A step of one call, and the same for the others.                           *)
LEMMA StepsCredit ==
    ASSUME PeerInv, CreditInv, NEW a, StepOf(a),
           a \in Call => CreditOK(toDaemon', outbox', toClient', duplex'[a], client'[a], daemon'[a], a)
    PROVE  CreditInv'
<1> SUFFICES ASSUME NEW c \in Call
             PROVE  CreditOK(toDaemon', outbox', toClient', duplex'[c], client'[c], daemon'[c], c)
  BY DEF CreditInv
<1>1. CASE c = a
  BY <1>1
<1>2. CASE c # a
  <2>1. client'[c] = client[c] /\ daemon'[c] = daemon[c] /\ duplex'[c] = duplex[c]
    BY <1>2 DEF StepOf, Others
  <2>2. CreditOK(toDaemon, outbox, toClient, duplex[c], client[c], daemon[c], c)
    BY DEF CreditInv
  <2>3. SameCredit(toDaemon, toDaemon', outbox, outbox', toClient, toClient', c)
    BY <1>2, OtherCredit
  <2>4. CreditOK(toDaemon', outbox', toClient', duplex[c], client[c], daemon[c], c)
    BY <2>2, <2>3, SameKeeps
  <2> QED BY <2>1, <2>4
<1> QED BY <1>1, <1>2

-----------------------------------------------------------------------------
(* What keeps the sums.                                                       *)

(* The sums are numbers.                                                      *)
LEMMA SumsNat ==
    ASSUME NEW p \in Seq(SentType), NEW o \in Seq(BatchType), NEW q \in Seq(FrameType),
           NEW x \in DuplexRequest, NEW d, NEW c, DaemonOK(d, c)
    PROVE  /\ d.credit \in Nat /\ Handed(d) \in Nat /\ d.input \in Nat /\ x.credit \in Nat
           /\ \A kind : Marked(p, kind, c) \in Nat
           /\ Refunded(o, c) \in Nat /\ Granted(q, c) \in Nat /\ Waits(o, c) \in {0, 1}
           /\ Loan(p, o, d, c) \in Nat /\ Debt(p, o, q, x, d, c) \in Nat
<1>1. /\ d.credit \in Nat /\ Handed(d) \in Nat /\ d.input \in Nat /\ x.credit \in Nat
  BY DaemonFields, PeerConstants DEF DuplexRequest
<1>2. /\ \A kind : Marked(p, kind, c) \in Nat
      /\ Refunded(o, c) \in Nat /\ Granted(q, c) \in Nat /\ Waits(o, c) \in {0, 1}
  BY MarkedNat, RefundedNat, GrantedNat DEF Waits
<1>3. PICK m, r, g, w, y : /\ m = Marked(p, "window", c) /\ r = Refunded(o, c)
                           /\ g = Granted(q, c) /\ w = Waits(o, c)
                           /\ y = Marked(p, "payload", c)
  OBVIOUS
<1>4. PICK e, h, i, v : e = d.credit /\ h = Handed(d) /\ i = d.input /\ v = x.credit
  OBVIOUS
<1>5. e + h + m + r \in Nat /\ v + w + y + i + g \in Nat
  <2>1. /\ m \in Nat /\ r \in Nat /\ g \in Nat /\ w \in Nat /\ y \in Nat
        /\ e \in Nat /\ h \in Nat /\ i \in Nat /\ v \in Nat
    BY <1>1, <1>2, <1>3, <1>4
  <2> QED BY <2>1
<1>6. Loan(p, o, d, c) \in Nat /\ Debt(p, o, q, x, d, c) \in Nat
  BY <1>3, <1>4, <1>5 DEF Loan, Debt
<1> QED BY <1>1, <1>2, <1>6

(* The loan grows no more than what was read.                                 *)
LEMMA LentStep ==
    ASSUME NEW p, NEW p2, NEW o, NEW o2, NEW k, NEW k2, NEW d, NEW d2, NEW c,
           Lent(p, o, k, d, c), k.got \in Nat, k2.got \in Nat,
           \A i \in Marks(p2, "window", c) : p2[i].frame.n = 1,
           \A i \in 1 .. Len(o2) : Refunding(o2[i], c),
           NEW j \in Nat, k2.got = k.got + j,
           d2.st # "gone" => /\ d.st # "gone"
                             /\ Loan(p, o, d, c) \in Nat /\ Loan(p2, o2, d2, c) \in Nat
                             /\ Loan(p2, o2, d2, c) <= Loan(p, o, d, c) + j
    PROVE  Lent(p2, o2, k2, d2, c)
<1>1. ASSUME d2.st # "gone" PROVE Loan(p2, o2, d2, c) <= Credit + k2.got
  <2>1. PICK l, l2, g, g2 : /\ l = Loan(p, o, d, c) /\ l2 = Loan(p2, o2, d2, c)
                            /\ g = k.got /\ g2 = k2.got
    OBVIOUS
  <2>2. l \in Nat /\ l2 \in Nat /\ g \in Nat /\ g2 = g + j /\ l2 <= l + j
    BY <1>1, <2>1
  <2>3. l <= Credit + g
    BY <1>1, <2>1 DEF Lent
  <2>4. l2 <= Credit + g2
    BY <2>2, <2>3, PeerConstants
  <2> QED BY <2>1, <2>4
<1> QED BY <1>1 DEF Lent

(* The debt does not grow, and shrinks only when the call is over.            *)
LEMMA OwedStep ==
    ASSUME NEW p, NEW p2, NEW o, NEW o2, NEW q, NEW q2, NEW x, NEW x2, NEW d, NEW d2, NEW c,
           Owed(p, o, q, x, d, c), Debt(p, o, q, x, d, c) \in Nat, Debt(p2, o2, q2, x2, d2, c) \in Nat,
           Debt(p2, o2, q2, x2, d2, c) <= Debt(p, o, q, x, d, c),
           Alive(p2, o2, d2, c) /\ ~d2.complete =>
               /\ Alive(p, o, d, c) /\ ~d.complete
               /\ Debt(p2, o2, q2, x2, d2, c) = Debt(p, o, q, x, d, c)
    PROVE  Owed(p2, o2, q2, x2, d2, c)
<1>1. PICK l, l2 : l = Debt(p, o, q, x, d, c) /\ l2 = Debt(p2, o2, q2, x2, d2, c)
  OBVIOUS
<1>2. l \in Nat /\ l2 \in Nat /\ l2 <= l /\ l <= InputCredit
  BY <1>1 DEF Owed
<1>3. l2 <= InputCredit
  BY <1>2, PeerConstants
<1> QED BY <1>1, <1>3 DEF Owed

(* The records of the client change, and nothing that the sums count.         *)
LEMMA RecordsCredit ==
    ASSUME NEW p, NEW o, NEW q, NEW x, NEW x2, NEW k, NEW k2, NEW d, NEW c,
           CreditOK(p, o, q, x, k, d, c), k.st \in {"idle", "live"},
           k2.got = k.got, x2.credit = x.credit,
           c \in Duplex /\ k2.st = "live" => x2.st \in {"open", "ending", "ended"}
    PROVE  CreditOK(p, o, q, x2, k2, d, c)
BY DEF CreditOK, Lent, Owed, Debt

(* The client reads a frame that gives no credit.                             *)
LEMMA ReadsCredit ==
    ASSUME NEW p, NEW o, NEW q \in Seq(FrameType), q # <<>>, NEW x, NEW k, NEW d, NEW c,
           CreditOK(p, o, q, x, k, d, c), ~IsWindow(Head(q), c)
    PROVE  CreditOK(p, o, Tail(q), x, k, d, c)
<1>1. Granted(Tail(q), c) = Granted(q, c)
  BY GrantedTail
<1>2. SameCredit(p, p, o, o, q, Tail(q), c)
  BY <1>1 DEF SameCredit
<1> QED BY <1>2, SameKeeps

(* It reads one that does.                                                    *)
LEMMA CreditsCredit ==
    ASSUME NEW p \in Seq(SentType), NEW o \in Seq(BatchType), NEW q \in Seq(FrameType), q # <<>>,
           NEW x \in DuplexRequest, NEW x2 \in DuplexRequest, NEW k, NEW d, NEW c, DaemonOK(d, c),
           CreditOK(p, o, q, x, k, d, c), IsWindow(Head(q), c), DuplexOK(x, k, c),
           x2.st = x.st,
           x2.credit = IF x.st \in {"none", "closed"} THEN x.credit ELSE x.credit + 1
    PROVE  CreditOK(p, o, Tail(q), x2, k, d, c)
<1> SUFFICES ASSUME k.st \in {"idle", "live"}, c \in Duplex
             PROVE  Owed(p, o, Tail(q), x2, d, c)
  BY DEF CreditOK
<1>1. Tail(q) \in Seq(FrameType)
  BY HeadTailProperties
<1>2. PICK v, w, m, i, g : /\ v = x.credit /\ w = Waits(o, c) /\ m = Marked(p, "payload", c)
                           /\ i = d.input /\ g = Granted(q, c)
  OBVIOUS
<1>3. /\ v \in Nat /\ w \in Nat /\ m \in Nat /\ i \in Nat /\ g \in Nat
      /\ Debt(p, o, q, x, d, c) = v + w + m + i + g
  BY <1>2, SumsNat DEF Debt
<1>4. PICK g2, v2 : g2 = Granted(Tail(q), c) /\ v2 = x2.credit
  OBVIOUS
<1>5. g2 \in Nat /\ g = g2 + 1
  BY <1>2, <1>4, GrantedTail
<1>6. Owed(p, o, q, x, d, c)
  BY DEF CreditOK
<1>7. x.st \notin {"none", "closed"}
  <2>1. CASE k.st = "idle"
    <3>1. v = InputCredit
      BY <1>2, <2>1 DEF DuplexOK, NewDuplex
    <3>2. v + w + m + i + g <= InputCredit
      BY <1>3, <1>6 DEF Owed
    <3> QED BY <1>3, <1>5, <3>1, <3>2, PeerConstants
  <2>2. CASE k.st = "live"
    BY <2>2 DEF CreditOK
  <2> QED BY <2>1, <2>2
<1>8. v2 = v + 1
  BY <1>2, <1>4, <1>7
<1>9. Debt(p, o, Tail(q), x2, d, c) = v2 + w + m + i + g2
  BY <1>2, <1>4 DEF Debt
<1>10. v2 + w + m + i + g2 = v + w + m + i + g
  BY <1>3, <1>5, <1>8
<1>11. Debt(p, o, Tail(q), x2, d, c) = Debt(p, o, q, x, d, c) /\ Debt(p, o, q, x, d, c) \in Nat
  BY <1>3, <1>9, <1>10
<1> QED BY <1>6, <1>11 DEF Owed

(* One more batch in the queue.                                               *)
LEMMA RefundingAppend ==
    ASSUME NEW o \in Seq(BatchType), NEW b, NEW c, BatchOK(b), Refunding(b, c),
           \A i \in 1 .. Len(o) : Refunding(o[i], c)
    PROVE  \A i \in 1 .. Len(Append(o, b)) : Refunding(Append(o, b)[i], c)
<1>1. PICK n, r : n = Len(o) /\ n \in Nat /\ r = Append(o, b)
  BY LenProperties
<1>2. Len(r) = n + 1 /\ r[n + 1] = b /\ \A i \in 1 .. n : r[i] = o[i]
  BY <1>1, AppendProperties DEF BatchOK
<1>3. \A i \in 1 .. n + 1 : i \in 1 .. n \/ i = n + 1
  BY <1>1
<1> QED BY <1>1, <1>2, <1>3

(* It gives no credit back, or that of what was read.                         *)
LEMMA LentAppend ==
    ASSUME NEW p \in Seq(SentType), NEW o \in Seq(BatchType), NEW b, NEW k, NEW k2, NEW d, NEW c,
           Lent(p, o, k, d, c), BatchOK(b), Refunding(b, c), DaemonOK(d, c),
           k.got \in Nat, NEW j \in Nat, k2.got = k.got + j,
           IsWindow(b.frames[1], c) => j = 1
    PROVE  Lent(p, Append(o, b), k2, d, c)
<1>1. \A i \in 1 .. Len(Append(o, b)) : Refunding(Append(o, b)[i], c)
  BY RefundingAppend DEF Lent
<1>2. PICK e, h, m, r, r2 : /\ e = d.credit /\ h = Handed(d) /\ m = Marked(p, "window", c)
                            /\ r = Refunded(o, c) /\ r2 = Refunded(Append(o, b), c)
  OBVIOUS
<1>3. e \in Nat /\ h \in Nat /\ m \in Nat /\ r \in Nat
  BY <1>2, DaemonFields, MarkedNat, RefundedNat, PeerConstants
<1>4. r2 = r \/ (r2 = r + 1 /\ j = 1)
  BY <1>2, RefundedAppend DEF BatchOK
<1>5. Loan(p, o, d, c) = e + h + m + r /\ Loan(p, Append(o, b), d, c) = e + h + m + r2
  BY <1>2 DEF Loan
<1>6. e + h + m + r \in Nat /\ e + h + m + r2 \in Nat /\ e + h + m + r2 <= e + h + m + r + j
  BY <1>3, <1>4
<1>7. \A i \in Marks(p, "window", c) : p[i].frame.n = 1
  BY DEF Lent
<1>8. k2.got \in Nat
  OBVIOUS
<1> QED BY <1>1, <1>5, <1>6, <1>7, <1>8, LentStep

-----------------------------------------------------------------------------
(* Steps of the client.                                                       *)

(* The batch that starts a call gives no credit.                              *)
LEMMA StartBatch ==
    ASSUME LinkInv, NEW c \in Call, Start(c)
    PROVE  \E b : /\ outbox' = Append(outbox, b) /\ b.signal = c /\ BatchOK(b) /\ Of(b, c)
                  /\ IsStart(b.frames[1], c) /\ Refunding(b, c) /\ ~IsWindow(b.frames[1], c)
                  /\ c \in Duplex => Len(b.frames) = 2 /\ IsPayload(b.frames[2], c)
<1>1. PICK b : /\ outbox' = Append(outbox, b) /\ b.signal = c /\ BatchOK(b) /\ Of(b, c)
               /\ b.frames[1] = Frame("start", c) /\ b.frames[2] = Frame("payload", c)
               /\ Len(b.frames) = IF c \in Duplex THEN 2 ELSE 3
  BY StartSends
<1>2. PICK s : /\ s = IF c \in Duplex THEN <<>> ELSE <<Frame("end", c)>>
  OBVIOUS
<1>3. outbox' = Append(outbox, Batch(<<Frame("start", c), Frame("payload", c)>> \o s, c))
  BY <1>2 DEF Start
<1>4. b = Batch(<<Frame("start", c), Frame("payload", c)>> \o s, c)
  <2>1. outbox \in Seq(BatchType)
    BY DEF LinkInv
  <2>2. \A e1, e2 : Append(outbox, e1) = Append(outbox, e2) => e1 = e2
    BY <2>1
  <2> QED BY <1>1, <1>3, <2>2
<1>5. b.frames = <<Frame("start", c), Frame("payload", c)>> \o s
  BY <1>4 DEF Batch
<1>6. c \notin Duplex => b.frames[3] = Frame("end", c)
  BY <1>2, <1>5
<1>7. \A j \in 1 .. Len(b.frames) : j = 1 \/ j = 2 \/ (j = 3 /\ c \notin Duplex)
  BY <1>1
<1>8. \A j \in 1 .. Len(b.frames) : b.frames[j].kind # "window"
  BY <1>1, <1>6, <1>7 DEF Frame
<1>9. IsStart(b.frames[1], c) /\ IsPayload(b.frames[2], c) /\ ~IsWindow(b.frames[1], c)
  BY <1>1 DEF IsStart, IsPayload, IsWindow, Frame
<1>10. Refunding(b, c)
  BY <1>8 DEF Refunding, IsWindow
<1> QED BY <1>1, <1>9, <1>10

(* A message is queued: the credit it takes is that of the batch.             *)
LEMMA MessageQueued ==
    ASSUME NEW p \in Seq(SentType), NEW o \in Seq(BatchType), NEW q \in Seq(FrameType),
           NEW x \in DuplexRequest, NEW x2 \in DuplexRequest, NEW d, NEW c, DaemonOK(d, c),
           NEW b, BatchOK(b), b.signal = c, Waiting(o, c) = {}, x2.credit = x.credit - 1
    PROVE  Debt(p, Append(o, b), q, x2, d, c) = Debt(p, o, q, x, d, c)
<1>1. PICK r : r = Append(o, b) /\ r \in Seq(BatchType)
  BY AppendProperties DEF BatchOK
<1>2. Len(r) = Len(o) + 1 /\ r[Len(o) + 1] = b /\ Len(o) \in Nat
  BY <1>1, AppendProperties, LenProperties DEF BatchOK
<1>3. Len(o) + 1 \in 1 .. Len(r)
  BY <1>2
<1>4. Len(o) + 1 \in Waiting(r, c)
  BY <1>2, <1>3 DEF Waiting
<1>5. Waits(r, c) = 1 /\ Waits(o, c) = 0
  BY <1>4 DEF Waits
<1>6. PICK v, v2, m, i, g : /\ v = x.credit /\ v2 = x2.credit /\ m = Marked(p, "payload", c)
                            /\ i = d.input /\ g = Granted(q, c)
  OBVIOUS
<1>7. v \in Nat /\ v2 \in Nat /\ m \in Nat /\ i \in Nat /\ g \in Nat /\ v2 = v - 1
  BY <1>6, SumsNat
<1>8. v2 + 1 + m + i + g = v + 0 + m + i + g
  BY <1>7
<1> QED BY <1>1, <1>5, <1>6, <1>8 DEF Debt

(* A call starts.                                                             *)
LEMMA StartCredit ==
    ASSUME PeerInv, CreditInv, NEW c \in Call, Start(c)
    PROVE  CreditOK(toDaemon, outbox', toClient, duplex'[c], client'[c], daemon[c], c)
<1>1. /\ toDaemon \in Seq(SentType) /\ outbox \in Seq(BatchType) /\ toClient \in Seq(FrameType)
      /\ client[c] \in ClientCall /\ duplex[c] \in DuplexRequest /\ DaemonOK(daemon[c], c)
      /\ LinkInv /\ client[c].got \in Nat
  BY CreditTypes
<1>2. PICK p, o, q, x, x2, k, k2, d :
        /\ p = toDaemon /\ o = outbox /\ q = toClient /\ x = duplex[c] /\ x2 = duplex'[c]
        /\ k = client[c] /\ k2 = client'[c] /\ d = daemon[c]
  OBVIOUS
<1>3. PICK b : /\ outbox' = Append(o, b) /\ b.signal = c /\ BatchOK(b) /\ Of(b, c)
               /\ IsStart(b.frames[1], c) /\ Refunding(b, c) /\ ~IsWindow(b.frames[1], c)
  BY <1>1, <1>2, StartBatch
<1>4. k.st = "idle" /\ k2.st = "live" /\ k2.got = k.got
  <2>1. client' = [client EXCEPT ![c].st = "live"] /\ client[c].st = "idle"
    BY DEF Start
  <2>2. client \in [Call -> ClientCall]
    BY DEF PeerInv, BooksInv
  <2> QED BY <1>2, <2>1, <2>2 DEF ClientCall
<1>5. CreditOK(p, o, q, x, k, d, c)
  BY <1>2 DEF CreditInv
<1>6. Lent(p, Append(o, b), k2, d, c)
  <2>1. Lent(p, o, k, d, c)
    BY <1>4, <1>5 DEF CreditOK
  <2>2. k2.got = k.got + 0 /\ k.got \in Nat /\ 0 \in Nat
    BY <1>1, <1>2, <1>4
  <2> QED BY <1>1, <1>2, <1>3, <2>1, <2>2, LentAppend
<1>7. ASSUME c \in Duplex PROVE Owed(p, Append(o, b), q, x2, d, c) /\ x2.st = "open"
  <2>1. x = NewDuplex
    <3>1. DuplexOK(x, k, c)
      BY <1>2, CallRecords DEF PeerInv
    <3> QED BY <1>4, <3>1 DEF DuplexOK
  <2>2. x2.st = "open" /\ x2.credit = x.credit - 1 /\ x2 \in DuplexRequest
    <3>1. duplex' = [duplex EXCEPT ![c].st = "open", ![c].credit = @ - 1]
      BY <1>7 DEF Start
    <3>2. duplex \in [Call -> DuplexRequest]
      BY DEF PeerInv, BooksInv
    <3>3. InputCredit - 1 \in 0 .. InputCredit
      BY PeerConstants
    <3>4. x2 = [x EXCEPT !.st = "open", !.credit = @ - 1]
      BY <1>2, <3>1, <3>2
    <3>5. x.credit = InputCredit
      BY <2>1 DEF NewDuplex
    <3>6. x2.st = "open" /\ x2.credit = x.credit - 1 /\ x2 \in DuplexRequest
      <4>1. x \in DuplexRequest
        BY <1>1, <1>2
      <4> QED BY <3>3, <3>4, <3>5, <4>1 DEF DuplexRequest
    <3> QED BY <3>6
  <2>3. PICK w, m, i, g : /\ w = Waits(o, c) /\ m = Marked(p, "payload", c)
                          /\ i = d.input /\ g = Granted(q, c)
    OBVIOUS
  <2>4. w \in {0, 1} /\ m \in Nat /\ i \in Nat /\ g \in Nat
    BY <1>1, <1>2, <2>3, SumsNat
  <2>5. Debt(p, o, q, x, d, c) = InputCredit + w + m + i + g
    BY <2>1, <2>3 DEF Debt, NewDuplex
  <2>6. InputCredit + w + m + i + g <= InputCredit
    BY <1>4, <1>5, <1>7, <2>5 DEF CreditOK, Owed
  <2>7. w = 0 /\ InputCredit + w + m + i + g = InputCredit
    BY <2>4, <2>6, PeerConstants
  <2>8. Waiting(o, c) = {}
    BY <2>3, <2>7 DEF Waits
  <2>9. Debt(p, Append(o, b), q, x2, d, c) = InputCredit
    BY <1>1, <1>2, <1>3, <2>2, <2>5, <2>7, <2>8, MessageQueued
  <2> QED BY <2>2, <2>9, PeerConstants DEF Owed
<1>8. CreditOK(p, Append(o, b), q, x2, k2, d, c)
  BY <1>6, <1>7 DEF CreditOK
<1> QED BY <1>2, <1>3, <1>8

(* A batch of the call that starts nothing and gives no credit is queued.     *)
LEMMA AppendCredit ==
    ASSUME PeerInv, NEW c \in Call, NEW x2 \in DuplexRequest,
           CreditOK(toDaemon, outbox, toClient, duplex[c], client[c], daemon[c], c),
           client[c].st = "live", c \in Duplex, NEW b, outbox' = Append(outbox, b), BatchOK(b),
           Len(b.frames) = 1, b.frames[1].kind \notin {"window", "start"},
           x2.st \in {"open", "ending", "ended"},
           \/ b.signal = c /\ Waiting(outbox, c) = {} /\ x2.credit = duplex[c].credit - 1
           \/ b.signal # c /\ x2.credit = duplex[c].credit
    PROVE  CreditOK(toDaemon, outbox', toClient, x2, client[c], daemon[c], c)
<1>1. /\ toDaemon \in Seq(SentType) /\ outbox \in Seq(BatchType) /\ toClient \in Seq(FrameType)
      /\ duplex[c] \in DuplexRequest /\ DaemonOK(daemon[c], c) /\ client[c].got \in Nat
  BY CreditTypes
<1>2. PICK p, o, q, x, k, d, r :
        /\ p = toDaemon /\ o = outbox /\ q = toClient /\ x = duplex[c] /\ k = client[c]
        /\ d = daemon[c] /\ r = Append(o, b)
  OBVIOUS
<1>3. Lent(p, o, k, d, c) /\ Owed(p, o, q, x, d, c)
  BY <1>2 DEF CreditOK
<1>4. Refunding(b, c) /\ ~IsWindow(b.frames[1], c) /\ ~IsStart(b.frames[1], c)
  <2>1. \A j \in 1 .. Len(b.frames) : j = 1
    OBVIOUS
  <2> QED BY <2>1 DEF Refunding, IsWindow, IsStart
<1>5. Lent(p, r, k, d, c)
  <2>1. k.got = k.got + 0 /\ k.got \in Nat /\ 0 \in Nat
    BY <1>1, <1>2
  <2> QED BY <1>1, <1>2, <1>3, <1>4, <2>1, LentAppend
<1>6. Debt(p, r, q, x2, d, c) = Debt(p, o, q, x, d, c)
  <2>1. CASE b.signal = c /\ Waiting(o, c) = {} /\ x2.credit = x.credit - 1
    <3>1. /\ p \in Seq(SentType) /\ o \in Seq(BatchType) /\ q \in Seq(FrameType)
          /\ x \in DuplexRequest /\ DaemonOK(d, c)
      BY <1>1, <1>2
    <3>2. Debt(p, Append(o, b), q, x2, d, c) = Debt(p, o, q, x, d, c)
      BY <2>1, <3>1, MessageQueued
    <3> QED BY <1>2, <3>2
  <2>2. CASE b.signal # c /\ x2.credit = x.credit
    <3>1. Waiting(r, c) = Waiting(o, c)
      <4>1. PICK n : n = Len(o) /\ n \in Nat
        BY <1>1, <1>2, LenProperties
      <4>2. Len(r) = n + 1 /\ r[n + 1] = b /\ \A i \in 1 .. n : r[i] = o[i]
        BY <1>1, <1>2, <4>1, AppendProperties DEF BatchOK
      <4>3. /\ \A i \in 1 .. n + 1 : i \in 1 .. n \/ i = n + 1
            /\ \A i \in 1 .. n : i \in 1 .. n + 1
        BY <4>1, PlacesNext
      <4> QED BY <2>2, <4>1, <4>2, <4>3 DEF Waiting
    <3> QED BY <2>2, <3>1 DEF Debt, Waits
  <2> QED BY <1>2, <2>1, <2>2
<1>7. Opens(r, c) = Opens(o, c)
  <2>1. PICK n : n = Len(o) /\ n \in Nat
    BY <1>1, <1>2, LenProperties
  <2>2. Len(r) = n + 1 /\ r[n + 1] = b /\ \A i \in 1 .. n : r[i] = o[i]
    BY <1>1, <1>2, <2>1, AppendProperties DEF BatchOK
  <2>3. /\ \A i \in 1 .. n + 1 : i \in 1 .. n \/ i = n + 1
        /\ \A i \in 1 .. n : i \in 1 .. n + 1
    BY <2>1, PlacesNext
  <2> QED BY <1>4, <2>1, <2>2, <2>3 DEF Opens
<1>8. Owed(p, r, q, x2, d, c)
  BY <1>3, <1>6, <1>7 DEF Owed, Alive
<1> QED BY <1>2, <1>5, <1>8 DEF CreditOK

(* A caller reads a payload: its byte is given back, if the frame fits.       *)
LEMMA ReadCredit ==
    ASSUME PeerInv, CreditInv, NEW c \in Call, Read(c), client[c].st = "live"
    PROVE  CreditOK(toDaemon, outbox', toClient, duplex'[c], client'[c], daemon[c], c)
<1>1. /\ toDaemon \in Seq(SentType) /\ outbox \in Seq(BatchType) /\ toClient \in Seq(FrameType)
      /\ duplex[c] \in DuplexRequest /\ DaemonOK(daemon[c], c) /\ client[c].got \in Nat
      /\ c \in Id /\ LinkInv
  BY CreditTypes
<1>2. PICK p, o, q, x, k, k2, d :
        /\ p = toDaemon /\ o = outbox /\ q = toClient /\ x = duplex[c] /\ k = client[c]
        /\ k2 = client'[c] /\ d = daemon[c]
  OBVIOUS
<1>3. CreditOK(p, o, q, x, k, d, c) /\ Lent(p, o, k, d, c)
  BY <1>2 DEF CreditInv, CreditOK
<1>4. duplex' = duplex /\ k.buffered # <<>> /\ outbox' = Queued(o, Restored(c, 1))
  BY <1>2 DEF Read
<1>5. k2.st = "live" /\ k2.got = k.got + 1
  <2>1. client \in [Call -> ClientCall] /\ k \in ClientCall
    BY <1>2 DEF PeerInv, BooksInv
  <2>2. client' = [client EXCEPT ![c] =
                     [[client[c] EXCEPT !.got = Head(client[c].buffered), !.buffered = Tail(@)]
                        EXCEPT !.credit = @ + 1]]
    BY DEF Read
  <2>3. k2 = [[k EXCEPT !.got = Head(k.buffered), !.buffered = Tail(@)] EXCEPT !.credit = @ + 1]
    BY <1>2, <2>1, <2>2
  <2>4. k2.st = "live" /\ k2.got = Head(k.buffered)
    BY <1>2, <2>1, <2>3 DEF ClientCall
  <2>5. ReadOK(k, d, c) /\ k.buffered \in Seq(1 .. MaxItems)
    BY <1>2, ResponseFacts, ReceivedNat DEF PeerInv
  <2>6. 1 \in 1 .. Len(k.buffered) /\ Head(k.buffered) = k.buffered[1]
    BY <1>4, <2>5, EmptySeq, LenProperties, HeadTailProperties
  <2>7. k.buffered[1] = k.got + 1
    BY <2>5, <2>6 DEF ReadOK
  <2> QED BY <2>4, <2>6, <2>7
<1>6. PICK b : b = Restored(c, 1)
  OBVIOUS
<1>7. b.frames = <<Counted("window", c, 1)>> /\ b.signal = None
  BY <1>6 DEF Restored, Batch
<1>8. /\ BatchOK(b) /\ Of(b, c)
  <2>1. PICK f : f = Counted("window", c, 1)
    OBVIOUS
  <2>2. f \in FrameType /\ f.call = c
    <3>1. 1 \in Nat /\ c \in Id
      BY <1>1
    <3> QED BY <2>1, <3>1, FrameFacts
  <2>3. BatchOK(Batch(<<f>>, None)) /\ Of(Batch(<<f>>, None), c)
    BY <1>1, <2>2, SingleBatch
  <2> QED BY <1>6, <2>1, <2>3 DEF Restored
<1>9. Refunding(b, c) /\ IsWindow(b.frames[1], c) /\ Len(b.frames) = 1
  BY <1>7 DEF Refunding, IsWindow, Counted
<1>10. Lent(p, outbox', k2, d, c)
  <2>1. CASE outbox' = Append(o, b)
    <3>1. Lent(p, Append(o, b), k2, d, c)
      BY <1>1, <1>2, <1>3, <1>5, <1>8, <1>9, LentAppend
    <3> QED BY <2>1, <3>1
  <2>2. CASE outbox' = o
    <3>1. Loan(p, o, d, c) \in Nat
      BY <1>1, <1>2, SumsNat
    <3>2. Loan(p, o, d, c) <= Loan(p, o, d, c) + 1
      BY <3>1
    <3>3. /\ \A i \in Marks(p, "window", c) : p[i].frame.n = 1
          /\ \A i \in 1 .. Len(o) : Refunding(o[i], c)
      BY <1>3 DEF Lent
    <3>4. k.got \in Nat /\ k2.got \in Nat /\ 1 \in Nat
      BY <1>1, <1>2, <1>5
    <3>5. Lent(p, o, k2, d, c)
      BY <1>3, <1>5, <3>1, <3>2, <3>3, <3>4, LentStep
    <3> QED BY <2>2, <3>5
  <2> QED BY <1>4, <1>6, <2>1, <2>2 DEF Queued
<1>11. ASSUME c \in Duplex PROVE Owed(p, outbox', q, x, d, c) /\ x.st \in {"open", "ending", "ended"}
  <2>1. Controls(outbox, outbox', c)
    <3>1. Controls(outbox, outbox, c)
      BY <1>1, ControlsNothing
    <3>2. Counted("window", c, 1) \in FrameType /\ Counted("window", c, 1).call = c
          /\ Counted("window", c, 1).kind = "window"
      BY <1>1, FrameFacts
    <3>3. Controls(outbox, Queued(outbox, Batch(<<Counted("window", c, 1)>>, None)), c)
      BY <1>1, <3>1, <3>2, ControlsOne
    <3> QED BY <1>2, <1>4, <3>3 DEF Restored
  <2>2. \A i \in 1 .. Len(outbox) : Shape(outbox[i], c)
    BY <1>11, MessageParts DEF PeerInv, MessagesInv
  <2>3. SameOut(outbox, outbox', c)
    BY <1>1, <2>1, <2>2, OutControls, CreditTypes
  <2>4. Waits(outbox', c) = Waits(o, c) /\ (Opens(outbox', c) = {} <=> Opens(o, c) = {})
    BY <1>2, <2>3 DEF SameOut, Waits
  <2>5. Owed(p, o, q, x, d, c) /\ x.st \in {"open", "ending", "ended"}
    BY <1>2, <1>3, <1>11 DEF CreditOK
  <2> QED BY <2>4, <2>5 DEF Owed, Debt, Alive
<1>12. CreditOK(p, outbox', q, x, k2, d, c)
  BY <1>5, <1>10, <1>11 DEF CreditOK
<1> QED BY <1>2, <1>4, <1>12

(* The steps after which a call is live, or not begun.                        *)
LEMMA ClientKinds ==
    ASSUME BooksInv, NEW c \in Call, Caller(c) \/ ClientReceives(c),
           client'[c].st \in {"idle", "live"}
    PROVE  \/ Start(c) \/ (Read(c) /\ client[c].st = "live")
           \/ DuplexSend(c) \/ DuplexFlush(c)
           \/ DuplexEnd(c) /\ duplex[c].st = "ending" /\ CanSend
           \/ DuplexEnd(c) /\ duplex[c].st = "open"
           \/ ReceiveInputCredit(c)
           \/ /\ ReceivePayload(c) /\ client[c].st = "live" /\ client'[c].got = client[c].got
              /\ UNCHANGED <<duplex, outbox>>
<1>1. client \in [Call -> ClientCall] /\ client[c] \in ClientCall
  BY DEF BooksInv
<1>2. ASSUME NEW end, Take(c, end) PROVE FALSE
  BY <1>2, TakeRecord
<1>3. ASSUME NEW queue, CancelAfter(c, queue) PROVE FALSE
  BY <1>2, <1>3 DEF CancelAfter
<1>4. CASE StartRefused(c)
  BY <1>1, <1>4 DEF StartRefused, ClientCall
<1>5. CASE Read(c)
  <2>1. CASE client[c].st = "ended"
    <3>1. client'[c].st \in {"ended", "done"}
      <4>1. PICK r : r = [client[c] EXCEPT !.got = Head(client[c].buffered), !.buffered = Tail(@)]
        OBVIOUS
      <4>2. r.st = "ended" /\ [r EXCEPT !.st = "done", !.end = "complete"].st = "done"
        BY <1>1, <2>1, <4>1 DEF ClientCall
      <4>3. \/ client' = [client EXCEPT ![c] = r]
            \/ client' = [client EXCEPT ![c] = [r EXCEPT !.st = "done", !.end = "complete"]]
        BY <1>5, <2>1, <4>1 DEF Read
      <4> QED BY <1>1, <4>2, <4>3
    <3> QED BY <3>1
  <2> QED BY <1>5, <2>1 DEF Read
<1>6. CASE Cancel(c) \/ Return(c)
  BY <1>2, <1>3, <1>6 DEF Cancel, Return
<1>7. CASE DuplexFlush(c) \/ DuplexFlushFails(c) \/ DuplexEnd(c)
  BY <1>3, <1>7 DEF DuplexFlushFails, DuplexEnd
<1>8. CASE ReceivePayload(c)
  <2>1. CASE client[c].st = "done" /\ UNCHANGED <<callVars, ring, outbox>>
    BY <2>1 DEF callVars
  <2>2. ASSUME NEW n, client[c].st = "live",
               client' = [client EXCEPT ![c].buffered = Append(@, n), ![c].credit = @ - 1],
               UNCHANGED <<requestBytes, duplex, aborted, ring, outbox>>
        PROVE  client'[c].got = client[c].got /\ UNCHANGED <<duplex, outbox>>
    BY <1>1, <2>2 DEF ClientCall
  <2>3. \/ client[c].st = "done" /\ UNCHANGED <<callVars, ring, outbox>>
        \/ /\ client[c].st = "live"
           /\ \E n : client' = [client EXCEPT ![c].buffered = Append(@, n), ![c].credit = @ - 1]
           /\ UNCHANGED <<requestBytes, duplex, aborted, ring, outbox>>
    BY <1>3, <1>8 DEF ReceivePayload
  <2> QED BY <1>8, <2>1, <2>2, <2>3
<1>9. CASE ReceiveEnd(c)
  <2>1. CASE client[c].st = "done" /\ UNCHANGED callVars
    BY <2>1 DEF callVars
  <2>2. CASE client' = [client EXCEPT ![c].st = "ended"]
    BY <1>1, <2>2 DEF ClientCall
  <2> QED BY <1>2, <1>9, <2>1, <2>2 DEF ReceiveEnd
<1>10. CASE ReceiveFailure(c)
  <2>1. c \notin Pending /\ client' = client
    BY <1>2, <1>10 DEF ReceiveFailure, callVars
  <2>2. client[c].st = "idle"
    BY <1>1, <2>1 DEF Pending, ClientCall
  <2>3. ~Unexpected(Counted("end", c, 0))
    BY <1>10 DEF ReceiveFailure, Accepts
  <2>4. Counted("end", c, 0).kind = "end" /\ Counted("end", c, 0).call = c
    BY DEF Counted
  <2> QED BY <2>2, <2>3, <2>4 DEF Unexpected
<1> QED BY <1>4, <1>5, <1>6, <1>7, <1>8, <1>9, <1>10 DEF Caller, ClientReceives

(* A step of the client.                                                      *)
LEMMA ClientCredit ==
    ASSUME PeerInv, CreditInv, NEW c \in Call, Caller(c) \/ ClientReceives(c)
    PROVE  CreditOK(toDaemon, outbox', toClient', duplex'[c], client'[c], daemon[c], c)
<1> SUFFICES ASSUME client'[c].st \in {"idle", "live"}
             PROVE  CreditOK(toDaemon, outbox', toClient', duplex'[c], client'[c], daemon[c], c)
  BY DEF CreditOK
<1>1. /\ toDaemon \in Seq(SentType) /\ outbox \in Seq(BatchType) /\ toClient \in Seq(FrameType)
      /\ client[c] \in ClientCall /\ duplex[c] \in DuplexRequest /\ DaemonOK(daemon[c], c)
      /\ LinkInv
  BY CreditTypes
<1>2. CreditOK(toDaemon, outbox, toClient, duplex[c], client[c], daemon[c], c)
  BY DEF CreditInv
<1>3. BooksInv /\ duplex \in [Call -> DuplexRequest] /\ DuplexOK(duplex[c], client[c], c)
  BY CallRecords DEF PeerInv, BooksInv
<1>4. CASE Start(c)
  <2>1. toClient' = toClient
    BY <1>4 DEF Start
  <2> QED BY <1>4, <2>1, StartCredit
<1>5. CASE Read(c) /\ client[c].st = "live"
  <2>1. toClient' = toClient
    BY <1>5 DEF Read
  <2> QED BY <1>5, <2>1, ReadCredit
<1>6. CASE DuplexSend(c) \/ (DuplexEnd(c) /\ duplex[c].st = "open")
  <2>1. UNCHANGED <<client, outbox, toClient>> /\ duplex[c].st = "open"
    BY <1>6 DEF DuplexSend, DuplexEnd, linkVars
  <2>2. duplex'[c].credit = duplex[c].credit /\ duplex'[c].st \in {"open", "ending"}
    <3>1. \/ duplex' = [duplex EXCEPT ![c].sends = @ + 1, ![c].asked = @ + 1]
          \/ duplex' = [duplex EXCEPT ![c].st = "ending"]
      BY <1>6 DEF DuplexSend, DuplexEnd
    <3> QED BY <1>1, <1>3, <2>1, <3>1 DEF DuplexRequest
  <2>3. client[c].st = "live"
    BY <1>3, <2>1 DEF DuplexOK
  <2> QED BY <1>2, <2>1, <2>2, <2>3, RecordsCredit
<1>7. CASE DuplexFlush(c)
  <2>1. /\ duplex[c].st \in {"open", "ending"} /\ duplex[c].credit > 0 /\ Quiet(c)
        /\ duplex[c].sends > 0
        /\ duplex' = [duplex EXCEPT ![c].sends = @ - 1, ![c].credit = @ - 1]
        /\ outbox' = Append(outbox, Batch(<<Frame("payload", c)>>, c))
        /\ client' = client /\ toClient' = toClient
    BY <1>7 DEF DuplexFlush, FlushTurn
  <2>2. client[c].st = "live" /\ c \in Duplex
    BY <1>3, <2>1 DEF DuplexOK
  <2>3. PICK b : /\ outbox' = Append(outbox, b) /\ b.signal = c /\ BatchOK(b) /\ Of(b, c)
                 /\ b.frames[1] = Frame("payload", c) /\ Len(b.frames) = 1
    BY <1>1, <2>1, FlushSends
  <2>4. b.frames[1].kind \notin {"window", "start"}
    BY <2>3 DEF Frame
  <2>5. Waiting(outbox, c) = {}
    BY <1>1, <2>1, LenProperties DEF Quiet, Waiting
  <2>6. /\ duplex'[c].credit = duplex[c].credit - 1 /\ duplex'[c].st \in {"open", "ending"}
        /\ duplex'[c] \in DuplexRequest
    <3>1. PICK x, v, n : x = duplex[c] /\ v = x.credit /\ n = x.sends
      OBVIOUS
    <3>2. v \in 0 .. InputCredit /\ n \in 0 .. MaxSends /\ v > 0 /\ n > 0 /\ x \in DuplexRequest
      BY <1>1, <2>1, <3>1 DEF DuplexRequest
    <3>3. v - 1 \in 0 .. InputCredit /\ n - 1 \in 0 .. MaxSends
      BY <3>2, PeerConstants
    <3>4. duplex'[c] = [x EXCEPT !.sends = n - 1, !.credit = v - 1]
      BY <1>3, <2>1, <3>1
    <3>5. /\ [x EXCEPT !.sends = n - 1, !.credit = v - 1] \in DuplexRequest
          /\ [x EXCEPT !.sends = n - 1, !.credit = v - 1].st = x.st
          /\ [x EXCEPT !.sends = n - 1, !.credit = v - 1].credit = v - 1
      BY <3>2, <3>3 DEF DuplexRequest
    <3> QED BY <2>1, <3>1, <3>4, <3>5
  <2>7. CreditOK(toDaemon, outbox', toClient, duplex'[c], client[c], daemon[c], c)
    BY <1>2, <2>2, <2>3, <2>4, <2>5, <2>6, AppendCredit
  <2> QED BY <2>1, <2>7
<1>8. CASE DuplexEnd(c) /\ duplex[c].st = "ending" /\ CanSend
  <2>1. /\ duplex' = [duplex EXCEPT ![c].st = "ended"]
        /\ outbox' = Append(outbox, Batch(<<Frame("end", c)>>, None))
        /\ client' = client /\ toClient' = toClient
    BY <1>8 DEF DuplexEnd
  <2>2. client[c].st = "live" /\ c \in Duplex
    BY <1>3, <1>8 DEF DuplexOK
  <2>3. PICK b : /\ outbox' = Append(outbox, b) /\ b.signal = None /\ BatchOK(b) /\ Of(b, c)
                 /\ b.frames[1] = Frame("end", c) /\ Len(b.frames) = 1
    BY <1>1, <2>1, FlushSends
  <2>4. b.frames[1].kind \notin {"window", "start"} /\ b.signal # c
    BY <2>3, CreditTypes DEF Frame
  <2>5. /\ duplex'[c].credit = duplex[c].credit /\ duplex'[c].st = "ended"
        /\ duplex'[c] \in DuplexRequest
    BY <1>1, <1>3, <2>1 DEF DuplexRequest
  <2>6. CreditOK(toDaemon, outbox', toClient, duplex'[c], client[c], daemon[c], c)
    BY <1>2, <2>2, <2>3, <2>4, <2>5, AppendCredit
  <2> QED BY <2>1, <2>6
<1>9. CASE ReceiveInputCredit(c)
  <2>1. /\ UNCHANGED <<client, outbox>> /\ toClient' = Tail(toClient) /\ toClient # <<>>
        /\ Head(toClient) = Counted("window", c, 1)
        /\ duplex' = IF duplex[c].st \in {"none", "closed"} THEN duplex
                     ELSE [duplex EXCEPT ![c].credit = @ + 1]
    BY <1>9 DEF ReceiveInputCredit, Accepts, ClientReads
  <2>2. IsWindow(Head(toClient), c)
    BY <2>1 DEF IsWindow, Counted
  <2>3. duplex'[c].st = duplex[c].st
        /\ duplex'[c].credit = IF duplex[c].st \in {"none", "closed"} THEN duplex[c].credit
                               ELSE duplex[c].credit + 1
    BY <1>1, <1>3, <2>1 DEF DuplexRequest
  <2>4. duplex'[c] \in DuplexRequest
    BY <1>3, <1>9, ReceiveInputCreditBooks DEF BooksInv
  <2>5. CreditOK(toDaemon, outbox, Tail(toClient), duplex'[c], client[c], daemon[c], c)
    BY <1>1, <1>2, <1>3, <2>1, <2>2, <2>3, <2>4, CreditsCredit
  <2> QED BY <2>1, <2>5
<1>10. CASE /\ ReceivePayload(c) /\ client[c].st = "live" /\ client'[c].got = client[c].got
            /\ UNCHANGED <<duplex, outbox>>
  <2>1. toClient # <<>> /\ toClient' = Tail(toClient) /\ ~IsWindow(Head(toClient), c)
    BY <1>10 DEF ReceivePayload, Accepts, ClientReads, Counted, IsWindow
  <2>2. CreditOK(toDaemon, outbox, Tail(toClient), duplex[c], client[c], daemon[c], c)
    BY <1>1, <1>2, <2>1, ReadsCredit
  <2>3. c \in Duplex => duplex[c].st \in {"open", "ending", "ended"}
    BY <1>2, <1>10 DEF CreditOK
  <2> QED BY <1>10, <2>1, <2>2, <2>3, RecordsCredit
<1> QED BY <1>3, <1>4, <1>5, <1>6, <1>7, <1>8, <1>9, <1>10, ClientKinds

-----------------------------------------------------------------------------
(* Steps of the daemon.                                                       *)

(* The record of a call and the frames sent for it, as far as credit goes.    *)
NoWindow(s, c) == s \in Seq(FrameType) /\ \A i \in 1 .. Len(s) : ~IsWindow(s[i], c)

(* The credit of the responses: what is sent is taken from it, and a frame    *)
(* that was read adds to it.                                                  *)
Funds(p, p2, d, d2, c) ==
    d2.st # "gone" =>
        /\ d.st # "gone"
        /\ \/ p2 = p /\ d2.credit + Handed(d2) = d.credit + Handed(d)
           \/ /\ p # <<>> /\ p2 = Tail(p)
              /\ \/ d2.credit + Handed(d2) = d.credit + Handed(d)
                 \/ /\ IsWindow(Head(p).frame, c)
                    /\ d2.credit + Handed(d2) = d.credit + Handed(d) + Head(p).frame.n

(* The credit of the messages: one is read, one is taken, or neither.         *)
Charges(p, p2, q, q2, d, d2, c) ==
    \/ /\ p2 = p /\ q2 = q \o <<Counted("window", c, 1)>>
       /\ d.input > 0 /\ d2.input = d.input - 1 /\ d.st = "running" /\ ~d.complete
    \/ /\ p # <<>> /\ p2 = Tail(p) /\ q2 = q \o <<>> /\ IsPayload(Head(p).frame, c)
       /\ d2.input = d.input + 1 /\ d.st \in {"receiving", "running"} /\ d2.complete = d.complete
    \/ /\ p2 = p \/ (p # <<>> /\ p2 = Tail(p))
       /\ \E s : NoWindow(s, c) /\ q2 = q \o s
       /\ d2.input <= d.input
       /\ \/ /\ d2.st = d.st \/ {d2.st, d.st} \subseteq {"receiving", "running"}
             /\ d2.complete = d.complete /\ d2.input = d.input
             /\ p2 = p \/ Head(p).frame.kind \notin {"start", "payload"}
          \/ d2.st = "gone" \/ d2.complete
          \/ /\ p # <<>> /\ p2 = Tail(p) /\ IsStart(Head(p).frame, c)
             /\ d2.input = d.input /\ d2.complete = d.complete /\ d.st = "absent"
          \/ p # <<>> /\ p2 = Tail(p) /\ IsPayload(Head(p).frame, c) /\ d2 = d /\ d.st = "absent"

(* The loan after such a step.                                                *)
LEMMA FundsLent ==
    ASSUME NEW p \in Seq(SentType), NEW p2, NEW o \in Seq(BatchType), NEW k, NEW d, NEW d2, NEW c,
           DaemonOK(d, c), DaemonOK(d2, c), k.got \in Nat, Lent(p, o, k, d, c),
           Funds(p, p2, d, d2, c), p2 = p \/ (p # <<>> /\ p2 = Tail(p))
    PROVE  Lent(p2, o, k, d2, c)
<1>1. p2 \in Seq(SentType)
  BY HeadTailProperties
<1>2. \A i \in Marks(p2, "window", c) : p2[i].frame.n = 1
  <2>1. \A i \in Marks(p, "window", c) : p[i].frame.n = 1
    BY DEF Lent
  <2>2. CASE p2 = p
    BY <2>1, <2>2
  <2>3. CASE p # <<>> /\ p2 = Tail(p)
    BY <2>1, <2>3, WindowsTail
  <2> QED BY <2>2, <2>3
<1>3. ASSUME d2.st # "gone"
      PROVE  /\ d.st # "gone" /\ Loan(p, o, d, c) \in Nat /\ Loan(p2, o, d2, c) \in Nat
             /\ Loan(p2, o, d2, c) <= Loan(p, o, d, c) + 0
  <2>1. PICK e, e2, h, h2, m, m2, r :
          /\ e = d.credit /\ e2 = d2.credit /\ h = Handed(d) /\ h2 = Handed(d2)
          /\ m = Marked(p, "window", c) /\ m2 = Marked(p2, "window", c) /\ r = Refunded(o, c)
    OBVIOUS
  <2>2. /\ e \in Nat /\ e2 \in Nat /\ h \in Nat /\ h2 \in Nat /\ m \in Nat /\ m2 \in Nat
        /\ r \in Nat
    BY <1>1, <2>1, DaemonFields, MarkedNat, RefundedNat, PeerConstants
  <2>3. Loan(p, o, d, c) = e + h + m + r /\ Loan(p2, o, d2, c) = e2 + h2 + m2 + r
    BY <2>1 DEF Loan
  <2>4. e2 + h2 + m2 <= e + h + m
    <3>1. CASE p2 = p
      <4>1. (m2 = m /\ e2 + h2 = e + h) \/ (p # <<>> /\ p2 = Tail(p))
        BY <1>3, <2>1, <3>1 DEF Funds
      <4>2. CASE m2 = m /\ e2 + h2 = e + h
        BY <2>2, <4>2
      <4>3. CASE p # <<>> /\ p2 = Tail(p)
        <5>1. Len(p) \in Nat /\ Len(Tail(p)) = Len(p) - 1
          BY <4>3, HeadTailProperties, LenProperties
        <5>2. Len(p) = Len(p) - 1
          BY <3>1, <4>3, <5>1
        <5> QED BY <5>1, <5>2
      <4> QED BY <4>1, <4>2, <4>3
    <3>2. CASE p # <<>> /\ p2 = Tail(p) /\ p2 # p
      <4>1. \/ e2 + h2 = e + h
            \/ IsWindow(Head(p).frame, c) /\ e2 + h2 = e + h + Head(p).frame.n
        BY <1>3, <2>1, <3>2 DEF Funds
      <4>2. /\ m2 = m \/ m = m2 + 1
            /\ IsWindow(Head(p).frame, c) => m = m2 + 1
        BY <2>1, <3>2, MarkedTail DEF IsWindow
      <4>3. IsWindow(Head(p).frame, c) => Head(p).frame.n = 1
        <5>1. Head(p) = p[1]
          BY <3>2, HeadTailProperties
        <5>2. IsWindow(Head(p).frame, c) => 1 \in Marks(p, "window", c)
          BY <3>2, MarksTail DEF IsWindow
        <5> QED BY <5>1, <5>2 DEF Lent
      <4>4. CASE e2 + h2 = e + h
        BY <2>2, <4>2, <4>4
      <4>5. CASE IsWindow(Head(p).frame, c) /\ e2 + h2 = e + h + Head(p).frame.n
        <5>1. e2 + h2 = e + h + 1 /\ m = m2 + 1
          BY <4>2, <4>3, <4>5
        <5> QED BY <2>2, <5>1
      <4> QED BY <4>1, <4>4, <4>5
    <3> QED BY <3>1, <3>2
  <2>5. e + h + m + r \in Nat /\ e2 + h2 + m2 + r \in Nat /\ e2 + h2 + m2 + r <= e + h + m + r + 0
    BY <2>2, <2>4
  <2>6. d.st # "gone"
    BY <1>3 DEF Funds
  <2> QED BY <2>3, <2>5, <2>6
<1>4. \A i \in 1 .. Len(o) : Refunding(o[i], c)
  BY DEF Lent
<1>5. k.got = k.got + 0 /\ 0 \in Nat
  OBVIOUS
<1> QED BY <1>2, <1>3, <1>4, <1>5, LentStep

(* What the daemon sends besides credit.                                      *)
LEMMA NoWindows ==
    ASSUME NEW c \in Id
    PROVE  /\ NoWindow(<<>>, c) /\ NoWindow(<<EndError(c)>>, c) /\ NoWindow(<<EndOk(c)>>, c)
           /\ \A n \in Nat : /\ NoWindow(<<Counted("payload", c, n)>>, c)
                             /\ NoWindow(<<Counted("payload", c, n), EndOk(c)>>, c)
<1>1. ASSUME NEW f \in FrameType, NEW g \in FrameType, f.kind # "window", g.kind # "window"
      PROVE  NoWindow(<<f>>, c) /\ NoWindow(<<f, g>>, c)
  <2>1. <<f>> \in Seq(FrameType) /\ Len(<<f>>) = 1 /\ <<f>>[1] = f
    OBVIOUS
  <2>2. <<f, g>> \in Seq(FrameType) /\ Len(<<f, g>>) = 2 /\ <<f, g>>[1] = f /\ <<f, g>>[2] = g
    OBVIOUS
  <2>3. \A i \in 1 .. 1 : i = 1
    OBVIOUS
  <2>4. \A i \in 1 .. 2 : i = 1 \/ i = 2
    OBVIOUS
  <2>5. NoWindow(<<f>>, c)
    BY <1>1, <2>1, <2>3 DEF NoWindow, IsWindow
  <2>6. NoWindow(<<f, g>>, c)
    BY <1>1, <2>2, <2>4 DEF NoWindow, IsWindow
  <2> QED BY <2>5, <2>6
<1>2. NoWindow(<<>>, c)
  <2>1. <<>> \in Seq(FrameType) /\ Len(<<>>) = 0
    OBVIOUS
  <2>2. \A i \in 1 .. 0 : FALSE
    OBVIOUS
  <2> QED BY <2>1, <2>2 DEF NoWindow
<1>3. /\ EndError(c) \in FrameType /\ EndOk(c) \in FrameType
      /\ EndError(c).kind # "window" /\ EndOk(c).kind # "window"
  BY FrameFacts DEF EndError, EndOk
<1>4. \A n \in Nat : /\ Counted("payload", c, n) \in FrameType
                     /\ Counted("payload", c, n).kind # "window"
  BY FrameFacts
<1> QED BY <1>1, <1>2, <1>3, <1>4

(* The debt after such a step.                                                *)
LEMMA ChargesOwed ==
    ASSUME NEW p \in Seq(SentType), NEW p2, NEW o \in Seq(BatchType), NEW q \in Seq(FrameType),
           NEW q2, NEW x \in DuplexRequest, NEW k, NEW d, NEW d2, NEW c \in Id,
           DaemonOK(d, c), DaemonOK(d2, c), MessagesOK(p, o, x, k, d, c),
           Owed(p, o, q, x, d, c), Charges(p, p2, q, q2, d, d2, c)
    PROVE  Owed(p2, o, q2, x, d2, c)
<1>1. p # <<>> => Tail(p) \in Seq(SentType)
  BY HeadTailProperties
<1>2. p2 \in Seq(SentType)
  BY <1>1 DEF Charges
<1>3. PICK v, w, m, m2, i, i2, g, g2 :
        /\ v = x.credit /\ w = Waits(o, c) /\ m = Marked(p, "payload", c)
        /\ m2 = Marked(p2, "payload", c) /\ i = d.input /\ i2 = d2.input
        /\ g = Granted(q, c) /\ g2 = Granted(q2, c)
  OBVIOUS
<1>4. /\ v \in Nat /\ w \in Nat /\ m \in Nat /\ m2 \in Nat /\ i \in Nat /\ i2 \in Nat /\ g \in Nat
  <2>1. v \in Nat /\ w \in {0, 1} /\ m \in Nat /\ i \in Nat /\ g \in Nat
    BY <1>3, SumsNat
  <2>2. m2 \in Nat
    BY <1>2, <1>3, MarkedNat
  <2>3. i2 \in Nat
    BY <1>3, DaemonFields
  <2> QED BY <2>1, <2>2, <2>3
<1>5. Debt(p, o, q, x, d, c) = v + w + m + i + g /\ Debt(p2, o, q2, x, d2, c) = v + w + m2 + i2 + g2
  BY <1>3 DEF Debt
<1>6. ASSUME g2 \in Nat, m2 + i2 + g2 <= m + i + g,
             Alive(p2, o, d2, c) /\ ~d2.complete =>
                 Alive(p, o, d, c) /\ ~d.complete /\ m2 + i2 + g2 = m + i + g
      PROVE  Owed(p2, o, q2, x, d2, c)
  <2>1. /\ v + w + m + i + g \in Nat /\ v + w + m2 + i2 + g2 \in Nat
        /\ v + w + m2 + i2 + g2 <= v + w + m + i + g
        /\ m2 + i2 + g2 = m + i + g => v + w + m2 + i2 + g2 = v + w + m + i + g
    BY <1>4, <1>6
  <2> QED BY <1>5, <1>6, <2>1, OwedStep
<1>7. CASE /\ p2 = p /\ q2 = q \o <<Counted("window", c, 1)>>
           /\ d.input > 0 /\ d2.input = d.input - 1 /\ d.st = "running" /\ ~d.complete
  <2>1. Counted("window", c, 1) \in FrameType /\ IsWindow(Counted("window", c, 1), c)
    BY FrameFacts DEF IsWindow, Counted
  <2>2. g2 = g + 1 /\ m2 = m /\ i2 = i - 1
    BY <1>3, <1>7, <2>1, GrantedOne
  <2>3. g2 \in Nat /\ m2 + i2 + g2 = m + i + g /\ m2 + i2 + g2 <= m + i + g
    BY <1>4, <2>2
  <2>4. Alive(p, o, d, c)
    BY <1>7 DEF Alive
  <2> QED BY <1>6, <1>7, <2>3, <2>4
<1>8. CASE /\ p # <<>> /\ p2 = Tail(p) /\ q2 = q \o <<>> /\ IsPayload(Head(p).frame, c)
           /\ d2.input = d.input + 1 /\ d.st \in {"receiving", "running"}
           /\ d2.complete = d.complete
  <2>1. m = m2 + 1 /\ g2 = g /\ i2 = i + 1
    <3>1. Granted(q \o <<>>, c) = Granted(q, c)
      BY NoWindows, GrantedConcat DEF NoWindow
    <3> QED BY <1>3, <1>8, <3>1, MarkedTail DEF IsPayload
  <2>2. g2 \in Nat /\ m2 + i2 + g2 = m + i + g /\ m2 + i2 + g2 <= m + i + g
    BY <1>4, <2>1
  <2>3. Alive(p, o, d, c)
    BY <1>8 DEF Alive
  <2> QED BY <1>6, <1>8, <2>2, <2>3
<1>9. ASSUME p2 = p \/ (p # <<>> /\ p2 = Tail(p)),
             \E s : NoWindow(s, c) /\ q2 = q \o s, d2.input <= d.input,
             Alive(p2, o, d2, c) /\ ~d2.complete =>
                 /\ Alive(p, o, d, c) /\ ~d.complete /\ d2.input = d.input
                 /\ p2 = p \/ ~IsPayload(Head(p).frame, c)
      PROVE  Owed(p2, o, q2, x, d2, c)
  <2>1. g2 = g
    <3>1. PICK s : NoWindow(s, c) /\ q2 = q \o s
      BY <1>9
    <3> QED BY <1>3, <3>1, GrantedConcat DEF NoWindow
  <2>2. m2 = m \/ (m = m2 + 1 /\ IsPayload(Head(p).frame, c) /\ p2 # p)
    <3>1. CASE p2 = p
      BY <1>3, <3>1
    <3>2. CASE p # <<>> /\ p2 = Tail(p) /\ p2 # p
      BY <1>3, <3>2, MarkedTail DEF IsPayload
    <3> QED BY <1>9, <3>1, <3>2
  <2>3. i2 <= i
    BY <1>3, <1>9
  <2>4. g2 \in Nat /\ m2 + i2 + g2 <= m + i + g
    BY <1>4, <2>1, <2>2, <2>3
  <2>5. ASSUME Alive(p2, o, d2, c), ~d2.complete
        PROVE  Alive(p, o, d, c) /\ ~d.complete /\ m2 + i2 + g2 = m + i + g
    <3>1. m2 = m /\ i2 = i
      BY <1>3, <1>9, <2>2, <2>5
    <3> QED BY <1>9, <2>1, <2>5, <3>1
  <2> QED BY <1>6, <2>4, <2>5
<1>10. CASE /\ d2.st = d.st \/ {d2.st, d.st} \subseteq {"receiving", "running"}
            /\ d2.complete = d.complete /\ d2.input = d.input
            /\ p2 = p \/ Head(p).frame.kind \notin {"start", "payload"}
            /\ p2 = p \/ (p # <<>> /\ p2 = Tail(p))
            /\ \E s : NoWindow(s, c) /\ q2 = q \o s
            /\ d2.input <= d.input
  <2>1. Marks(p2, "start", c) = {} <=> Marks(p, "start", c) = {}
    <3>1. CASE p2 = p
      BY <3>1
    <3>2. CASE p # <<>> /\ p2 = Tail(p) /\ p2 # p
      BY <1>10, <3>2, MarksSkip
    <3> QED BY <1>10, <3>1, <3>2
  <2>2. Alive(p2, o, d2, c) => Alive(p, o, d, c)
    BY <1>10, <2>1 DEF Alive
  <2>3. p2 = p \/ ~IsPayload(Head(p).frame, c)
    BY <1>10 DEF IsPayload
  <2> QED BY <1>9, <1>10, <2>2, <2>3
<1>11. CASE /\ d2.st = "gone" \/ d2.complete
            /\ p2 = p \/ (p # <<>> /\ p2 = Tail(p))
            /\ \E s : NoWindow(s, c) /\ q2 = q \o s
            /\ d2.input <= d.input
  <2>1. ~(Alive(p2, o, d2, c) /\ ~d2.complete)
    BY <1>11 DEF Alive
  <2> QED BY <1>9, <1>11, <2>1
<1>12. CASE /\ p # <<>> /\ p2 = Tail(p) /\ IsStart(Head(p).frame, c)
            /\ d2.input = d.input /\ d2.complete = d.complete /\ d.st = "absent"
            /\ \E s : NoWindow(s, c) /\ q2 = q \o s
            /\ d2.input <= d.input
  <2>1. 1 \in Marks(p, "start", c)
    BY <1>12, MarksTail DEF IsStart
  <2>2. Alive(p, o, d, c)
    BY <1>12, <2>1 DEF Alive
  <2>3. ~IsPayload(Head(p).frame, c)
    BY <1>12 DEF IsPayload, IsStart
  <2> QED BY <1>9, <1>12, <2>2, <2>3
<1>13. CASE /\ p # <<>> /\ p2 = Tail(p) /\ IsPayload(Head(p).frame, c) /\ d2 = d /\ d.st = "absent"
            /\ \E s : NoWindow(s, c) /\ q2 = q \o s
            /\ d2.input <= d.input
  <2>1. 1 \in Marks(p, "payload", c)
    BY <1>13, MarksTail DEF IsPayload
  <2>2. InOrder(p, c) /\ Opens(o, c) = {}
    BY <2>1, MessageParts
  <2>3. ASSUME NEW j \in Marks(p2, "start", c) PROVE FALSE
    <3>1. j \in Nat /\ j > 0 /\ j + 1 \in Marks(p, "start", c)
      BY <1>13, <2>3, MarksTail
    <3>2. j + 1 < 1
      BY <2>1, <2>2, <3>1 DEF InOrder
    <3> QED BY <3>1, <3>2
  <2>4. ~Alive(p2, o, d2, c)
    BY <1>13, <2>2, <2>3 DEF Alive
  <2> QED BY <1>9, <1>13, <2>4
<1> QED BY <1>7, <1>8, <1>10, <1>11, <1>12, <1>13 DEF Charges

(* A step of the daemon, as far as credit goes.                               *)
Trade(p, p2, q, q2, d, d2, c) ==
    /\ p2 = p \/ (p # <<>> /\ p2 = Tail(p))
    /\ Funds(p, p2, d, d2, c)
    /\ c \in Duplex => Charges(p, p2, q, q2, d, d2, c)

(* The call is over.                                                          *)
LEMMA GoneTrade ==
    ASSUME NEW p, NEW p2, NEW q, NEW q2, NEW d, NEW d2, NEW c, NEW s, NoWindow(s, c), q2 = q \o s,
           p2 = p \/ (p # <<>> /\ p2 = Tail(p)), d2.st = "gone", d2.input <= d.input
    PROVE  Trade(p, p2, q, q2, d, d2, c)
<1>1. Funds(p, p2, d, d2, c)
  BY DEF Funds
<1>2. Charges(p, p2, q, q2, d, d2, c)
  BY DEF Charges
<1> QED BY <1>1, <1>2 DEF Trade

(* So is one that is given up.                                                *)
LEMMA AbandonedTrade ==
    ASSUME NEW p, NEW p2, NEW q, NEW q2, NEW d, NEW d2, NEW c, NEW s, NoWindow(s, c), q2 = q \o s,
           p2 = p \/ (p # <<>> /\ p2 = Tail(p)), DaemonOK(d, c), d2 = Abandoned(d)
    PROVE  Trade(p, p2, q, q2, d, d2, c)
<1>1. d \in DaemonRecord /\ d.input \in Nat
  BY DEF DaemonOK, DaemonRecord
<1>2. d2.st = "gone" /\ d2.input = 0
  BY <1>1 DEF Abandoned, DaemonRecord
<1>3. d2.input <= d.input
  BY <1>1, <1>2
<1> QED BY <1>2, <1>3, GoneTrade

(* Nothing of its credit changes.                                             *)
LEMMA QuietTrade ==
    ASSUME NEW p, NEW p2, NEW q, NEW q2, NEW d, NEW d2, NEW c, NEW s, NoWindow(s, c), q2 = q \o s,
           DaemonOK(d, c), d2.credit = d.credit, d2.held = d.held, d2.emitted = d.emitted,
           d2.complete = d.complete, d2.input = d.input,
           d2.st = d.st \/ {d2.st, d.st} \subseteq {"receiving", "running"},
           \/ p2 = p
           \/ p # <<>> /\ p2 = Tail(p) /\ Head(p).frame.kind \notin {"start", "payload"}
    PROVE  Trade(p, p2, q, q2, d, d2, c)
<1>1. d2.st # "gone" => d.st # "gone"
  OBVIOUS
<1>2. d2.credit + Handed(d2) = d.credit + Handed(d)
  BY DEF Handed
<1>3. Funds(p, p2, d, d2, c)
  BY <1>1, <1>2 DEF Funds
<1>4. d2.input <= d.input
  BY DaemonFields
<1>5. Charges(p, p2, q, q2, d, d2, c)
  BY <1>4 DEF Charges
<1> QED BY <1>3, <1>5 DEF Trade

(* ProtocolCalls::start, end and cancel, and what ends a call from inside.    *)
LEMMA ShortTrade ==
    ASSUME NEW c \in Call, DaemonKnown(c),
           \/ DaemonStart(c) /\ daemon[c].st = "absent"
           \/ DaemonEnd(c) \/ DaemonCancel(c) \/ DaemonFail(c)
    PROVE  Trade(toDaemon, toDaemon', toClient, toClient', daemon[c], daemon'[c], c)
<1>1. PICK p, p2, q, q2, d, d2 : /\ p = toDaemon /\ p2 = toDaemon' /\ q = toClient /\ q2 = toClient'
                                 /\ d = daemon[c] /\ d2 = daemon'[c]
  OBVIOUS
<1>2. DaemonOK(d, c) /\ d \in DaemonRecord /\ daemon \in [Call -> DaemonRecord] /\ c \in Id
  BY <1>1 DEF DaemonKnown, Id
<1>3. NoWindow(<<>>, c) /\ NoWindow(<<EndError(c)>>, c)
  BY <1>2, NoWindows
<1>4. CASE DaemonFail(c)
  <2>1. p2 = p /\ q2 = q \o <<EndError(c)>> /\ d2 = Abandoned(d)
    BY <1>1, <1>2, <1>4 DEF DaemonFail, Emit
  <2>2. Trade(p, p2, q, q2, d, d2, c)
    BY <1>2, <1>3, <2>1, AbandonedTrade
  <2> QED BY <1>1, <2>2
<1>5. CASE DaemonCancel(c)
  <2>1. p # <<>> /\ p2 = Tail(p) /\ Head(p).frame.kind = "cancel"
    BY <1>1, <1>5 DEF DaemonCancel, DaemonReads, Frame, Answer
  <2>2. \/ d2 = Abandoned(d) /\ q2 = q \o <<EndError(c)>>
        \/ d2 = d /\ q2 = q \o <<>>
    BY <1>1, <1>2, <1>5 DEF DaemonCancel, Answer
  <2>3. CASE d2 = Abandoned(d) /\ q2 = q \o <<EndError(c)>>
    BY <1>1, <1>2, <1>3, <2>1, <2>3, AbandonedTrade
  <2>4. CASE d2 = d /\ q2 = q \o <<>>
    BY <1>1, <1>2, <1>3, <2>1, <2>4, QuietTrade
  <2> QED BY <2>2, <2>3, <2>4
<1>6. CASE DaemonEnd(c)
  <2>1. p # <<>> /\ p2 = Tail(p) /\ Head(p).frame.kind = "end"
    <3>1. DaemonReads(Frame("end", c)) /\ toDaemon' = Tail(toDaemon)
      BY <1>6 DEF DaemonEnd, Answer
    <3> QED BY <1>1, <3>1 DEF DaemonReads, Frame
  <2>2. \/ d.st = "receiving" /\ d2 = [d EXCEPT !.st = "running"] /\ q2 = q \o <<>>
        \/ d2 = [d EXCEPT !.inputOpen = FALSE] /\ q2 = q \o <<>>
        \/ d2 = Abandoned(d) /\ q2 = q \o <<EndError(c)>>
        \/ d2 = d /\ q2 = q \o <<EndError(c)>>
    BY <1>1, <1>2, <1>6 DEF DaemonEnd, Answer
  <2>3. CASE d2 = Abandoned(d) /\ q2 = q \o <<EndError(c)>>
    BY <1>1, <1>2, <1>3, <2>1, <2>3, AbandonedTrade
  <2>4. CASE \/ d.st = "receiving" /\ d2 = [d EXCEPT !.st = "running"] /\ q2 = q \o <<>>
             \/ d2 = [d EXCEPT !.inputOpen = FALSE] /\ q2 = q \o <<>>
    <3>1. /\ d2.credit = d.credit /\ d2.held = d.held /\ d2.emitted = d.emitted
          /\ d2.complete = d.complete /\ d2.input = d.input
          /\ d2.st = d.st \/ (d.st = "receiving" /\ d2.st = "running")
      BY <1>2, <2>4 DEF DaemonRecord
    <3>2. d2.st = d.st \/ {d2.st, d.st} \subseteq {"receiving", "running"}
      BY <3>1
    <3>3. q2 = q \o <<>>
      BY <2>4
    <3> QED BY <1>1, <1>2, <1>3, <2>1, <3>1, <3>2, <3>3, QuietTrade
  <2>5. CASE d2 = d /\ q2 = q \o <<EndError(c)>>
    BY <1>1, <1>2, <1>3, <2>1, <2>5, QuietTrade
  <2> QED BY <2>2, <2>3, <2>4, <2>5
<1>7. CASE DaemonStart(c) /\ daemon[c].st = "absent"
  <2>1. p # <<>> /\ p2 = Tail(p) /\ IsStart(Head(p).frame, c)
    BY <1>1, <1>7 DEF DaemonStart, DaemonReads, Frame, Answer, IsStart
  <2>2. PICK s \in {<<>>, <<EndError(c)>>} :
          q2 = q \o s /\ (d2 = d \/ d2 = [d EXCEPT !.st = "receiving"])
    BY <1>1, <1>2, <1>7 DEF DaemonStart, Answer
  <2>3. /\ d2.credit = d.credit /\ d2.held = d.held /\ d2.emitted = d.emitted
        /\ d2.complete = d.complete /\ d2.input = d.input
    BY <1>2, <2>2 DEF DaemonRecord
  <2>4. d2.credit + Handed(d2) = d.credit + Handed(d) /\ d.st # "gone"
    BY <1>1, <1>7, <2>3 DEF Handed
  <2>5. Funds(p, p2, d, d2, c)
    BY <2>1, <2>4 DEF Funds
  <2>6. d2.input <= d.input
    BY <1>2, <2>3, DaemonFields
  <2>7. Charges(p, p2, q, q2, d, d2, c)
    BY <1>1, <1>3, <1>7, <2>1, <2>2, <2>3, <2>6 DEF Charges
  <2>8. Trade(p, p2, q, q2, d, d2, c)
    BY <2>1, <2>5, <2>7 DEF Trade
  <2> QED BY <1>1, <2>8
<1> QED BY <1>4, <1>5, <1>6, <1>7

(* ProtocolCalls::receive_payload.                                            *)
LEMMA PayloadTrade ==
    ASSUME NEW c \in Call, DaemonKnown(c), DaemonPayload(c),
           c \in Duplex /\ daemon[c].st = "running" => daemon[c].seen > 0
    PROVE  Trade(toDaemon, toDaemon', toClient, toClient', daemon[c], daemon'[c], c)
<1>1. PICK p, p2, q, q2, d, d2 : /\ p = toDaemon /\ p2 = toDaemon' /\ q = toClient /\ q2 = toClient'
                                 /\ d = daemon[c] /\ d2 = daemon'[c]
  OBVIOUS
<1>2. DaemonOK(d, c) /\ d \in DaemonRecord /\ daemon \in [Call -> DaemonRecord] /\ c \in Id
  BY <1>1 DEF DaemonKnown, Id
<1>3. NoWindow(<<>>, c) /\ NoWindow(<<EndError(c)>>, c)
  BY <1>2, NoWindows
<1>4. p # <<>> /\ p2 = Tail(p) /\ IsPayload(Head(p).frame, c)
  <2>1. DaemonReads(Frame("payload", c)) /\ toDaemon' = Tail(toDaemon)
    BY DEF DaemonPayload, Answer
  <2> QED BY <1>1, <2>1 DEF DaemonReads, Frame, IsPayload
<1>5. \/ /\ d.st = "receiving" /\ c \notin Duplex /\ q2 = q \o <<>>
         /\ d2 = [d EXCEPT !.seen = 1]
      \/ /\ d.st = "receiving" /\ q2 = q \o <<>>
         /\ d2 = [d EXCEPT !.st = "running", !.inputOpen = TRUE, !.input = 1, !.seen = 1,
                           !.inputCredit = @ - 1]
      \/ /\ d.st = "running" /\ q2 = q \o <<>>
         /\ d2 = [d EXCEPT !.input = @ + 1, !.seen = @ + 1, !.inputCredit = @ - 1]
      \/ d2 = Abandoned(d) /\ q2 = q \o <<EndError(c)>>
      \/ /\ d2 = d /\ q2 = q \o <<EndError(c)>>
         /\ d.st \in {"absent", "gone"} \/ c \notin Duplex
  <2>1. d.st \in {"absent", "receiving", "running", "gone"} /\ d.seen \in Nat
    BY <1>2 DEF DaemonRecord
  <2>2. /\ c \in Active <=> d.st \in {"receiving", "running"}
        /\ d.seen = 0 \/ d.seen > 0
    BY <1>1, <2>1 DEF Active
  <2>3. c \in Duplex /\ d.st = "running" => d.seen > 0
    BY <1>1
  <2>4. \/ /\ d.st = "receiving" /\ c \notin Duplex /\ Answer(<<>>)
           /\ daemon' = [daemon EXCEPT ![c].seen = 1]
        \/ /\ d.st = "receiving" /\ Answer(<<>>)
           /\ daemon' = [daemon EXCEPT ![c].st = "running", ![c].inputOpen = TRUE,
                           ![c].input = 1, ![c].seen = 1, ![c].inputCredit = @ - 1]
        \/ /\ d.st = "running" /\ Answer(<<>>)
           /\ daemon' = [daemon EXCEPT ![c].input = @ + 1, ![c].seen = @ + 1,
                                       ![c].inputCredit = @ - 1]
        \/ daemon' = [daemon EXCEPT ![c] = Abandoned(@)] /\ Answer(<<EndError(c)>>)
        \/ /\ daemon' = daemon /\ Answer(<<EndError(c)>>)
           /\ d.st \in {"absent", "gone"} \/ c \notin Duplex
    BY <1>1, <2>1, <2>2, <2>3 DEF DaemonPayload
  <2> QED BY <1>1, <1>2, <2>4 DEF Answer
<1>6. ASSUME d2.credit = d.credit, d2.held = d.held, d2.emitted = d.emitted, d.st # "gone"
      PROVE  Funds(p, p2, d, d2, c)
  <2>1. d2.credit + Handed(d2) = d.credit + Handed(d)
    BY <1>6 DEF Handed
  <2> QED BY <1>4, <1>6, <2>1 DEF Funds
<1>7. CASE d.st = "receiving" /\ c \notin Duplex /\ q2 = q \o <<>> /\ d2 = [d EXCEPT !.seen = 1]
  <2>1. d2.credit = d.credit /\ d2.held = d.held /\ d2.emitted = d.emitted /\ d.st # "gone"
    BY <1>2, <1>7 DEF DaemonRecord
  <2> QED BY <1>1, <1>4, <1>6, <1>7, <2>1 DEF Trade
<1>8. CASE /\ d.st = "receiving" /\ q2 = q \o <<>>
           /\ d2 = [d EXCEPT !.st = "running", !.inputOpen = TRUE, !.input = 1, !.seen = 1,
                             !.inputCredit = @ - 1]
  <2>1. /\ d2.credit = d.credit /\ d2.held = d.held /\ d2.emitted = d.emitted /\ d.st # "gone"
        /\ d2.input = 1 /\ d2.complete = d.complete
    BY <1>2, <1>8 DEF DaemonRecord
  <2>2. d.input = 0 /\ d2.input = d.input + 1
    <3>1. d.input = 0
      BY <1>2, <1>8 DEF DaemonOK
    <3> QED BY <2>1, <3>1
  <2>3. Charges(p, p2, q, q2, d, d2, c)
    BY <1>1, <1>4, <1>8, <2>1, <2>2 DEF Charges
  <2> QED BY <1>1, <1>4, <1>6, <2>1, <2>3 DEF Trade
<1>9. CASE /\ d.st = "running" /\ q2 = q \o <<>>
           /\ d2 = [d EXCEPT !.input = @ + 1, !.seen = @ + 1, !.inputCredit = @ - 1]
  <2>1. /\ d2.credit = d.credit /\ d2.held = d.held /\ d2.emitted = d.emitted /\ d.st # "gone"
        /\ d2.input = d.input + 1 /\ d2.complete = d.complete
    BY <1>2, <1>9 DEF DaemonRecord
  <2>2. Charges(p, p2, q, q2, d, d2, c)
    BY <1>1, <1>4, <1>9, <2>1 DEF Charges
  <2> QED BY <1>1, <1>4, <1>6, <2>1, <2>2 DEF Trade
<1>10. CASE d2 = Abandoned(d) /\ q2 = q \o <<EndError(c)>>
  BY <1>1, <1>2, <1>3, <1>4, <1>10, AbandonedTrade
<1>11. CASE /\ d2 = d /\ q2 = q \o <<EndError(c)>>
            /\ d.st \in {"absent", "gone"} \/ c \notin Duplex
  <2>1. d2.input <= d.input
    BY <1>2, <1>11, DaemonFields
  <2>2. Funds(p, p2, d, d2, c)
    BY <1>4, <1>11 DEF Funds
  <2>3. c \in Duplex => Charges(p, p2, q, q2, d, d2, c)
    BY <1>3, <1>4, <1>11, <2>1 DEF Charges
  <2> QED BY <1>1, <1>4, <2>2, <2>3 DEF Trade
<1> QED BY <1>5, <1>7, <1>8, <1>9, <1>10, <1>11

(* A handler yields a payload, completes, or reads a message.                 *)
LEMMA HandlerTrade ==
    ASSUME NEW c \in Call, DaemonKnown(c), DaemonYield(c) \/ DaemonComplete(c) \/ DaemonConsume(c)
    PROVE  Trade(toDaemon, toDaemon', toClient, toClient', daemon[c], daemon'[c], c)
<1>1. PICK p, p2, q, q2, d, d2 : /\ p = toDaemon /\ p2 = toDaemon' /\ q = toClient /\ q2 = toClient'
                                 /\ d = daemon[c] /\ d2 = daemon'[c]
  OBVIOUS
<1>2. DaemonOK(d, c) /\ d \in DaemonRecord /\ daemon \in [Call -> DaemonRecord] /\ c \in Id
  BY <1>1 DEF DaemonKnown, Id
<1>3. /\ NoWindow(<<>>, c) /\ NoWindow(<<EndOk(c)>>, c)
      /\ \A n \in Nat : /\ NoWindow(<<Counted("payload", c, n)>>, c)
                        /\ NoWindow(<<Counted("payload", c, n), EndOk(c)>>, c)
  BY <1>2, NoWindows
<1>4. PICK e, l, m : e = d.emitted /\ l = Len(d.held) /\ m = d.credit
  OBVIOUS
<1>5. /\ e \in Nat /\ l \in Nat /\ m \in Nat /\ d.input \in Nat /\ d.held \in Seq(1 .. MaxItems)
      /\ d.complete \in BOOLEAN
  BY <1>2, <1>4, DaemonFields, PeerConstants
<1>6. CASE DaemonYield(c)
  <2>1. /\ d.st = "running" /\ p2 = p
        /\ \/ /\ m > 0 /\ d2 = [d EXCEPT !.emitted = e + 1, !.credit = m - 1]
              /\ q2 = q \o <<Counted("payload", c, e + 1)>>
           \/ /\ d2 = [d EXCEPT !.emitted = e + 1, !.held = Append(d.held, e + 1)]
              /\ q2 = q \o <<>>
    BY <1>1, <1>2, <1>4, <1>6 DEF DaemonYield, Emit
  <2>2. d2.input = d.input /\ d2.complete = d.complete /\ d2.st = d.st
    BY <1>2, <2>1 DEF DaemonRecord
  <2>3. d2.credit + Handed(d2) = d.credit + Handed(d)
    <3>1. CASE m > 0 /\ d2 = [d EXCEPT !.emitted = e + 1, !.credit = m - 1]
      <4>1. d2.emitted = e + 1 /\ d2.credit = m - 1 /\ Len(d2.held) = l
        BY <1>2, <1>4, <3>1 DEF DaemonRecord
      <4>2. (m - 1) + ((e + 1) - l) = m + (e - l)
        BY <1>5, <3>1
      <4> QED BY <1>4, <4>1, <4>2 DEF Handed
    <3>2. CASE d2 = [d EXCEPT !.emitted = e + 1, !.held = Append(d.held, e + 1)]
      <4>1. d2.emitted = e + 1 /\ d2.credit = m /\ d2.held = Append(d.held, e + 1)
        BY <1>2, <1>4, <3>2 DEF DaemonRecord
      <4>2. Len(Append(d.held, e + 1)) = l + 1
        BY <1>4, <1>5
      <4>3. m + ((e + 1) - (l + 1)) = m + (e - l)
        BY <1>5
      <4> QED BY <1>4, <4>1, <4>2, <4>3 DEF Handed
    <3> QED BY <2>1, <3>1, <3>2
  <2>4. Funds(p, p2, d, d2, c)
    BY <2>1, <2>3 DEF Funds
  <2>5. d2.input <= d.input /\ e + 1 \in Nat
    BY <1>5, <2>2
  <2>6. \E s : NoWindow(s, c) /\ q2 = q \o s
    BY <1>3, <2>1, <2>5
  <2>7. Charges(p, p2, q, q2, d, d2, c)
    BY <2>1, <2>2, <2>5, <2>6 DEF Charges
  <2> QED BY <1>1, <2>1, <2>4, <2>7 DEF Trade
<1>7. CASE DaemonComplete(c)
  <2>1. /\ p2 = p /\ d.st = "running"
        /\ \/ /\ c \in Unary
              /\ d2 = [d EXCEPT !.st = "gone", !.complete = TRUE, !.emitted = 1]
              /\ q2 = q \o <<Counted("payload", c, 1), EndOk(c)>>
           \/ /\ d2 = [d EXCEPT !.st = "gone", !.complete = TRUE, !.input = 0]
              /\ q2 = q \o <<EndOk(c)>>
           \/ /\ d2 = [d EXCEPT !.complete = TRUE, !.input = 0]
              /\ q2 = q \o <<>>
    BY <1>1, <1>2, <1>7 DEF DaemonComplete, Emit
  <2>2. d2.input = d.input \/ d2.input = 0
    BY <1>2, <2>1 DEF DaemonRecord
  <2>3. d2.input <= d.input
    BY <1>5, <2>2
  <2>4. \E s : NoWindow(s, c) /\ q2 = q \o s
    BY <1>3, <2>1
  <2>5. CASE d2 = [d EXCEPT !.complete = TRUE, !.input = 0]
    <3>1. /\ d2.complete /\ d2.credit = d.credit /\ d2.held = d.held /\ d2.emitted = d.emitted
          /\ d2.st = d.st
      BY <1>2, <2>5 DEF DaemonRecord
    <3>2. d2.credit + Handed(d2) = d.credit + Handed(d)
      BY <3>1 DEF Handed
    <3>3. Funds(p, p2, d, d2, c)
      BY <2>1, <3>1, <3>2 DEF Funds
    <3>4. Charges(p, p2, q, q2, d, d2, c)
      BY <2>1, <2>3, <2>4, <3>1 DEF Charges
    <3> QED BY <1>1, <2>1, <3>3, <3>4 DEF Trade
  <2>6. CASE d2 # [d EXCEPT !.complete = TRUE, !.input = 0]
    <3>1. d2.st = "gone"
      BY <1>2, <2>1, <2>6 DEF DaemonRecord
    <3> QED BY <1>1, <2>1, <2>3, <2>4, <3>1, GoneTrade
  <2> QED BY <2>5, <2>6
<1>8. CASE DaemonConsume(c)
  <2>1. /\ p2 = p /\ d.st = "running" /\ ~d.complete /\ d.input > 0
        /\ d2 = [d EXCEPT !.input = @ - 1, !.inputCredit = @ + 1]
        /\ q2 = q \o <<Counted("window", c, 1)>>
    BY <1>1, <1>2, <1>8 DEF DaemonConsume, Emit
  <2>2. /\ d2.credit = d.credit /\ d2.held = d.held /\ d2.emitted = d.emitted
        /\ d2.input = d.input - 1
    BY <1>2, <2>1 DEF DaemonRecord
  <2>3. d2.credit + Handed(d2) = d.credit + Handed(d)
    BY <2>2 DEF Handed
  <2>4. Funds(p, p2, d, d2, c)
    BY <2>1, <2>3 DEF Funds
  <2>5. Charges(p, p2, q, q2, d, d2, c)
    BY <2>1, <2>2 DEF Charges
  <2> QED BY <1>1, <2>1, <2>4, <2>5 DEF Trade
<1> QED BY <1>6, <1>7, <1>8

(* ProtocolCalls::update_credit.                                              *)
LEMMA CreditTrade ==
    ASSUME NEW c \in Call, DaemonKnown(c), DaemonCredit(c)
    PROVE  Trade(toDaemon, toDaemon', toClient, toClient', daemon[c], daemon'[c], c)
<1>1. PICK p, p2, q, q2, d, d2 : /\ p = toDaemon /\ p2 = toDaemon' /\ q = toClient /\ q2 = toClient'
                                 /\ d = daemon[c] /\ d2 = daemon'[c]
  OBVIOUS
<1>2. DaemonOK(d, c) /\ d \in DaemonRecord /\ daemon \in [Call -> DaemonRecord] /\ c \in Id
  BY <1>1 DEF DaemonKnown, Id
<1>3. /\ NoWindow(<<>>, c) /\ NoWindow(<<EndError(c)>>, c) /\ NoWindow(<<EndOk(c)>>, c)
  BY <1>2, NoWindows
<1>4. PICK n \in 1 .. Credit :
        /\ DaemonReads(Counted("window", c, n))
        /\ LET fits  == IF d.credit + n < Len(d.held) THEN d.credit + n ELSE Len(d.held)
               sent  == [i \in 1 .. fits |-> Counted("payload", c, d.held[i])]
               left  == SubSeq(d.held, fits + 1, Len(d.held))
               ends  == d.complete /\ left = <<>>
           IN \/ UNCHANGED daemon /\ Answer(<<>>)
              \/ daemon' = [daemon EXCEPT ![c] = Abandoned(@)] /\ Answer(<<EndError(c)>>)
              \/ /\ c \in Active
                 /\ daemon' = [daemon EXCEPT
                      ![c].credit = @ + n - fits, ![c].held = left,
                      ![c].st = IF ends THEN "gone" ELSE @]
                 /\ Answer(sent \o IF ends THEN <<EndOk(c)>> ELSE <<>>)
  BY <1>1, ZenonT(60) DEF DaemonCredit
<1>5. /\ p # <<>> /\ p2 = Tail(p) /\ Head(p).frame.kind = "window" /\ IsWindow(Head(p).frame, c)
      /\ Head(p).frame.n = n
  <2>1. toDaemon' = Tail(toDaemon)
    BY <1>4 DEF Answer
  <2> QED BY <1>1, <1>4, <2>1 DEF DaemonReads, Counted, IsWindow
<1>6. PICK l, x, h, e : l = Len(d.held) /\ x = d.credit /\ h = d.held /\ e = d.emitted
  OBVIOUS
<1>7. PICK fits : fits = IF x + n < l THEN x + n ELSE l
  OBVIOUS
<1>8. PICK sent : sent = [i \in 1 .. fits |-> Counted("payload", c, h[i])]
  OBVIOUS
<1>9. PICK left : left = SubSeq(h, fits + 1, l)
  OBVIOUS
<1>10. PICK ends : ends = (d.complete /\ left = <<>>) /\ ends \in BOOLEAN
  OBVIOUS
<1>11. CASE UNCHANGED daemon /\ Answer(<<>>)
  <2>1. d2 = d /\ q2 = q \o <<>>
    BY <1>1, <1>11 DEF Answer
  <2> QED BY <1>1, <1>2, <1>3, <1>5, <2>1, QuietTrade
<1>12. CASE daemon' = [daemon EXCEPT ![c] = Abandoned(@)] /\ Answer(<<EndError(c)>>)
  <2>1. d2 = Abandoned(d) /\ q2 = q \o <<EndError(c)>>
    BY <1>1, <1>2, <1>12 DEF Answer
  <2> QED BY <1>1, <1>2, <1>3, <1>5, <2>1, AbandonedTrade
<1>13. CASE /\ c \in Active
            /\ daemon' = [daemon EXCEPT
                 ![c].credit = @ + n - fits, ![c].held = left,
                 ![c].st = IF ends THEN "gone" ELSE @]
            /\ Answer(sent \o IF ends THEN <<EndOk(c)>> ELSE <<>>)
  <2>1. /\ x \in Nat /\ h \in Seq(1 .. MaxItems) /\ l \in Nat /\ e \in Nat /\ n \in Nat
        /\ d.input \in Nat
    BY <1>2, <1>6, DaemonFields, PeerConstants
  <2>2. fits \in 0 .. l /\ fits \in Nat
    BY <1>7, <2>1
  <2>3. PICK t : t = IF ends THEN <<EndOk(c)>> ELSE <<>>
    OBVIOUS
  <2>4. d2 = [d EXCEPT !.credit = x + n - fits, !.held = left, !.st = IF ends THEN "gone" ELSE @]
        /\ q2 = q \o (sent \o t)
    BY <1>1, <1>2, <1>6, <1>13, <2>3 DEF Answer
  <2>5. /\ d2.credit = x + n - fits /\ d2.held = left /\ d2.st \in {d.st, "gone"}
        /\ d2.emitted = e /\ d2.input = d.input /\ d2.complete = d.complete
    BY <1>2, <1>6, <2>4 DEF DaemonRecord
  <2>6. Len(left) = l - fits
    <3>1. fits + 1 \in Int /\ l \in Int /\ \A i \in fits + 1 .. l : h[i] \in 1 .. MaxItems
      <4>1. \A i \in 1 .. l : h[i] \in 1 .. MaxItems
        BY <1>6, <2>1, ElementOfSeq
      <4>2. \A i \in fits + 1 .. l : i \in 1 .. l
        BY <2>1, <2>2
      <4> QED BY <2>1, <2>2, <4>1, <4>2
    <3>2. Len(left) = IF fits + 1 <= l THEN l - (fits + 1) + 1 ELSE 0
      BY <1>9, <3>1, SubSeqProperties
    <3> QED BY <2>1, <2>2, <3>2
  <2>7. d2.credit + Handed(d2) = d.credit + Handed(d) + n
    <3>1. (x + n - fits) + (e - (l - fits)) = x + (e - l) + n
      BY <2>1, <2>2
    <3> QED BY <1>6, <2>5, <2>6, <3>1 DEF Handed
  <2>8. d.st # "gone"
    BY <1>1, <1>13 DEF Active
  <2>9. Funds(p, p2, d, d2, c)
    BY <1>5, <2>7, <2>8 DEF Funds
  <2>10. NoWindow(sent \o t, c)
    <3>1. \A i \in 1 .. fits : h[i] \in Nat
      <4>1. \A i \in 1 .. l : h[i] \in 1 .. MaxItems
        BY <1>6, <2>1, ElementOfSeq
      <4>2. \A i \in 1 .. fits : i \in 1 .. l
        BY <2>1, <2>2
      <4> QED BY <4>1, <4>2
    <3>2. \A i \in 1 .. fits : /\ Counted("payload", c, h[i]) \in FrameType
                               /\ Counted("payload", c, h[i]).kind = "payload"
      BY <1>2, <3>1, FrameFacts
    <3>3. sent \in Seq(FrameType) /\ Len(sent) = fits /\ \A i \in 1 .. fits : sent[i].kind = "payload"
      BY <1>8, <2>2, <3>2
    <3>4. NoWindow(t, c)
      BY <1>3, <2>3
    <3>5. PICK a, u : a = Len(t) /\ u = sent \o t
      OBVIOUS
    <3>6. a \in Nat /\ t \in Seq(FrameType)
      BY <3>4, <3>5, LenProperties DEF NoWindow
    <3>7. /\ u \in Seq(FrameType) /\ Len(u) = fits + a
          /\ \A i \in 1 .. fits + a : u[i] = IF i <= fits THEN sent[i] ELSE t[i - fits]
      BY <3>3, <3>5, <3>6, ConcatProperties
    <3>8. ASSUME NEW i \in 1 .. fits + a PROVE ~IsWindow(u[i], c)
      <4>1. CASE i <= fits
        <5>1. i \in 1 .. fits
          BY <2>2, <3>6, <4>1
        <5> QED BY <3>3, <3>7, <4>1, <5>1 DEF IsWindow
      <4>2. CASE ~(i <= fits)
        <5>1. i - fits \in 1 .. a
          BY <2>2, <3>6, <4>2
        <5> QED BY <3>4, <3>5, <3>7, <4>2, <5>1 DEF NoWindow
      <4> QED BY <4>1, <4>2
    <3> QED BY <3>5, <3>7, <3>8 DEF NoWindow
  <2>11. d2.input <= d.input
    BY <2>1, <2>5
  <2>12. Charges(p, p2, q, q2, d, d2, c)
    BY <1>5, <2>4, <2>5, <2>10, <2>11 DEF Charges
  <2> QED BY <1>1, <1>5, <2>9, <2>12 DEF Trade
<1> QED BY <1>4, <1>6, <1>7, <1>8, <1>9, <1>10, <1>11, <1>12, <1>13

(* What such a step leaves.                                                   *)
LEMMA TradeCredit ==
    ASSUME PeerInv, CreditInv, NEW c \in Call, DaemonOK(daemon'[c], c),
           Trade(toDaemon, toDaemon', toClient, toClient', daemon[c], daemon'[c], c)
    PROVE  CreditOK(toDaemon', outbox, toClient', duplex[c], client[c], daemon'[c], c)
<1>1. /\ toDaemon \in Seq(SentType) /\ outbox \in Seq(BatchType) /\ toClient \in Seq(FrameType)
      /\ duplex[c] \in DuplexRequest /\ DaemonOK(daemon[c], c) /\ client[c].got \in Nat
      /\ c \in Id /\ LinkInv
  BY CreditTypes
<1>3. DaemonOK(daemon'[c], c)
  OBVIOUS
<1>4. c \in Duplex => MessagesOK(toDaemon, outbox, duplex[c], client[c], daemon[c], c)
  BY DEF PeerInv, MessagesInv
<1>5. Trade(toDaemon, toDaemon', toClient, toClient', daemon[c], daemon'[c], c)
  OBVIOUS
<1>6. PICK p, p2, o, q, q2, x, k, d, d2 :
        /\ p = toDaemon /\ p2 = toDaemon' /\ o = outbox /\ q = toClient /\ q2 = toClient'
        /\ x = duplex[c] /\ k = client[c] /\ d = daemon[c] /\ d2 = daemon'[c]
  OBVIOUS
<1>7. CreditOK(p, o, q, x, k, d, c)
  BY <1>6 DEF CreditInv
<1>8. ASSUME k.st \in {"idle", "live"} PROVE Lent(p2, o, k, d2, c)
  <2>1. Lent(p, o, k, d, c) /\ Funds(p, p2, d, d2, c) /\ (p2 = p \/ (p # <<>> /\ p2 = Tail(p)))
    BY <1>5, <1>6, <1>7, <1>8 DEF CreditOK, Trade
  <2> QED BY <1>1, <1>3, <1>6, <2>1, FundsLent
<1>9. ASSUME k.st \in {"idle", "live"}, c \in Duplex PROVE Owed(p2, o, q2, x, d2, c)
  <2>1. Owed(p, o, q, x, d, c) /\ Charges(p, p2, q, q2, d, d2, c)
    BY <1>5, <1>6, <1>7, <1>9 DEF CreditOK, Trade
  <2> QED BY <1>1, <1>3, <1>4, <1>6, <1>9, <2>1, ChargesOwed
<1>10. CreditOK(p2, o, q2, x, k, d2, c)
  BY <1>7, <1>8, <1>9 DEF CreditOK
<1> QED BY <1>6, <1>10

(* A step of the daemon.                                                      *)
LEMMA DaemonCreditKept ==
    ASSUME PeerInv, CreditInv, NEW c \in Call, DaemonReceives(c) \/ Handler(c)
    PROVE  CreditOK(toDaemon', outbox, toClient', duplex[c], client[c], daemon'[c], c)
<1>1. DaemonOK(daemon[c], c) /\ LinkInv
  BY CreditTypes
<1>2. DaemonKnown(c) /\ (DaemonStart(c) => daemon[c].st = "absent")
  BY StartsOnce DEF PeerInv
<1>3. DaemonOK(daemon'[c], c)
  BY <1>1, <1>2, DaemonStepOf DEF PeerInv
<1>4. c \in Duplex => MessagesOK(toDaemon, outbox, duplex[c], client[c], daemon[c], c)
  BY DEF PeerInv, MessagesInv
<1>5. Trade(toDaemon, toDaemon', toClient, toClient', daemon[c], daemon'[c], c)
  <2>1. c \in Duplex /\ daemon[c].st = "running" => daemon[c].seen > 0
    BY <1>4, MessageParts
  <2> QED BY <1>2, <2>1, ShortTrade, PayloadTrade, HandlerTrade, CreditTrade
             DEF DaemonReceives, Handler
<1> QED BY <1>3, <1>5, TradeCredit

(* An oversized payload gives the call up.                                    *)
LEMMA OversizedCredit ==
    ASSUME PeerInv, CreditInv, NEW c \in Call, DaemonOversized(c)
    PROVE  CreditOK(toDaemon', outbox, toClient', duplex[c], client[c], daemon'[c], c)
<1>1. LinkInv /\ DaemonKnown(c)
  BY CreditTypes, StartsOnce DEF PeerInv
<1>2. DaemonOK(daemon'[c], c)
  BY <1>1, OversizedStepOf DEF PeerInv
<1>3. PICK s, m, k : Torn(c, s, m, k)
  BY <1>1, OversizedTears
<1>4. PICK d, a, e : d = daemon[c] /\ a = Abandoned(d) /\ e = TornOf(d)
  OBVIOUS
<1>5. d \in DaemonRecord /\ d.input \in Nat /\ DaemonOK(d, c)
  BY <1>4, CreditTypes DEF DaemonOK, DaemonRecord
<1>6. a.input = 0 /\ a.st = "gone" /\ a \in DaemonRecord
  <2>1. DaemonOK(a, c)
    BY <1>3, <1>4, <1>5, AbandonedOK DEF Torn, Tears
  <2> QED BY <1>4, <1>5, <2>1 DEF Abandoned, DaemonRecord, DaemonOK
<1>7. e.input = 0 /\ e.st = "gone"
  BY <1>4, <1>6 DEF TornOf, DaemonRecord
<1>8. daemon'[c] = e
  BY <1>1, <1>3, <1>4 DEF Torn, DaemonKnown
<1>9. NoWindow(s, c)
  <2>1. Speaks(s, c)
    BY <1>3 DEF Torn, Tears
  <2>2. PICK l, h : l = Len(s) /\ h = Handed(d)
    OBVIOUS
  <2>3. /\ m \in Nat /\ k \in 1 .. m /\ l \in {m, m + 1} /\ s[k] = EndError(c)
        /\ \A i \in 1 .. m : i # k => s[i] = Counted("payload", c, h + i)
        /\ l = m + 1 => s[m + 1] = EndOk(c)
    BY <1>3, <1>4, <2>2 DEF Torn, Tears
  <2>4. /\ EndError(c).kind = "end" /\ EndOk(c).kind = "end"
        /\ \A n : Counted("payload", c, n).kind = "payload"
    BY DEF EndError, EndOk, Counted
  <2>5. ASSUME NEW i \in 1 .. l PROVE ~IsWindow(s[i], c)
    <3>1. i \in 1 .. m \/ (i = m + 1 /\ l = m + 1)
      BY <2>3
    <3>2. s[i] \in {EndError(c), EndOk(c), Counted("payload", c, h + i)}
      BY <2>3, <3>1
    <3> QED BY <2>4, <3>2 DEF IsWindow
  <2> QED BY <2>1, <2>2, <2>5 DEF Speaks, NoWindow
<1>10. e.input <= d.input
  BY <1>5, <1>7
<1>11. toDaemon # <<>> /\ toDaemon' = Tail(toDaemon) /\ toClient' = toClient \o s
  BY <1>3 DEF Torn
<1>12. Trade(toDaemon, toDaemon', toClient, toClient', d, e, c)
  BY <1>7, <1>9, <1>10, <1>11, GoneTrade
<1> QED BY <1>2, <1>4, <1>8, <1>12, TradeCredit

-----------------------------------------------------------------------------
(* Transmission.                                                              *)

(* The batches behind the first.                                              *)
LEMMA RefundingTail ==
    ASSUME NEW o \in Seq(BatchType), o # <<>>, NEW c, \A i \in 1 .. Len(o) : Refunding(o[i], c)
    PROVE  /\ \A i \in 1 .. Len(Tail(o)) : Refunding(Tail(o)[i], c)
           /\ 1 \in 1 .. Len(o) /\ Tail(o) \in Seq(BatchType)
<1>0. Len(o) \in Nat /\ Len(o) # 0
  BY LenProperties, EmptySeq
<1>1. PICK n, t : n = Len(o) /\ n \in Nat /\ n # 0 /\ t = Tail(o)
  BY <1>0
<1>2. Len(t) = n - 1 /\ (\A i \in 1 .. n - 1 : t[i] = o[i + 1]) /\ t \in Seq(BatchType)
  BY <1>1, HeadTailProperties
<1>3. 1 \in 1 .. n /\ \A i \in 1 .. n - 1 : i + 1 \in 1 .. n
  BY <1>1
<1> QED BY <1>1, <1>2, <1>3

(* Frames under way, and one more.                                            *)
LEMMA WindowsAppend ==
    ASSUME NEW p \in Seq(SentType), NEW e \in SentType, NEW c,
           \A i \in Marks(p, "window", c) : p[i].frame.n = 1,
           IsWindow(e.frame, c) => e.frame.n = 1
    PROVE  \A i \in Marks(Append(p, e), "window", c) : Append(p, e)[i].frame.n = 1
<1>1. PICK n, r : n = Len(p) /\ n \in Nat /\ r = Append(p, e)
  BY LenProperties
<1>2. r[n + 1] = e /\ \A i \in 1 .. n : r[i] = p[i]
  BY <1>1, AppendProperties
<1>3. \A i \in Marks(r, "window", c) :
         \/ i \in Marks(p, "window", c)
         \/ i = n + 1 /\ IsWindow(e.frame, c)
  BY <1>1, MarksAppend DEF IsWindow
<1>4. \A i \in Marks(p, "window", c) : i \in 1 .. n
  BY <1>1 DEF Marks
<1> QED BY <1>1, <1>2, <1>3, <1>4

(* The loan when a batch is dropped, or transmitted to its end.               *)
LEMMA LentTail ==
    ASSUME NEW p \in Seq(SentType), NEW p2, NEW o \in Seq(BatchType), o # <<>>, NEW k, NEW d, NEW c,
           DaemonOK(d, c), k.got \in Nat, Lent(p, o, k, d, c), NEW b, b = o[1],
           \/ p2 = p
           \/ \E e \in SentType : /\ e.frame = b.frames[1] /\ p2 = Append(p, e)
                                  /\ Len(b.frames) = 1
    PROVE  Lent(p2, Tail(o), k, d, c)
<1>1. /\ \A i \in Marks(p, "window", c) : p[i].frame.n = 1
      /\ \A i \in 1 .. Len(o) : Refunding(o[i], c)
  BY DEF Lent
<1>2. /\ \A i \in 1 .. Len(Tail(o)) : Refunding(Tail(o)[i], c)
      /\ 1 \in 1 .. Len(o) /\ Tail(o) \in Seq(BatchType)
  BY <1>1, RefundingTail
<1>3. Refunding(b, c)
  BY <1>1, <1>2
<1>4. PICK x, h, m, m2, r, r2 :
        /\ x = d.credit /\ h = Handed(d) /\ m = Marked(p, "window", c)
        /\ m2 = Marked(p2, "window", c) /\ r = Refunded(o, c) /\ r2 = Refunded(Tail(o), c)
  OBVIOUS
<1>5. x \in Nat /\ h \in Nat /\ m \in Nat /\ r \in Nat /\ r2 \in Nat
  <2>1. x \in Nat /\ h \in Nat
    BY <1>4, DaemonFields, PeerConstants
  <2>2. m \in Nat
    BY <1>4, MarkedNat
  <2>3. r \in Nat
    BY <1>4, RefundedNat
  <2>4. r2 \in Nat
    BY <1>2, <1>4, RefundedNat
  <2> QED BY <2>1, <2>2, <2>3, <2>4
<1>6. /\ IsWindow(b.frames[1], c) => r = r2 + 1
      /\ ~IsWindow(b.frames[1], c) => r = r2
  BY <1>4, RefundedTail
<1>7. /\ m2 \in Nat /\ m2 + r2 <= m + r
      /\ \A i \in Marks(p2, "window", c) : p2[i].frame.n = 1
  <2>1. CASE p2 = p
    <3>1. m2 = m
      BY <1>4, <2>1
    <3>2. m2 \in Nat /\ m2 + r2 <= m + r
      BY <1>5, <1>6, <3>1
    <3> QED BY <1>1, <2>1, <3>2
  <2>2. ASSUME NEW e \in SentType, e.frame = b.frames[1], p2 = Append(p, e), Len(b.frames) = 1
        PROVE  /\ m2 \in Nat /\ m2 + r2 <= m + r
               /\ \A i \in Marks(p2, "window", c) : p2[i].frame.n = 1
    <3>1. /\ IsWindow(b.frames[1], c) => m2 = m + 1
          /\ ~IsWindow(b.frames[1], c) => m2 = m
      BY <1>4, <2>2, MarkedAppend DEF IsWindow
    <3>2. m2 \in Nat /\ m2 + r2 <= m + r
      BY <1>5, <1>6, <3>1
    <3>3. IsWindow(e.frame, c) => e.frame.n = 1
      <4>1. 1 \in 1 .. Len(b.frames)
        BY <2>2
      <4> QED BY <1>3, <2>2, <4>1 DEF Refunding
    <3> QED BY <1>1, <2>2, <3>2, <3>3, WindowsAppend
  <2> QED BY <2>1, <2>2
<1>8. Loan(p, o, d, c) = x + h + m + r /\ Loan(p2, Tail(o), d, c) = x + h + m2 + r2
  BY <1>4 DEF Loan
<1>9. x + h + m + r \in Nat /\ x + h + m2 + r2 \in Nat /\ x + h + m2 + r2 <= x + h + m + r + 0
  <2>1. m2 \in Nat /\ m2 + r2 <= m + r
    BY <1>7
  <2> QED BY <1>5, <2>1
<1>10. k.got = k.got + 0 /\ 0 \in Nat
  OBVIOUS
<1>11. \A i \in Marks(p2, "window", c) : p2[i].frame.n = 1
  BY <1>7
<1> QED BY <1>2, <1>8, <1>9, <1>10, <1>11, LentStep

(* The first frame of the first batch, b, has left it: b2 is the rest.        *)
Divided(o, o2, b, b2) ==
    /\ b = o[1] /\ Len(b.frames) \in Nat /\ Len(b.frames) > 1
    /\ Len(o2) = Len(o) /\ \A i \in 2 .. Len(o) : o2[i] = o[i]
    /\ b2 = o2[1] /\ Len(b2.frames) = Len(b.frames) - 1
    /\ \A i \in 1 .. Len(b.frames) - 1 : b2.frames[i] = b.frames[i + 1]

(* The loan when the first frame of a batch is transmitted.                   *)
LEMMA LentSplit ==
    ASSUME NEW p \in Seq(SentType), NEW o \in Seq(BatchType), o # <<>>, NEW k, NEW d, NEW c,
           DaemonOK(d, c), k.got \in Nat, Lent(p, o, k, d, c),
           NEW b, NEW b2, NEW o2, Divided(o, o2, b, b2),
           NEW e \in SentType, e.frame = b.frames[1]
    PROVE  Lent(Append(p, e), o2, k, d, c)
<1>0. /\ b = o[1] /\ Len(b.frames) \in Nat /\ Len(b.frames) > 1
      /\ Len(o2) = Len(o) /\ \A i \in 2 .. Len(o) : o2[i] = o[i]
      /\ b2 = o2[1] /\ Len(b2.frames) = Len(b.frames) - 1
      /\ \A i \in 1 .. Len(b.frames) - 1 : b2.frames[i] = b.frames[i + 1]
  BY DEF Divided
<1>1. /\ \A i \in Marks(p, "window", c) : p[i].frame.n = 1
      /\ \A i \in 1 .. Len(o) : Refunding(o[i], c)
  BY DEF Lent
<1>2. 1 \in 1 .. Len(o)
  BY <1>1, RefundingTail
<1>3. PICK n : n = Len(b.frames) /\ n \in Nat /\ n > 1
  BY <1>0
<1>4. \A j \in 1 .. n : ~IsWindow(b.frames[j], c)
  <2>1. Refunding(b, c)
    BY <1>0, <1>1, <1>2
  <2> QED BY <1>3, <2>1 DEF Refunding
<1>5. \A j \in 1 .. n - 1 : j + 1 \in 1 .. n
  BY <1>3
<1>6. \A j \in 1 .. n - 1 : ~IsWindow(b2.frames[j], c)
  BY <1>0, <1>3, <1>4, <1>5
<1>7. 1 \in 1 .. n /\ 1 \in 1 .. n - 1
  BY <1>3
<1>8. Refunding(b2, c) /\ ~IsWindow(b2.frames[1], c) /\ ~IsWindow(b.frames[1], c)
  <2>1. Len(b2.frames) = n - 1
    BY <1>0, <1>3
  <2> QED BY <1>3, <1>4, <1>6, <1>7, <2>1 DEF Refunding
<1>9. PICK l : l = Len(o) /\ l \in Nat
  BY LenProperties
<1>10. \A i \in 1 .. l : i = 1 \/ i \in 2 .. l
  BY <1>9
<1>11. \A i \in 1 .. Len(o2) : Refunding(o2[i], c)
  BY <1>0, <1>1, <1>8, <1>9, <1>10
<1>12. Refunds(o2, c) = Refunds(o, c)
  BY <1>0, <1>8, <1>9, <1>10 DEF Refunds
<1>13. Marked(Append(p, e), "window", c) = Marked(p, "window", c)
  BY <1>8, MarkedAppend DEF IsWindow
<1>14. \A i \in Marks(Append(p, e), "window", c) : Append(p, e)[i].frame.n = 1
  BY <1>1, <1>8, WindowsAppend
<1>15. Loan(Append(p, e), o2, d, c) = Loan(p, o, d, c)
  BY <1>12, <1>13 DEF Loan, Refunded
<1> QED BY <1>11, <1>14, <1>15 DEF Lent

(* The debt when a batch is dropped.                                          *)
LEMMA OwedDrop ==
    ASSUME NEW p, NEW o \in Seq(BatchType), o # <<>>, NEW q, NEW x, NEW k, NEW d, NEW c,
           MessagesOK(p, o, x, k, d, c), \A i \in 1 .. Len(o) : BatchOK(o[i]),
           Owed(p, o, q, x, d, c), NEW b, b = o[1], b.signal # c
    PROVE  Owed(p, Tail(o), q, x, d, c)
<1>1. (\A i \in 1 .. Len(o) : Shape(o[i], c)) /\ \A i, j \in Waiting(o, c) : i = j
  BY MessageParts
<1>2. Leaves(o, Tail(o), b, c)
  BY <1>1, OutTail
<1>3. ~IsStart(b.frames[1], c)
  <2>1. 1 \in 1 .. Len(o)
    BY LenProperties, EmptySeq
  <2>2. Shape(b, c) /\ 1 \in 1 .. Len(b.frames)
    BY <1>1, <2>1, BatchFrames
  <2> QED BY <2>2 DEF Shape, IsStart
<1>4. Waits(Tail(o), c) = Waits(o, c) /\ (Opens(Tail(o), c) = {} <=> Opens(o, c) = {})
  BY <1>2, <1>3 DEF Leaves, Waits
<1> QED BY <1>4 DEF Owed, Debt, Alive

(* The debt when it is transmitted to its end.                                *)
LEMMA OwedPass ==
    ASSUME NEW p \in Seq(SentType), NEW o \in Seq(BatchType), o # <<>>, NEW q \in Seq(FrameType),
           NEW x \in DuplexRequest, NEW k, NEW d, NEW c, DaemonOK(d, c),
           MessagesOK(p, o, x, k, d, c), \A i \in 1 .. Len(o) : BatchOK(o[i]),
           Owed(p, o, q, x, d, c), NEW b, b = o[1], Len(b.frames) = 1,
           NEW e \in SentType, e.frame = b.frames[1]
    PROVE  Owed(Append(p, e), Tail(o), q, x, d, c)
<1>1. (\A i \in 1 .. Len(o) : Shape(o[i], c)) /\ \A i, j \in Waiting(o, c) : i = j
  BY MessageParts
<1>2. Leaves(o, Tail(o), b, c)
  BY <1>1, OutTail
<1>3. Shape(b, c) /\ 1 \in 1 .. Len(b.frames)
  <2>1. 1 \in 1 .. Len(o)
    BY LenProperties, EmptySeq
  <2> QED BY <1>1, <2>1, BatchFrames
<1>4. ~IsStart(e.frame, c)
  BY <1>3 DEF Shape, IsStart
<1>5. Opens(Tail(o), c) = {} <=> Opens(o, c) = {}
  BY <1>2, <1>4 DEF Leaves
<1>6. Marks(Append(p, e), "start", c) # {} => Marks(p, "start", c) # {}
  BY <1>4, MarksAppend DEF IsStart
<1>7. PICK v, w, w2, m, m2, i, g :
        /\ v = x.credit /\ w = Waits(o, c) /\ w2 = Waits(Tail(o), c)
        /\ m = Marked(p, "payload", c) /\ m2 = Marked(Append(p, e), "payload", c)
        /\ i = d.input /\ g = Granted(q, c)
  OBVIOUS
<1>8. v \in Nat /\ w \in {0, 1} /\ m \in Nat /\ i \in Nat /\ g \in Nat
  BY <1>7, SumsNat
<1>9. w2 + m2 = w + m
  <2>1. CASE b.signal = c
    <3>1. IsPayload(e.frame, c)
      BY <1>3, <2>1 DEF Shape, IsPayload
    <3>2. m2 = m + 1 /\ w = 1 /\ w2 = 0
      BY <1>2, <1>7, <2>1, <3>1, MarkedAppend DEF Leaves, Waits, IsPayload
    <3> QED BY <1>8, <3>2
  <2>2. CASE b.signal # c
    <3>1. ~IsPayload(e.frame, c)
      BY <1>3, <2>2 DEF Shape, IsPayload
    <3>2. m2 = m /\ w2 = w
      BY <1>2, <1>7, <2>2, <3>1, MarkedAppend DEF Leaves, Waits, IsPayload
    <3> QED BY <3>2
  <2> QED BY <2>1, <2>2
<1>10. w2 \in Nat /\ m2 \in Nat
  <2>1. w2 \in {0, 1}
    BY <1>7 DEF Waits
  <2>2. m2 = m + 1 \/ m2 = m
    BY <1>7, MarkedAppend
  <2> QED BY <1>8, <2>1, <2>2
<1>11. v + w2 + m2 + i + g = v + w + m + i + g
  BY <1>8, <1>9, <1>10
<1>12. Debt(Append(p, e), Tail(o), q, x, d, c) = Debt(p, o, q, x, d, c)
  BY <1>7, <1>11 DEF Debt
<1>13. Alive(Append(p, e), Tail(o), d, c) => Alive(p, o, d, c)
  BY <1>5, <1>6 DEF Alive
<1> QED BY <1>12, <1>13 DEF Owed

(* The debt when the first frame of it is.                                    *)
LEMMA OwedSplit ==
    ASSUME NEW p \in Seq(SentType), NEW o \in Seq(BatchType), o # <<>>, NEW q,
           NEW x, NEW k, NEW d, NEW c,
           MessagesOK(p, o, x, k, d, c), \A i \in 1 .. Len(o) : BatchOK(o[i]),
           Owed(p, o, q, x, d, c), NEW b, b = o[1], Len(b.frames) > 1,
           NEW e \in SentType, e.frame = b.frames[1],
           NEW o2, Len(o2) = Len(o), \A i \in 2 .. Len(o) : o2[i] = o[i],
           NEW b2, b2 = o2[1], b2.signal = b.signal, Len(b2.frames) = Len(b.frames) - 1,
           \A i \in 1 .. Len(b.frames) - 1 : b2.frames[i] = b.frames[i + 1]
    PROVE  Owed(Append(p, e), o2, q, x, d, c)
<1>1. (\A i \in 1 .. Len(o) : Shape(o[i], c))
  BY MessageParts
<1>2. PICK l : l = Len(o) /\ l \in Nat /\ l # 0
  BY LenProperties, EmptySeq
<1>3. 1 \in 1 .. l /\ \A i \in 1 .. l : i = 1 \/ i \in 2 .. l
  BY <1>2
<1>4. PICK n : n = Len(b.frames) /\ n \in Nat /\ n > 1
  BY <1>2, <1>3, BatchFrames
<1>5. 1 \in 1 .. n /\ 1 + 1 = 2 /\ 1 \in 1 .. n - 1
  BY <1>4
<1>6. Shape(b, c)
  BY <1>1, <1>2, <1>3
<1>7. Waits(o2, c) = Waits(o, c)
  <2>1. Waiting(o2, c) = Waiting(o, c)
    BY <1>2, <1>3 DEF Waiting
  <2> QED BY <2>1 DEF Waits
<1>8. ~IsPayload(e.frame, c)
  BY <1>4, <1>5, <1>6 DEF Shape, IsPayload
<1>9. Marked(Append(p, e), "payload", c) = Marked(p, "payload", c)
  BY <1>8, MarkedAppend DEF IsPayload
<1>10. ASSUME Marks(Append(p, e), "start", c) # {} \/ Opens(o2, c) # {}
       PROVE  Marks(p, "start", c) # {} \/ Opens(o, c) # {}
  <2>1. CASE b.signal = c
    <3>1. IsStart(b.frames[1], c)
      BY <1>4, <1>5, <1>6, <2>1 DEF Shape, IsStart
    <3>2. 1 \in Opens(o, c)
      BY <1>2, <1>3, <3>1 DEF Opens
    <3> QED BY <3>2
  <2>2. CASE b.signal # c
    <3>1. \A j \in 1 .. n : b.frames[j].call # c
      BY <1>4, <1>6, <2>2 DEF Shape
    <3>2. ~IsStart(e.frame, c) /\ ~IsStart(b2.frames[1], c)
      <4>1. b2.frames[1] = b.frames[2] /\ 2 \in 1 .. n
        BY <1>4, <1>5
      <4> QED BY <1>5, <3>1, <4>1 DEF IsStart
    <3>3. Opens(o2, c) \subseteq Opens(o, c)
      BY <1>2, <1>3, <3>2 DEF Opens
    <3>4. Marks(Append(p, e), "start", c) # {} => Marks(p, "start", c) # {}
      BY <3>2, MarksAppend DEF IsStart
    <3> QED BY <1>10, <3>3, <3>4
  <2> QED BY <2>1, <2>2
<1>11. Alive(Append(p, e), o2, d, c) => Alive(p, o, d, c)
  BY <1>10 DEF Alive
<1> QED BY <1>7, <1>9, <1>11 DEF Owed, Debt

(* The sender transmits the next frame, or drops a batch.                     *)
LEMMA TransmitCredit ==
    ASSUME PeerInv, CreditInv, Transmit, UNCHANGED incoming, NEW c \in Call
    PROVE  CreditOK(toDaemon', outbox', toClient, duplex[c], client[c], daemon[c], c)
<1> SUFFICES ASSUME client[c].st \in {"idle", "live"}
             PROVE  CreditOK(toDaemon', outbox', toClient, duplex[c], client[c], daemon[c], c)
  BY DEF CreditOK
<1>1. /\ toDaemon \in Seq(SentType) /\ outbox \in Seq(BatchType) /\ toClient \in Seq(FrameType)
      /\ duplex[c] \in DuplexRequest /\ DaemonOK(daemon[c], c) /\ client[c].got \in Nat
      /\ LinkInv /\ \A i \in 1 .. Len(outbox) : BatchOK(outbox[i])
  BY CreditTypes
<1>2. PICK p, o, q, x, k, d : /\ p = toDaemon /\ o = outbox /\ q = toClient
                              /\ x = duplex[c] /\ k = client[c] /\ d = daemon[c]
  OBVIOUS
<1>3. Lent(p, o, k, d, c) /\ (c \in Duplex => Owed(p, o, q, x, d, c))
  BY <1>2 DEF CreditInv, CreditOK
<1>4. c \in Duplex => MessagesOK(p, o, x, k, d, c)
  BY <1>2 DEF PeerInv, MessagesInv
<1>5. c \notin aborted
  BY DEF PeerInv, BooksInv
<1>6. PICK b : b = Head(o)
  OBVIOUS
<1>7. PICK e, rest : e = [frame |-> b.frames[1], gap |-> skipped] /\ rest = Tail(b.frames)
  OBVIOUS
<1>8. /\ o # <<>> /\ b = o[1] /\ Len(b.frames) \in Nat
      /\ \/ outbox' = Tail(o) /\ toDaemon' = p /\ b.signal \in aborted
         \/ /\ toDaemon' = Append(p, e) /\ e \in SentType
            /\ \/ outbox' = Tail(o) /\ Len(b.frames) = 1
               \/ /\ Len(b.frames) > 1 /\ Len(outbox') = Len(o)
                  /\ outbox'[1] = Batch(rest, b.signal)
                  /\ Len(rest) = Len(b.frames) - 1
                  /\ \A i \in 1 .. Len(b.frames) - 1 : rest[i] = b.frames[i + 1]
                  /\ \A i \in 2 .. Len(o) : outbox'[i] = o[i]
  BY <1>1, <1>2, <1>6, <1>7, TransmitFacts
<1>9. /\ p \in Seq(SentType) /\ o \in Seq(BatchType) /\ q \in Seq(FrameType)
      /\ x \in DuplexRequest /\ DaemonOK(d, c) /\ k.got \in Nat /\ o # <<>> /\ b = o[1]
      /\ Len(b.frames) \in Nat /\ \A i \in 1 .. Len(o) : BatchOK(o[i])
  BY <1>1, <1>2, <1>8
<1>10. e.frame = b.frames[1]
  BY <1>7
<1>11. ASSUME Lent(toDaemon', outbox', k, d, c),
              c \in Duplex => Owed(toDaemon', outbox', q, x, d, c)
       PROVE  CreditOK(toDaemon', outbox', toClient, duplex[c], client[c], daemon[c], c)
  BY <1>2, <1>11 DEF CreditInv, CreditOK
<1>12. CASE outbox' = Tail(o) /\ toDaemon' = p /\ b.signal \in aborted
  <2>1. Lent(p, Tail(o), k, d, c)
    BY <1>3, <1>9, LentTail
  <2>2. b.signal # c
    BY <1>5, <1>12
  <2>3. c \in Duplex => Owed(p, Tail(o), q, x, d, c)
    BY <1>3, <1>4, <1>9, <2>2, OwedDrop
  <2> QED BY <1>11, <1>12, <2>1, <2>3
<1>13. CASE /\ toDaemon' = Append(p, e) /\ e \in SentType
            /\ outbox' = Tail(o) /\ Len(b.frames) = 1
  <2>1. Lent(Append(p, e), Tail(o), k, d, c)
    BY <1>3, <1>9, <1>10, <1>13, LentTail
  <2>2. c \in Duplex => Owed(Append(p, e), Tail(o), q, x, d, c)
    BY <1>3, <1>4, <1>9, <1>10, <1>13, OwedPass
  <2> QED BY <1>11, <1>13, <2>1, <2>2
<1>14. CASE /\ toDaemon' = Append(p, e) /\ e \in SentType
            /\ Len(b.frames) > 1 /\ Len(outbox') = Len(o)
            /\ outbox'[1] = Batch(rest, b.signal)
            /\ Len(rest) = Len(b.frames) - 1
            /\ \A i \in 1 .. Len(b.frames) - 1 : rest[i] = b.frames[i + 1]
            /\ \A i \in 2 .. Len(o) : outbox'[i] = o[i]
  <2>1. PICK b2, o2 : b2 = Batch(rest, b.signal) /\ o2 = outbox'
    OBVIOUS
  <2>2. b2.frames = rest /\ b2.signal = b.signal
    BY <2>1 DEF Batch
  <2>3. /\ b2 = o2[1] /\ Len(o2) = Len(o) /\ Len(b2.frames) = Len(b.frames) - 1
        /\ \A i \in 1 .. Len(b.frames) - 1 : b2.frames[i] = b.frames[i + 1]
        /\ \A i \in 2 .. Len(o) : o2[i] = o[i]
    BY <1>14, <2>1, <2>2
  <2>4. e \in SentType /\ Len(b.frames) > 1
    BY <1>14
  <2>5. Lent(Append(p, e), o2, k, d, c)
    <3>1. /\ p \in Seq(SentType) /\ o \in Seq(BatchType) /\ o # <<>> /\ b = o[1]
          /\ DaemonOK(d, c) /\ k.got \in Nat /\ Len(b.frames) \in Nat /\ Lent(p, o, k, d, c)
      BY <1>3, <1>9
    <3>2. Divided(o, o2, b, b2)
      BY <1>9, <2>3, <2>4 DEF Divided
    <3> QED BY <1>10, <2>4, <3>1, <3>2, LentSplit
  <2>6. c \in Duplex => Owed(Append(p, e), o2, q, x, d, c)
    BY <1>3, <1>4, <1>9, <1>10, <2>2, <2>3, <2>4, OwedSplit
  <2> QED BY <1>11, <1>14, <2>1, <2>5, <2>6
<1> QED BY <1>8, <1>12, <1>13, <1>14

-----------------------------------------------------------------------------
(* A call that was not started, when nothing is under way.                    *)
LEMMA NothingCredit ==
    ASSUME NEW x, x.credit = InputCredit, NEW c
    PROVE  CreditOK(<<>>, <<>>, <<>>, x, NewClient, NewDaemon, c)
<1>1. Len(<<>>) = 0 /\ 1 .. 0 = {}
  OBVIOUS
<1>2. /\ \A kind : Marks(<<>>, kind, c) = {}
      /\ Grants(<<>>, c) = {} /\ Refunds(<<>>, c) = {} /\ Waiting(<<>>, c) = {}
      /\ Opens(<<>>, c) = {}
  BY <1>1 DEF Marks, Grants, Refunds, Waiting, Opens
<1>3. Cardinality({}) = 0
  BY FS_EmptySet
<1>4. /\ \A kind : Marked(<<>>, kind, c) = 0
      /\ Granted(<<>>, c) = 0 /\ Refunded(<<>>, c) = 0 /\ Waits(<<>>, c) = 0
  BY <1>2, <1>3 DEF Marked, Granted, Refunded, Waits
<1>5. /\ NewDaemon.credit = Credit /\ Handed(NewDaemon) = 0 /\ NewDaemon.input = 0
      /\ NewClient.got = 0 /\ NewClient.st = "idle"
  BY DEF NewDaemon, NewClient, Handed
<1>6. Credit + 0 + 0 + 0 <= Credit + 0 /\ InputCredit + 0 + 0 + 0 + 0 = InputCredit
      /\ InputCredit <= InputCredit
  BY PeerConstants
<1>7. Loan(<<>>, <<>>, NewDaemon, c) <= Credit + NewClient.got
  BY <1>4, <1>5, <1>6 DEF Loan
<1>8. Debt(<<>>, <<>>, <<>>, x, NewDaemon, c) = InputCredit
  BY <1>4, <1>5, <1>6 DEF Debt
<1>9. Lent(<<>>, <<>>, NewClient, NewDaemon, c)
  BY <1>1, <1>2, <1>7 DEF Lent
<1>10. Owed(<<>>, <<>>, <<>>, x, NewDaemon, c)
  BY <1>6, <1>8 DEF Owed
<1> QED BY <1>5, <1>9, <1>10 DEF CreditOK

LEMMA InitCredit == Init => CreditInv
<1> SUFFICES ASSUME Init, NEW c \in Call
             PROVE  CreditOK(toDaemon, outbox, toClient, duplex[c], client[c], daemon[c], c)
  BY DEF CreditInv
<1>1. duplex[c] = NewDuplex /\ client[c] = NewClient /\ daemon[c] = NewDaemon
  BY DEF Init, PeerInit, PeerInitBut, NewDaemon, NewClient, NewDuplex
<1>2. outbox = <<>> /\ toDaemon = <<>> /\ toClient = <<>>
  BY DEF Init, LinkInit
<1>3. NewDuplex.credit = InputCredit
  BY DEF NewDuplex
<1> QED BY <1>1, <1>2, <1>3, NothingCredit

(* The connection ends: no call is live any more.                             *)
LEMMA TerminateCredit ==
    ASSUME PeerInv, NEW reason, Terminate(reason)
    PROVE  CreditInv'
<1> SUFFICES ASSUME NEW c \in Call, client'[c].st \in {"idle", "live"}
             PROVE  CreditOK(toDaemon', outbox', toClient', duplex'[c], client'[c], daemon'[c], c)
  BY DEF CreditInv, CreditOK
<1>1. outbox' = <<>> /\ toDaemon' = <<>> /\ toClient' = <<>>
  BY DEF Terminate, Down
<1>2. /\ client[c] \in ClientCall /\ ClientOK(client[c]) /\ DuplexOK(duplex[c], client[c], c)
      /\ duplex[c] \in DuplexRequest
  BY CallRecords DEF PeerInv
<1>3. c \notin Pending
  BY <1>2 DEF Terminate, ClientCall
<1>4. client'[c] = client[c] /\ client[c].st = "idle"
  BY <1>3 DEF Terminate, Pending
<1>5. client[c] = NewClient /\ duplex[c] = NewDuplex
  BY <1>2, <1>4 DEF ClientOK, DuplexOK
<1>6. daemon[c] = NewDaemon /\ daemon[c].st = "absent"
  BY <1>4 DEF PeerInv, StartInv, StartOK, DaemonOK
<1>7. daemon'[c] = NewDaemon
  BY <1>6 DEF Terminate, Active
<1>8. duplex'[c].credit = InputCredit
  <2>1. duplex'[c] = Closed(NewDuplex)
    BY <1>5 DEF Terminate
  <2> QED BY <2>1 DEF Closed, NewDuplex
<1> QED BY <1>1, <1>4, <1>5, <1>7, <1>8, NothingCredit

LEMMA NextCredit == PeerInv /\ CreditInv /\ [Next]_vars => CreditInv'
<1> SUFFICES ASSUME PeerInv, CreditInv, [Next]_vars PROVE CreditInv'
  OBVIOUS
<1>1. LinkInv
  BY DEF PeerInv, StartInv
<1>2. ASSUME NEW c \in Call, Caller(c) \/ ClientReceives(c) PROVE CreditInv'
  <2>1. StepOf(c) /\ daemon' = daemon /\ toDaemon' = toDaemon
    BY <1>1, <1>2, CallerStepOf DEF PeerInv
  <2>2. CreditOK(toDaemon, outbox', toClient', duplex'[c], client'[c], daemon[c], c)
    BY <1>2, ClientCredit
  <2>3. CreditOK(toDaemon', outbox', toClient', duplex'[c], client'[c], daemon'[c], c)
    BY <2>1, <2>2
  <2> QED BY <2>1, <2>3, StepsCredit
<1>3. ASSUME NEW c \in Call, DaemonReceives(c) \/ Handler(c) PROVE CreditInv'
  <2>1. DaemonKnown(c) /\ (DaemonStart(c) => daemon[c].st = "absent")
    BY StartsOnce DEF PeerInv
  <2>2. StepOf(c) /\ DaemonKeeps
    BY <1>1, <1>3, <2>1, DaemonStepOf DEF PeerInv
  <2>3. duplex' = duplex /\ client' = client /\ outbox' = outbox
    BY <2>2 DEF DaemonKeeps, callVars
  <2>4. CreditOK(toDaemon', outbox, toClient', duplex[c], client[c], daemon'[c], c)
    BY <1>3, DaemonCreditKept
  <2>5. CreditOK(toDaemon', outbox', toClient', duplex'[c], client'[c], daemon'[c], c)
    BY <2>3, <2>4
  <2> QED BY <2>2, <2>5, StepsCredit
<1>9. ASSUME NEW c \in Call, DaemonOversized(c) PROVE CreditInv'
  <2>1. DaemonKnown(c)
    BY StartsOnce DEF PeerInv
  <2>2. StepOf(c) /\ DaemonKeeps
    BY <1>1, <1>9, <2>1, OversizedStepOf DEF PeerInv
  <2>3. duplex' = duplex /\ client' = client /\ outbox' = outbox
    BY <2>2 DEF DaemonKeeps, callVars
  <2>4. CreditOK(toDaemon', outbox, toClient', duplex[c], client[c], daemon'[c], c)
    BY <1>9, OversizedCredit
  <2>5. CreditOK(toDaemon', outbox', toClient', duplex'[c], client'[c], daemon'[c], c)
    BY <2>3, <2>4
  <2> QED BY <2>2, <2>5, StepsCredit
<1>4. CASE PeerNext
  BY <1>2, <1>3, <1>4, <1>9 DEF PeerNext
<1>5. CASE ReverseNext /\ UNCHANGED peerVars
  <2>1. PICK a \in ReverseId : StepOf(a)
    BY <1>1, <1>5, ReverseStep
  <2>2. a \notin Call
    BY IdsAssumption DEF IdsAssumption
  <2> QED BY <2>1, <2>2, StepsCredit
<1>6. CASE Deliver /\ UNCHANGED reverseVars
  <2>1. Transmit /\ UNCHANGED incoming /\ UNCHANGED <<client, duplex, daemon, toClient>>
    BY <1>6 DEF Deliver, Transmit, reverseVars, peerVars
  <2>2. ASSUME NEW c \in Call
        PROVE  CreditOK(toDaemon', outbox', toClient', duplex'[c], client'[c], daemon'[c], c)
    <3>1. CreditOK(toDaemon', outbox', toClient, duplex[c], client[c], daemon[c], c)
      BY <2>1, TransmitCredit
    <3> QED BY <2>1, <3>1
  <2> QED BY <2>2 DEF CreditInv
<1>7. CASE Ends
  BY <1>7, TerminateCredit DEF Ends, RefuseGap, RefuseFrame, RefuseReverse, Disconnect
<1>8. CASE UNCHANGED vars
  BY <1>8 DEF vars, peerVars, linkVars, CreditInv
<1> QED BY <1>4, <1>5, <1>6, <1>7, <1>8 DEF Next

(* The accounts of the credit hold in every reachable state.                  *)
LEMMA CreditKept == Spec => [](PeerInv /\ CreditInv)
BY InitBooks, NextBooks, InitStart, NextStart, InitResponses, NextResponses,
   InitMessages, NextMessages, InitCredit, NextCredit, PTL DEF Spec, PeerInv

-----------------------------------------------------------------------------
(* What the property counts, in the terms of the invariant.                   *)

(* Payloads under way to a live call are among those handed out and not       *)
(* received.                                                                  *)
LEMMA PaidCount ==
    ASSUME NEW q \in Seq(FrameType), NEW c, NEW h \in Nat, NEW lo \in Nat, lo <= h,
           \A i \in Paid(q, c) : q[i].n > lo /\ q[i].n <= h,
           \A i, j \in Paid(q, c) : i < j => q[i].n < q[j].n
    PROVE  /\ Cardinality(Paid(q, c)) \in Nat
           /\ Cardinality(Paid(q, c)) <= h - lo
<1>1. PICK S : S = Paid(q, c)
  OBVIOUS
<1>2. ASSUME NEW i \in S PROVE i \in Nat /\ q[i].n \in Nat
  <2>1. i \in 1 .. Len(q) /\ Len(q) \in Nat
    BY <1>1, <1>2, LenProperties DEF Paid
  <2>2. q[i] \in FrameType
    BY <2>1
  <2> QED BY <2>1, <2>2 DEF FrameType
<1>3. PICK f : f = [i \in S |-> q[i].n]
  OBVIOUS
<1>4. \A i \in S : f[i] \in lo + 1 .. h
  <2> SUFFICES ASSUME NEW i \in S PROVE f[i] \in lo + 1 .. h
    OBVIOUS
  <2>1. PICK n : n = q[i].n /\ n \in Nat /\ n > lo /\ n <= h
    BY <1>1, <1>2
  <2>2. n \in lo + 1 .. h
    BY <2>1
  <2> QED BY <1>3, <2>1, <2>2
<1>5. ASSUME NEW i \in S, NEW j \in S, f[i] = f[j] PROVE i = j
  <2>1. q[i].n = q[j].n
    BY <1>3, <1>5
  <2>2. q[i].n \in Nat /\ q[j].n \in Nat /\ i \in Nat /\ j \in Nat
    BY <1>2
  <2>3. (i < j => q[i].n < q[j].n) /\ (j < i => q[j].n < q[i].n)
    BY <1>1
  <2>4. ~(i < j) /\ ~(j < i)
    BY <2>1, <2>2, <2>3
  <2> QED BY <2>2, <2>4
<1>6. f \in Injection(S, lo + 1 .. h)
  BY <1>3, <1>4, <1>5 DEF Injection, IsInjective
<1>7. IsFiniteSet(lo + 1 .. h) /\ Cardinality(lo + 1 .. h) = h - lo
  <2>1. lo + 1 \in Int /\ h \in Int
    OBVIOUS
  <2>2. /\ IsFiniteSet(lo + 1 .. h)
        /\ Cardinality(lo + 1 .. h) = IF lo + 1 > h THEN 0 ELSE h - (lo + 1) + 1
    BY <2>1, FS_Interval
  <2> QED BY <2>2
<1>8. IsFiniteSet(S) /\ Cardinality(S) <= h - lo
  BY <1>6, <1>7, FS_Injection
<1>9. Cardinality(S) \in Nat
  BY <1>8, FS_CardinalityType
<1> QED BY <1>1, <1>8, <1>9

(* Where every element of T is that of a place of S, T is not larger.         *)
LEMMA Covered ==
    ASSUME NEW S, IsFiniteSet(S), NEW T, NEW f, f = [i \in S |-> f[i]],
           \A i \in S : f[i] \in T, \A t \in T : \E i \in S : t = f[i]
    PROVE  Cardinality(T) \in Nat /\ Cardinality(T) <= Cardinality(S)
<1>1. f \in Surjection(S, T)
  BY DEF Surjection
<1>2. IsFiniteSet(T) /\ Cardinality(T) <= Cardinality(S)
  BY <1>1, FS_Surjection
<1> QED BY <1>2, FS_CardinalityType

(* The credit that frames of one byte each give back.                         *)
LEMMA CreditCount ==
    ASSUME NEW s, NEW c, IsFiniteSet(Carrying(s, "window", c)),
           \A j \in Carrying(s, "window", c) : s[j].n = 1
    PROVE  /\ CreditBytes(s, c) = {<<j, 1>> : j \in Carrying(s, "window", c)}
           /\ Cardinality(CreditBytes(s, c)) \in Nat
           /\ Cardinality(CreditBytes(s, c)) <= Cardinality(Carrying(s, "window", c))
<1>1. PICK S, T : S = Carrying(s, "window", c) /\ T = CreditBytes(s, c)
  OBVIOUS
<1>2. 1 .. 1 = {1}
  OBVIOUS
<1>3. T = UNION {{j} \X {1} : j \in S}
  BY <1>1, <1>2 DEF CreditBytes
<1>4. T = {<<j, 1>> : j \in S}
  BY <1>3
<1>5. PICK f : f = [j \in S |-> <<j, 1>>]
  OBVIOUS
<1>6. (\A j \in S : f[j] \in T) /\ \A t \in T : \E j \in S : t = f[j]
  BY <1>4, <1>5
<1>7. f = [j \in S |-> f[j]]
  BY <1>5
<1>8. Cardinality(T) \in Nat /\ Cardinality(T) <= Cardinality(S)
  BY <1>1, <1>6, <1>7, Covered
<1> QED BY <1>1, <1>4, <1>8

(* The credit on its way to the daemon.                                       *)
LEMMA InboundCount ==
    ASSUME toDaemon \in Seq(SentType), NEW c
    PROVE  /\ \A kind : Carrying(Inbound, kind, c) = Marks(toDaemon, kind, c)
           /\ (\A i \in Marks(toDaemon, "window", c) : toDaemon[i].frame.n = 1) =>
                 /\ Cardinality(CreditBytes(Inbound, c)) \in Nat
                 /\ Cardinality(CreditBytes(Inbound, c)) <= Marked(toDaemon, "window", c)
<1>1. DOMAIN toDaemon = 1 .. Len(toDaemon)
  BY LenProperties
<1>2. DOMAIN Inbound = 1 .. Len(toDaemon) /\ \A i \in 1 .. Len(toDaemon) : Inbound[i] = toDaemon[i].frame
  BY <1>1 DEF Inbound
<1>3. ASSUME NEW kind PROVE Carrying(Inbound, kind, c) = Marks(toDaemon, kind, c)
  BY <1>2 DEF Carrying, Marks
<1>4. ASSUME \A i \in Marks(toDaemon, "window", c) : toDaemon[i].frame.n = 1
      PROVE  /\ Cardinality(CreditBytes(Inbound, c)) \in Nat
             /\ Cardinality(CreditBytes(Inbound, c)) <= Marked(toDaemon, "window", c)
  <2>1. Carrying(Inbound, "window", c) = Marks(toDaemon, "window", c)
    BY <1>3
  <2>2. IsFiniteSet(Marks(toDaemon, "window", c))
    BY MarkedNat
  <2>3. \A i \in Marks(toDaemon, "window", c) : Inbound[i].n = 1
    BY <1>2, <1>4 DEF Marks
  <2> QED BY <2>1, <2>2, <2>3, CreditCount DEF Marked
<1> QED BY <1>3, <1>4

(* The credit in the queue of the client.                                     *)
LEMMA OutboxCount ==
    ASSUME NEW o \in Seq(BatchType), \A i \in 1 .. Len(o) : BatchOK(o[i]), NEW c,
           \A i \in 1 .. Len(o) : Refunding(o[i], c), NEW T,
           T = UNION {{i} \X CreditBytes(o[i].frames, c) : i \in DOMAIN o}
    PROVE  Cardinality(T) \in Nat /\ Cardinality(T) <= Refunded(o, c)
<1>1. DOMAIN o = 1 .. Len(o)
  BY LenProperties
<1>2. ASSUME NEW i \in 1 .. Len(o)
      PROVE  CreditBytes(o[i].frames, c) = IF i \in Refunds(o, c) THEN {<<1, 1>>} ELSE {}
  <2>1. PICK fs, n : fs = o[i].frames /\ n = Len(fs) /\ n \in Nat /\ n > 0 /\ DOMAIN fs = 1 .. n
    <3>1. o[i].frames \in Seq(FrameType) /\ o[i].frames # <<>>
      BY DEF BatchOK, BatchType
    <3> QED BY <3>1, LenProperties, EmptySeq
  <2>2. \A j \in 1 .. n : IsWindow(fs[j], c) => n = 1 /\ fs[j].n = 1
    BY <2>1 DEF Refunding
  <2>3. Carrying(fs, "window", c) = {j \in 1 .. n : IsWindow(fs[j], c)}
    BY <2>1 DEF Carrying, IsWindow
  <2>4. i \in Refunds(o, c) <=> IsWindow(fs[1], c)
    BY <2>1 DEF Refunds
  <2>5. 1 \in 1 .. n /\ (n = 1 => 1 .. n = {1})
    <3>1. 1 .. 1 = {1}
      OBVIOUS
    <3>2. 1 \in 1 .. n
      BY <2>1
    <3> QED BY <3>1, <3>2
  <2>6. CASE IsWindow(fs[1], c)
    <3>1. n = 1 /\ fs[1].n = 1
      BY <2>2, <2>5, <2>6
    <3>2. Carrying(fs, "window", c) = {1}
      BY <2>3, <2>5, <2>6, <3>1
    <3>3. IsFiniteSet({1})
      BY FS_Singleton
    <3>4. CreditBytes(fs, c) = {<<j, 1>> : j \in {1}}
      BY <3>1, <3>2, <3>3, CreditCount
    <3> QED BY <2>1, <2>4, <2>6, <3>4
  <2>7. CASE ~IsWindow(fs[1], c)
    <3>1. \A j \in 1 .. n : ~IsWindow(fs[j], c)
      <4> SUFFICES ASSUME NEW j \in 1 .. n, IsWindow(fs[j], c) PROVE FALSE
        OBVIOUS
      <4>1. j = 1
        BY <2>2, <2>5
      <4> QED BY <2>7, <4>1
    <3>2. Carrying(fs, "window", c) = {}
      BY <2>3, <3>1
    <3>3. CreditBytes(fs, c) = {}
      BY <3>2 DEF CreditBytes
    <3> QED BY <2>1, <2>4, <2>7, <3>3
  <2> QED BY <2>6, <2>7
<1>3. PICK S : S = Refunds(o, c) /\ IsFiniteSet(S) /\ S \subseteq 1 .. Len(o)
  BY RefundedNat DEF Refunds
<1>4. T = {<<i, <<1, 1>>>> : i \in S}
  <2>1. ASSUME NEW t \in T PROVE \E i \in S : t = <<i, <<1, 1>>>>
    <3>1. PICK i \in 1 .. Len(o) : t \in {i} \X CreditBytes(o[i].frames, c)
      BY <1>1
    <3>2. CreditBytes(o[i].frames, c) = IF i \in S THEN {<<1, 1>>} ELSE {}
      BY <1>2, <1>3
    <3> QED BY <3>1, <3>2
  <2>2. ASSUME NEW i \in S PROVE <<i, <<1, 1>>>> \in T
    <3>1. i \in 1 .. Len(o) /\ CreditBytes(o[i].frames, c) = {<<1, 1>>}
      BY <1>2, <1>3
    <3>2. <<i, <<1, 1>>>> \in {i} \X CreditBytes(o[i].frames, c)
      BY <3>1
    <3> QED BY <1>1, <3>1, <3>2
  <2> QED BY <2>1, <2>2
<1>5. PICK f : f = [i \in S |-> <<i, <<1, 1>>>>]
  OBVIOUS
<1>6. (\A i \in S : f[i] \in T) /\ (\A t \in T : \E i \in S : t = f[i]) /\ f = [i \in S |-> f[i]]
  BY <1>4, <1>5
<1> QED BY <1>3, <1>6, Covered DEF Refunded

(* The message of a duplex call in the queue of the client.                   *)
LEMMA WaitsCount ==
    ASSUME NEW o \in Seq(BatchType), \A i \in 1 .. Len(o) : BatchOK(o[i]), NEW c,
           \A i \in 1 .. Len(o) : Shape(o[i], c), \A i, j \in Waiting(o, c) : i = j, NEW T,
           T = UNION {{i} \X Carrying(o[i].frames, "payload", c) : i \in DOMAIN o}
    PROVE  Cardinality(T) = Waits(o, c)
<1>1. DOMAIN o = 1 .. Len(o)
  BY LenProperties
<1>2. ASSUME NEW i \in 1 .. Len(o)
      PROVE  /\ i \notin Waiting(o, c) => Carrying(o[i].frames, "payload", c) = {}
             /\ i \in Waiting(o, c) =>
                   \E j : Carrying(o[i].frames, "payload", c) = {j}
  <2>1. PICK fs, n : fs = o[i].frames /\ n = Len(fs) /\ n \in Nat /\ n > 0 /\ DOMAIN fs = 1 .. n
    <3>1. o[i].frames \in Seq(FrameType) /\ o[i].frames # <<>>
      BY DEF BatchOK, BatchType
    <3> QED BY <3>1, LenProperties, EmptySeq
  <2>2. Shape(o[i], c) /\ (i \in Waiting(o, c) <=> o[i].signal = c)
    BY DEF Waiting
  <2>3. Carrying(fs, "payload", c) = {j \in 1 .. n : fs[j].kind = "payload" /\ fs[j].call = c}
    BY <2>1 DEF Carrying
  <2>4. CASE o[i].signal # c
    <3>1. \A j \in 1 .. n : fs[j].call = c => fs[j].kind \in {"cancel", "window", "end"}
      BY <2>1, <2>2, <2>4 DEF Shape
    <3>2. Carrying(fs, "payload", c) = {}
      BY <2>3, <3>1
    <3> QED BY <2>1, <2>2, <2>4, <3>2
  <2>5. CASE o[i].signal = c
    <3>1. /\ \A j \in 1 .. n : fs[j].call = c
          /\ \/ n = 1 /\ fs[1].kind = "payload"
             \/ n = 2 /\ fs[1].kind = "start" /\ fs[2].kind = "payload"
      BY <2>1, <2>2, <2>5 DEF Shape
    <3>2. n \in 1 .. n /\ (n = 1 => 1 .. n = {1}) /\ (n = 2 => 1 .. n = {1, 2})
      <4>1. 1 .. 1 = {1} /\ 1 .. 2 = {1, 2}
        OBVIOUS
      <4>2. n \in 1 .. n
        BY <2>1
      <4> QED BY <4>1, <4>2
    <3>3. \A j \in 1 .. n : fs[j].kind = "payload" <=> j = n
      BY <3>1, <3>2
    <3>4. Carrying(fs, "payload", c) = {n}
      BY <2>3, <3>1, <3>2, <3>3
    <3> QED BY <2>1, <2>2, <2>5, <3>4
  <2> QED BY <2>4, <2>5
<1>3. CASE Waiting(o, c) = {}
  <2>1. \A i \in 1 .. Len(o) : Carrying(o[i].frames, "payload", c) = {}
    BY <1>2, <1>3
  <2>2. T = {}
    BY <1>1, <2>1
  <2> QED BY <1>3, <2>2, FS_EmptySet DEF Waits
<1>4. CASE Waiting(o, c) # {}
  <2>1. PICK w : w \in Waiting(o, c)
    BY <1>4
  <2>2. w \in 1 .. Len(o) /\ \A i \in 1 .. Len(o) : i # w => i \notin Waiting(o, c)
    BY <2>1 DEF Waiting
  <2>3. PICK j : Carrying(o[w].frames, "payload", c) = {j}
    BY <1>2, <2>1, <2>2
  <2>4. \A i \in 1 .. Len(o) : i # w => Carrying(o[i].frames, "payload", c) = {}
    BY <1>2, <2>2
  <2>5. T = {<<w, j>>}
    <3>1. <<w, j>> \in T
      BY <1>1, <2>2, <2>3
    <3>2. ASSUME NEW t \in T PROVE t = <<w, j>>
      <4>1. PICK i \in 1 .. Len(o) : t \in {i} \X Carrying(o[i].frames, "payload", c)
        BY <1>1
      <4>2. i = w
        BY <2>4, <4>1
      <4> QED BY <2>3, <4>1, <4>2
    <3> QED BY <3>1, <3>2
  <2> QED BY <1>4, <2>5, FS_Singleton DEF Waits
<1> QED BY <1>3, <1>4

-----------------------------------------------------------------------------
(* What travels behind the end of a call.                                     *)

(* Whatever is under way of call c to the daemon, and whatever is queued.     *)
Talk(p, c) == {i \in 1 .. Len(p) : p[i].frame.call = c}
Chat(o, c) == {i \in 1 .. Len(o) : \E j \in 1 .. Len(o[i].frames) : o[i].frames[j].call = c}

(* Nothing of a call travels before its start, or before it was called.       *)
FirstOK(p, o, ks, c) ==
    /\ \A i \in Begins(p, c), j \in Talk(p, c) : i <= j
    /\ \A i \in Opens(o, c), j \in Chat(o, c) : i <= j
    /\ Opens(o, c) # {} => Talk(p, c) = {}
    /\ ks = "idle" => Talk(p, c) = {} /\ Chat(o, c) = {}

(* What is in S2 and T2 is what was in S and T, in the same places or one     *)
(* place further back.                                                        *)
Moved(S, S2, T, T2) ==
    \/ S2 = S /\ T2 = T
    \/ /\ \A i \in S2 : i \in Nat /\ i + 1 \in S
       /\ \A i \in T2 : i \in Nat /\ i + 1 \in T

(* Then the order is kept.                                                    *)
LEMMA MovedOrder ==
    ASSUME NEW S, NEW S2, NEW T, NEW T2, Moved(S, S2, T, T2), \A i \in S, j \in T : i <= j
    PROVE  /\ \A i \in S2, j \in T2 : i <= j
           /\ S = {} => S2 = {}
           /\ T = {} => T2 = {}
<1>1. CASE S2 = S /\ T2 = T
  BY <1>1
<1>2. CASE /\ \A i \in S2 : i \in Nat /\ i + 1 \in S
           /\ \A i \in T2 : i \in Nat /\ i + 1 \in T
  <2>1. ASSUME NEW i \in S2, NEW j \in T2 PROVE i <= j
    <3>1. i + 1 <= j + 1 /\ i \in Nat /\ j \in Nat
      BY <1>2
    <3> QED BY <3>1
  <2>2. (S = {} => S2 = {}) /\ (T = {} => T2 = {})
    BY <1>2
  <2> QED BY <2>1, <2>2
<1> QED BY <1>1, <1>2 DEF Moved

(* Frames and batches leave their queues in order.                            *)
LEMMA FirstMoved ==
    ASSUME NEW p, NEW p2, NEW o, NEW o2, NEW ks, NEW c, FirstOK(p, o, ks, c),
           Moved(Begins(p, c), Begins(p2, c), Talk(p, c), Talk(p2, c)),
           Moved(Opens(o, c), Opens(o2, c), Chat(o, c), Chat(o2, c))
    PROVE  FirstOK(p2, o2, ks, c)
<1>1. /\ \A i \in Begins(p2, c), j \in Talk(p2, c) : i <= j
      /\ Begins(p, c) = {} => Begins(p2, c) = {}
      /\ Talk(p, c) = {} => Talk(p2, c) = {}
  BY MovedOrder DEF FirstOK
<1>2. /\ \A i \in Opens(o2, c), j \in Chat(o2, c) : i <= j
      /\ Opens(o, c) = {} => Opens(o2, c) = {}
      /\ Chat(o, c) = {} => Chat(o2, c) = {}
  BY MovedOrder DEF FirstOK
<1> QED BY <1>1, <1>2 DEF FirstOK

(* A frame arrives at the daemon.                                             *)
LEMMA TalkTail ==
    ASSUME NEW p \in Seq(SentType), p # <<>>, NEW c
    PROVE  /\ Moved(Begins(p, c), Begins(Tail(p), c), Talk(p, c), Talk(Tail(p), c))
           /\ Head(p).frame.call = c => 1 \in Talk(p, c)
           /\ \A i \in Talk(p, c) : i \in Nat /\ i > 0
<1>1. PICK n : n = Len(p) /\ n \in Nat /\ n # 0
  BY LenProperties, EmptySeq
<1>2. PICK t : t = Tail(p)
  OBVIOUS
<1>3. Len(t) = n - 1 /\ \A i \in 1 .. n - 1 : t[i] = p[i + 1]
  BY <1>1, <1>2, HeadTailProperties
<1>4. /\ \A i \in 1 .. n - 1 : i + 1 \in 1 .. n /\ i \in Nat
      /\ \A i \in 1 .. n : i \in Nat /\ i > 0
  BY <1>1
<1>5. Head(p) = p[1] /\ 1 \in 1 .. n
  BY <1>1
<1>6. \A i \in Talk(t, c) : i \in Nat /\ i + 1 \in Talk(p, c)
  BY <1>1, <1>3, <1>4 DEF Talk
<1>7. \A i \in Begins(t, c) : i \in Nat /\ i + 1 \in Begins(p, c)
  BY <1>1, <1>3, <1>4 DEF Begins
<1>8. (Head(p).frame.call = c => 1 \in Talk(p, c)) /\ \A i \in Talk(p, c) : i \in Nat /\ i > 0
  BY <1>1, <1>4, <1>5 DEF Talk
<1> QED BY <1>2, <1>6, <1>7, <1>8 DEF Moved

(* Or none does.                                                              *)
LEMMA TalkArrives ==
    ASSUME NEW p \in Seq(SentType), NEW p2, NEW a, NEW c, Arrives(p, p2, a)
    PROVE  Moved(Begins(p, c), Begins(p2, c), Talk(p, c), Talk(p2, c))
<1>1. CASE p2 = p
  BY <1>1 DEF Moved
<1>2. CASE p # <<>> /\ p2 = Tail(p)
  BY <1>2, TalkTail
<1> QED BY <1>1, <1>2 DEF Arrives

(* A batch leaves the queue of the client.                                    *)
LEMMA ChatTail ==
    ASSUME NEW o \in Seq(BatchType), o # <<>>, NEW c
    PROVE  /\ Moved(Opens(o, c), Opens(Tail(o), c), Chat(o, c), Chat(Tail(o), c))
           /\ \A i \in Opens(Tail(o), c) : i \in Nat /\ i > 0 /\ i + 1 \in Opens(o, c)
<1>1. PICK n : n = Len(o) /\ n \in Nat /\ n # 0
  BY LenProperties, EmptySeq
<1>2. PICK t : t = Tail(o)
  OBVIOUS
<1>3. Len(t) = n - 1 /\ \A i \in 1 .. n - 1 : t[i] = o[i + 1]
  BY <1>1, <1>2, HeadTailProperties
<1>4. \A i \in 1 .. n - 1 : i + 1 \in 1 .. n /\ i \in Nat /\ i > 0
  BY <1>1
<1>5. \A i \in Chat(t, c) : i \in Nat /\ i + 1 \in Chat(o, c)
  BY <1>1, <1>3, <1>4 DEF Chat
<1>6. \A i \in Opens(t, c) : i \in Nat /\ i > 0 /\ i + 1 \in Opens(o, c)
  BY <1>1, <1>3, <1>4 DEF Opens
<1> QED BY <1>2, <1>5, <1>6 DEF Moved

(* Batches join the queue, of this call or of another.                        *)
LEMMA ChatSends ==
    ASSUME NEW o \in Seq(BatchType), NEW o2, NEW a, NEW c, Sends(o, o2, a)
    PROVE  /\ \A i \in Chat(o, c) : i \in Chat(o2, c)
           /\ \A i \in Chat(o2, c) : i \in Chat(o, c) \/ (i \in Len(o) + 1 .. Len(o2) /\ a = c)
           /\ Len(o) \in Nat
<1>1. PICK n, m : n = Len(o) /\ n \in Nat /\ m = Len(o2) /\ m \in Nat /\ n <= m
  BY LenProperties DEF Sends
<1>2. /\ \A i \in 1 .. n : o2[i] = o[i]
      /\ \A i \in n + 1 .. m : BatchOK(o2[i]) /\ Of(o2[i], a)
  BY <1>1 DEF Sends
<1>3. /\ \A i \in 1 .. n : i \in 1 .. m
      /\ \A i \in 1 .. m : i \in 1 .. n \/ i \in n + 1 .. m
  BY <1>1
<1>4. ASSUME NEW i \in n + 1 .. m, NEW j \in 1 .. Len(o2[i].frames), o2[i].frames[j].call = c
      PROVE  a = c
  <2>1. DOMAIN o2[i].frames = 1 .. Len(o2[i].frames)
    BY <1>2, BatchFrames
  <2> QED BY <1>2, <1>4, <2>1 DEF Of
<1>5. \A i \in Chat(o, c) : i \in Chat(o2, c)
  BY <1>1, <1>2, <1>3 DEF Chat
<1>6. ASSUME NEW i \in Chat(o2, c)
      PROVE  i \in Chat(o, c) \/ (i \in n + 1 .. m /\ a = c)
  <2>1. i \in 1 .. m
    BY <1>1 DEF Chat
  <2>2. CASE i \in 1 .. n
    BY <1>1, <1>2, <2>2 DEF Chat
  <2>3. CASE i \in n + 1 .. m
    BY <1>4, <2>3 DEF Chat
  <2> QED BY <1>3, <2>1, <2>2, <2>3
<1> QED BY <1>1, <1>5, <1>6

(* Steps of other calls.                                                      *)
LEMMA FirstOther ==
    ASSUME LinkInv, NEW a, StepOf(a), NEW c \in Call, c # a, NEW ks,
           FirstOK(toDaemon, outbox, ks, c)
    PROVE  FirstOK(toDaemon', outbox', ks, c)
<1>1. toDaemon \in Seq(SentType) /\ outbox \in Seq(BatchType)
  BY DEF LinkInv
<1>2. Sends(outbox, outbox', a) /\ Arrives(toDaemon, toDaemon', a)
  BY DEF StepOf
<1>3. Moved(Begins(toDaemon, c), Begins(toDaemon', c), Talk(toDaemon, c), Talk(toDaemon', c))
  BY <1>1, <1>2, TalkArrives
<1>4. Opens(outbox', c) = Opens(outbox, c)
  BY <1>1, <1>2, OpensOther
<1>5. Chat(outbox', c) = Chat(outbox, c)
  <2>1. /\ \A i \in Chat(outbox, c) : i \in Chat(outbox', c)
        /\ \A i \in Chat(outbox', c) :
              i \in Chat(outbox, c) \/ (i \in Len(outbox) + 1 .. Len(outbox') /\ a = c)
    BY <1>1, <1>2, ChatSends
  <2> QED BY <2>1
<1> QED BY <1>3, <1>4, <1>5, FirstMoved DEF Moved

(* A start is a frame of its call.                                            *)
LEMMA OpensChat ==
    ASSUME LinkInv, NEW c
    PROVE  /\ \A i \in Opens(outbox, c) : i \in Chat(outbox, c)
           /\ \A i \in Chat(outbox, c) : i \in 1 .. Len(outbox)
<1>1. \A i \in 1 .. Len(outbox) : BatchOK(outbox[i])
  BY LenProperties DEF LinkInv
<1>2. \A i \in 1 .. Len(outbox) : 1 \in 1 .. Len(outbox[i].frames)
  BY <1>1, BatchFrames
<1> QED BY <1>2 DEF Opens, Chat, IsStart

(* A call that is not begun sends nothing.                                    *)
LEMMA IdleSilent ==
    ASSUME BooksInv, NEW c \in Call, Caller(c) \/ ClientReceives(c), client'[c].st = "idle"
    PROVE  client[c].st = "idle" /\ outbox' = outbox
<1>1. client[c].st = "idle"
  BY NeverIdle
<1>2. duplex[c].st \notin {"open", "ending", "ended"}
  BY <1>1, CallRecords DEF DuplexOK
<1>3. ~Start(c)
  BY DEF Start, BooksInv, ClientCall
<1>4. DuplexSend(c) \/ ReceiveInputCredit(c) \/ (ReceivePayload(c) /\ UNCHANGED <<duplex, outbox>>)
  BY <1>1, <1>2, <1>3, ClientKinds DEF DuplexFlush, FlushTurn, DuplexEnd
<1> QED BY <1>1, <1>4 DEF DuplexSend, ReceiveInputCredit, linkVars

(* What the client does with a call sends nothing of it before its start.     *)
LEMMA FirstClient ==
    ASSUME BooksInv, LinkInv, NEW c \in Call, Caller(c) \/ ClientReceives(c),
           FirstOK(toDaemon, outbox, client[c].st, c)
    PROVE  FirstOK(toDaemon', outbox', client'[c].st, c)
<1>1. outbox \in Seq(BatchType)
  BY DEF LinkInv
<1>2. /\ StepOf(c) /\ toDaemon' = toDaemon
      /\ Start(c) \/ Opens(outbox', c) = Opens(outbox, c)
  BY CallerStepOf
<1>3. PICK n, m : n = Len(outbox) /\ n \in Nat /\ m = Len(outbox') /\ m \in Nat
  BY <1>1, <1>2, LenProperties DEF StepOf, Sends
<1>4. \A i \in Chat(outbox', c) : i \in Chat(outbox, c) \/ i \in n + 1 .. m
  BY <1>1, <1>2, <1>3, ChatSends DEF StepOf
<1>5. /\ \A i \in Opens(outbox, c) : i \in Chat(outbox, c)
      /\ \A i \in Chat(outbox, c) : i \in 1 .. n
  BY <1>3, OpensChat
<1>6. CASE Start(c)
  <2>1. client[c].st = "idle" /\ client'[c].st = "live"
    BY <1>6 DEF Start, BooksInv, ClientCall
  <2>2. Talk(toDaemon, c) = {} /\ Chat(outbox, c) = {}
    BY <2>1 DEF FirstOK
  <2>3. m = n + 1 /\ \A i \in 1 .. n : outbox'[i] = outbox[i]
    <3>1. PICK b : outbox' = Append(outbox, b) /\ BatchOK(b)
      BY <1>6, StartSends
    <3> QED BY <1>1, <1>3, <3>1, AppendProperties DEF BatchOK
  <2>4. /\ \A i \in n + 1 .. n + 1 : i = n + 1
        /\ \A i \in 1 .. n + 1 : i \in 1 .. n \/ i = n + 1
        /\ n + 1 <= n + 1
    BY <1>3
  <2>5. \A i \in Chat(outbox', c) : i = n + 1
    BY <1>4, <2>2, <2>3, <2>4
  <2>6. \A i \in Opens(outbox', c) : i = n + 1
    BY <1>3, <1>5, <2>2, <2>3, <2>4 DEF Opens
  <2> QED BY <1>2, <2>1, <2>2, <2>4, <2>5, <2>6 DEF FirstOK
<1>7. CASE Opens(outbox', c) = Opens(outbox, c)
  <2>1. ASSUME NEW i \in Opens(outbox', c), NEW j \in Chat(outbox', c) PROVE i <= j
    <3>1. i \in Opens(outbox, c) /\ i \in 1 .. n
      BY <1>5, <1>7
    <3>2. CASE j \in Chat(outbox, c)
      BY <3>1, <3>2 DEF FirstOK
    <3>3. CASE j \in n + 1 .. m
      BY <1>3, <3>1, <3>3
    <3> QED BY <1>4, <3>2, <3>3
  <2>2. client'[c].st = "idle" => client[c].st = "idle" /\ outbox' = outbox
    BY IdleSilent
  <2> QED BY <1>2, <1>7, <2>1, <2>2 DEF FirstOK
<1> QED BY <1>2, <1>6, <1>7

(* A frame is transmitted.                                                    *)
LEMMA FirstPass ==
    ASSUME NEW p \in Seq(SentType), NEW e \in SentType, NEW o, NEW o2, NEW ks, NEW c,
           FirstOK(p, o, ks, c),
           \A i \in Opens(o2, c), j \in Chat(o2, c) : i <= j,
           Chat(o, c) = {} => Chat(o2, c) = {},
           Opens(o2, c) # {} => Opens(o, c) # {} /\ e.frame.call # c,
           e.frame.call = c => Chat(o, c) # {},
           IsStart(e.frame, c) => Opens(o, c) # {}
    PROVE  FirstOK(Append(p, e), o2, ks, c)
<1>1. PICK n : n = Len(p) /\ n \in Nat
  BY LenProperties
<1>2. PICK r : r = Append(p, e)
  OBVIOUS
<1>3. Len(r) = n + 1 /\ r[n + 1] = e /\ \A i \in 1 .. n : r[i] = p[i]
  BY <1>1, <1>2, AppendProperties
<1>4. /\ \A i \in 1 .. n + 1 : i \in 1 .. n \/ i = n + 1
      /\ \A i \in 1 .. n : i <= n + 1
      /\ n + 1 <= n + 1
  BY <1>1
<1>5. \A i \in Talk(r, c) : i \in Talk(p, c) \/ (i = n + 1 /\ e.frame.call = c)
  BY <1>1, <1>3, <1>4 DEF Talk
<1>6. \A i \in Begins(r, c) : i \in Begins(p, c) \/ (i = n + 1 /\ IsStart(e.frame, c))
  BY <1>1, <1>3, <1>4 DEF Begins
<1>7. \A i \in Begins(p, c) : i \in 1 .. n
  BY <1>1 DEF Begins
<1>8. ASSUME NEW i \in Begins(r, c), NEW j \in Talk(r, c) PROVE i <= j
  <2>1. CASE i \in Begins(p, c) /\ j \in Talk(p, c)
    BY <2>1 DEF FirstOK
  <2>2. CASE i \in Begins(p, c) /\ j = n + 1
    BY <1>4, <1>7, <2>2
  <2>3. CASE i = n + 1 /\ IsStart(e.frame, c)
    <3>1. Talk(p, c) = {}
      BY <2>3 DEF FirstOK
    <3> QED BY <1>4, <1>5, <2>3, <3>1
  <2> QED BY <1>5, <1>6, <2>1, <2>2, <2>3
<1>9. Opens(o2, c) # {} => Talk(r, c) = {}
  BY <1>5 DEF FirstOK
<1>10. ks = "idle" => Talk(r, c) = {} /\ Chat(o2, c) = {}
  BY <1>5 DEF FirstOK
<1> QED BY <1>2, <1>8, <1>9, <1>10 DEF FirstOK

(* The rest of a batch is of the same calls and starts none.                  *)
LEMMA ChatSplit ==
    ASSUME NEW o \in Seq(BatchType), o # <<>>, NEW o2, NEW b, NEW b2, BatchOK(b),
           Divided(o, o2, b, b2), NEW c
    PROVE  /\ \A i \in Chat(o2, c) : i \in Chat(o, c)
           /\ \A i \in Opens(o2, c) : i \in Opens(o, c) /\ i \in Nat /\ i > 1
<1>1. PICK l : l = Len(o) /\ l \in Nat /\ l # 0
  BY LenProperties, EmptySeq
<1>2. PICK n : n = Len(b.frames) /\ n \in Nat /\ n > 1 /\ DOMAIN b.frames = 1 .. n
  BY BatchFrames DEF Divided
<1>3. /\ b = o[1] /\ b2 = o2[1] /\ Len(o2) = l /\ Len(b2.frames) = n - 1
      /\ \A i \in 2 .. l : o2[i] = o[i]
      /\ \A i \in 1 .. n - 1 : b2.frames[i] = b.frames[i + 1]
  BY <1>1, <1>2 DEF Divided
<1>4. /\ \A i \in 1 .. l : i = 1 \/ i \in 2 .. l
      /\ \A i \in 2 .. l : i \in Nat /\ i > 1
      /\ \A i \in 1 .. n - 1 : i + 1 \in 1 .. n /\ i + 1 > 1
      /\ 1 \in 1 .. n - 1
  BY <1>1, <1>2
<1>5. ASSUME NEW i \in Chat(o2, c) PROVE i \in Chat(o, c)
  <2>1. PICK j \in 1 .. Len(o2[i].frames) : o2[i].frames[j].call = c
    BY DEF Chat
  <2>2. i \in 1 .. l
    BY <1>3 DEF Chat
  <2>3. CASE i = 1
    <3>1. j + 1 \in 1 .. n /\ b.frames[j + 1].call = c
      BY <1>3, <1>4, <2>1, <2>3
    <3> QED BY <1>1, <1>2, <1>3, <2>2, <2>3, <3>1 DEF Chat
  <2>4. CASE i \in 2 .. l
    BY <1>1, <1>3, <2>1, <2>2, <2>4 DEF Chat
  <2> QED BY <1>4, <2>2, <2>3, <2>4
<1>6. b2.frames[1].kind # "start"
  <2>1. b2.frames[1] = b.frames[1 + 1] /\ 1 + 1 \in 1 .. n /\ 1 + 1 > 1
    BY <1>3, <1>4
  <2> QED BY <1>2, <2>1 DEF BatchOK
<1>7. ASSUME NEW i \in Opens(o2, c) PROVE i \in Opens(o, c) /\ i \in Nat /\ i > 1
  <2>1. i \in 1 .. l /\ IsStart(o2[i].frames[1], c)
    BY <1>3 DEF Opens
  <2>2. i # 1
    BY <1>3, <1>6, <2>1 DEF IsStart
  <2>3. i \in 2 .. l
    BY <1>4, <2>1, <2>2
  <2> QED BY <1>1, <1>3, <1>4, <2>1, <2>3 DEF Opens
<1> QED BY <1>5, <1>7

(* Transmission keeps the order, and revives no call.                         *)
LEMMA FirstTransmit ==
    ASSUME LinkInv, Transmit, UNCHANGED incoming, NEW c, NEW ks,
           FirstOK(toDaemon, outbox, ks, c)
    PROVE  FirstOK(toDaemon', outbox', ks, c)
<1>1. PICK p, o, o2, b, e : /\ p = toDaemon /\ o = outbox /\ o2 = outbox' /\ b = Head(outbox)
                            /\ e = [frame |-> b.frames[1], gap |-> skipped]
  OBVIOUS
<1>2. PICK n : n = Len(b.frames)
  OBVIOUS
<1>3. /\ o # <<>> /\ BatchOK(b) /\ b = o[1] /\ n \in Nat /\ n > 0
      /\ \/ o2 = Tail(o) /\ toDaemon' = p
         \/ /\ toDaemon' = Append(p, e) /\ e \in SentType
            /\ \/ o2 = Tail(o) /\ n = 1
               \/ /\ n > 1 /\ Len(o2) = Len(o)
                  /\ o2[1] = Batch(Tail(b.frames), b.signal)
                  /\ Len(Tail(b.frames)) = n - 1
                  /\ \A i \in 1 .. n - 1 : Tail(b.frames)[i] = b.frames[i + 1]
                  /\ \A i \in 2 .. Len(o) : o2[i] = o[i]
  BY <1>1, <1>2, TransmitFacts
<1>4. p \in Seq(SentType) /\ o \in Seq(BatchType) /\ FirstOK(p, o, ks, c) /\ e.frame = b.frames[1]
  BY <1>1 DEF LinkInv
<1>5. /\ Moved(Opens(o, c), Opens(Tail(o), c), Chat(o, c), Chat(Tail(o), c))
      /\ \A i \in Opens(Tail(o), c) : i \in Nat /\ i > 0 /\ i + 1 \in Opens(o, c)
  BY <1>3, <1>4, ChatTail
<1>6. CASE o2 = Tail(o) /\ toDaemon' = p
  <2>1. Moved(Begins(p, c), Begins(p, c), Talk(p, c), Talk(p, c))
    BY DEF Moved
  <2> QED BY <1>1, <1>4, <1>5, <1>6, <2>1, FirstMoved
<1>7. 1 \in 1 .. Len(o) /\ 1 \in 1 .. n
  <2>1. Len(o) \in Nat /\ Len(o) # 0
    BY <1>3, <1>4, LenProperties, EmptySeq
  <2> QED BY <1>3, <2>1
<1>8. /\ e.frame.call = c => 1 \in Chat(o, c)
      /\ IsStart(e.frame, c) => 1 \in Opens(o, c)
  BY <1>2, <1>3, <1>4, <1>7 DEF Chat, Opens
<1>9. CASE toDaemon' = Append(p, e) /\ e \in SentType /\ o2 = Tail(o)
  <2>1. /\ \A i \in Opens(o2, c), j \in Chat(o2, c) : i <= j
        /\ Chat(o, c) = {} => Chat(o2, c) = {}
    BY <1>4, <1>5, <1>9, MovedOrder DEF FirstOK
  <2>2. ASSUME NEW i \in Opens(o2, c) PROVE Opens(o, c) # {} /\ e.frame.call # c
    <3>1. i \in Nat /\ i > 0 /\ i + 1 \in Opens(o, c)
      BY <1>5, <1>9
    <3>2. 1 \in Chat(o, c) => i + 1 <= 1
      BY <1>4, <3>1 DEF FirstOK
    <3>3. 1 \notin Chat(o, c)
      BY <3>1, <3>2
    <3> QED BY <1>8, <3>1, <3>3
  <2> QED BY <1>1, <1>4, <1>8, <1>9, <2>1, <2>2, FirstPass
<1>10. CASE /\ toDaemon' = Append(p, e) /\ e \in SentType
            /\ n > 1 /\ Len(o2) = Len(o)
            /\ o2[1] = Batch(Tail(b.frames), b.signal)
            /\ Len(Tail(b.frames)) = n - 1
            /\ \A i \in 1 .. n - 1 : Tail(b.frames)[i] = b.frames[i + 1]
            /\ \A i \in 2 .. Len(o) : o2[i] = o[i]
  <2>1. PICK b2 : b2 = o2[1] /\ b2.frames = Tail(b.frames)
    <3>1. \A fs, g : Batch(fs, g).frames = fs
      BY DEF Batch
    <3>2. o2[1].frames = Tail(b.frames)
      BY <1>10, <3>1
    <3> QED BY <3>2
  <2>2. Divided(o, o2, b, b2)
    BY <1>2, <1>3, <1>10, <2>1 DEF Divided
  <2>3. /\ \A i \in Chat(o2, c) : i \in Chat(o, c)
        /\ \A i \in Opens(o2, c) : i \in Opens(o, c) /\ i \in Nat /\ i > 1
    BY <1>3, <1>4, <2>2, ChatSplit
  <2>4. ASSUME NEW i \in Opens(o2, c) PROVE Opens(o, c) # {} /\ e.frame.call # c
    <3>1. i \in Nat /\ i > 1 /\ i \in Opens(o, c)
      BY <2>3
    <3>2. 1 \in Chat(o, c) => i <= 1
      BY <1>4, <3>1 DEF FirstOK
    <3>3. 1 \notin Chat(o, c)
      BY <3>1, <3>2
    <3> QED BY <1>8, <3>1, <3>3
  <2>5. \A i \in Opens(o2, c), j \in Chat(o2, c) : i <= j
    BY <1>4, <2>3 DEF FirstOK
  <2> QED BY <1>1, <1>4, <1>8, <1>10, <2>3, <2>4, <2>5, FirstPass
<1> QED BY <1>3, <1>6, <1>9, <1>10

(* A call that is over stays over, whatever is transmitted, dropped or read.  *)
LEMMA OverStays ==
    ASSUME LinkInv, NEW c, NEW d,
           \/ Transmit /\ UNCHANGED incoming
           \/ \E a : StepOf(a) /\ a # c
           \/ toDaemon' = toDaemon /\ Opens(outbox', c) = Opens(outbox, c)
           \/ \E a : Arrives(toDaemon, toDaemon', a) /\ outbox' = outbox,
           Alive(toDaemon', outbox', d, c)
    PROVE  Alive(toDaemon, outbox, d, c)
<1>1. toDaemon \in Seq(SentType) /\ outbox \in Seq(BatchType)
  BY DEF LinkInv
<1>2. ASSUME Begins(toDaemon', c) # {} \/ Opens(outbox', c) # {}
      PROVE  Begins(toDaemon, c) # {} \/ Opens(outbox, c) # {}
  <2>1. ASSUME NEW a, Arrives(toDaemon, toDaemon', a), Begins(toDaemon', c) # {}
        PROVE  Begins(toDaemon, c) # {}
    <3>1. CASE toDaemon # <<>> /\ toDaemon' = Tail(toDaemon)
      BY <1>1, <2>1, <3>1, BeginsTail
    <3> QED BY <2>1, <3>1 DEF Arrives
  <2>2. CASE \E a : StepOf(a) /\ a # c
    BY <1>1, <1>2, <2>1, <2>2, OpensOther DEF StepOf
  <2>3. CASE toDaemon' = toDaemon /\ Opens(outbox', c) = Opens(outbox, c)
    BY <1>2, <2>3
  <2>4. CASE \E a : Arrives(toDaemon, toDaemon', a) /\ outbox' = outbox
    BY <1>2, <2>1, <2>4
  <2>5. CASE Transmit /\ UNCHANGED incoming
    <3>1. PICK p, o, o2, b, e : /\ p = toDaemon /\ o = outbox /\ o2 = outbox' /\ b = Head(outbox)
                                /\ e = [frame |-> b.frames[1], gap |-> skipped]
      OBVIOUS
    <3>2. PICK n : n = Len(b.frames)
      OBVIOUS
    <3>3. /\ o # <<>> /\ BatchOK(b) /\ b = o[1] /\ n \in Nat /\ n > 0
          /\ \/ o2 = Tail(o) /\ toDaemon' = p
             \/ /\ toDaemon' = Append(p, e) /\ e \in SentType
                /\ \/ o2 = Tail(o) /\ n = 1
                   \/ /\ n > 1 /\ Len(o2) = Len(o)
                      /\ o2[1] = Batch(Tail(b.frames), b.signal)
                      /\ Len(Tail(b.frames)) = n - 1
                      /\ \A i \in 1 .. n - 1 : Tail(b.frames)[i] = b.frames[i + 1]
                      /\ \A i \in 2 .. Len(o) : o2[i] = o[i]
      BY <2>5, <3>1, <3>2, TransmitFacts
    <3>4. Opens(o2, c) # {} => Opens(o, c) # {}
      <4>1. CASE o2 = Tail(o)
        BY <1>1, <3>1, <3>3, <4>1, ChatTail
      <4>2. CASE o2 # Tail(o)
        <5>1. PICK b2 : b2 = o2[1] /\ b2.frames = Tail(b.frames)
          <6>1. \A fs, g : Batch(fs, g).frames = fs
            BY DEF Batch
          <6>2. o2[1].frames = Tail(b.frames)
            BY <3>3, <4>2, <6>1
          <6> QED BY <6>2
        <5>2. Divided(o, o2, b, b2)
          BY <3>2, <3>3, <4>2, <5>1 DEF Divided
        <5> QED BY <1>1, <3>1, <3>3, <5>2, ChatSplit
      <4> QED BY <4>1, <4>2
    <3>5. CASE toDaemon' = p
      BY <1>2, <3>1, <3>4, <3>5
    <3>6. CASE toDaemon' = Append(p, e) /\ e \in SentType
      <4>1. PICK l : l = Len(p) /\ l \in Nat
        BY <1>1, <3>1, LenProperties
      <4>2. PICK r : r = Append(p, e)
        OBVIOUS
      <4>3. Len(r) = l + 1 /\ r[l + 1] = e /\ \A i \in 1 .. l : r[i] = p[i]
        BY <1>1, <3>1, <3>6, <4>1, <4>2, AppendProperties
      <4>4. \A i \in 1 .. l + 1 : i \in 1 .. l \/ i = l + 1
        BY <4>1
      <4>5. Begins(r, c) # {} => Begins(p, c) # {} \/ IsStart(e.frame, c)
        BY <4>1, <4>3, <4>4 DEF Begins
      <4>6. 1 \in 1 .. Len(o) /\ e.frame = o[1].frames[1]
        <5>1. Len(o) \in Nat /\ Len(o) # 0
          BY <1>1, <3>1, <3>3, LenProperties, EmptySeq
        <5> QED BY <3>1, <3>3, <5>1
      <4>7. IsStart(e.frame, c) => 1 \in Opens(o, c)
        BY <4>6 DEF Opens
      <4> QED BY <1>2, <3>1, <3>4, <3>6, <4>2, <4>5, <4>7
    <3> QED BY <3>3, <3>5, <3>6
  <2> QED BY <2>2, <2>3, <2>4, <2>5
<1>3. \A p : Marks(p, "start", c) = Begins(p, c)
  BY DEF Marks, Begins, IsStart
<1> QED BY <1>2, <1>3 DEF Alive

-----------------------------------------------------------------------------
(* The end of a call is the last thing the client hears of it.                *)

(* Where an end of call c is under way to the client, whatever its status.    *)
Closings(q, c) == {i \in 1 .. Len(q) : IsEnd(q[i], c)}

(* No payload follows an end, only one end says that all went well, and none  *)
(* of it is left when the client has read that one; what is under way to a    *)
(* live call fits its credit.                                                 *)
QuietOK(p, o, q, k, d, c) ==
    /\ Closings(q, c) # {} => ~Alive(p, o, d, c) /\ k.st # "idle"
    /\ \A i \in Closings(q, c), j \in Paid(q, c) : j < i
    /\ \A i, j \in Finals(q, c) : i = j
    /\ k.st = "ended" => Paid(q, c) = {} /\ Finals(q, c) = {}
    /\ k.st = "live" => \A i \in Paid(q, c) : q[i].n <= Credit + k.got
    /\ c \in Unary => d.emitted <= 1
    /\ k.end = "cut" => k.st = "done"

(* The first frame is gone.                                                   *)
LEMMA ClosingsTail ==
    ASSUME NEW q \in Seq(FrameType), q # <<>>, NEW c
    PROVE  /\ \A i \in Closings(Tail(q), c) : i \in Nat /\ i + 1 \in Closings(q, c)
           /\ IsEnd(Head(q), c) => 1 \in Closings(q, c)
<1>1. PICK n : n = Len(q) /\ n \in Nat /\ n # 0
  BY LenProperties, EmptySeq
<1>2. PICK t : t = Tail(q)
  OBVIOUS
<1>3. Len(t) = n - 1 /\ \A i \in 1 .. n - 1 : t[i] = q[i + 1]
  BY <1>1, <1>2, HeadTailProperties
<1>4. /\ \A i \in 1 .. n - 1 : i + 1 \in 1 .. n /\ i \in Nat
      /\ Head(q) = q[1] /\ 1 \in 1 .. n
  BY <1>1
<1> QED BY <1>1, <1>2, <1>3, <1>4 DEF Closings

(* The client has read it.                                                    *)
LEMMA QuietTail ==
    ASSUME NEW q \in Seq(FrameType), q # <<>>, NEW p, NEW o, NEW k, NEW d, NEW c,
           QuietOK(p, o, q, k, d, c)
    PROVE  QuietOK(p, o, Tail(q), k, d, c)
<1>1. PICK t : t = Tail(q)
  OBVIOUS
<1>2. /\ \A i \in Paid(t, c) : i \in Nat /\ i + 1 \in Paid(q, c) /\ t[i] = q[i + 1]
      /\ \A i \in Finals(t, c) : i \in Nat /\ i + 1 \in Finals(q, c)
  BY <1>1, PaidTail
<1>3. \A i \in Closings(t, c) : i \in Nat /\ i + 1 \in Closings(q, c)
  BY <1>1, ClosingsTail
<1>4. ASSUME NEW i \in Closings(t, c), NEW j \in Paid(t, c) PROVE j < i
  <2>1. j + 1 < i + 1 /\ i \in Nat /\ j \in Nat
    BY <1>2, <1>3 DEF QuietOK
  <2> QED BY <2>1
<1>5. ASSUME NEW i \in Finals(t, c), NEW j \in Finals(t, c) PROVE i = j
  <2>1. i + 1 = j + 1 /\ i \in Nat /\ j \in Nat
    BY <1>2 DEF QuietOK
  <2> QED BY <2>1
<1>6. Closings(t, c) # {} => Closings(q, c) # {}
  BY <1>3
<1>7. k.st = "ended" => Paid(t, c) = {} /\ Finals(t, c) = {}
  BY <1>2 DEF QuietOK
<1>8. k.st = "live" => \A i \in Paid(t, c) : t[i].n <= Credit + k.got
  BY <1>2 DEF QuietOK
<1>9. QuietOK(p, o, t, k, d, c)
  BY <1>4, <1>5, <1>6, <1>7, <1>8 DEF QuietOK
<1> QED BY <1>1, <1>9

(* It was the end: no payload is left, and no call to answer.                 *)
LEMMA EndIsLast ==
    ASSUME NEW q \in Seq(FrameType), q # <<>>, NEW p, NEW o, NEW k, NEW d, NEW c,
           QuietOK(p, o, q, k, d, c), IsEnd(Head(q), c)
    PROVE  /\ Paid(q, c) = {} /\ Paid(Tail(q), c) = {} /\ ~Alive(p, o, d, c)
           /\ Head(q) = EndOk(c) => Finals(Tail(q), c) = {}
<1>1. PICK t : t = Tail(q)
  OBVIOUS
<1>2. 1 \in Closings(q, c)
  BY ClosingsTail
<1>3. /\ \A i \in Paid(q, c) : i \in Nat /\ i > 0
      /\ \A i \in Paid(t, c) : i \in Nat /\ i + 1 \in Paid(q, c)
      /\ \A i \in Finals(t, c) : i \in Nat /\ i > 0 /\ i + 1 \in Finals(q, c)
  <2>1. /\ \A i \in Paid(t, c) : i \in Nat /\ i + 1 \in Paid(q, c)
        /\ \A i \in Finals(t, c) : i \in Nat /\ i + 1 \in Finals(q, c)
    BY <1>1, PaidTail
  <2>2. PICK n, l : n = Len(q) /\ n \in Nat /\ l = Len(t) /\ l \in Nat
    <3>1. t \in Seq(FrameType)
      BY <1>1, HeadTailProperties
    <3> QED BY <3>1, LenProperties
  <2>3. (\A i \in 1 .. n : i \in Nat /\ i > 0) /\ \A i \in 1 .. l : i \in Nat /\ i > 0
    BY <2>2
  <2> QED BY <2>1, <2>2, <2>3 DEF Paid, Finals
<1>4. ASSUME NEW j \in Paid(q, c) PROVE FALSE
  <2>1. j < 1 /\ j \in Nat /\ j > 0
    BY <1>2, <1>3 DEF QuietOK
  <2> QED BY <2>1
<1>5. ASSUME Head(q) = EndOk(c), NEW i \in Finals(t, c) PROVE FALSE
  <2>1. 1 \in Finals(q, c)
    BY <1>5, PaidTail
  <2>2. i + 1 = 1 /\ i \in Nat /\ i > 0
    BY <1>3, <2>1 DEF QuietOK
  <2> QED BY <2>2
<1>6. ~Alive(p, o, d, c)
  BY <1>2 DEF QuietOK
<1> QED BY <1>1, <1>3, <1>4, <1>5, <1>6

(* Frames of another call follow.                                             *)
LEMMA QuietFollows ==
    ASSUME NEW q \in Seq(FrameType), NEW q2, NEW a, NEW p, NEW o, NEW k, NEW d, NEW c, a # c,
           Answers(q, q2, a), QuietOK(p, o, q, k, d, c)
    PROVE  QuietOK(p, o, q2, k, d, c)
<1>1. SameOf(q, q2, c)
  BY PaidOther
<1>2. Closings(q2, c) = Closings(q, c)
  <2>1. PICK n, m : n = Len(q) /\ n \in Nat /\ m = Len(q2) /\ m \in Nat /\ n <= m
    BY LenProperties DEF Answers
  <2>2. /\ \A i \in 1 .. n : q2[i] = q[i] /\ i \in 1 .. m
        /\ \A i \in 1 .. m : i \in 1 .. n \/ i \in n + 1 .. m
        /\ \A i \in n + 1 .. m : q2[i].call # c
    BY <2>1 DEF Answers
  <2>3. \A i : i \in Closings(q2, c) <=> i \in Closings(q, c)
    BY <2>1, <2>2 DEF Closings, IsEnd
  <2> QED BY <2>3
<1> QED BY <1>1, <1>2 DEF SameOf, QuietOK

(* Steps of other calls, and transmission.                                    *)
LEMMA QuietOther ==
    ASSUME LinkInv, NEW a, StepOf(a), NEW c \in Call, c # a, NEW k, NEW d,
           QuietOK(toDaemon, outbox, toClient, k, d, c)
    PROVE  QuietOK(toDaemon', outbox', toClient', k, d, c)
<1>1. toClient \in Seq(FrameType)
  BY DEF LinkInv
<1>2. PICK w : Reads(toClient, w, a) /\ Answers(w, toClient', a)
  BY DEF StepOf
<1>3. w \in Seq(FrameType) /\ QuietOK(toDaemon, outbox, w, k, d, c)
  <2>1. CASE w = toClient
    BY <1>1, <2>1
  <2>2. CASE toClient # <<>> /\ w = Tail(toClient)
    BY <1>1, <2>2, QuietTail, HeadTailProperties
  <2> QED BY <1>2, <2>1, <2>2 DEF Reads
<1>4. QuietOK(toDaemon, outbox, toClient', k, d, c)
  BY <1>2, <1>3, QuietFollows
<1>5. Alive(toDaemon', outbox', d, c) => Alive(toDaemon, outbox, d, c)
  BY OverStays
<1> QED BY <1>4, <1>5 DEF QuietOK

-----------------------------------------------------------------------------
(* Steps of the client.                                                       *)

(* What a step of the client makes of the record k of a call and of the       *)
(* cancelled calls r, when q is under way to it and ab are the signals fired. *)
Outcome(k, k2, r, r2, q, ab, c) ==
    \/ /\ r2 = r /\ k2.end = k.end
       /\ \/ k.st \in {"idle", "live"} /\ k2.st \in {"idle", "live"}
          \/ k.st = "ended" /\ k2.st = "ended"
          \/ k.st = "live" /\ k2.st = "ended" /\ q # <<>> /\ Head(q) = EndOk(c)
          \/ k.st = "done" /\ k2 = k
    \/ k.st = "done" /\ k2 = k /\ r2 = Forgotten(r, c) /\ q # <<>> /\ IsEnd(Head(q), c)
    \/ k.st \in {"idle", "ended"} /\ k2.st = "done" /\ r2 = r
    \/ k.st \in {"live", "ended"} /\ k2.st = "done" /\ r2 = r /\ q # <<>> /\ IsEnd(Head(q), c)
    \/ /\ k.st \in {"live", "ended"} /\ k2.st = "done" /\ k2.end = "cut"
       /\ r2 = Remembered(r, c) /\ c \in ab

(* Every step of the client has one of these outcomes.                        *)
LEMMA ClientOutcome ==
    ASSUME BooksInv, NEW c \in Call, Caller(c) \/ ClientReceives(c)
    PROVE  /\ Outcome(client[c], client'[c], ring, ring', toClient, aborted', c)
           /\ aborted \subseteq aborted'
<1>1. client \in [Call -> ClientCall] /\ client[c] \in ClientCall
      /\ DuplexOK(duplex[c], client[c], c)
  BY DEF BooksInv
<1>2. client[c].st \in {"idle", "live", "ended", "done"}
  BY <1>1 DEF ClientCall
<1>3. ASSUME UNCHANGED <<client, ring, aborted>>
      PROVE  Outcome(client[c], client'[c], ring, ring', toClient, aborted', c)
                                                /\ aborted \subseteq aborted'
  BY <1>2, <1>3 DEF Outcome
<1>4. ASSUME NEW end, Take(c, end)
      PROVE  /\ client'[c].st = "done" /\ client'[c].end = end
             /\ c \in aborted' /\ aborted \subseteq aborted'
  BY <1>4, TakeRecord DEF Take
<1>5. ASSUME NEW queue, CancelAfter(c, queue), client[c].st \in {"live", "ended"}
      PROVE  Outcome(client[c], client'[c], ring, ring', toClient, aborted', c)
             /\ aborted \subseteq aborted'
  BY <1>4, <1>5 DEF CancelAfter, Outcome
<1>6. CASE Start(c)
  <2>1. client'[c].st = "live" /\ client'[c].end = client[c].end /\ client[c].st = "idle"
        /\ UNCHANGED <<ring, aborted>>
    BY <1>1, <1>6 DEF Start, ClientCall
  <2> QED BY <2>1 DEF Outcome
<1>7. CASE StartRefused(c)
  <2>1. client'[c].st = "done" /\ client[c].st = "idle" /\ UNCHANGED <<ring, aborted>>
    BY <1>1, <1>7 DEF StartRefused, ClientCall, linkVars
  <2> QED BY <2>1 DEF Outcome
<1>8. CASE Cancel(c)
  BY <1>5, <1>8 DEF Cancel
<1>9. CASE Return(c)
  <2>1. CASE client[c].st = "live"
    BY <1>5, <1>9, <2>1 DEF Return
  <2>2. CASE client[c].st = "ended" /\ Take(c, "cut") /\ UNCHANGED <<ring, outbox>>
    BY <1>4, <2>2 DEF Outcome
  <2> QED BY <1>9, <2>1, <2>2 DEF Return
<1>10. CASE Read(c)
  <2>1. PICK r, s : /\ r = [client[c] EXCEPT !.got = Head(client[c].buffered), !.buffered = Tail(@)]
                    /\ s = [r EXCEPT !.credit = @ + 1]
    OBVIOUS
  <2>2. /\ r.st = client[c].st /\ r.end = client[c].end /\ s.st = client[c].st
        /\ s.end = client[c].end /\ [r EXCEPT !.st = "done", !.end = "complete"].st = "done"
    BY <1>1, <2>1 DEF ClientCall
  <2>3. /\ UNCHANGED <<ring, aborted>> /\ client[c].st \in {"live", "ended"}
        /\ \/ client[c].st = "live" /\ client' = [client EXCEPT ![c] = s]
           \/ client[c].st = "ended" /\ client' = [client EXCEPT ![c] = r]
           \/ /\ client[c].st = "ended"
              /\ client' = [client EXCEPT ![c] = [r EXCEPT !.st = "done", !.end = "complete"]]
    BY <1>10, <2>1 DEF Read
  <2>4. \/ client[c].st = "live" /\ client'[c] = s
        \/ client[c].st = "ended" /\ client'[c] = r
        \/ client[c].st = "ended" /\ client'[c] = [r EXCEPT !.st = "done", !.end = "complete"]
    BY <1>1, <2>3
  <2> QED BY <2>2, <2>3, <2>4 DEF Outcome
<1>11. CASE DuplexSend(c)
  BY <1>3, <1>11 DEF DuplexSend, linkVars
<1>12. CASE DuplexFlush(c) \/ DuplexFlushFails(c) \/ DuplexEnd(c)
  <2>1. duplex[c].st \in {"open", "ending"} /\ client[c].st = "live"
    BY <1>1, <1>12 DEF DuplexFlush, DuplexFlushFails, FlushTurn, DuplexEnd, DuplexOK
  <2> QED BY <1>3, <1>5, <1>12, <2>1 DEF DuplexFlush, DuplexFlushFails, DuplexEnd
<1>13. CASE ReceiveInputCredit(c)
  BY <1>3, <1>13 DEF ReceiveInputCredit
<1>14. CASE ReceivePayload(c)
  <2>1. CASE UNCHANGED <<callVars, ring, outbox>>
    BY <1>3, <2>1 DEF callVars
  <2>2. ASSUME NEW n, client[c].st = "live",
               client' = [client EXCEPT ![c].buffered = Append(@, n), ![c].credit = @ - 1],
               UNCHANGED <<aborted, ring>>
        PROVE  Outcome(client[c], client'[c], ring, ring', toClient, aborted', c)
               /\ aborted \subseteq aborted'
    <3>1. client'[c].st = "live" /\ client'[c].end = client[c].end
      BY <1>1, <2>2 DEF ClientCall
    <3> QED BY <2>2, <3>1 DEF Outcome
  <2> QED BY <1>5, <1>14, <2>1, <2>2 DEF ReceivePayload
<1>15. CASE ReceiveEnd(c)
  <2>1. toClient # <<>> /\ Head(toClient) = EndOk(c) /\ IsEnd(Head(toClient), c)
    <3>1. toClient # <<>> /\ Head(toClient) = EndOk(c)
      BY <1>15 DEF ReceiveEnd, Accepts, ClientReads, EndOk
    <3>2. IsEnd(EndOk(c), c)
      BY DEF EndOk, Counted, IsEnd
    <3> QED BY <3>1, <3>2
  <2>2. CASE client[c].st = "done" /\ ring' = Forgotten(ring, c) /\ UNCHANGED callVars
    BY <2>1, <2>2 DEF Outcome, callVars
  <2>3. CASE client[c].st = "live" /\ UNCHANGED ring /\ \E end : Take(c, end)
    BY <1>4, <2>1, <2>3 DEF Outcome
  <2>4. CASE /\ client[c].st = "live" /\ client' = [client EXCEPT ![c].st = "ended"]
             /\ aborted' = aborted \cup {c} /\ UNCHANGED ring
    <3>1. client'[c].st = "ended" /\ client'[c].end = client[c].end
      BY <1>1, <2>4 DEF ClientCall
    <3> QED BY <2>1, <2>4, <3>1 DEF Outcome
  <2> QED BY <1>15, <2>2, <2>3, <2>4 DEF ReceiveEnd
<1>16. CASE ReceiveFailure(c)
  <2>1. toClient # <<>> /\ IsEnd(Head(toClient), c)
    BY <1>16 DEF ReceiveFailure, Accepts, ClientReads, Counted, IsEnd
  <2>2. CASE c \in Pending /\ Take(c, "cut") /\ UNCHANGED ring
    <3>1. client[c].st \in {"live", "ended"}
      BY <2>2 DEF Pending
    <3> QED BY <1>4, <2>1, <2>2, <3>1 DEF Outcome
  <2>3. CASE c \notin Pending /\ ring' = Forgotten(ring, c) /\ UNCHANGED callVars
    <3>1. client[c].st # "idle"
      <4>1. ~Unexpected(Counted("end", c, 0))
        BY <1>16 DEF ReceiveFailure, Accepts
      <4>2. Counted("end", c, 0).kind = "end" /\ Counted("end", c, 0).call = c
        BY DEF Counted
      <4> QED BY <4>1, <4>2 DEF Unexpected
    <3>2. client[c].st = "done"
      BY <1>2, <2>3, <3>1 DEF Pending
    <3> QED BY <2>1, <2>3, <3>2 DEF Outcome, callVars
  <2> QED BY <1>16, <2>2, <2>3 DEF ReceiveFailure
<1> QED BY <1>6, <1>7, <1>8, <1>9, <1>10, <1>11, <1>12, <1>13, <1>14, <1>15, <1>16
        DEF Caller, ClientReceives

(* A call that is not begun has sent nothing and is answered nothing.         *)
LEMMA IdlePaid ==
    ASSUME PeerInv, NEW c \in Call, client[c].st = "idle"
    PROVE  Paid(toClient, c) = {} /\ ~Alive(toDaemon, outbox, daemon[c], c)
<1>1. daemon[c] = NewDaemon /\ daemon[c].st = "absent"
      /\ Begins(toDaemon, c) = {} /\ Opens(outbox, c) = {}
  BY DEF PeerInv, StartInv, StartOK, DaemonOK
<1>2. Handed(daemon[c]) = 0
  BY <1>1 DEF NewDaemon, Handed
<1>3. toClient \in Seq(FrameType) /\ QueueOK(toClient, daemon[c], c)
  BY ResponseFacts DEF PeerInv
<1>4. ASSUME NEW i \in Paid(toClient, c) PROVE FALSE
  <2>1. toClient[i] \in FrameType
    BY <1>3, ElementOfSeq DEF Paid
  <2>2. PICK n : n = toClient[i].n /\ n \in Nat
    BY <2>1 DEF FrameType
  <2>3. n > 0 /\ n <= 0
    BY <1>2, <1>3, <2>2 DEF QueueOK
  <2> QED BY <2>2, <2>3
<1>5. Marks(toDaemon, "start", c) = Begins(toDaemon, c)
  BY DEF Marks, Begins, IsStart
<1> QED BY <1>1, <1>4, <1>5 DEF Alive

(* No caller ends a stream for its peer.                                      *)
LEMMA CallerEnds ==
    ASSUME BooksInv, NEW c \in Call, Caller(c), client[c].st = "live"
    PROVE  client'[c].st # "ended"
<1>1. client \in [Call -> ClientCall] /\ client[c] \in ClientCall
  BY DEF BooksInv
<1>2. ASSUME NEW end, Take(c, end) PROVE client'[c].st # "ended"
  BY <1>2, TakeRecord
<1>3. ASSUME NEW queue, CancelAfter(c, queue) PROVE client'[c].st # "ended"
  BY <1>2, <1>3 DEF CancelAfter
<1>4. CASE Read(c)
  <2>1. PICK r, s : /\ r = [client[c] EXCEPT !.got = Head(client[c].buffered), !.buffered = Tail(@)]
                    /\ s = [r EXCEPT !.credit = @ + 1]
    OBVIOUS
  <2>2. s.st = "live"
    BY <1>1, <2>1 DEF ClientCall
  <2>3. client' = [client EXCEPT ![c] = s]
    BY <1>4, <2>1 DEF Read
  <2> QED BY <1>1, <2>2, <2>3
<1>5. CASE Start(c) \/ StartRefused(c)
  BY <1>5 DEF Start, StartRefused
<1>6. CASE Cancel(c) \/ Return(c)
  BY <1>2, <1>3, <1>6 DEF Cancel, Return
<1>7. CASE DuplexSend(c) \/ DuplexFlush(c) \/ DuplexFlushFails(c) \/ DuplexEnd(c)
  BY <1>3, <1>7 DEF DuplexSend, DuplexFlush, DuplexFlushFails, DuplexEnd
<1> QED BY <1>4, <1>5, <1>6, <1>7 DEF Caller

(* A live call has read one payload more, or as many as before.               *)
LEMMA GotGrows ==
    ASSUME BooksInv, StartInv, ResponsesInv, NEW c \in Call, Caller(c) \/ ClientReceives(c),
           client[c].st = "live", client'[c].st = "live"
    PROVE  client'[c].got \in {client[c].got, client[c].got + 1}
<1>1. client \in [Call -> ClientCall] /\ client[c] \in ClientCall
  BY DEF BooksInv
<1>2. CASE Read(c)
  <2>1. PICK r, s, b : /\ b = client[c].buffered
                       /\ r = [client[c] EXCEPT !.got = Head(b), !.buffered = Tail(@)]
                       /\ s = [r EXCEPT !.credit = @ + 1]
    OBVIOUS
  <2>2. s.got = Head(b) /\ client' = [client EXCEPT ![c] = s] /\ b # <<>>
    BY <1>1, <1>2, <2>1 DEF Read, ClientCall
  <2>3. Head(b) = client[c].got + 1
    <3>1. b \in Seq(1 .. MaxItems) /\ \A i \in 1 .. Len(b) : b[i] = client[c].got + i
      BY <2>1, ReceivedNat, ResponseFacts DEF ReadOK
    <3>2. Len(b) \in Nat /\ Len(b) # 0 /\ Head(b) = b[1]
      BY <2>2, <3>1, LenProperties, EmptySeq
    <3>3. 1 \in 1 .. Len(b)
      BY <3>2
    <3> QED BY <3>1, <3>2, <3>3
  <2>4. client'[c] = s
    BY <1>1, <2>2
  <2> QED BY <2>2, <2>3, <2>4
<1>3. CASE Start(c)
  BY <1>3 DEF Start
<1>4. CASE \/ DuplexSend(c) \/ DuplexFlush(c) \/ ReceiveInputCredit(c)
           \/ DuplexEnd(c) /\ (duplex[c].st = "open" \/ CanSend)
  <2>1. client' = client
    BY <1>4 DEF DuplexSend, DuplexFlush, ReceiveInputCredit, DuplexEnd
  <2> QED BY <2>1
<1> QED BY <1>2, <1>3, <1>4, ClientKinds

(* A step of the client on the call itself.                                   *)
LEMMA QuietClient ==
    ASSUME PeerInv, NEW c \in Call, Caller(c) \/ ClientReceives(c),
           QuietOK(toDaemon, outbox, toClient, client[c], daemon[c], c)
    PROVE  QuietOK(toDaemon', outbox', toClient', client'[c], daemon'[c], c)
<1>1. PICK p, o, o2, q, q2, k, k2, d :
        /\ p = toDaemon /\ o = outbox /\ o2 = outbox' /\ q = toClient /\ q2 = toClient'
        /\ k = client[c] /\ k2 = client'[c] /\ d = daemon[c]
  OBVIOUS
<1>2. LinkInv /\ BooksInv /\ q \in Seq(FrameType) /\ k \in ClientCall
  BY <1>1, CreditTypes DEF PeerInv
<1>3. /\ daemon' = daemon /\ toDaemon' = toDaemon /\ (Start(c) \/ Opens(o2, c) = Opens(o, c))
  BY <1>1, <1>2, CallerStepOf
<1>4. q2 = q \/ (q # <<>> /\ q2 = Tail(q))
  BY <1>1, <1>2, CallerStep, ClientReceivesStep
<1>5. QuietOK(p, o, q, k, d, c) /\ QuietOK(p, o, q2, k, d, c)
  BY <1>1, <1>2, <1>4, QuietTail
<1>6. Outcome(k, k2, ring, ring', q, aborted', c)
  BY <1>1, <1>2, ClientOutcome
<1>7. ASSUME k.st = "idle" PROVE Paid(q2, c) = {} /\ Closings(q2, c) = {}
  <2>1. Paid(q, c) = {}
    BY <1>1, <1>7, IdlePaid
  <2>2. Paid(q2, c) = {}
    BY <1>2, <1>4, <2>1, PaidTail
  <2>3. Closings(q2, c) = {}
    BY <1>5, <1>7 DEF QuietOK
  <2> QED BY <2>2, <2>3
<1>8. Closings(q2, c) # {} => ~Alive(p, o2, d, c) /\ k2.st # "idle"
  <2> SUFFICES ASSUME Closings(q2, c) # {} PROVE ~Alive(p, o2, d, c) /\ k2.st # "idle"
    OBVIOUS
  <2>1. k.st # "idle" /\ ~Alive(p, o, d, c)
    BY <1>5 DEF QuietOK
  <2>2. ~Start(c)
    BY <1>1, <2>1 DEF Start
  <2>3. k2.st # "idle"
    BY <1>1, <1>2, <2>1, NeverIdle
  <2> QED BY <1>3, <2>1, <2>2, <2>3 DEF Alive
<1>9. k2.st = "ended" => Paid(q2, c) = {} /\ Finals(q2, c) = {}
  <2> SUFFICES ASSUME k2.st = "ended" PROVE Paid(q2, c) = {} /\ Finals(q2, c) = {}
    OBVIOUS
  <2>1. k.st = "ended" \/ (k.st = "live" /\ q # <<>> /\ Head(q) = EndOk(c))
    BY <1>6 DEF Outcome
  <2>2. CASE k.st = "ended"
    BY <1>5, <2>2 DEF QuietOK
  <2>3. CASE k.st = "live" /\ q # <<>> /\ Head(q) = EndOk(c)
    <3>1. q2 = Tail(q)
      <4>1. ~Caller(c) => q2 = Tail(q)
        BY <1>1, <1>2, ClientReceivesStep
      <4>2. ASSUME Caller(c) PROVE FALSE
        BY <1>1, <1>2, <2>3, <4>2, CallerEnds
      <4> QED BY <4>1, <4>2
    <3>2. IsEnd(Head(q), c)
      BY <2>3 DEF EndOk, Counted, IsEnd
    <3> QED BY <1>2, <1>5, <2>3, <3>1, <3>2, EndIsLast
  <2> QED BY <2>1, <2>2, <2>3
<1>10. k2.st = "live" => \A i \in Paid(q2, c) : q2[i].n <= Credit + k2.got
  <2> SUFFICES ASSUME k2.st = "live", NEW i \in Paid(q2, c) PROVE q2[i].n <= Credit + k2.got
    OBVIOUS
  <2>1. k.st \in {"idle", "live"}
    BY <1>6 DEF Outcome
  <2>2. k.st = "live"
    BY <1>7, <2>1
  <2>3. PICK n, g, g2 : n = q2[i].n /\ g = k.got /\ g2 = k2.got
    OBVIOUS
  <2>4. n <= Credit + g
    BY <1>5, <2>2, <2>3 DEF QuietOK
  <2>5. n \in Nat /\ g \in Nat /\ Credit \in Nat
    <3>1. q2 \in Seq(FrameType)
      BY <1>2, <1>4, HeadTailProperties
    <3>2. q2[i] \in FrameType
      BY <3>1, ElementOfSeq DEF Paid
    <3> QED BY <1>1, <1>2, <2>3, <3>2, PeerConstants, ReceivedNat DEF FrameType
  <2>6. g2 = g \/ g2 = g + 1
    BY <1>1, <1>2, <2>2, <2>3, GotGrows DEF PeerInv
  <2> QED BY <2>3, <2>4, <2>5, <2>6
<1>11. k2.end = "cut" => k2.st = "done"
  BY <1>5, <1>6 DEF QuietOK, Outcome
<1>12. QuietOK(p, o2, q2, k2, d, c)
  BY <1>5, <1>8, <1>9, <1>10, <1>11 DEF QuietOK
<1> QED BY <1>1, <1>3, <1>12

-----------------------------------------------------------------------------
(* Steps of the daemon.                                                       *)

(* A frame that the daemon may send of call c when its record d becomes d2    *)
(* and p was under way: an end when it forgets the call or never knew it; a   *)
(* last payload only as far as the credit goes.                               *)
Fitting(f, p, d, d2, c) ==
    /\ IsEnd(f, c) => d2.st \in {"gone", "absent"}
    /\ IsPayload(f, c) /\ d2.st = "gone" =>
          \/ c \in Unary /\ f.n <= 1
          \/ /\ p # <<>> /\ IsWindow(Head(p).frame, c)
             /\ f.n <= Handed(d) + d.credit + Head(p).frame.n

FitsAll(s, p, d, d2, c) == s \in Seq(FrameType) /\ \A i \in 1 .. Len(s) : Fitting(s[i], p, d, d2, c)

(* A step of the daemon, as far as ends go.                                   *)
Speech(p, p2, q, q2, d, d2, c) ==
    /\ \/ p # <<>> /\ Head(p).frame.call = c /\ p2 = Tail(p)
       \/ p2 = p /\ d.st \in {"receiving", "running"}
    /\ d.st = "absent" => d2.st \in {"absent", "receiving"}
    /\ c \in Unary => d2.emitted \in {d.emitted, 1}
    /\ \E s : q2 = q \o s /\ FitsAll(s, p, d, d2, c)

(* Short answers.                                                             *)
LEMMA FitsFacts ==
    ASSUME NEW c \in Id, NEW p, NEW d, NEW d2
    PROVE  /\ FitsAll(<<>>, p, d, d2, c)
           /\ \A f \in FrameType : Fitting(f, p, d, d2, c) => FitsAll(<<f>>, p, d, d2, c)
           /\ \A f, g \in FrameType : Fitting(f, p, d, d2, c) /\ Fitting(g, p, d, d2, c) =>
                 FitsAll(<<f, g>>, p, d, d2, c)
           /\ d2.st \in {"gone", "absent"} =>
                 FitsAll(<<EndError(c)>>, p, d, d2, c) /\ FitsAll(<<EndOk(c)>>, p, d, d2, c)
<1>1. FitsAll(<<>>, p, d, d2, c)
  <2>1. <<>> \in Seq(FrameType) /\ Len(<<>>) = 0 /\ 1 .. 0 = {}
    OBVIOUS
  <2> QED BY <2>1 DEF FitsAll
<1>2. ASSUME NEW f \in FrameType, Fitting(f, p, d, d2, c) PROVE FitsAll(<<f>>, p, d, d2, c)
  <2>1. <<f>> \in Seq(FrameType) /\ Len(<<f>>) = 1 /\ <<f>>[1] = f /\ \A i \in 1 .. 1 : i = 1
    OBVIOUS
  <2> QED BY <1>2, <2>1 DEF FitsAll
<1>3. ASSUME NEW f \in FrameType, NEW g \in FrameType, Fitting(f, p, d, d2, c), Fitting(g, p, d, d2, c)
      PROVE  FitsAll(<<f, g>>, p, d, d2, c)
  <2>1. PICK s : s = <<f, g>>
    OBVIOUS
  <2>2. s \in Seq(FrameType) /\ Len(s) = 2 /\ s[1] = f /\ s[2] = g
    BY <2>1
  <2>3. \A i \in 1 .. 2 : i = 1 \/ i = 2
    OBVIOUS
  <2>4. FitsAll(s, p, d, d2, c)
    BY <1>3, <2>2, <2>3 DEF FitsAll
  <2> QED BY <2>1, <2>4
<1>4. ASSUME d2.st \in {"gone", "absent"}
      PROVE  FitsAll(<<EndError(c)>>, p, d, d2, c) /\ FitsAll(<<EndOk(c)>>, p, d, d2, c)
  <2>1. /\ EndError(c) \in FrameType /\ EndOk(c) \in FrameType
        /\ EndError(c).kind = "end" /\ EndOk(c).kind = "end"
    BY FrameFacts DEF EndError, EndOk
  <2>2. Fitting(EndError(c), p, d, d2, c) /\ Fitting(EndOk(c), p, d, d2, c)
    BY <1>4, <2>1 DEF Fitting, IsPayload
  <2> QED BY <1>2, <2>1, <2>2
<1> QED BY <1>1, <1>2, <1>3, <1>4

(* The call is given up, or stays as it is.                                   *)
LEMMA ShortSpeech ==
    ASSUME NEW c \in Call, DaemonKnown(c),
           \/ DaemonStart(c) /\ daemon[c].st = "absent"
           \/ DaemonEnd(c) \/ DaemonCancel(c) \/ DaemonFail(c)
    PROVE  Speech(toDaemon, toDaemon', toClient, toClient', daemon[c], daemon'[c], c)
<1>1. PICK p, p2, q, q2, d, d2 : /\ p = toDaemon /\ p2 = toDaemon' /\ q = toClient /\ q2 = toClient'
                                 /\ d = daemon[c] /\ d2 = daemon'[c]
  OBVIOUS
<1>2. DaemonOK(d, c) /\ d \in DaemonRecord /\ daemon \in [Call -> DaemonRecord] /\ c \in Id
  BY <1>1 DEF DaemonKnown, Id
<1>3. /\ FitsAll(<<>>, p, d, d2, c)
      /\ d2.st \in {"gone", "absent"} => FitsAll(<<EndError(c)>>, p, d, d2, c)
  BY <1>2, FitsFacts
<1>4. d2 = Abandoned(d) => d2.st = "gone" /\ d2.emitted = d.emitted
  BY <1>2 DEF Abandoned, DaemonRecord
<1>5. d.st \in {"absent", "receiving", "running", "gone"}
  BY <1>2 DEF DaemonRecord
<1>6. CASE DaemonFail(c)
  <2>1. p2 = p /\ q2 = q \o <<EndError(c)>> /\ d2 = Abandoned(d) /\ d.st \in {"receiving", "running"}
    BY <1>1, <1>2, <1>6 DEF DaemonFail, Emit, Active
  <2> QED BY <1>1, <1>3, <1>4, <2>1 DEF Speech
<1>7. CASE DaemonCancel(c)
  <2>1. p # <<>> /\ p2 = Tail(p) /\ Head(p).frame.call = c
    BY <1>1, <1>7 DEF DaemonCancel, DaemonReads, Frame, Answer
  <2>2. \/ d2 = Abandoned(d) /\ q2 = q \o <<EndError(c)>> /\ d.st # "absent"
        \/ d2 = d /\ q2 = q \o <<>>
    BY <1>1, <1>2, <1>7 DEF DaemonCancel, Answer, Active
  <2> QED BY <1>1, <1>3, <1>4, <2>1, <2>2 DEF Speech
<1>8. CASE DaemonEnd(c)
  <2>1. p # <<>> /\ p2 = Tail(p) /\ Head(p).frame.call = c
    <3>1. DaemonReads(Frame("end", c)) /\ toDaemon' = Tail(toDaemon)
      BY <1>8 DEF DaemonEnd, Answer
    <3> QED BY <1>1, <3>1 DEF DaemonReads, Frame
  <2>2. \/ d.st = "receiving" /\ d2 = [d EXCEPT !.st = "running"] /\ q2 = q \o <<>>
        \/ d.st = "running" /\ d2 = [d EXCEPT !.inputOpen = FALSE] /\ q2 = q \o <<>>
        \/ d.st = "running" /\ d2 = Abandoned(d) /\ q2 = q \o <<EndError(c)>>
        \/ d.st \notin {"receiving", "running"} /\ d2 = d /\ q2 = q \o <<EndError(c)>>
    BY <1>1, <1>2, <1>8 DEF DaemonEnd, Answer, DaemonRecord
  <2>3. d.st # "absent" \/ d2 = d
    BY <2>2
  <2>4. d2.emitted = d.emitted
    BY <1>2, <1>4, <2>2 DEF DaemonRecord
  <2>5. \E s : q2 = q \o s /\ FitsAll(s, p, d, d2, c)
    BY <1>3, <1>4, <1>5, <2>2
  <2> QED BY <1>1, <2>1, <2>3, <2>4, <2>5 DEF Speech
<1>9. CASE DaemonStart(c) /\ daemon[c].st = "absent"
  <2>1. p # <<>> /\ p2 = Tail(p) /\ Head(p).frame.call = c
    BY <1>1, <1>9 DEF DaemonStart, DaemonReads, Frame, Answer
  <2>2. \/ q2 = q \o <<>> /\ d2 = [d EXCEPT !.st = "receiving"]
        \/ q2 = q \o <<EndError(c)>> /\ d2 = d
    BY <1>1, <1>2, <1>9 DEF DaemonStart, Answer
  <2>3. d2.emitted = d.emitted /\ d2.st \in {"absent", "receiving"}
    BY <1>1, <1>2, <1>9, <2>2 DEF DaemonRecord
  <2>4. \E s : q2 = q \o s /\ FitsAll(s, p, d, d2, c)
    BY <1>1, <1>3, <1>9, <2>2
  <2> QED BY <1>1, <2>1, <2>3, <2>4 DEF Speech
<1> QED BY <1>6, <1>7, <1>8, <1>9

(* ProtocolCalls::receive_payload.                                            *)
LEMMA PayloadSpeech ==
    ASSUME NEW c \in Call, DaemonKnown(c), DaemonPayload(c),
           daemon[c].st = "running" => daemon[c].seen > 0
    PROVE  Speech(toDaemon, toDaemon', toClient, toClient', daemon[c], daemon'[c], c)
<1>1. PICK p, p2, q, q2, d, d2 : /\ p = toDaemon /\ p2 = toDaemon' /\ q = toClient /\ q2 = toClient'
                                 /\ d = daemon[c] /\ d2 = daemon'[c]
  OBVIOUS
<1>2. DaemonOK(d, c) /\ d \in DaemonRecord /\ daemon \in [Call -> DaemonRecord] /\ c \in Id
  BY <1>1 DEF DaemonKnown, Id
<1>3. /\ FitsAll(<<>>, p, d, d2, c)
      /\ d2.st \in {"gone", "absent"} => FitsAll(<<EndError(c)>>, p, d, d2, c)
  BY <1>2, FitsFacts
<1>4. p # <<>> /\ p2 = Tail(p) /\ Head(p).frame.call = c
  <2>1. DaemonReads(Frame("payload", c)) /\ toDaemon' = Tail(toDaemon)
    BY DEF DaemonPayload, Answer
  <2> QED BY <1>1, <2>1 DEF DaemonReads, Frame
<1>5. \/ d.st = "receiving" /\ q2 = q \o <<>> /\ d2 = [d EXCEPT !.seen = 1]
      \/ /\ d.st = "receiving" /\ q2 = q \o <<>>
         /\ d2 = [d EXCEPT !.st = "running", !.inputOpen = TRUE, !.input = 1, !.seen = 1,
                           !.inputCredit = @ - 1]
      \/ /\ d.st = "running" /\ q2 = q \o <<>>
         /\ d2 = [d EXCEPT !.input = @ + 1, !.seen = @ + 1, !.inputCredit = @ - 1]
      \/ d2 = Abandoned(d) /\ q2 = q \o <<EndError(c)>> /\ d.st # "absent"
      \/ d2 = d /\ q2 = q \o <<EndError(c)>> /\ d.st \in {"absent", "gone"}
  <2>1. d.st \in {"absent", "receiving", "running", "gone"} /\ d.seen \in Nat
    BY <1>2 DEF DaemonRecord
  <2>2. /\ c \in Active <=> d.st \in {"receiving", "running"}
        /\ d.seen = 0 \/ d.seen > 0
    BY <1>1, <2>1 DEF Active
  <2>3. d.st = "running" => d.seen > 0
    BY <1>1
  <2>4. \/ d.st = "receiving" /\ Answer(<<>>) /\ daemon' = [daemon EXCEPT ![c].seen = 1]
        \/ /\ d.st = "receiving" /\ Answer(<<>>)
           /\ daemon' = [daemon EXCEPT ![c].st = "running", ![c].inputOpen = TRUE,
                           ![c].input = 1, ![c].seen = 1, ![c].inputCredit = @ - 1]
        \/ /\ d.st = "running" /\ Answer(<<>>)
           /\ daemon' = [daemon EXCEPT ![c].input = @ + 1, ![c].seen = @ + 1,
                                       ![c].inputCredit = @ - 1]
        \/ /\ daemon' = [daemon EXCEPT ![c] = Abandoned(@)] /\ Answer(<<EndError(c)>>)
           /\ d.st # "absent"
        \/ daemon' = daemon /\ Answer(<<EndError(c)>>) /\ d.st \in {"absent", "gone"}
    BY <1>1, <2>1, <2>2, <2>3 DEF DaemonPayload
  <2> QED BY <1>1, <1>2, <2>4 DEF Answer
<1>6. d2 = Abandoned(d) => d2.st = "gone" /\ d2.emitted = d.emitted
  BY <1>2 DEF Abandoned, DaemonRecord
<1>7. d2.emitted = d.emitted
  BY <1>2, <1>5, <1>6 DEF DaemonRecord
<1>8. d.st # "absent" \/ d2 = d
  BY <1>5
<1>9. \E s : q2 = q \o s /\ FitsAll(s, p, d, d2, c)
  BY <1>3, <1>5, <1>6
<1> QED BY <1>1, <1>4, <1>7, <1>8, <1>9 DEF Speech

(* A handler yields a payload, completes, or reads a message.                 *)
LEMMA HandlerSpeech ==
    ASSUME NEW c \in Call, DaemonKnown(c), DaemonYield(c) \/ DaemonComplete(c) \/ DaemonConsume(c)
    PROVE  Speech(toDaemon, toDaemon', toClient, toClient', daemon[c], daemon'[c], c)
<1>1. PICK p, p2, q, q2, d, d2 : /\ p = toDaemon /\ p2 = toDaemon' /\ q = toClient /\ q2 = toClient'
                                 /\ d = daemon[c] /\ d2 = daemon'[c]
  OBVIOUS
<1>2. DaemonOK(d, c) /\ d \in DaemonRecord /\ daemon \in [Call -> DaemonRecord] /\ c \in Id
  BY <1>1 DEF DaemonKnown, Id
<1>3. /\ FitsAll(<<>>, p, d, d2, c)
      /\ \A f \in FrameType : Fitting(f, p, d, d2, c) => FitsAll(<<f>>, p, d, d2, c)
      /\ \A f, g \in FrameType : Fitting(f, p, d, d2, c) /\ Fitting(g, p, d, d2, c) =>
            FitsAll(<<f, g>>, p, d, d2, c)
      /\ d2.st \in {"gone", "absent"} => FitsAll(<<EndOk(c)>>, p, d, d2, c)
  BY <1>2, FitsFacts
<1>4. PICK e : e = d.emitted /\ e \in Nat
  BY <1>2, DaemonFields
<1>5. /\ \A n \in Nat : /\ Counted("payload", c, n) \in FrameType
                        /\ Counted("payload", c, n).kind = "payload"
                        /\ Counted("payload", c, n).n = n
      /\ Counted("window", c, 1) \in FrameType /\ Counted("window", c, 1).kind = "window"
      /\ EndOk(c) \in FrameType /\ EndOk(c).kind = "end"
  BY <1>2, FrameFacts DEF EndOk
<1>6. CASE DaemonYield(c)
  <2>1. /\ d.st = "running" /\ p2 = p /\ c \notin Unary
        /\ \/ /\ d2 = [d EXCEPT !.emitted = e + 1, !.credit = @ - 1]
              /\ q2 = q \o <<Counted("payload", c, e + 1)>>
           \/ /\ d2 = [d EXCEPT !.emitted = e + 1, !.held = Append(d.held, e + 1)]
              /\ q2 = q \o <<>>
    BY <1>1, <1>2, <1>4, <1>6 DEF DaemonYield, Emit
  <2>2. d2.st = "running" /\ e + 1 \in Nat
    <3>1. d2.st = d.st
      BY <1>2, <2>1 DEF DaemonRecord
    <3> QED BY <1>4, <2>1, <3>1
  <2>3. PICK f : f = Counted("payload", c, e + 1) /\ f \in FrameType /\ f.kind = "payload"
    BY <1>5, <2>2
  <2>4. Fitting(f, p, d, d2, c)
    BY <2>2, <2>3 DEF Fitting, IsEnd
  <2>5. \E s : q2 = q \o s /\ FitsAll(s, p, d, d2, c)
    BY <1>3, <2>1, <2>3, <2>4
  <2> QED BY <1>1, <2>1, <2>5 DEF Speech
<1>7. CASE DaemonComplete(c)
  <2>1. /\ p2 = p /\ d.st = "running"
        /\ \/ /\ c \in Unary
              /\ d2 = [d EXCEPT !.st = "gone", !.complete = TRUE, !.emitted = 1]
              /\ q2 = q \o <<Counted("payload", c, 1), EndOk(c)>>
           \/ /\ c \notin Unary /\ d2 = [d EXCEPT !.st = "gone", !.complete = TRUE, !.input = 0]
              /\ q2 = q \o <<EndOk(c)>>
           \/ /\ c \notin Unary /\ d2 = [d EXCEPT !.complete = TRUE, !.input = 0]
              /\ q2 = q \o <<>>
    BY <1>1, <1>2, <1>7 DEF DaemonComplete, Emit
  <2>2. c \in Unary => d2.emitted = 1
    BY <1>2, <2>1 DEF DaemonRecord
  <2>3. \E s : q2 = q \o s /\ FitsAll(s, p, d, d2, c)
    <3>1. CASE /\ c \in Unary
               /\ d2 = [d EXCEPT !.st = "gone", !.complete = TRUE, !.emitted = 1]
               /\ q2 = q \o <<Counted("payload", c, 1), EndOk(c)>>
      <4>1. d2.st = "gone"
        BY <1>2, <3>1 DEF DaemonRecord
      <4>2. PICK f : f = Counted("payload", c, 1) /\ f \in FrameType /\ f.kind = "payload" /\ f.n = 1
        BY <1>5
      <4>3. Fitting(f, p, d, d2, c) /\ Fitting(EndOk(c), p, d, d2, c)
        BY <1>5, <3>1, <4>1, <4>2 DEF Fitting, IsEnd, IsPayload
      <4> QED BY <1>3, <1>5, <3>1, <4>2, <4>3
    <3>2. CASE d2 = [d EXCEPT !.st = "gone", !.complete = TRUE, !.input = 0] /\ q2 = q \o <<EndOk(c)>>
      <4>1. d2.st = "gone"
        BY <1>2, <3>2 DEF DaemonRecord
      <4> QED BY <1>3, <3>2, <4>1
    <3> QED BY <1>3, <2>1, <3>1, <3>2
  <2> QED BY <1>1, <2>1, <2>2, <2>3 DEF Speech
<1>8. CASE DaemonConsume(c)
  <2>1. /\ p2 = p /\ d.st = "running"
        /\ d2 = [d EXCEPT !.input = @ - 1, !.inputCredit = @ + 1]
        /\ q2 = q \o <<Counted("window", c, 1)>>
    BY <1>1, <1>2, <1>8 DEF DaemonConsume, Emit
  <2>2. d2.emitted = d.emitted
    BY <1>2, <2>1 DEF DaemonRecord
  <2>3. Fitting(Counted("window", c, 1), p, d, d2, c)
    BY <1>5 DEF Fitting, IsEnd, IsPayload
  <2>4. \E s : q2 = q \o s /\ FitsAll(s, p, d, d2, c)
    BY <1>3, <1>5, <2>1, <2>3
  <2> QED BY <1>1, <2>1, <2>2, <2>4 DEF Speech
<1> QED BY <1>6, <1>7, <1>8

(* ProtocolCalls::update_credit.                                              *)
LEMMA CreditSpeech ==
    ASSUME NEW c \in Call, DaemonKnown(c), DaemonCredit(c)
    PROVE  Speech(toDaemon, toDaemon', toClient, toClient', daemon[c], daemon'[c], c)
<1>1. PICK p, p2, q, q2, d, d2 : /\ p = toDaemon /\ p2 = toDaemon' /\ q = toClient /\ q2 = toClient'
                                 /\ d = daemon[c] /\ d2 = daemon'[c]
  OBVIOUS
<1>2. DaemonOK(d, c) /\ d \in DaemonRecord /\ daemon \in [Call -> DaemonRecord] /\ c \in Id
  BY <1>1 DEF DaemonKnown, Id
<1>3. /\ FitsAll(<<>>, p, d, d2, c)
      /\ d2.st \in {"gone", "absent"} =>
            FitsAll(<<EndError(c)>>, p, d, d2, c) /\ FitsAll(<<EndOk(c)>>, p, d, d2, c)
  BY <1>2, FitsFacts
<1>4. PICK n \in 1 .. Credit :
        /\ DaemonReads(Counted("window", c, n))
        /\ LET fits  == IF d.credit + n < Len(d.held) THEN d.credit + n ELSE Len(d.held)
               sent  == [i \in 1 .. fits |-> Counted("payload", c, d.held[i])]
               left  == SubSeq(d.held, fits + 1, Len(d.held))
               ends  == d.complete /\ left = <<>>
           IN \/ UNCHANGED daemon /\ Answer(<<>>)
              \/ /\ c \in Active
                 /\ daemon' = [daemon EXCEPT ![c] = Abandoned(@)] /\ Answer(<<EndError(c)>>)
              \/ /\ c \in Active
                 /\ daemon' = [daemon EXCEPT
                      ![c].credit = @ + n - fits, ![c].held = left,
                      ![c].st = IF ends THEN "gone" ELSE @]
                 /\ Answer(sent \o IF ends THEN <<EndOk(c)>> ELSE <<>>)
  BY <1>1, ZenonT(60) DEF DaemonCredit
<1>5. /\ p # <<>> /\ p2 = Tail(p) /\ Head(p).frame.call = c /\ IsWindow(Head(p).frame, c)
      /\ Head(p).frame.n = n
  <2>1. toDaemon' = Tail(toDaemon)
    BY <1>4 DEF Answer
  <2> QED BY <1>1, <1>4, <2>1 DEF DaemonReads, Counted, IsWindow
<1>6. PICK l, x, h : l = Len(d.held) /\ x = d.credit /\ h = d.held
  OBVIOUS
<1>7. PICK fits : fits = IF x + n < l THEN x + n ELSE l
  OBVIOUS
<1>8. PICK sent : sent = [i \in 1 .. fits |-> Counted("payload", c, h[i])]
  OBVIOUS
<1>9. PICK left : left = SubSeq(h, fits + 1, l)
  OBVIOUS
<1>10. PICK ends : ends = (d.complete /\ left = <<>>) /\ ends \in BOOLEAN
  OBVIOUS
<1>11. CASE UNCHANGED daemon /\ Answer(<<>>)
  <2>1. d2 = d /\ q2 = q \o <<>>
    BY <1>1, <1>11 DEF Answer
  <2> QED BY <1>1, <1>3, <1>5, <2>1 DEF Speech
<1>12. CASE /\ c \in Active
            /\ daemon' = [daemon EXCEPT ![c] = Abandoned(@)] /\ Answer(<<EndError(c)>>)
  <2>1. d2 = Abandoned(d) /\ q2 = q \o <<EndError(c)>> /\ d.st # "absent"
    BY <1>1, <1>2, <1>12 DEF Answer, Active
  <2>2. d2.st = "gone" /\ d2.emitted = d.emitted
    BY <1>2, <2>1 DEF Abandoned, DaemonRecord
  <2> QED BY <1>1, <1>3, <1>5, <2>1, <2>2 DEF Speech
<1>13. CASE /\ c \in Active
            /\ daemon' = [daemon EXCEPT
                 ![c].credit = @ + n - fits, ![c].held = left,
                 ![c].st = IF ends THEN "gone" ELSE @]
            /\ Answer(sent \o IF ends THEN <<EndOk(c)>> ELSE <<>>)
  <2>1. /\ x \in Nat /\ h \in Seq(1 .. MaxItems) /\ l \in Nat /\ n \in Nat /\ Handed(d) \in Nat
        /\ \A i \in 1 .. l : h[i] = Handed(d) + i /\ h[i] \in Nat
    <3>1. /\ x \in Nat /\ h \in Seq(1 .. MaxItems) /\ l \in Nat /\ n \in Nat /\ Handed(d) \in Nat
      BY <1>2, <1>6, DaemonFields, PeerConstants
    <3>2. \A i \in 1 .. l : h[i] = Handed(d) + i
      BY <1>2, <1>6 DEF DaemonOK
    <3>3. \A i \in 1 .. l : Handed(d) + i \in Nat
      BY <3>1
    <3> QED BY <3>1, <3>2, <3>3
  <2>2. fits \in 0 .. l /\ fits \in Nat /\ fits <= x + n
    BY <1>7, <2>1
  <2>3. PICK t : t = IF ends THEN <<EndOk(c)>> ELSE <<>>
    OBVIOUS
  <2>4. d2 = [d EXCEPT !.credit = x + n - fits, !.held = left, !.st = IF ends THEN "gone" ELSE @]
        /\ q2 = q \o (sent \o t) /\ d.st # "absent"
    BY <1>1, <1>2, <1>6, <1>13, <2>3 DEF Answer, Active
  <2>5. d2.emitted = d.emitted /\ (ends => d2.st = "gone")
    BY <1>2, <2>4 DEF DaemonRecord
  <2>6. FitsAll(t, p, d, d2, c)
    BY <1>3, <2>3, <2>5
  <2>7. ASSUME NEW i \in 1 .. fits
        PROVE  /\ Counted("payload", c, h[i]) \in FrameType
               /\ Fitting(Counted("payload", c, h[i]), p, d, d2, c)
    <3>1. i \in 1 .. l /\ i \in Nat /\ i <= fits
      BY <2>1, <2>2
    <3>2. PICK f, y, z : f = Counted("payload", c, h[i]) /\ y = h[i] /\ z = Handed(d)
      OBVIOUS
    <3>3. y = z + i /\ y \in Nat /\ z \in Nat
      BY <2>1, <3>1, <3>2
    <3>4. f \in FrameType /\ f.kind = "payload" /\ f.n = y
      BY <1>2, <3>2, <3>3, FrameFacts
    <3>5. y <= z + x + n
      BY <2>1, <2>2, <3>1, <3>3
    <3>6. Fitting(f, p, d, d2, c)
      BY <1>5, <1>6, <3>2, <3>4, <3>5 DEF Fitting, IsEnd
    <3> QED BY <3>2, <3>4, <3>6
  <2>8. /\ sent \in Seq(FrameType) /\ Len(sent) = fits
        /\ \A i \in 1 .. fits : Fitting(sent[i], p, d, d2, c)
    BY <1>8, <2>2, <2>7
  <2>9. PICK a, u : a = Len(t) /\ u = sent \o t
    OBVIOUS
  <2>10. a \in Nat /\ t \in Seq(FrameType)
    BY <2>6, <2>9, LenProperties DEF FitsAll
  <2>11. /\ u \in Seq(FrameType) /\ Len(u) = fits + a
         /\ \A i \in 1 .. fits + a : u[i] = IF i <= fits THEN sent[i] ELSE t[i - fits]
    BY <2>8, <2>9, <2>10, ConcatProperties
  <2>12. ASSUME NEW i \in 1 .. fits + a PROVE Fitting(u[i], p, d, d2, c)
    <3>1. CASE i <= fits
      <4>1. i \in 1 .. fits
        BY <2>2, <2>10, <3>1
      <4> QED BY <2>8, <2>11, <3>1, <4>1
    <3>2. CASE ~(i <= fits)
      <4>1. i - fits \in 1 .. a
        BY <2>2, <2>10, <3>2
      <4> QED BY <2>6, <2>9, <2>11, <3>2, <4>1 DEF FitsAll
    <3> QED BY <3>1, <3>2
  <2>13. FitsAll(u, p, d, d2, c)
    BY <2>11, <2>12 DEF FitsAll
  <2>14. \E s : q2 = q \o s /\ FitsAll(s, p, d, d2, c)
    BY <2>4, <2>9, <2>13
  <2>15. d.st # "absent" /\ d2.emitted \in {d.emitted, 1}
    BY <2>4, <2>5
  <2>16. Speech(p, p2, q, q2, d, d2, c)
    BY <1>5, <2>14, <2>15 DEF Speech
  <2> QED BY <1>1, <2>16
<1> QED BY <1>4, <1>6, <1>7, <1>8, <1>9, <1>10, <1>11, <1>12, <1>13

-----------------------------------------------------------------------------
(* The request of a unary call or of a stream: the daemon has it when it      *)
(* learns that there is no more.                                              *)

(* The payload of the request is known, or under way before place j; or it    *)
(* does not matter any more.                                                  *)
Heard(p, o, d, c, j) ==
    \/ d.seen > 0 \/ ~Alive(p, o, d, c)
    \/ \E i \in Marks(p, "payload", c) : i < j

AskedOut(o, p, d, c, b, j) ==
    IsEnd(b.frames[j], c) =>
        \/ j > 1 /\ IsPayload(b.frames[j - 1], c)
        \/ j = 1 /\ Heard(p, o, d, c, Len(p) + 1)

AskOK(p, o, d, c) ==
    /\ d.st = "running" => d.seen > 0
    /\ \A j \in Marks(p, "end", c) : Heard(p, o, d, c, j)
    /\ \A i \in 1 .. Len(o) : \A j \in 1 .. Len(o[i].frames) : AskedOut(o, p, d, c, o[i], j)

(* Nothing of a call is behind its start.                                     *)
LEMMA Behind ==
    ASSUME NEW p \in Seq(SentType), p # <<>>, NEW o, NEW ks, NEW c, FirstOK(p, o, ks, c),
           Head(p).frame.call = c
    PROVE  Begins(Tail(p), c) = {} /\ Opens(o, c) = {} /\ ks # "idle"
<1>1. 1 \in Talk(p, c)
  BY TalkTail
<1>2. ASSUME NEW i \in Begins(Tail(p), c) PROVE FALSE
  <2>1. i + 1 \in Begins(p, c) /\ i \in Nat /\ i > 0
    BY BeginsTail
  <2>2. i + 1 <= 1
    BY <1>1, <2>1 DEF FirstOK
  <2> QED BY <2>1, <2>2
<1> QED BY <1>1, <1>2 DEF FirstOK

(* A call that is over is not revived by what arrives.                        *)
LEMMA AliveTail ==
    ASSUME NEW p \in Seq(SentType), p # <<>>, NEW o, NEW d, NEW c, Alive(Tail(p), o, d, c)
    PROVE  Alive(p, o, d, c)
<1>1. \A w : Marks(w, "start", c) = Begins(w, c)
  BY DEF Marks, Begins, IsStart
<1>2. Begins(Tail(p), c) # {} => Begins(p, c) # {}
  BY BeginsTail
<1> QED BY <1>1, <1>2 DEF Alive

(* Nor by what the daemon does.                                               *)
LEMMA DaemonAlive ==
    ASSUME PeerInv, NEW c \in Call, DaemonReceives(c) \/ Handler(c),
           Alive(toDaemon', outbox, daemon'[c], c)
    PROVE  Alive(toDaemon, outbox, daemon[c], c)
<1>1. LinkInv /\ toDaemon \in Seq(SentType) /\ BooksInv /\ StartInv
  BY CreditTypes DEF PeerInv
<1>2. DaemonKnown(c) /\ (DaemonStart(c) => daemon[c].st = "absent" /\ 1 \in Begins(toDaemon, c))
  BY <1>1, StartsOnce
<1>3. /\ StepOf(c) /\ (daemon[c].st = "absent" => daemon' = daemon \/ DaemonStart(c))
  BY <1>1, <1>2, DaemonStepOf
<1>4. PICK d2, s, m : Turn(c, d2, s, m)
  BY <1>2, DaemonStep
<1>5. daemon[c].st = "gone" => daemon'[c] = daemon[c]
  BY <1>2, <1>4 DEF Turn, Moves, Emits, DaemonKnown
<1>6. Marks(toDaemon, "start", c) = Begins(toDaemon, c)
  BY DEF Marks, Begins, IsStart
<1>7. Alive(toDaemon', outbox, daemon[c], c) => Alive(toDaemon, outbox, daemon[c], c)
  <2>1. toDaemon' = toDaemon \/ (toDaemon # <<>> /\ toDaemon' = Tail(toDaemon))
    BY <1>3 DEF StepOf, Arrives
  <2> QED BY <1>1, <2>1, AliveTail
<1>8. daemon[c].st \in {"absent", "receiving", "running", "gone"}
  BY <1>2 DEF DaemonKnown, DaemonRecord
<1>9. CASE daemon'[c] = daemon[c]
  BY <1>7, <1>9
<1>10. CASE daemon[c].st = "absent" /\ DaemonStart(c)
  BY <1>2, <1>6, <1>10 DEF Alive
<1>11. CASE daemon[c].st \in {"receiving", "running"}
  BY <1>11 DEF Alive
<1> QED BY <1>3, <1>5, <1>8, <1>9, <1>10, <1>11

(* A frame arrives: a payload is known then.                                  *)
LEMMA HeardTail ==
    ASSUME NEW p \in Seq(SentType), p # <<>>, NEW o, NEW d, NEW d2, NEW c, NEW j \in Nat,
           Heard(p, o, d, c, j + 1), d.seen > 0 => d2.seen > 0,
           Alive(Tail(p), o, d2, c) => Alive(p, o, d, c),
           IsPayload(Head(p).frame, c) => d2.seen > 0 \/ ~Alive(Tail(p), o, d2, c)
    PROVE  Heard(Tail(p), o, d2, c, j)
<1>1. CASE d.seen > 0 \/ ~Alive(p, o, d, c)
  BY <1>1 DEF Heard
<1>2. ASSUME NEW i \in Marks(p, "payload", c), i < j + 1 PROVE Heard(Tail(p), o, d2, c, j)
  <2>1. /\ i \in Nat /\ i > 0 /\ (i = 1 \/ i - 1 \in Marks(Tail(p), "payload", c))
        /\ 1 \in Marks(p, "payload", c) => IsPayload(Head(p).frame, c)
    BY MarksTail DEF IsPayload
  <2>2. CASE i = 1
    BY <2>1, <2>2 DEF Heard
  <2>3. CASE i - 1 \in Marks(Tail(p), "payload", c)
    <3>1. i - 1 < j
      BY <1>2, <2>1
    <3> QED BY <2>3, <3>1 DEF Heard
  <2> QED BY <2>1, <2>2, <2>3
<1> QED BY <1>1, <1>2 DEF Heard

(* A step that takes at most one frame from the daemon's queue.               *)
LEMMA AskArrives ==
    ASSUME NEW p \in Seq(SentType), NEW p2, NEW o, NEW d, NEW d2, NEW c, AskOK(p, o, d, c),
           \/ p2 = p
           \/ /\ p # <<>> /\ p2 = Tail(p)
              /\ IsPayload(Head(p).frame, c) => d2.seen > 0 \/ ~Alive(p2, o, d2, c),
           d.seen > 0 => d2.seen > 0, d2.st = "running" => d2.seen > 0,
           Alive(p2, o, d2, c) => Alive(p, o, d, c)
    PROVE  AskOK(p2, o, d2, c)
<1>1. CASE p2 = p
  <2>1. \A j : Heard(p, o, d, c, j) => Heard(p2, o, d2, c, j)
    BY <1>1 DEF Heard
  <2> QED BY <1>1, <2>1 DEF AskOK, AskedOut
<1>2. CASE /\ p # <<>> /\ p2 = Tail(p)
           /\ IsPayload(Head(p).frame, c) => d2.seen > 0 \/ ~Alive(p2, o, d2, c)
  <2>1. PICK n : n = Len(p) /\ n \in Nat /\ n # 0 /\ Len(p2) = n - 1
    <3>1. Len(p) \in Nat /\ Len(p) # 0
      BY <1>2, LenProperties, EmptySeq
    <3>2. Len(p2) = Len(p) - 1
      BY <1>2, HeadTailProperties
    <3> QED BY <3>1, <3>2
  <2>2. ASSUME NEW j \in Nat, Heard(p, o, d, c, j + 1) PROVE Heard(p2, o, d2, c, j)
    BY <1>2, <2>2, HeardTail
  <2>3. ASSUME NEW j \in Marks(p2, "end", c) PROVE Heard(p2, o, d2, c, j)
    <3>1. j \in Nat /\ j + 1 \in Marks(p, "end", c)
      BY <1>2, MarksTail
    <3> QED BY <2>2, <3>1 DEF AskOK
  <2>4. Heard(p, o, d, c, Len(p) + 1) => Heard(p2, o, d2, c, Len(p2) + 1)
    <3>1. n \in Nat /\ Len(p) = n /\ Len(p2) + 1 = n
      BY <2>1
    <3> QED BY <2>2, <3>1
  <2>5. ASSUME NEW i \in 1 .. Len(o), NEW j \in 1 .. Len(o[i].frames)
        PROVE  AskedOut(o, p2, d2, c, o[i], j)
    <3>1. AskedOut(o, p, d, c, o[i], j)
      BY DEF AskOK
    <3> QED BY <2>4, <3>1 DEF AskedOut
  <2> QED BY <2>3, <2>5 DEF AskOK
<1> QED BY <1>1, <1>2

(* Batches join the queue.                                                    *)
LEMMA AskSends ==
    ASSUME NEW p, NEW o \in Seq(BatchType), NEW o2, NEW a, NEW d, NEW c, AskOK(p, o, d, c),
           Sends(o, o2, a),
           \A i \in Len(o) + 1 .. Len(o2) : \A j \in 1 .. Len(o2[i].frames) :
              IsEnd(o2[i].frames[j], c) => j > 1 /\ IsPayload(o2[i].frames[j - 1], c),
           \/ Alive(p, o2, d, c) => Alive(p, o, d, c)
           \/ Talk(p, c) = {} /\ Chat(o, c) = {}
    PROVE  AskOK(p, o2, d, c)
<1>1. PICK n, m : n = Len(o) /\ n \in Nat /\ m = Len(o2) /\ m \in Nat /\ n <= m
  BY LenProperties DEF Sends
<1>2. /\ \A i \in 1 .. n : o2[i] = o[i]
      /\ \A i \in 1 .. m : i \in 1 .. n \/ i \in n + 1 .. m
  BY <1>1 DEF Sends
<1>3. ASSUME NEW i \in n + 1 .. m, NEW j \in 1 .. Len(o2[i].frames)
      PROVE  AskedOut(o2, p, d, c, o2[i], j)
  BY <1>1 DEF AskedOut
<1>4. CASE Alive(p, o2, d, c) => Alive(p, o, d, c)
  <2>1. \A j : Heard(p, o, d, c, j) => Heard(p, o2, d, c, j)
    BY <1>4 DEF Heard
  <2>2. ASSUME NEW i \in 1 .. n, NEW j \in 1 .. Len(o2[i].frames)
        PROVE  AskedOut(o2, p, d, c, o2[i], j)
    <3>1. AskedOut(o, p, d, c, o[i], j) /\ o2[i] = o[i]
      BY <1>1, <1>2 DEF AskOK
    <3> QED BY <2>1, <3>1 DEF AskedOut
  <2> QED BY <1>1, <1>2, <1>3, <2>1, <2>2 DEF AskOK
<1>5. CASE Talk(p, c) = {} /\ Chat(o, c) = {}
  <2>1. Marks(p, "end", c) = {}
    BY <1>5 DEF Talk, Marks
  <2>2. ASSUME NEW i \in 1 .. n, NEW j \in 1 .. Len(o2[i].frames)
        PROVE  AskedOut(o2, p, d, c, o2[i], j)
    BY <1>1, <1>2, <1>5 DEF AskedOut, Chat, IsEnd
  <2> QED BY <1>1, <1>2, <1>3, <2>1, <2>2 DEF AskOK
<1> QED BY <1>4, <1>5

(* Steps of other calls.                                                      *)
LEMMA AskOther ==
    ASSUME LinkInv, NEW a, StepOf(a), NEW c \in Call, c # a, NEW d,
           AskOK(toDaemon, outbox, d, c)
    PROVE  AskOK(toDaemon', outbox', d, c)
<1>1. PICK p, p2, o, o2 : p = toDaemon /\ p2 = toDaemon' /\ o = outbox /\ o2 = outbox'
  OBVIOUS
<1>2. p \in Seq(SentType) /\ o \in Seq(BatchType) /\ AskOK(p, o, d, c)
  BY <1>1 DEF LinkInv
<1>3. Sends(o, o2, a) /\ (p2 = p \/ (p # <<>> /\ p2 = Tail(p) /\ Head(p).frame.call # c))
  BY <1>1 DEF StepOf, Arrives
<1>4. Alive(p2, o, d, c) => Alive(p, o, d, c)
  BY <1>2, <1>3, AliveTail
<1>5. AskOK(p2, o, d, c)
  <2>1. d.st = "running" => d.seen > 0
    BY <1>2 DEF AskOK
  <2> QED BY <1>2, <1>3, <1>4, <2>1, AskArrives DEF IsPayload
<1>6. Opens(o2, c) = Opens(o, c)
  BY <1>2, <1>3, OpensOther
<1>7. ASSUME NEW i \in Len(o) + 1 .. Len(o2), NEW j \in 1 .. Len(o2[i].frames)
      PROVE  ~IsEnd(o2[i].frames[j], c)
  <2>1. BatchOK(o2[i]) /\ Of(o2[i], a)
    BY <1>3 DEF Sends
  <2>2. DOMAIN o2[i].frames = 1 .. Len(o2[i].frames)
    BY <2>1, BatchFrames
  <2> QED BY <2>1, <2>2 DEF Of, IsEnd
<1>8. Alive(p2, o2, d, c) => Alive(p2, o, d, c)
  BY <1>6 DEF Alive
<1>9. AskOK(p2, o2, d, c)
  BY <1>2, <1>3, <1>5, <1>7, <1>8, AskSends
<1> QED BY <1>1, <1>9

(* What the client does with the call.                                        *)
LEMMA AskClient ==
    ASSUME BooksInv, LinkInv, NEW c \in Call \ Duplex, Caller(c) \/ ClientReceives(c), NEW d,
           AskOK(toDaemon, outbox, d, c), FirstOK(toDaemon, outbox, client[c].st, c)
    PROVE  AskOK(toDaemon, outbox', d, c)
<1>1. outbox \in Seq(BatchType)
  BY DEF LinkInv
<1>2. CASE Start(c)
  <2>1. PICK b : /\ outbox' = Append(outbox, b) /\ BatchOK(b) /\ Sends(outbox, outbox', c)
                 /\ b.frames[1] = Frame("start", c) /\ b.frames[2] = Frame("payload", c)
                 /\ Len(b.frames) = 3
    BY <1>2, StartSends
  <2>2. client[c].st = "idle"
    BY <1>2 DEF Start
  <2>3. Talk(toDaemon, c) = {} /\ Chat(outbox, c) = {}
    BY <2>2 DEF FirstOK
  <2>4. PICK n : n = Len(outbox) /\ n \in Nat
    BY <1>1, LenProperties
  <2>5. Len(outbox') = n + 1 /\ outbox'[n + 1] = b /\ \A i \in n + 1 .. n + 1 : i = n + 1
    BY <1>1, <2>1, <2>4, AppendProperties DEF BatchOK
  <2>6. /\ ~IsEnd(b.frames[1], c) /\ ~IsEnd(b.frames[2], c) /\ IsPayload(b.frames[2], c)
    BY <2>1 DEF Frame, IsEnd, IsPayload
  <2>7. ASSUME NEW j \in 1 .. Len(b.frames), IsEnd(b.frames[j], c)
        PROVE  j > 1 /\ IsPayload(b.frames[j - 1], c)
    <3>1. j \in 1 .. 3 /\ j # 1 /\ j # 2
      BY <2>1, <2>6, <2>7
    <3>2. j > 1 /\ j - 1 = 2
      BY <3>1
    <3> QED BY <2>6, <3>2
  <2>8. \A i \in Len(outbox) + 1 .. Len(outbox') : \A j \in 1 .. Len(outbox'[i].frames) :
           IsEnd(outbox'[i].frames[j], c) => j > 1 /\ IsPayload(outbox'[i].frames[j - 1], c)
    BY <2>4, <2>5, <2>7
  <2> QED BY <1>1, <2>1, <2>3, <2>8, AskSends
<1>3. CASE Controls(outbox, outbox', c)
  <2>1. Opens(outbox', c) = Opens(outbox, c)
    BY <1>1, <1>3, OpensControls
  <2>2. ASSUME NEW i \in Len(outbox) + 1 .. Len(outbox'), NEW j \in 1 .. Len(outbox'[i].frames)
        PROVE  ~IsEnd(outbox'[i].frames[j], c)
    <3>1. Len(outbox'[i].frames) = 1 /\ outbox'[i].frames[1].kind \in {"cancel", "window"}
      BY <1>3 DEF Controls
    <3>2. j = 1
      BY <3>1
    <3> QED BY <3>1, <3>2 DEF IsEnd
  <2>3. Alive(toDaemon, outbox', d, c) => Alive(toDaemon, outbox, d, c)
    BY <2>1 DEF Alive
  <2>4. Sends(outbox, outbox', c)
    BY <1>3 DEF Controls
  <2> QED BY <1>1, <2>2, <2>3, <2>4, AskSends
<1>4. ~DuplexFlush(c) /\ ~DuplexFlushFails(c) /\ ~(DuplexEnd(c) /\ duplex[c].st = "ending")
  BY CallRecords DEF DuplexFlush, DuplexFlushFails, FlushTurn, DuplexOK
<1> QED BY <1>2, <1>3, <1>4, CallerStep, ClientReceivesStep

(* The daemon hears of the request.                                           *)
LEMMA SeenKept ==
    ASSUME NEW c \in Call, DaemonKnown(c),
           \/ DaemonCancel(c) \/ DaemonCredit(c) \/ Handler(c)
           \/ DaemonStart(c) /\ daemon[c].st = "absent"
    PROVE  /\ daemon'[c].seen = daemon[c].seen
           /\ daemon'[c].st = "running" => daemon[c].st = "running"
           /\ \/ toDaemon' = toDaemon
              \/ toDaemon # <<>> /\ toDaemon' = Tail(toDaemon) /\ Head(toDaemon).frame.kind # "payload"
<1>1. daemon \in [Call -> DaemonRecord] /\ daemon[c] \in DaemonRecord
  BY DEF DaemonKnown
<1>2. CASE DaemonCancel(c) \/ DaemonCredit(c) \/ Handler(c)
  <2>1. QuietMove(daemon[c], daemon'[c])
    BY <1>1, <1>2, QuietSteps
  <2>2. CASE DaemonCancel(c)
    <3>1. toDaemon # <<>> /\ toDaemon' = Tail(toDaemon) /\ Head(toDaemon).frame.kind # "payload"
      BY <2>2 DEF DaemonCancel, DaemonReads, Frame, Answer
    <3> QED BY <2>1, <3>1 DEF QuietMove
  <2>3. CASE DaemonCredit(c)
    <3>1. PICK n : DaemonReads(Counted("window", c, n))
      BY <2>3 DEF DaemonCredit
    <3>2. toDaemon' = Tail(toDaemon)
      BY <2>3 DEF DaemonCredit, Answer
    <3>3. Counted("window", c, n).kind # "payload"
      BY DEF Counted
    <3>4. toDaemon # <<>> /\ Head(toDaemon).frame.kind # "payload"
      BY <3>1, <3>3 DEF DaemonReads
    <3> QED BY <2>1, <3>2, <3>4 DEF QuietMove
  <2>4. CASE Handler(c)
    <3>1. toDaemon' = toDaemon
      BY <2>4 DEF Handler, DaemonYield, DaemonComplete, DaemonFail, DaemonConsume, Emit
    <3> QED BY <2>1, <3>1 DEF QuietMove
  <2> QED BY <1>2, <2>2, <2>3, <2>4
<1>3. CASE DaemonStart(c) /\ daemon[c].st = "absent"
  <2>1. daemon'[c] = [daemon[c] EXCEPT !.st = "receiving"] \/ daemon'[c] = daemon[c]
    BY <1>1, <1>3 DEF DaemonStart
  <2>2. daemon'[c].seen = daemon[c].seen /\ daemon'[c].st # "running"
    BY <1>1, <1>3, <2>1 DEF DaemonRecord
  <2>3. toDaemon # <<>> /\ toDaemon' = Tail(toDaemon) /\ Head(toDaemon).frame.kind # "payload"
    BY <1>3 DEF DaemonStart, DaemonReads, Frame, Answer
  <2> QED BY <2>2, <2>3
<1> QED BY <1>2, <1>3

(* A payload is counted, or the call is over.                                 *)
LEMMA SeenPayload ==
    ASSUME NEW c \in Call, DaemonKnown(c), DaemonPayload(c),
           daemon[c].st = "running" => daemon[c].seen > 0
    PROVE  /\ toDaemon # <<>> /\ toDaemon' = Tail(toDaemon) /\ Head(toDaemon).frame.call = c
           /\ daemon[c].seen > 0 => daemon'[c].seen > 0
           /\ daemon'[c].seen > 0 \/ daemon'[c].st \in {"gone", "absent"}
<1>1. PICK d, d2 : d = daemon[c] /\ d2 = daemon'[c]
  OBVIOUS
<1>2. d \in DaemonRecord /\ daemon \in [Call -> DaemonRecord]
  BY <1>1 DEF DaemonKnown
<1>3. toDaemon # <<>> /\ toDaemon' = Tail(toDaemon) /\ Head(toDaemon).frame.call = c
  BY DEF DaemonPayload, Answer, DaemonReads, Frame
<1>4. d.st \in {"absent", "receiving", "running", "gone"} /\ d.seen \in Nat
  BY <1>2 DEF DaemonRecord
<1>5. /\ c \in Active <=> d.st \in {"receiving", "running"}
      /\ d.seen = 0 \/ d.seen > 0
  BY <1>1, <1>4 DEF Active
<1>6. d.st = "running" => d.seen > 0
  BY <1>1
<1>7. \/ daemon' = [daemon EXCEPT ![c].seen = 1]
      \/ daemon' = [daemon EXCEPT ![c].st = "running", ![c].inputOpen = TRUE,
                      ![c].input = 1, ![c].seen = 1, ![c].inputCredit = @ - 1]
      \/ daemon' = [daemon EXCEPT ![c].input = @ + 1, ![c].seen = @ + 1, ![c].inputCredit = @ - 1]
      \/ daemon' = [daemon EXCEPT ![c] = Abandoned(@)]
      \/ daemon' = daemon /\ d.st \in {"absent", "gone"}
  BY <1>1, <1>4, <1>5, <1>6 DEF DaemonPayload
<1>8. \/ d2 = [d EXCEPT !.seen = 1]
      \/ d2 = [d EXCEPT !.st = "running", !.inputOpen = TRUE, !.input = 1, !.seen = 1,
                        !.inputCredit = @ - 1]
      \/ d2 = [d EXCEPT !.input = @ + 1, !.seen = @ + 1, !.inputCredit = @ - 1]
      \/ d2 = Abandoned(d)
      \/ d2 = d /\ d.st \in {"absent", "gone"}
  BY <1>1, <1>2, <1>7
<1>9. d2 = Abandoned(d) => d2.st = "gone" /\ d2.seen = d.seen
  BY <1>2 DEF Abandoned, DaemonRecord
<1>10. d2.seen \in {1, d.seen + 1} \/ (d2.seen = d.seen /\ d2.st \in {"gone", "absent"})
  BY <1>2, <1>8, <1>9 DEF DaemonRecord
<1>11. /\ d.seen > 0 => d2.seen > 0
       /\ d2.seen > 0 \/ d2.st \in {"gone", "absent"}
  BY <1>4, <1>10
<1> QED BY <1>1, <1>3, <1>11

(* A step of the daemon.                                                      *)
LEMMA AskDaemon ==
    ASSUME PeerInv, NEW c \in Call, DaemonReceives(c) \/ Handler(c),
           AskOK(toDaemon, outbox, daemon[c], c), FirstOK(toDaemon, outbox, client[c].st, c)
    PROVE  AskOK(toDaemon', outbox, daemon'[c], c)
<1>1. PICK p, p2, d, d2 : p = toDaemon /\ p2 = toDaemon' /\ d = daemon[c] /\ d2 = daemon'[c]
  OBVIOUS
<1>2. p \in Seq(SentType) /\ StartInv /\ AskOK(p, outbox, d, c)
  BY <1>1, CreditTypes DEF PeerInv
<1>3. DaemonKnown(c) /\ (DaemonStart(c) => daemon[c].st = "absent")
  BY <1>2, StartsOnce
<1>4. Alive(p2, outbox, d2, c) => Alive(p, outbox, d, c)
  BY <1>1, DaemonAlive
<1>5. d.st = "running" => d.seen > 0
  BY <1>2 DEF AskOK
<1>6. CASE \/ DaemonCancel(c) \/ DaemonCredit(c) \/ Handler(c)
           \/ DaemonStart(c) /\ daemon[c].st = "absent"
  <2>1. /\ d2.seen = d.seen /\ (d2.st = "running" => d.st = "running")
        /\ p2 = p \/ (p # <<>> /\ p2 = Tail(p) /\ Head(p).frame.kind # "payload")
    BY <1>1, <1>3, <1>6, SeenKept
  <2>2. p2 = p \/ (p # <<>> /\ p2 = Tail(p) /\ ~IsPayload(Head(p).frame, c))
    BY <2>1 DEF IsPayload
  <2>3. AskOK(p2, outbox, d2, c)
    BY <1>2, <1>4, <1>5, <2>1, <2>2, AskArrives
  <2> QED BY <1>1, <2>3
<1>7. CASE DaemonPayload(c)
  <2>1. /\ p # <<>> /\ p2 = Tail(p) /\ Head(p).frame.call = c /\ (d.seen > 0 => d2.seen > 0)
        /\ d2.seen > 0 \/ d2.st \in {"gone", "absent"}
    BY <1>1, <1>3, <1>5, <1>7, SeenPayload
  <2>2. Begins(p2, c) = {} /\ Opens(outbox, c) = {}
    BY <1>1, <1>2, <2>1, Behind
  <2>3. Marks(p2, "start", c) = {}
    BY <2>2 DEF Marks, Begins, IsStart
  <2>4. d2.st \in {"gone", "absent"} => ~Alive(p2, outbox, d2, c)
    BY <2>2, <2>3 DEF Alive
  <2>5. d2.st = "running" => d2.seen > 0
    BY <2>1
  <2>6. \/ p2 = p
        \/ /\ p # <<>> /\ p2 = Tail(p)
           /\ IsPayload(Head(p).frame, c) => d2.seen > 0 \/ ~Alive(p2, outbox, d2, c)
    BY <2>1, <2>4
  <2>7. d.seen > 0 => d2.seen > 0
    BY <2>1
  <2>8. AskOK(p2, outbox, d2, c)
    BY <1>2, <1>4, <2>5, <2>6, <2>7, AskArrives
  <2> QED BY <1>1, <2>8
<1>8. CASE DaemonEnd(c)
  <2>1. p # <<>> /\ p2 = Tail(p) /\ Head(p).frame.kind = "end" /\ Head(p).frame.call = c
    BY <1>1, <1>8 DEF DaemonEnd, DaemonReads, Frame, Answer
  <2>2. 1 \in Marks(p, "end", c) /\ \A i \in Marks(p, "payload", c) : i \in Nat /\ i > 0
    BY <1>2, <2>1, MarksTail
  <2>3. Heard(p, outbox, d, c, 1)
    BY <1>2, <2>2 DEF AskOK
  <2>4. \A i \in Marks(p, "payload", c) : ~(i < 1)
    BY <2>2
  <2>5. d.seen > 0 \/ ~Alive(p, outbox, d, c)
    BY <2>3, <2>4 DEF Heard
  <2>6. /\ d2.seen = d.seen
        /\ d.st = "receiving" \/ d.st = "running" \/ d2.st = "gone" \/ d2.st = "absent"
    BY <1>1, <1>3, <1>8, EndMove DEF DaemonKnown
  <2>7. d2.st = "running" => d2.seen > 0
    BY <2>5, <2>6 DEF Alive
  <2>8. ~IsPayload(Head(p).frame, c)
    BY <2>1 DEF IsPayload
  <2>9. \/ p2 = p
        \/ /\ p # <<>> /\ p2 = Tail(p)
           /\ IsPayload(Head(p).frame, c) => d2.seen > 0 \/ ~Alive(p2, outbox, d2, c)
    BY <2>1, <2>8
  <2>10. d.seen > 0 => d2.seen > 0
    BY <2>6
  <2>11. AskOK(p2, outbox, d2, c)
    BY <1>2, <1>4, <2>7, <2>9, <2>10, AskArrives
  <2> QED BY <1>1, <2>11
<1> QED BY <1>3, <1>6, <1>7, <1>8 DEF DaemonReceives

(* What was heard stays heard.                                                *)
LEMMA HeardMore ==
    ASSUME NEW p, NEW p2, NEW o, NEW o2, NEW d, NEW c, NEW j, NEW j2,
           Heard(p, o, d, c, j), Alive(p2, o2, d, c) => Alive(p, o, d, c),
           \A i \in Marks(p, "payload", c) : i \in Marks(p2, "payload", c) /\ (i < j => i < j2)
    PROVE  Heard(p2, o2, d, c, j2)
BY DEF Heard

(* A frame joins those under way to the daemon.                               *)
LEMMA AskPass ==
    ASSUME NEW p \in Seq(SentType), NEW e \in SentType, NEW o, NEW o2, NEW d, NEW c,
           AskOK(p, o, d, c), Alive(Append(p, e), o2, d, c) => Alive(p, o, d, c),
           IsEnd(e.frame, c) => Heard(p, o, d, c, Len(p) + 1)
    PROVE  /\ \A j \in Marks(Append(p, e), "end", c) : Heard(Append(p, e), o2, d, c, j)
           /\ Heard(p, o, d, c, Len(p) + 1) =>
                 Heard(Append(p, e), o2, d, c, Len(Append(p, e)) + 1)
<1>1. PICK p2, n : p2 = Append(p, e) /\ n = Len(p)
  OBVIOUS
<1>2. n \in Nat /\ Len(p2) = n + 1
  BY <1>1, AppendProperties, LenProperties
<1>3. \A i \in Marks(p, "payload", c) : i \in 1 .. n /\ i \in Marks(p2, "payload", c)
  BY <1>1, MarksAppend
<1>4. \A j \in Marks(p2, "end", c) :
         j \in Marks(p, "end", c) \/ (j = n + 1 /\ e.frame.kind = "end" /\ e.frame.call = c)
  BY <1>1, MarksAppend
<1>5. ASSUME NEW j, NEW j2, Heard(p, o, d, c, j), j2 = j \/ (j = n + 1 /\ j2 = n + 2)
      PROVE  Heard(p2, o2, d, c, j2)
  <2>1. \A i \in Marks(p, "payload", c) : i \in Marks(p2, "payload", c) /\ (i < j => i < j2)
    BY <1>2, <1>3, <1>5
  <2> QED BY <1>1, <1>5, <2>1, HeardMore
<1>6. \A j \in Marks(p2, "end", c) : Heard(p2, o2, d, c, j)
  <2> TAKE j \in Marks(p2, "end", c)
  <2>1. Heard(p, o, d, c, j)
    BY <1>1, <1>4 DEF AskOK, IsEnd
  <2> QED BY <1>5, <2>1
<1>7. Heard(p, o, d, c, n + 1) => Heard(p2, o2, d, c, Len(p2) + 1)
  <2>1. Len(p2) + 1 = n + 2
    BY <1>2
  <2> QED BY <1>5, <2>1
<1> QED BY <1>1, <1>6, <1>7

(* The batches behind the first.                                              *)
LEMMA AskRest ==
    ASSUME NEW p, NEW p2, NEW o \in Seq(BatchType), o # <<>>, NEW o2, NEW d, NEW c,
           AskOK(p, o, d, c), o2 = Tail(o),
           Heard(p, o, d, c, Len(p) + 1) => Heard(p2, o2, d, c, Len(p2) + 1)
    PROVE  \A i \in 1 .. Len(o2) : \A j \in 1 .. Len(o2[i].frames) : AskedOut(o2, p2, d, c, o2[i], j)
<1>1. PICK n : n = Len(o) /\ n \in Nat /\ n # 0
  BY LenProperties, EmptySeq
<1>2. Len(o2) = n - 1 /\ \A i \in 1 .. n - 1 : o2[i] = o[i + 1]
  BY <1>1, HeadTailProperties
<1> TAKE i \in 1 .. Len(o2)
<1>3. i + 1 \in 1 .. n /\ o2[i] = o[i + 1]
  BY <1>1, <1>2
<1> TAKE j \in 1 .. Len(o2[i].frames)
<1>4. AskedOut(o, p, d, c, o2[i], j)
  BY <1>1, <1>3 DEF AskOK
<1> QED BY <1>4 DEF AskedOut

(* What is left of a batch.                                                   *)
LEMMA AskSplit ==
    ASSUME NEW p \in Seq(SentType), NEW e \in SentType, NEW o \in Seq(BatchType), o # <<>>, NEW o2,
           NEW b, NEW b2, NEW d, NEW c, AskOK(p, o, d, c), Divided(o, o2, b, b2), e.frame = b.frames[1],
           NEW p2, p2 = Append(p, e),
           Heard(p, o, d, c, Len(p) + 1) => Heard(p2, o2, d, c, Len(p2) + 1)
    PROVE  \A i \in 1 .. Len(o2) : \A j \in 1 .. Len(o2[i].frames) : AskedOut(o2, p2, d, c, o2[i], j)
<1>1. PICK n, l : n = Len(o) /\ n \in Nat /\ n # 0 /\ l = Len(b.frames) /\ l \in Nat /\ l > 1
  BY LenProperties, EmptySeq DEF Divided
<1>2. /\ b = o[1] /\ Len(o2) = n /\ b2 = o2[1] /\ Len(b2.frames) = l - 1
      /\ \A i \in 2 .. n : o2[i] = o[i]
      /\ \A i \in 1 .. l - 1 : b2.frames[i] = b.frames[i + 1]
  BY <1>1 DEF Divided
<1> TAKE i \in 1 .. Len(o2)
<1> TAKE j \in 1 .. Len(o2[i].frames)
<1>3. CASE i = 1
  <2>1. j \in 1 .. l - 1 /\ j + 1 \in 1 .. l /\ b2.frames[j] = b.frames[j + 1] /\ j \in Nat
    BY <1>1, <1>2, <1>3
  <2>2. AskedOut(o, p, d, c, b, j + 1)
    <3>1. 1 \in 1 .. Len(o) /\ j + 1 \in 1 .. Len(o[1].frames)
      BY <1>1, <1>2, <2>1
    <3>2. AskedOut(o, p, d, c, o[1], j + 1)
      BY <3>1 DEF AskOK
    <3> QED BY <1>2, <3>2
  <2>3. ~(j + 1 = 1) /\ (j + 1) - 1 = j
    BY <2>1
  <2>4. IsEnd(b2.frames[j], c) => IsPayload(b.frames[j], c)
    BY <2>1, <2>2, <2>3 DEF AskedOut
  <2>5. CASE j > 1
    <3>1. j - 1 \in 1 .. l - 1 /\ (j - 1) + 1 = j
      <4>1. l \in Nat
        BY <1>1
      <4>2. j \in Nat /\ j \in 1 .. l - 1
        BY <2>1
      <4> QED BY <2>5, <4>1, <4>2
    <3>2. b2.frames[j - 1] = b.frames[j]
      BY <1>2, <3>1
    <3> QED BY <1>2, <1>3, <2>4, <2>5, <3>2 DEF AskedOut
  <2>6. CASE j = 1
    <3>1. ASSUME IsPayload(b.frames[1], c) PROVE Heard(p2, o2, d, c, Len(p2) + 1)
      <4>1. PICK m : m = Len(p) /\ m \in Nat
        BY LenProperties
      <4>2. Len(p2) = m + 1 /\ p2[m + 1] = e
        BY <4>1, AppendProperties
      <4>3. m + 1 \in 1 .. Len(p2) /\ m + 1 < Len(p2) + 1
        BY <4>1, <4>2
      <4>4. m + 1 \in Marks(p2, "payload", c)
        BY <3>1, <4>2, <4>3 DEF Marks, IsPayload
      <4> QED BY <4>3, <4>4 DEF Heard
    <3>2. IsEnd(b2.frames[j], c) => Heard(p2, o2, d, c, Len(p2) + 1)
      BY <2>4, <2>6, <3>1
    <3> QED BY <1>2, <1>3, <2>6, <3>2 DEF AskedOut
  <2>7. j > 1 \/ j = 1
    BY <2>1
  <2> QED BY <2>5, <2>6, <2>7
<1>4. CASE i \in 2 .. n
  <2>1. o2[i] = o[i] /\ i \in 1 .. n
    BY <1>1, <1>2, <1>4
  <2>2. AskedOut(o, p, d, c, o2[i], j)
    BY <1>1, <2>1 DEF AskOK
  <2> QED BY <2>2 DEF AskedOut
<1>5. i = 1 \/ i \in 2 .. n
  BY <1>1, <1>2
<1> QED BY <1>3, <1>4, <1>5

(* The sender transmits the next frame, or drops a batch.                     *)
LEMMA AskTransmit ==
    ASSUME LinkInv, Transmit, UNCHANGED incoming, NEW c, NEW d, AskOK(toDaemon, outbox, d, c)
    PROVE  AskOK(toDaemon', outbox', d, c)
<1>1. PICK p, p2, o, o2, b, e : /\ p = toDaemon /\ p2 = toDaemon' /\ o = outbox /\ o2 = outbox'
                                /\ b = Head(outbox) /\ e = [frame |-> b.frames[1], gap |-> skipped]
  OBVIOUS
<1>2. PICK n : n = Len(b.frames)
  OBVIOUS
<1>3. /\ o # <<>> /\ BatchOK(b) /\ b = o[1] /\ n \in Nat /\ n > 0
      /\ \/ o2 = Tail(o) /\ p2 = p
         \/ /\ p2 = Append(p, e) /\ e \in SentType
            /\ \/ o2 = Tail(o) /\ n = 1
               \/ /\ n > 1 /\ Len(o2) = Len(o)
                  /\ o2[1] = Batch(Tail(b.frames), b.signal)
                  /\ Len(Tail(b.frames)) = n - 1
                  /\ \A i \in 1 .. n - 1 : Tail(b.frames)[i] = b.frames[i + 1]
                  /\ \A i \in 2 .. Len(o) : o2[i] = o[i]
  BY <1>1, <1>2, TransmitFacts
<1>4. p \in Seq(SentType) /\ o \in Seq(BatchType) /\ AskOK(p, o, d, c) /\ e.frame = b.frames[1]
  BY <1>1 DEF LinkInv
<1>5. Alive(p2, o2, d, c) => Alive(p, o, d, c)
  BY <1>1, OverStays
<1>6. d.st = "running" => d.seen > 0
  BY <1>4 DEF AskOK
<1>7. CASE o2 = Tail(o) /\ p2 = p
  <2>1. ASSUME NEW j, Heard(p, o, d, c, j) PROVE Heard(p, o2, d, c, j)
    BY <1>5, <1>7, <2>1 DEF Heard
  <2>2. Heard(p, o, d, c, Len(p) + 1) => Heard(p2, o2, d, c, Len(p2) + 1)
    BY <1>7, <2>1
  <2>3. \A i \in 1 .. Len(o2) : \A j \in 1 .. Len(o2[i].frames) : AskedOut(o2, p2, d, c, o2[i], j)
    BY <1>3, <1>4, <1>7, <2>2, AskRest
  <2>4. \A j \in Marks(p2, "end", c) : Heard(p2, o2, d, c, j)
    BY <1>4, <1>7, <2>1 DEF AskOK
  <2>5. AskOK(p2, o2, d, c)
    BY <1>6, <2>3, <2>4 DEF AskOK
  <2> QED BY <1>1, <2>5
<1>8. CASE p2 = Append(p, e) /\ e \in SentType
  <2>1. 1 \in 1 .. Len(o) /\ 1 \in 1 .. Len(b.frames)
    <3>1. Len(o) \in Nat /\ Len(o) # 0
      BY <1>3, <1>4, LenProperties, EmptySeq
    <3> QED BY <1>2, <1>3, <3>1
  <2>2. AskedOut(o, p, d, c, b, 1)
    BY <1>3, <1>4, <2>1 DEF AskOK
  <2>3. IsEnd(e.frame, c) => Heard(p, o, d, c, Len(p) + 1)
    BY <1>4, <2>2 DEF AskedOut
  <2>4. /\ \A j \in Marks(p2, "end", c) : Heard(p2, o2, d, c, j)
        /\ Heard(p, o, d, c, Len(p) + 1) => Heard(p2, o2, d, c, Len(p2) + 1)
    BY <1>4, <1>5, <1>8, <2>3, AskPass
  <2>5. CASE o2 = Tail(o)
    <3>1. \A i \in 1 .. Len(o2) : \A j \in 1 .. Len(o2[i].frames) : AskedOut(o2, p2, d, c, o2[i], j)
      BY <1>3, <1>4, <2>4, <2>5, AskRest
    <3>2. AskOK(p2, o2, d, c)
      BY <1>6, <2>4, <3>1 DEF AskOK
    <3> QED BY <1>1, <3>2
  <2>6. CASE /\ n > 1 /\ Len(o2) = Len(o)
             /\ o2[1] = Batch(Tail(b.frames), b.signal)
             /\ Len(Tail(b.frames)) = n - 1
             /\ \A i \in 1 .. n - 1 : Tail(b.frames)[i] = b.frames[i + 1]
             /\ \A i \in 2 .. Len(o) : o2[i] = o[i]
    <3>1. PICK b2 : b2 = o2[1] /\ b2.frames = Tail(b.frames)
      <4>1. \A fs, g : Batch(fs, g).frames = fs
        BY DEF Batch
      <4>2. o2[1].frames = Tail(b.frames)
        BY <2>6, <4>1
      <4> QED BY <4>2
    <3>2. Divided(o, o2, b, b2)
      BY <1>2, <1>3, <2>6, <3>1 DEF Divided
    <3>3. \A i \in 1 .. Len(o2) : \A j \in 1 .. Len(o2[i].frames) : AskedOut(o2, p2, d, c, o2[i], j)
      BY <1>3, <1>4, <1>8, <2>4, <3>2, AskSplit
    <3>4. AskOK(p2, o2, d, c)
      BY <1>6, <2>4, <3>3 DEF AskOK
    <3> QED BY <1>1, <3>4
  <2> QED BY <1>1, <1>3, <1>7, <2>5, <2>6
<1> QED BY <1>3, <1>7, <1>8

(* The frames s, m payloads of them, that a step of the daemon sends of call  *)
(* c, and what it read.                                                       *)
Said(p, p2, q, q2, s, m, d, d2, c) ==
    /\ q2 = q \o s /\ Moves(d, d2, s, m, c) /\ FitsAll(s, p, d, d2, c)
    /\ \/ p # <<>> /\ Head(p).frame.call = c /\ p2 = Tail(p)
       \/ p2 = p /\ d.st \in {"receiving", "running"}
    /\ d.st = "absent" => d2.st \in {"absent", "receiving"}
    /\ c \in Unary => d2.emitted \in {d.emitted, 1}

(* What follows q is determined.                                              *)
LEMMA SameEnd ==
    ASSUME NEW q \in Seq(FrameType), NEW s \in Seq(FrameType), NEW t \in Seq(FrameType),
           q \o s = q \o t
    PROVE  s = t
<1>1. PICK l, n, m : /\ l = Len(q) /\ l \in Nat /\ n = Len(s) /\ n \in Nat /\ m = Len(t) /\ m \in Nat
  BY LenProperties
<1>2. Len(q \o s) = l + n /\ Len(q \o t) = l + m
  BY <1>1, ConcatProperties
<1>3. n = m
  BY <1>1, <1>2
<1>4. /\ \A i \in 1 .. l + n : (q \o s)[i] = IF i <= l THEN q[i] ELSE s[i - l]
      /\ \A i \in 1 .. l + m : (q \o t)[i] = IF i <= l THEN q[i] ELSE t[i - l]
  BY <1>1, ConcatProperties
<1>5. ASSUME NEW i \in 1 .. n PROVE s[i] = t[i]
  <2>1. l + i \in 1 .. l + n /\ ~(l + i <= l) /\ (l + i) - l = i
    BY <1>1
  <2>2. (q \o s)[l + i] = s[i]
    BY <1>4, <2>1
  <2>3. (q \o t)[l + i] = t[i]
    BY <1>3, <1>4, <2>1
  <2> QED BY <2>2, <2>3
<1> QED BY <1>1, <1>3, <1>5, SeqEqual

(* The daemon knows the request of a call it runs.                            *)
LEMMA RunningSeen ==
    ASSUME PeerInv, NEW c \in Call,
           c \notin Duplex => AskOK(toDaemon, outbox, daemon[c], c), daemon[c].st = "running"
    PROVE  daemon[c].seen > 0
<1>1. CASE c \in Duplex
  <2>1. MessagesOK(toDaemon, outbox, duplex[c], client[c], daemon[c], c)
    BY <1>1 DEF PeerInv, MessagesInv
  <2> QED BY <2>1, MessageParts
<1>2. CASE c \notin Duplex
  BY <1>2 DEF AskOK
<1> QED BY <1>1, <1>2

(* A step of the daemon.                                                      *)
LEMMA DaemonSays ==
    ASSUME PeerInv, NEW c \in Call, DaemonReceives(c) \/ Handler(c),
           c \notin Duplex => AskOK(toDaemon, outbox, daemon[c], c)
    PROVE  \E s, m : Said(toDaemon, toDaemon', toClient, toClient', s, m, daemon[c], daemon'[c], c)
<1>1. PICK p, p2, q, q2, d, e : /\ p = toDaemon /\ p2 = toDaemon' /\ q = toClient /\ q2 = toClient'
                                /\ d = daemon[c] /\ e = daemon'[c]
  OBVIOUS
<1>2. q \in Seq(FrameType) /\ StartInv
  BY <1>1, CreditTypes DEF PeerInv
<1>3. DaemonKnown(c) /\ (DaemonStart(c) => daemon[c].st = "absent")
  BY <1>2, StartsOnce
<1>4. Speech(toDaemon, toDaemon', toClient, toClient', daemon[c], daemon'[c], c)
  <2>1. daemon[c].st = "running" => daemon[c].seen > 0
    BY RunningSeen
  <2> QED BY <1>3, <2>1, ShortSpeech, PayloadSpeech, HandlerSpeech, CreditSpeech
             DEF DaemonReceives, Handler
<1>5. Speech(p, p2, q, q2, d, e, c)
  BY <1>1, <1>4
<1>6. PICK t : q2 = q \o t /\ FitsAll(t, p, d, e, c)
  BY <1>5 DEF Speech
<1>7. PICK d2, s, m : Turn(c, d2, s, m)
  BY <1>3, DaemonStep
<1>8. d2 = e /\ q2 = q \o s /\ Moves(d, e, s, m, c)
  <2>1. daemon'[c] = d2
    BY <1>3, <1>7 DEF Turn, DaemonKnown
  <2> QED BY <1>1, <1>7, <2>1 DEF Turn
<1>9. s \in Seq(FrameType) /\ t \in Seq(FrameType)
  BY <1>6, <1>8 DEF Moves, Speaks, FitsAll
<1>10. s = t
  BY <1>2, <1>6, <1>8, <1>9, SameEnd
<1>11. Said(p, p2, q, q2, s, m, d, e, c)
  BY <1>5, <1>6, <1>8, <1>10 DEF Said, Speech
<1> QED BY <1>1, <1>11

(* A call that is over is sent no payload.                                    *)
LEMMA OverSilent ==
    ASSUME NEW p, NEW p2, NEW o, NEW q, NEW q2, NEW s, NEW m, NEW d, NEW d2, NEW c,
           DaemonOK(d, c), Said(p, p2, q, q2, s, m, d, d2, c),
           d.st = "gone" \/ (d.st = "absent" /\ ~Alive(p, o, d, c))
    PROVE  m = 0
<1>1. Moves(d, d2, s, m, c) /\ DaemonOK(d2, c) /\ Emits(d, d2, s, m, c) /\ m \in Nat
  BY DEF Said, Moves, Emits
<1>2. CASE d.st = "gone"
  BY <1>1, <1>2 DEF Emits
<1>3. CASE d.st = "absent"
  <2>1. d2.st \in {"absent", "receiving"}
    BY <1>3 DEF Said
  <2>2. Handed(d2) = Handed(d) + m
    BY <1>1, <2>1 DEF Emits
  <2>3. Handed(d) = 0
    BY <1>3 DEF DaemonOK, NewDaemon, Handed
  <2>4. PICK l : l = Len(d2.held) /\ l \in Nat
    BY <1>1, DaemonFields
  <2>5. d2.emitted = 0 /\ l <= d2.emitted
    BY <1>1, <2>1, <2>4 DEF DaemonOK, NewDaemon
  <2>6. Handed(d2) = 0
    BY <2>4, <2>5 DEF Handed
  <2> QED BY <1>1, <2>2, <2>3, <2>6
<1> QED BY <1>2, <1>3

(* An end was under way, or is the last frame of the step.                    *)
EndsLast(q, q2, s, m, l, c) ==
    \A i \in Closings(q2, c) :
        \/ i \in Closings(q, c)
        \/ i = l + (m + 1) /\ Len(s) = m + 1 /\ IsEnd(s[m + 1], c)

(* Where the frames of such a step are.                                       *)
LEMMA SaidFrames ==
    ASSUME NEW p, NEW p2, NEW q \in Seq(FrameType), NEW q2, NEW s, NEW m, NEW d, NEW d2, NEW c \in Call,
           DaemonOK(d, c), Said(p, p2, q, q2, s, m, d, d2, c), NEW l, l = Len(q)
    PROVE  Continues(q, q2, s, m, Handed(d), l, c) /\ EndsLast(q, q2, s, m, l, c)
<1>1. q2 = q \o s /\ Moves(d, d2, s, m, c) /\ s \in Seq(FrameType) /\ Emits(d, d2, s, m, c)
  BY DEF Said, Moves, Speaks
<1>2. Continues(q, q2, s, m, Handed(d), l, c)
  BY <1>1, PaidMore
<1>3. PICK n : n = Len(s) /\ n \in Nat /\ l \in Nat /\ m \in Nat /\ n \in {m, m + 1}
  BY <1>1, LenProperties DEF Emits
<1>4. q2 \in Seq(FrameType) /\ Len(q2) = l + n
  BY <1>1, <1>3, ConcatProperties
<1>5. \A i \in 1 .. l + n : q2[i] = IF i <= l THEN q[i] ELSE s[i - l]
  BY <1>1, <1>3, ConcatProperties
<1>6. ASSUME NEW i \in 1 .. n PROVE q2[l + i] = s[i]
  <2>1. l + i \in 1 .. l + n /\ ~(l + i <= l) /\ (l + i) - l = i
    BY <1>3
  <2> QED BY <1>5, <2>1
<1>7. ASSUME NEW i \in 1 .. l PROVE q2[i] = q[i]
  <2>1. i \in 1 .. l + n /\ i <= l
    BY <1>3
  <2> QED BY <1>5, <2>1
<1>8. \A j \in 1 .. m : s[j] = Counted("payload", c, Handed(d) + j)
  BY <1>1 DEF Emits
<1>9. \A j \in 1 .. m : ~IsEnd(s[j], c)
  <2>1. \A w : ~IsEnd(Counted("payload", c, w), c)
    BY DEF Counted, IsEnd
  <2> QED BY <1>8, <2>1
<1>10. ASSUME NEW i \in Closings(q2, c)
       PROVE  \/ i \in Closings(q, c)
              \/ i = l + (m + 1) /\ Len(s) = m + 1 /\ IsEnd(s[m + 1], c)
  <2>1. i \in 1 .. l + n /\ IsEnd(q2[i], c)
    BY <1>4 DEF Closings
  <2>2. CASE i <= l
    <3>1. i \in 1 .. l /\ i \in 1 .. Len(q)
      BY <1>3, <2>1, <2>2
    <3> QED BY <1>7, <2>1, <3>1 DEF Closings
  <2>3. CASE ~(i <= l)
    <3>1. PICK j : j = i - l
      OBVIOUS
    <3>2. j \in 1 .. n /\ i = l + j
      BY <1>3, <2>1, <2>3, <3>1
    <3>3. IsEnd(s[j], c)
      BY <1>6, <2>1, <3>2
    <3>4. j \notin 1 .. m
      BY <1>9, <3>3
    <3>5. n = m + 1 /\ j = m + 1
      BY <1>3, <3>2, <3>4
    <3> QED BY <1>3, <3>2, <3>3, <3>5
  <2> QED BY <2>2, <2>3
<1> QED BY <1>2, <1>10 DEF EndsLast

(* The end that a step sends closes the call.                                 *)
LEMMA SaidCloses ==
    ASSUME NEW p \in Seq(SentType), NEW p2, NEW o, NEW q, NEW q2, NEW s, NEW m, NEW ks, NEW d, NEW d2,
           NEW c, Said(p, p2, q, q2, s, m, d, d2, c), FirstOK(p, o, ks, c),
           ks = "idle" => d.st = "absent", Len(s) = m + 1, IsEnd(s[m + 1], c), m \in Nat
    PROVE  ~Alive(p2, o, d2, c) /\ ks # "idle"
<1>1. d2.st \in {"gone", "absent"}
  <2>1. m + 1 \in 1 .. Len(s)
    OBVIOUS
  <2>2. Fitting(s[m + 1], p, d, d2, c)
    BY <2>1 DEF Said, FitsAll
  <2> QED BY <2>2 DEF Fitting
<1>2. d2.st = "absent" => d.st = "absent"
  BY DEF Said, Moves
<1>3. CASE p # <<>> /\ Head(p).frame.call = c /\ p2 = Tail(p)
  <2>1. Begins(p2, c) = {} /\ Opens(o, c) = {} /\ ks # "idle"
    BY <1>3, Behind
  <2>2. Marks(p2, "start", c) = {}
    BY <2>1 DEF Marks, Begins, IsStart
  <2> QED BY <1>1, <2>1, <2>2 DEF Alive
<1>4. CASE p2 = p /\ d.st \in {"receiving", "running"}
  BY <1>1, <1>2, <1>4 DEF Alive
<1> QED BY <1>3, <1>4 DEF Said

(* What is sent to a live call fits its credit.                               *)
LEMMA SaidFits ==
    ASSUME NEW p \in Seq(SentType), NEW p2 \in Seq(SentType), NEW o \in Seq(BatchType),
           NEW q \in Seq(FrameType), NEW q2, NEW s, NEW m, NEW x \in DuplexRequest, NEW k, NEW d, NEW d2,
           NEW c \in Call, DaemonOK(d, c), Said(p, p2, q, q2, s, m, d, d2, c), k.got \in Nat,
           Lent(p, o, k, d, c), Lent(p2, o, k, d2, c), NEW j \in 1 .. m
    PROVE  Handed(d) + j <= Credit + k.got
<1>1. Moves(d, d2, s, m, c) /\ DaemonOK(d2, c) /\ Emits(d, d2, s, m, c) /\ m \in Nat
  BY DEF Said, Moves, Emits
<1>2. PICK h, h2, g, cr : /\ h = Handed(d) /\ h2 = Handed(d2) /\ g = k.got /\ cr = d.credit
                          /\ h \in Nat /\ h2 \in Nat /\ g \in Nat /\ cr \in Nat
  BY <1>1, SumsNat
<1>3. PICK y, z, u : /\ y = j /\ z = m /\ u = Credit /\ y \in Nat /\ y > 0 /\ z \in Nat /\ y <= z
                     /\ u \in Nat /\ u > 0
  BY <1>1, PeerConstants
<1>4. h \in Nat /\ h2 \in Nat /\ g \in Nat /\ cr \in Nat /\ y \in Nat /\ z \in Nat /\ u \in Nat
  BY <1>2, <1>3
<1>5. CASE d2.st # "gone"
  <2>1. h2 = h + m
    BY <1>1, <1>2, <1>5 DEF Emits
  <2>2. PICK a, b, e : /\ a = d2.credit /\ b = Marked(p2, "window", c) /\ e = Refunded(o, c)
                       /\ a \in Nat /\ b \in Nat /\ e \in Nat
    BY <1>1, SumsNat
  <2>3. Loan(p2, o, d2, c) <= Credit + g
    BY <1>2, <1>5 DEF Lent
  <2>4. a + h2 + b + e <= u + g /\ h2 = h + z
    BY <1>2, <1>3, <2>1, <2>2, <2>3 DEF Loan
  <2>5. y <= z /\ a \in Nat /\ b \in Nat /\ e \in Nat
    BY <1>3, <2>2
  <2>6. h + y <= u + g
    BY <1>4, <2>4, <2>5
  <2> QED BY <1>2, <1>3, <2>6
<1>6. CASE d2.st = "gone"
  <2>1. j \in 1 .. Len(s) /\ s[j] = Counted("payload", c, h + j)
    <3>1. s[j] = Counted("payload", c, h + j)
      BY <1>1, <1>2 DEF Emits
    <3>2. Len(s) \in {m, m + 1}
      BY <1>1 DEF Emits
    <3> QED BY <1>1, <1>3, <3>1, <3>2
  <2>2. Fitting(s[j], p, d, d2, c)
    BY <2>1 DEF Said, FitsAll
  <2>3. IsPayload(s[j], c) /\ s[j].n = h + j
    BY <2>1 DEF Counted, IsPayload
  <2>4. CASE c \in Unary /\ s[j].n <= 1
    <3>1. h + y <= 1
      BY <1>2, <1>3, <2>3, <2>4
    <3>2. h + y <= u + g
      BY <1>2, <1>3, <3>1
    <3> QED BY <1>2, <1>3, <3>2
  <2>5. CASE /\ p # <<>> /\ IsWindow(Head(p).frame, c)
             /\ s[j].n <= Handed(d) + d.credit + Head(p).frame.n
    <3>1. 1 \in Marks(p, "window", c) /\ p[1] = Head(p)
      BY <2>5, MarksTail, HeadTailProperties DEF IsWindow
    <3>2. Head(p).frame.n = 1
      BY <3>1 DEF Lent
    <3>3. PICK b, b2, e : /\ b = Marked(p, "window", c) /\ b2 = Marked(Tail(p), "window", c)
                          /\ e = Refunded(o, c) /\ b \in Nat /\ e \in Nat
      BY SumsNat
    <3>4. b2 \in Nat /\ b = b2 + 1
      BY <2>5, <3>3, MarkedTail DEF IsWindow
    <3>5. d.st # "gone"
      <4>1. d.st = "gone" => m = 0
        BY <1>1 DEF Emits
      <4> QED BY <4>1
    <3>6. cr + h + b + e <= u + g
      BY <1>2, <1>3, <3>3, <3>5 DEF Lent, Loan
    <3>7. h + y <= h + cr + 1
      BY <1>2, <1>3, <2>3, <2>5, <3>2
    <3>8. b \in Nat /\ b2 \in Nat /\ e \in Nat /\ b = b2 + 1
      BY <3>3, <3>4
    <3>9. h + y <= u + g
      BY <1>4, <3>6, <3>7, <3>8
    <3> QED BY <1>2, <1>3, <3>9
  <2> QED BY <1>6, <2>2, <2>3, <2>4, <2>5 DEF Fitting
<1> QED BY <1>5, <1>6

(* What a step of the daemon does to what the client will hear of the call.   *)
LEMMA SaidQuiet ==
    ASSUME NEW p \in Seq(SentType), NEW p2 \in Seq(SentType), NEW o \in Seq(BatchType),
           NEW q \in Seq(FrameType), NEW q2, NEW s, NEW m, NEW x \in DuplexRequest, NEW k, NEW d, NEW d2,
           NEW c \in Call, DaemonOK(d, c), Said(p, p2, q, q2, s, m, d, d2, c), k.got \in Nat,
           k.st = "live" => Lent(p, o, k, d, c) /\ Lent(p2, o, k, d2, c),
           FirstOK(p, o, k.st, c), k.st = "idle" => d.st = "absent",
           QueueOK(q, d, c), ReadOK(k, d, c),
           Alive(p2, o, d2, c) => Alive(p, o, d, c), QuietOK(p, o, q, k, d, c)
    PROVE  QuietOK(p2, o, q2, k, d2, c)
<1>1. PICK l : l = Len(q)
  OBVIOUS
<1>2. /\ Continues(q, q2, s, m, Handed(d), l, c) /\ l \in Nat /\ m \in Nat
      /\ \A i \in Closings(q2, c) :
            \/ i \in Closings(q, c)
            \/ i = l + (m + 1) /\ Len(s) = m + 1 /\ IsEnd(s[m + 1], c)
  <2>1. Continues(q, q2, s, m, Handed(d), l, c) /\ EndsLast(q, q2, s, m, l, c)
    BY <1>1, SaidFrames
  <2>2. l \in Nat /\ m \in Nat
    BY <2>1 DEF Continues
  <2> QED BY <2>1, <2>2 DEF EndsLast
<1>3. /\ \A i \in Paid(q, c) : i \in 1 .. l /\ i \in Paid(q2, c) /\ q2[i] = q[i]
      /\ \A j \in 1 .. m : q2[l + j].n = Handed(d) + j
      /\ \A i \in Paid(q2, c) : i \in Paid(q, c) \/ \E j \in 1 .. m : i = l + j
      /\ \A i \in Finals(q2, c) :
            i \in Finals(q, c) \/ (i = l + (m + 1) /\ Len(s) = m + 1 /\ s[m + 1] = EndOk(c))
  BY <1>2 DEF Continues
<1>4. ~Alive(p, o, d, c) => m = 0
  <2>1. d.st \in {"absent", "receiving", "running", "gone"}
    BY DaemonFields
  <2> QED BY <2>1, OverSilent DEF Alive
<1>5. d.st = "gone" => m = 0 /\ (Len(s) = 1 => s[1] # EndOk(c))
  BY DEF Said, Moves, Emits
<1>6. d.st = "gone" => \A i \in Finals(q2, c) : i \in Finals(q, c)
  <2>1. 0 + 1 = 1
    OBVIOUS
  <2> QED BY <1>3, <1>5, <2>1
<1>7. m = 0 => \A i \in Paid(q2, c) : i \in Paid(q, c)
  <2>1. 1 .. 0 = {}
    OBVIOUS
  <2> QED BY <1>3, <2>1
<1>8. Closings(q2, c) # {} => ~Alive(p2, o, d2, c) /\ k.st # "idle"
  <2>1. ASSUME NEW i \in Closings(q2, c) PROVE ~Alive(p2, o, d2, c) /\ k.st # "idle"
    <3>1. CASE i \in Closings(q, c)
      BY <3>1 DEF QuietOK
    <3>2. CASE Len(s) = m + 1 /\ IsEnd(s[m + 1], c)
      BY <1>2, <3>2, SaidCloses
    <3> QED BY <1>2, <3>1, <3>2
  <2> QED BY <2>1
<1>9. ASSUME NEW i \in Closings(q2, c), NEW j \in Paid(q2, c) PROVE j < i
  <2>1. CASE i \in Closings(q, c)
    <3>1. ~Alive(p, o, d, c)
      BY <2>1 DEF QuietOK
    <3>2. j \in Paid(q, c)
      BY <1>4, <1>7, <3>1
    <3> QED BY <2>1, <3>2 DEF QuietOK
  <2>2. CASE i = l + (m + 1)
    <3>1. CASE j \in Paid(q, c)
      <4>1. j \in 1 .. l
        BY <1>3, <3>1
      <4> QED BY <1>2, <2>2, <4>1
    <3>2. CASE \E w \in 1 .. m : j = l + w
      BY <1>2, <2>2, <3>2
    <3> QED BY <1>3, <3>1, <3>2
  <2> QED BY <1>2, <2>1, <2>2
<1>10. \A i, j \in Finals(q2, c) : i = j
  <2>1. \A i, j \in Finals(q, c) : i = j
    BY DEF QuietOK
  <2>2. Finals(q, c) # {} => d.st = "gone"
    BY DEF QueueOK
  <2> QED BY <1>3, <1>6, <2>1, <2>2
<1>11. k.st = "ended" => Paid(q2, c) = {} /\ Finals(q2, c) = {}
  <2>1. k.st = "ended" => d.st = "gone" /\ Paid(q, c) = {} /\ Finals(q, c) = {}
    BY DEF ReadOK, QuietOK
  <2> QED BY <1>5, <1>6, <1>7, <2>1
<1>12. ASSUME k.st = "live", NEW i \in Paid(q2, c) PROVE q2[i].n <= Credit + k.got
  <2>1. CASE i \in Paid(q, c)
    <3>1. q[i].n <= Credit + k.got
      BY <1>12, <2>1 DEF QuietOK
    <3> QED BY <1>3, <2>1, <3>1
  <2>2. ASSUME NEW j \in 1 .. m, i = l + j PROVE q2[i].n <= Credit + k.got
    <3>1. Handed(d) + j <= Credit + k.got
      BY <1>12, SaidFits
    <3>2. q2[i].n = Handed(d) + j
      BY <1>3, <2>2
    <3> QED BY <3>1, <3>2
  <2> QED BY <1>3, <2>1, <2>2
<1>13. c \in Unary => d2.emitted <= 1
  <2>1. c \in Unary => d.emitted <= 1 /\ d2.emitted \in {d.emitted, 1}
    BY DEF QuietOK, Said
  <2>2. 1 <= 1
    OBVIOUS
  <2> QED BY <2>1, <2>2
<1>14. k.end = "cut" => k.st = "done"
  BY DEF QuietOK
<1> QED BY <1>8, <1>9, <1>10, <1>11, <1>12, <1>13, <1>14 DEF QuietOK

(* A step of the daemon.                                                      *)
LEMMA QuietDaemon ==
    ASSUME PeerInv, CreditInv, NEW c \in Call, DaemonReceives(c) \/ Handler(c),
           c \notin Duplex => AskOK(toDaemon, outbox, daemon[c], c),
           FirstOK(toDaemon, outbox, client[c].st, c),
           QuietOK(toDaemon, outbox, toClient, client[c], daemon[c], c)
    PROVE  /\ QuietOK(toDaemon', outbox, toClient', client[c], daemon'[c], c)
           /\ ~Alive(toDaemon, outbox, daemon[c], c) /\ Paid(toClient, c) = {} =>
                 ~Alive(toDaemon', outbox, daemon'[c], c) /\ Paid(toClient', c) = {}
<1>1. PICK p, p2, o, q, q2, x, k, d, d2 :
        /\ p = toDaemon /\ p2 = toDaemon' /\ o = outbox /\ q = toClient /\ q2 = toClient'
        /\ x = duplex[c] /\ k = client[c] /\ d = daemon[c] /\ d2 = daemon'[c]
  OBVIOUS
<1>2. /\ p \in Seq(SentType) /\ o \in Seq(BatchType) /\ q \in Seq(FrameType)
      /\ x \in DuplexRequest /\ DaemonOK(d, c) /\ k.got \in Nat
  BY <1>1, CreditTypes
<1>3. PICK s, m : Said(p, p2, q, q2, s, m, d, d2, c)
  BY <1>1, DaemonSays
<1>4. p2 \in Seq(SentType)
  <2>1. p2 = p \/ (p # <<>> /\ p2 = Tail(p))
    BY <1>3 DEF Said
  <2> QED BY <1>2, <2>1, BeginsTail
<1>5. k.st = "live" => Lent(p, o, k, d, c) /\ Lent(p2, o, k, d2, c)
  <2>1. CreditOK(p2, o, q2, x, k, d2, c)
    BY <1>1, DaemonCreditKept
  <2>2. CreditOK(p, o, q, x, k, d, c)
    BY <1>1 DEF CreditInv
  <2> QED BY <2>1, <2>2 DEF CreditOK
<1>6. k.st = "idle" => d.st = "absent"
  BY <1>1 DEF PeerInv, StartInv, StartOK
<1>7. QueueOK(q, d, c) /\ ReadOK(k, d, c)
  BY <1>1, ResponseFacts DEF PeerInv
<1>8. Alive(p2, o, d2, c) => Alive(p, o, d, c)
  BY <1>1, DaemonAlive
<1>9. FirstOK(p, o, k.st, c) /\ QuietOK(p, o, q, k, d, c)
  BY <1>1
<1>10. QuietOK(p2, o, q2, k, d2, c)
  BY <1>2, <1>3, <1>4, <1>5, <1>6, <1>7, <1>8, <1>9, SaidQuiet
<1>11. ~Alive(p, o, d, c) /\ Paid(q, c) = {} => Paid(q2, c) = {}
  <2>1. d.st \in {"absent", "receiving", "running", "gone"}
    BY <1>2, DaemonFields
  <2>2. ~Alive(p, o, d, c) => m = 0
    BY <1>2, <1>3, <2>1, OverSilent DEF Alive
  <2>3. PICK l : l = Len(q)
    OBVIOUS
  <2>4. Continues(q, q2, s, m, Handed(d), l, c)
    BY <1>2, <1>3, <2>3, SaidFrames
  <2>5. 1 .. 0 = {}
    OBVIOUS
  <2> QED BY <2>2, <2>4, <2>5 DEF Continues
<1> QED BY <1>1, <1>8, <1>10, <1>11

(* No other step of the daemon answers on after an error.                     *)
LEMMA TornStays ==
    ASSUME NEW c \in Call, DaemonKnown(c), DaemonReceives(c) \/ Handler(c),
           DaemonStart(c) => daemon[c].st = "absent"
    PROVE  /\ daemon'[c].torn = daemon[c].torn
           /\ daemon[c].st = "gone" => daemon'[c].st = "gone"
<1>1. daemon \in [Call -> DaemonRecord] /\ daemon[c] \in DaemonRecord
  BY DEF DaemonKnown, DaemonOK
<1>2. Abandoned(daemon[c]).torn = daemon[c].torn /\ Abandoned(daemon[c]).st = "gone"
  BY <1>1 DEF Abandoned, DaemonRecord
<1>3. CASE daemon' = daemon \/ daemon' = [daemon EXCEPT ![c] = Abandoned(@)]
  BY <1>1, <1>2, <1>3
<1>4. CASE DaemonStart(c)
  BY <1>1, <1>4 DEF DaemonStart, DaemonRecord
<1>5. CASE DaemonPayload(c)
  BY <1>1, <1>3, <1>5 DEF DaemonPayload, DaemonRecord
<1>6. CASE DaemonEnd(c)
  BY <1>1, <1>3, <1>6 DEF DaemonEnd, DaemonRecord
<1>7. CASE DaemonCancel(c) \/ DaemonFail(c)
  BY <1>3, <1>7 DEF DaemonCancel, DaemonFail
<1>8. CASE DaemonCredit(c)
  BY <1>1, <1>3, <1>8 DEF DaemonCredit, DaemonRecord
<1>9. CASE DaemonYield(c) \/ DaemonComplete(c) \/ DaemonConsume(c)
  BY <1>1, <1>9 DEF DaemonYield, DaemonComplete, DaemonConsume, DaemonRecord
<1> QED BY <1>4, <1>5, <1>6, <1>7, <1>8, <1>9 DEF DaemonReceives, Handler

-----------------------------------------------------------------------------
(* The calls that the client remembers.                                       *)

(* The calls that were given up, of a client's records `cl` and fired signals *)
(* `ab`.                                                                      *)
GivenUp(cl, ab) == {c \in ab \cap Call : cl[c].end = "cut"}

(* The slots of the ring hold different calls, all of them in G.              *)
SlotsOK(s, G) ==
    /\ \A i, j \in 1 .. Len(s) : s[i] = s[j] => i = j
    /\ \A i \in 1 .. Len(s) : s[i] \in G

(* Nothing more will be heard of the call.                                    *)
Over(p, o, q, d, c) == Paid(q, c) = {} /\ ~Alive(p, o, d, c)

(* A call that is over is remembered unless too many were given up, or the    *)
(* client will not hear of it any more, or the daemon answered on after an    *)
(* error.                                                                     *)
Noted(r, G, p, o, q, k, d, c) ==
    k.st = "done" /\ ~d.torn =>
        c \in r.ids \/ Cardinality(G) > RingLimit \/ Over(p, o, q, d, c)

RingInv ==
    /\ SlotsOK(ring.storage, GivenUp(client, aborted))
    /\ \A c \in Call : Noted(ring, GivenUp(client, aborted), toDaemon, outbox, toClient,
                             client[c], daemon[c], c)

(* The given up calls are finitely many.                                      *)
LEMMA GivenUpFinite ==
    ASSUME NEW G, NEW G2, G \subseteq G2, G2 \subseteq Call
    PROVE  /\ IsFiniteSet(G) /\ IsFiniteSet(G2)
           /\ Cardinality(G) \in Nat /\ Cardinality(G2) \in Nat
           /\ Cardinality(G) <= Cardinality(G2)
<1>1. IsFiniteSet(Call)
  BY PeerAssumption DEF PeerAssumption
<1>2. IsFiniteSet(G2)
  BY <1>1, FS_Subset
<1>3. IsFiniteSet(G) /\ Cardinality(G) <= Cardinality(G2)
  BY <1>2, FS_Subset
<1> QED BY <1>2, <1>3, FS_CardinalityType

(* A full ring, and one call more.                                            *)
LEMMA RingFull ==
    ASSUME NEW s \in Seq(Call), NEW G, NEW G2, NEW c, SlotsOK(s, G), c \notin G, c \in G2,
           G \subseteq G2, G2 \subseteq Call, Len(s) = RingLimit
    PROVE  Cardinality(G2) > RingLimit
<1>1. /\ IsFiniteSet(G) /\ IsFiniteSet(G2) /\ Cardinality(G) \in Nat /\ Cardinality(G2) \in Nat
  BY GivenUpFinite
<1>2. s \in [1 .. RingLimit -> G]
  <2>1. s \in [1 .. RingLimit -> Call]
    BY LenProperties
  <2> QED BY <2>1 DEF SlotsOK
<1>3. s \in Injection(1 .. RingLimit, G)
  <2>1. DOMAIN s = 1 .. RingLimit
    BY <1>2
  <2> QED BY <1>2, <2>1 DEF Injection, IsInjective, SlotsOK
<1>4. Cardinality(1 .. RingLimit) <= Cardinality(G)
  BY <1>1, <1>3, FS_Injection
<1>5. Cardinality(1 .. RingLimit) = RingLimit
  <2>1. 1 \in Int /\ RingLimit \in Int /\ ~(1 > RingLimit) /\ RingLimit - 1 + 1 = RingLimit
    BY PeerConstants
  <2> QED BY <2>1, FS_Interval
<1>6. G \subseteq G2 \ {c} /\ G2 \ {c} \subseteq Call
  OBVIOUS
<1>7. Cardinality(G) <= Cardinality(G2 \ {c})
  BY <1>6, GivenUpFinite
<1>8. Cardinality(G2 \ {c}) = Cardinality(G2) - 1
  BY <1>1, FS_RemoveElement
<1> QED BY <1>1, <1>4, <1>5, <1>7, <1>8, PeerConstants

(* LocallyCancelledCalls.insert: the call is remembered, and none forgotten   *)
(* unless the ring was full.                                                  *)
LEMMA RememberedKnows ==
    ASSUME NEW r, RingOK(r), NEW c \in Call, NEW G, NEW G2, SlotsOK(r.storage, G),
           c \notin G, c \in G2, G \subseteq G2, G2 \subseteq Call
    PROVE  /\ SlotsOK(Remembered(r, c).storage, G2)
           /\ c \in Remembered(r, c).ids
           /\ \A b \in r.ids : b \in Remembered(r, c).ids \/ Cardinality(G2) > RingLimit
<1>1. /\ r \in CancelledRing /\ r.ids \in SUBSET Call /\ r.storage \in Seq(Call)
      /\ r.next \in 1 .. RingLimit /\ Len(r.storage) <= RingLimit
      /\ Len(r.storage) \in Nat /\ RingLimit \in Nat /\ RingLimit > 0
  BY PeerAssumption DEF RingOK, CancelledRing, PeerAssumption
<1>2. PICK s, l : s = r.storage /\ l = Len(s)
  OBVIOUS
<1>3. /\ s \in Seq(Call) /\ l \in Nat /\ l <= RingLimit
      /\ \A i, j \in 1 .. l : s[i] = s[j] => i = j
      /\ \A i \in 1 .. l : s[i] \in G2 /\ s[i] # c
  BY <1>1, <1>2 DEF SlotsOK
<1>4. CASE c \in r.ids
  <2>1. Remembered(r, c) = r
    BY <1>4 DEF Remembered
  <2> QED BY <1>2, <1>3, <1>4, <2>1 DEF SlotsOK
<1>5. CASE c \notin r.ids /\ Len(r.storage) < RingLimit
  <2>1. PICK new : new = Append(s, c)
    OBVIOUS
  <2>2. /\ Len(new) = l + 1 /\ new[l + 1] = c /\ \A i \in 1 .. l : new[i] = s[i]
    BY <1>2, <1>3, <2>1, AppendProperties
  <2>3. Remembered(r, c) = [r EXCEPT !.ids = r.ids \cup {c}, !.storage = new]
    BY <1>2, <1>5, <2>1 DEF Remembered
  <2>4. PICK e : e = [r EXCEPT !.ids = r.ids \cup {c}, !.storage = new]
    OBVIOUS
  <2>5. e.ids = r.ids \cup {c} /\ e.storage = new
    BY <1>1, <2>4 DEF CancelledRing
  <2>6. \A i \in 1 .. l + 1 : i \in 1 .. l \/ i = l + 1
    BY <1>3
  <2>7. SlotsOK(new, G2)
    <3>1. ASSUME NEW i \in 1 .. l + 1, NEW j \in 1 .. l + 1, new[i] = new[j] PROVE i = j
      BY <1>3, <2>2, <2>6, <3>1
    <3>2. ASSUME NEW i \in 1 .. l + 1 PROVE new[i] \in G2
      BY <1>3, <2>2, <2>6
    <3> QED BY <2>2, <3>1, <3>2 DEF SlotsOK
  <2> QED BY <2>3, <2>4, <2>5, <2>7
<1>6. CASE c \notin r.ids /\ ~(Len(r.storage) < RingLimit)
  <2>1. PICK new : new = [s EXCEPT ![r.next] = c]
    OBVIOUS
  <2>2. l = RingLimit
    BY <1>1, <1>2, <1>3, <1>6
  <2>3. /\ Len(new) = l
        /\ \A j \in 1 .. l : new[j] = IF j = r.next THEN c ELSE s[j]
    <3>1. r.next \in 1 .. Len(s) /\ Len(s) = l
      BY <1>1, <1>2, <2>2
    <3> QED BY <1>3, <2>1, <3>1, ExceptSeq
  <2>4. Remembered(r, c) = [ids |-> (r.ids \cup {c}) \ {s[r.next]},
                            storage |-> new, next |-> (r.next % RingLimit) + 1]
    BY <1>2, <1>6, <2>1 DEF Remembered
  <2>5. SlotsOK(new, G2)
    <3>1. ASSUME NEW i \in 1 .. l, NEW j \in 1 .. l, new[i] = new[j] PROVE i = j
      BY <1>3, <2>3, <3>1
    <3>2. ASSUME NEW i \in 1 .. l PROVE new[i] \in G2
      BY <1>3, <2>3
    <3> QED BY <2>3, <3>1, <3>2 DEF SlotsOK
  <2>6. Cardinality(G2) > RingLimit
    BY <1>2, <1>3, <2>2, RingFull
  <2>7. s[r.next] # c
    BY <1>1, <1>3, <2>2
  <2>8. Remembered(r, c).ids = (r.ids \cup {c}) \ {s[r.next]} /\ Remembered(r, c).storage = new
    BY <2>4
  <2> QED BY <2>5, <2>6, <2>7, <2>8
<1> QED BY <1>4, <1>5, <1>6

(* What the calls that are over owe to the ring, after a step.                *)
LEMMA NotedKept ==
    ASSUME NEW r, NEW r2, NEW G, NEW G2, NEW p, NEW p2, NEW o, NEW o2, NEW q, NEW q2, NEW k,
           NEW d, NEW d2, NEW c, Noted(r, G, p, o, q, k, d, c), G \subseteq G2, G2 \subseteq Call,
           c \in r.ids => c \in r2.ids \/ Cardinality(G2) > RingLimit, d.torn => d2.torn,
           Over(p, o, q, d, c) /\ k.st = "done" /\ ~d2.torn => Over(p2, o2, q2, d2, c)
    PROVE  Noted(r2, G2, p2, o2, q2, k, d2, c)
<1> SUFFICES ASSUME k.st = "done", ~d2.torn, c \notin r2.ids, ~Over(p2, o2, q2, d2, c)
             PROVE  Cardinality(G2) > RingLimit
  BY DEF Noted
<1>1. CASE Cardinality(G) > RingLimit
  <2>1. Cardinality(G) \in Nat /\ Cardinality(G2) \in Nat /\ Cardinality(G) <= Cardinality(G2)
    BY GivenUpFinite
  <2> QED BY <1>1, <2>1, PeerConstants
<1>2. CASE c \in r.ids
  BY <1>2
<1> QED BY <1>1, <1>2 DEF Noted

(* Steps of other calls.                                                      *)
LEMMA OverOther ==
    ASSUME LinkInv, NEW a, StepOf(a), NEW c \in Call, c # a, NEW d,
           Over(toDaemon, outbox, toClient, d, c)
    PROVE  Over(toDaemon', outbox', toClient', d, c)
<1>1. toClient \in Seq(FrameType)
  BY DEF LinkInv
<1>2. PICK w : Reads(toClient, w, a) /\ Answers(w, toClient', a)
  BY DEF StepOf
<1>3. w \in Seq(FrameType) /\ Paid(w, c) = {}
  <2>1. CASE w = toClient
    BY <1>1, <2>1 DEF Over
  <2>2. CASE toClient # <<>> /\ w = Tail(toClient)
    <3>1. \A i \in Paid(w, c) : i + 1 \in Paid(toClient, c)
      BY <1>1, <2>2, PaidTail
    <3>2. w \in Seq(FrameType)
      BY <1>1, <2>2, HeadTailProperties
    <3> QED BY <3>1, <3>2 DEF Over
  <2> QED BY <1>2, <2>1, <2>2 DEF Reads
<1>4. SameOf(w, toClient', c)
  BY <1>2, <1>3, PaidOther
<1>5. Paid(toClient', c) = {}
  BY <1>3, <1>4 DEF SameOf
<1>6. \E b : StepOf(b) /\ b # c
  OBVIOUS
<1>7. Alive(toDaemon', outbox', d, c) => Alive(toDaemon, outbox, d, c)
  BY <1>6, OverStays
<1> QED BY <1>5, <1>7 DEF Over

(* A step of one call, and the same for the others.                           *)
LEMMA StepsRing ==
    ASSUME LinkInv, RingInv, NEW a, StepOf(a), NEW G, NEW G2, G = GivenUp(client, aborted),
           G2 = GivenUp(client', aborted'), G \subseteq G2, SlotsOK(ring'.storage, G2),
           \A b \in ring.ids : b = a \/ b \in ring'.ids \/ Cardinality(G2) > RingLimit,
           a \in Call => Noted(ring', G2, toDaemon', outbox', toClient', client'[a], daemon'[a], a)
    PROVE  RingInv'
<1>1. ASSUME NEW c \in Call
      PROVE  Noted(ring', G2, toDaemon', outbox', toClient', client'[c], daemon'[c], c)
  <2>1. CASE c = a
    BY <2>1
  <2>2. CASE c # a
    <3>1. client'[c] = client[c] /\ daemon'[c] = daemon[c]
      BY <2>2 DEF StepOf, Others
    <3>2. Noted(ring, G, toDaemon, outbox, toClient, client[c], daemon[c], c)
      BY DEF RingInv
    <3>3. c \in ring.ids => c \in ring'.ids \/ Cardinality(G2) > RingLimit
      BY <2>2
    <3>4. Over(toDaemon, outbox, toClient, daemon[c], c) =>
             Over(toDaemon', outbox', toClient', daemon[c], c)
      BY <2>2, OverOther
    <3>5. G2 \subseteq Call
      BY DEF GivenUp
    <3>6. Noted(ring', G2, toDaemon', outbox', toClient', client[c], daemon[c], c)
      BY <3>2, <3>3, <3>4, <3>5, NotedKept
    <3> QED BY <3>1, <3>6
  <2> QED BY <2>1, <2>2
<1> QED BY <1>1 DEF RingInv

(* A step that leaves the ring and the records of the client alone.           *)
LEMMA SlotsMore ==
    ASSUME NEW s, NEW G, NEW G2, SlotsOK(s, G), G \subseteq G2
    PROVE  SlotsOK(s, G2)
BY DEF SlotsOK

(* The client gives up calls, and never takes that back.                      *)
LEMMA GivenUpGrows ==
    ASSUME BooksInv, LinkInv, NEW c \in Call, Caller(c) \/ ClientReceives(c),
           client[c].end = "cut" => client[c].st = "done"
    PROVE  GivenUp(client, aborted) \subseteq GivenUp(client', aborted')
<1>1. /\ Outcome(client[c], client'[c], ring, ring', toClient, aborted', c)
      /\ aborted \subseteq aborted'
  BY ClientOutcome
<1>2. Others(c)
  BY CallerStepOf DEF StepOf
<1>3. client[c].end = "cut" => client'[c] = client[c]
  BY <1>1 DEF Outcome
<1>4. ASSUME NEW b \in GivenUp(client, aborted) PROVE b \in GivenUp(client', aborted')
  <2>1. CASE b = c
    BY <1>1, <1>3, <1>4, <2>1 DEF GivenUp
  <2>2. CASE b # c
    BY <1>2, <1>4, <2>2 DEF GivenUp, Others
  <2> QED BY <2>1, <2>2
<1> QED BY <1>4

(* A call that is over stays over when the client has read a frame of it.     *)
LEMMA OverClient ==
    ASSUME BooksInv, LinkInv, NEW c \in Call, Caller(c) \/ ClientReceives(c),
           client'[c].st = "done", Over(toDaemon, outbox, toClient, daemon[c], c)
    PROVE  Over(toDaemon', outbox', toClient', daemon'[c], c)
<1>1. toClient \in Seq(FrameType) /\ client \in [Call -> ClientCall]
  BY DEF LinkInv, BooksInv
<1>2. toClient' = toClient \/ (toClient # <<>> /\ toClient' = Tail(toClient))
  BY CallerStep, ClientReceivesStep
<1>3. Paid(toClient', c) = {}
  <2>1. CASE toClient' = toClient
    BY <2>1 DEF Over
  <2>2. CASE toClient # <<>> /\ toClient' = Tail(toClient)
    <3>1. \A i \in Paid(Tail(toClient), c) : i + 1 \in Paid(toClient, c)
      BY <1>1, <2>2, PaidTail
    <3> QED BY <2>2, <3>1 DEF Over
  <2> QED BY <1>2, <2>1, <2>2
<1>4. ~Start(c)
  BY <1>1 DEF Start, ClientCall
<1>5. daemon' = daemon /\ toDaemon' = toDaemon /\ Opens(outbox', c) = Opens(outbox, c)
  BY <1>4, CallerStepOf
<1>6. Alive(toDaemon', outbox', daemon[c], c) => Alive(toDaemon, outbox, daemon[c], c)
  BY <1>5 DEF Alive
<1> QED BY <1>3, <1>5, <1>6 DEF Over

(* A call that the client is done with: it was over, or is remembered.        *)
LEMMA OutcomeOver ==
    ASSUME PeerInv, NEW c \in Call, QuietOK(toDaemon, outbox, toClient, client[c], daemon[c], c),
           \/ client[c].st \in {"idle", "ended"}
           \/ toClient # <<>> /\ IsEnd(Head(toClient), c)
    PROVE  Over(toDaemon, outbox, toClient, daemon[c], c)
<1>1. toClient \in Seq(FrameType)
  BY CreditTypes
<1>2. CASE client[c].st = "idle"
  BY <1>2, IdlePaid DEF Over
<1>3. CASE client[c].st = "ended"
  <2>1. daemon[c].st = "gone"
    BY <1>3 DEF PeerInv, ResponsesInv, ResponsesOK, ReadOK
  <2> QED BY <1>3, <2>1 DEF Over, Alive, QuietOK
<1>4. CASE toClient # <<>> /\ IsEnd(Head(toClient), c)
  BY <1>1, <1>4, EndIsLast DEF Over
<1> QED BY <1>2, <1>3, <1>4

(* What the client does with a call keeps the ring.                           *)
LEMMA RingClient ==
    ASSUME PeerInv, RingInv, NEW c \in Call, Caller(c) \/ ClientReceives(c),
           client[c].end = "cut" => client[c].st = "done",
           ~daemon[c].torn => QuietOK(toDaemon, outbox, toClient, client[c], daemon[c], c)
    PROVE  RingInv'
<1>1. BooksInv /\ LinkInv /\ RingOK(ring) /\ ring \in CancelledRing
  BY DEF PeerInv, StartInv, BooksInv, RingOK
<1>2. PICK G, G2 : G = GivenUp(client, aborted) /\ G2 = GivenUp(client', aborted')
  OBVIOUS
<1>3. /\ client[c].end = "cut" => client[c].st = "done"
      /\ daemon' = daemon
  BY <1>1, CallerStepOf
<1>4. G \subseteq G2 /\ G2 \subseteq Call
  <2>1. G \subseteq G2
    BY <1>1, <1>2, <1>3, GivenUpGrows
  <2> QED BY <1>2, <2>1 DEF GivenUp
<1>5. SlotsOK(ring.storage, G) /\ SlotsOK(ring.storage, G2)
  BY <1>2, <1>4, SlotsMore DEF RingInv
<1>6. StepOf(c) /\ Outcome(client[c], client'[c], ring, ring', toClient, aborted', c)
  BY <1>1, CallerStepOf, ClientOutcome
<1>7. ASSUME Over(toDaemon, outbox, toClient, daemon[c], c)
      PROVE  Noted(ring', G2, toDaemon', outbox', toClient', client'[c], daemon'[c], c)
  BY <1>1, <1>7, OverClient DEF Noted
<1>8. CASE ring' = ring /\ client'[c].st # "done"
  <2>1. Noted(ring', G2, toDaemon', outbox', toClient', client'[c], daemon'[c], c)
    BY <1>8 DEF Noted
  <2>2. \A b \in ring.ids : b = c \/ b \in ring'.ids \/ Cardinality(G2) > RingLimit
    BY <1>8
  <2> QED BY <1>1, <1>2, <1>4, <1>5, <1>6, <1>8, <2>1, <2>2, StepsRing
<1>9. CASE ring' = ring /\ client[c].st = "done" /\ client'[c] = client[c]
  <2>1. Noted(ring, G, toDaemon, outbox, toClient, client[c], daemon[c], c)
    BY <1>2 DEF RingInv
  <2>2. Over(toDaemon, outbox, toClient, daemon[c], c) =>
           Over(toDaemon', outbox', toClient', daemon'[c], c)
    BY <1>1, <1>9, OverClient
  <2>3. Noted(ring', G2, toDaemon', outbox', toClient', client[c], daemon'[c], c)
    BY <1>3, <1>4, <1>9, <2>1, <2>2, NotedKept
  <2>4. \A b \in ring.ids : b = c \/ b \in ring'.ids \/ Cardinality(G2) > RingLimit
    BY <1>9
  <2>5. Noted(ring', G2, toDaemon', outbox', toClient', client'[c], daemon'[c], c)
    BY <1>9, <2>3
  <2> QED BY <1>1, <1>2, <1>4, <1>5, <1>6, <1>9, <2>4, <2>5, StepsRing
<1>10. CASE /\ ring' = ring \/ ring' = Forgotten(ring, c)
            /\ \/ client[c].st \in {"idle", "ended"}
               \/ toClient # <<>> /\ IsEnd(Head(toClient), c)
  <2>1. ~daemon[c].torn => Over(toDaemon, outbox, toClient, daemon[c], c)
    BY <1>10, OutcomeOver
  <2>2. Noted(ring', G2, toDaemon', outbox', toClient', client'[c], daemon'[c], c)
    <3>1. CASE daemon[c].torn
      BY <1>3, <3>1 DEF Noted
    <3> QED BY <1>7, <2>1, <3>1
  <2>3. ring'.storage = ring.storage /\ \A b \in ring.ids : b = c \/ b \in ring'.ids
    BY <1>1, <1>10 DEF Forgotten, CancelledRing
  <2>4. \A b \in ring.ids : b = c \/ b \in ring'.ids \/ Cardinality(G2) > RingLimit
    BY <2>3
  <2> QED BY <1>1, <1>2, <1>4, <1>5, <1>6, <2>2, <2>3, <2>4, StepsRing
<1>11. CASE /\ client[c].st \in {"live", "ended"} /\ client'[c].end = "cut"
            /\ ring' = Remembered(ring, c) /\ c \in aborted'
  <2>1. c \notin G /\ c \in G2
    BY <1>2, <1>3, <1>11 DEF GivenUp
  <2>2. /\ SlotsOK(ring'.storage, G2) /\ c \in ring'.ids
        /\ \A b \in ring.ids : b \in ring'.ids \/ Cardinality(G2) > RingLimit
    BY <1>1, <1>4, <1>5, <1>11, <2>1, RememberedKnows
  <2>3. Noted(ring', G2, toDaemon', outbox', toClient', client'[c], daemon'[c], c)
    BY <2>2 DEF Noted
  <2>4. \A b \in ring.ids : b = c \/ b \in ring'.ids \/ Cardinality(G2) > RingLimit
    BY <2>2
  <2> QED BY <1>1, <1>2, <1>4, <1>6, <2>2, <2>3, <2>4, StepsRing
<1>12. \/ ring' = ring /\ client'[c].st # "done"
       \/ ring' = ring /\ client[c].st = "done" /\ client'[c] = client[c]
       \/ /\ ring' = ring \/ ring' = Forgotten(ring, c)
          /\ \/ client[c].st \in {"idle", "ended"}
             \/ toClient # <<>> /\ IsEnd(Head(toClient), c)
       \/ /\ client[c].st \in {"live", "ended"} /\ client'[c].end = "cut"
          /\ ring' = Remembered(ring, c) /\ c \in aborted'
  BY <1>6 DEF Outcome
<1> QED BY <1>8, <1>9, <1>10, <1>11, <1>12

-----------------------------------------------------------------------------
(* What the client may still hear of its calls.                               *)

LateOK(p, o, q, k, d, c) ==
    /\ FirstOK(p, o, k.st, c) /\ (k.end = "cut" => k.st = "done")
    /\ IF d.torn THEN d.st = "gone" ELSE QuietOK(p, o, q, k, d, c)
    /\ c \notin Duplex => AskOK(p, o, d, c)

LateInv ==
    \A c \in Call : LateOK(toDaemon, outbox, toClient, client[c], daemon[c], c)

(* A step of one call, and the same for the others.                           *)
LEMMA StepsLate ==
    ASSUME LinkInv, LateInv, NEW a, StepOf(a),
           a \in Call => LateOK(toDaemon', outbox', toClient', client'[a], daemon'[a], a)
    PROVE  LateInv'
<1> SUFFICES ASSUME NEW c \in Call
             PROVE  LateOK(toDaemon', outbox', toClient', client'[c], daemon'[c], c)
  BY DEF LateInv
<1>1. CASE c = a
  BY <1>1
<1>2. CASE c # a
  <2>1. client'[c] = client[c] /\ daemon'[c] = daemon[c]
    BY <1>2 DEF StepOf, Others
  <2>2. /\ FirstOK(toDaemon, outbox, client[c].st, c)
        /\ client[c].end = "cut" => client[c].st = "done"
        /\ daemon[c].torn => daemon[c].st = "gone"
        /\ ~daemon[c].torn => QuietOK(toDaemon, outbox, toClient, client[c], daemon[c], c)
        /\ c \notin Duplex => AskOK(toDaemon, outbox, daemon[c], c)
    BY DEF LateInv, LateOK
  <2>3. FirstOK(toDaemon', outbox', client[c].st, c)
    BY <1>2, <2>2, FirstOther
  <2>4. ~daemon[c].torn => QuietOK(toDaemon', outbox', toClient', client[c], daemon[c], c)
    BY <1>2, <2>2, QuietOther
  <2>5. c \notin Duplex => AskOK(toDaemon', outbox', daemon[c], c)
    BY <1>2, <2>2, AskOther
  <2>6. LateOK(toDaemon', outbox', toClient', client[c], daemon[c], c)
    BY <2>2, <2>3, <2>4, <2>5 DEF LateOK
  <2> QED BY <2>1, <2>6
<1> QED BY <1>1, <1>2

(* A step of the client.                                                      *)
LEMMA ClientLate ==
    ASSUME PeerInv, LateInv, RingInv, NEW c \in Call, Caller(c) \/ ClientReceives(c)
    PROVE  LateInv' /\ RingInv'
<1>1. BooksInv /\ LinkInv
  BY DEF PeerInv, StartInv
<1>2. /\ FirstOK(toDaemon, outbox, client[c].st, c)
      /\ client[c].end = "cut" => client[c].st = "done"
      /\ daemon[c].torn => daemon[c].st = "gone"
      /\ ~daemon[c].torn => QuietOK(toDaemon, outbox, toClient, client[c], daemon[c], c)
      /\ c \notin Duplex => AskOK(toDaemon, outbox, daemon[c], c)
  BY DEF LateInv, LateOK
<1>3. StepOf(c) /\ daemon' = daemon /\ toDaemon' = toDaemon
  BY <1>1, CallerStepOf
<1>4. FirstOK(toDaemon', outbox', client'[c].st, c)
  BY <1>1, <1>2, FirstClient
<1>5. /\ ~daemon[c].torn => QuietOK(toDaemon', outbox', toClient', client'[c], daemon'[c], c)
      /\ client'[c].end = "cut" => client'[c].st = "done"
  <2>1. Outcome(client[c], client'[c], ring, ring', toClient, aborted', c)
    BY <1>1, ClientOutcome
  <2> QED BY <1>2, <2>1, QuietClient DEF Outcome
<1>6. ASSUME c \notin Duplex PROVE AskOK(toDaemon', outbox', daemon'[c], c)
  <2>1. c \in Call \ Duplex /\ AskOK(toDaemon, outbox, daemon[c], c)
    BY <1>2, <1>6
  <2>2. AskOK(toDaemon, outbox', daemon[c], c)
    BY <1>1, <1>2, <2>1, AskClient
  <2> QED BY <1>3, <2>2
<1>7. LateOK(toDaemon', outbox', toClient', client'[c], daemon'[c], c)
  BY <1>2, <1>3, <1>4, <1>5, <1>6 DEF LateOK
<1> QED BY <1>1, <1>2, <1>3, <1>7, StepsLate, RingClient

(* A step of the daemon.                                                      *)
LEMMA DaemonLate ==
    ASSUME PeerInv, CreditInv, LateInv, RingInv, NEW c \in Call, DaemonReceives(c) \/ Handler(c)
    PROVE  LateInv' /\ RingInv'
<1>1. BooksInv /\ LinkInv /\ toDaemon \in Seq(SentType)
  BY DEF PeerInv, StartInv, LinkInv
<1>2. /\ FirstOK(toDaemon, outbox, client[c].st, c)
      /\ client[c].end = "cut" => client[c].st = "done"
      /\ daemon[c].torn => daemon[c].st = "gone"
      /\ ~daemon[c].torn => QuietOK(toDaemon, outbox, toClient, client[c], daemon[c], c)
      /\ c \notin Duplex => AskOK(toDaemon, outbox, daemon[c], c)
  BY DEF LateInv, LateOK
<1>3. DaemonKnown(c) /\ (DaemonStart(c) => daemon[c].st = "absent")
  BY StartsOnce DEF PeerInv
<1>4. StepOf(c) /\ DaemonKeeps
  BY <1>1, <1>3, DaemonStepOf
<1>5. client' = client /\ outbox' = outbox /\ ring' = ring /\ aborted' = aborted
  BY <1>4 DEF DaemonKeeps, callVars
<1>6. FirstOK(toDaemon', outbox, client[c].st, c)
  <2>1. Arrives(toDaemon, toDaemon', c)
    BY <1>4 DEF StepOf
  <2>2. Moved(Begins(toDaemon, c), Begins(toDaemon', c), Talk(toDaemon, c), Talk(toDaemon', c))
    BY <1>1, <2>1, TalkArrives
  <2>3. Moved(Opens(outbox, c), Opens(outbox, c), Chat(outbox, c), Chat(outbox, c))
    BY DEF Moved
  <2> QED BY <1>2, <2>2, <2>3, FirstMoved
<1>7. ASSUME ~daemon[c].torn
      PROVE  /\ QuietOK(toDaemon', outbox, toClient', client[c], daemon'[c], c)
             /\ ~Alive(toDaemon, outbox, daemon[c], c) /\ Paid(toClient, c) = {} =>
                   ~Alive(toDaemon', outbox, daemon'[c], c) /\ Paid(toClient', c) = {}
  BY <1>2, <1>7, QuietDaemon
<1>18. daemon'[c].torn = daemon[c].torn /\ (daemon[c].st = "gone" => daemon'[c].st = "gone")
  BY <1>3, TornStays
<1>8. c \notin Duplex => AskOK(toDaemon', outbox, daemon'[c], c)
  BY <1>2, AskDaemon
<1>9. LateOK(toDaemon', outbox, toClient', client[c], daemon'[c], c)
  BY <1>2, <1>6, <1>7, <1>8, <1>18 DEF LateOK
<1>10. LateOK(toDaemon', outbox', toClient', client'[c], daemon'[c], c)
  BY <1>5, <1>9
<1>11. LateInv'
  BY <1>1, <1>4, <1>10, StepsLate
<1>12. PICK G : G = GivenUp(client, aborted)
  OBVIOUS
<1>13. G = GivenUp(client', aborted') /\ G \subseteq G /\ G \subseteq Call
  BY <1>5, <1>12 DEF GivenUp
<1>14. SlotsOK(ring'.storage, G)
  BY <1>5, <1>12 DEF RingInv
<1>15. Noted(ring', G, toDaemon', outbox', toClient', client'[c], daemon'[c], c)
  <2>1. Noted(ring, G, toDaemon, outbox, toClient, client[c], daemon[c], c)
    BY <1>12 DEF RingInv
  <2>2. Over(toDaemon, outbox, toClient, daemon[c], c) /\ ~daemon'[c].torn =>
           Over(toDaemon', outbox, toClient', daemon'[c], c)
    BY <1>7, <1>18 DEF Over
  <2>3. Noted(ring, G, toDaemon', outbox, toClient', client[c], daemon'[c], c)
    BY <1>13, <1>18, <2>1, <2>2, NotedKept
  <2> QED BY <1>5, <2>3
<1>16. \A b \in ring.ids : b = c \/ b \in ring'.ids \/ Cardinality(G) > RingLimit
  BY <1>5
<1>17. RingInv'
  BY <1>1, <1>4, <1>12, <1>13, <1>14, <1>15, <1>16, StepsRing
<1> QED BY <1>11, <1>17

(* An oversized payload ends the call with an error, and the rest follows.    *)
LEMMA OversizedLate ==
    ASSUME PeerInv, CreditInv, LateInv, RingInv, NEW c \in Call, DaemonOversized(c)
    PROVE  LateInv' /\ RingInv'
<1>1. BooksInv /\ LinkInv /\ toDaemon \in Seq(SentType)
  BY DEF PeerInv, StartInv, LinkInv
<1>2. /\ FirstOK(toDaemon, outbox, client[c].st, c)
      /\ client[c].end = "cut" => client[c].st = "done"
      /\ c \notin Duplex => AskOK(toDaemon, outbox, daemon[c], c)
  BY DEF LateInv, LateOK
<1>3. DaemonKnown(c)
  BY StartsOnce DEF PeerInv
<1>4. StepOf(c) /\ DaemonKeeps
  BY <1>1, <1>3, OversizedStepOf
<1>5. client' = client /\ outbox' = outbox /\ ring' = ring /\ aborted' = aborted
  BY <1>4 DEF DaemonKeeps, callVars
<1>6. PICK s, m, k : Torn(c, s, m, k)
  BY <1>3, OversizedTears
<1>7. PICK d, d2 : d = daemon[c] /\ d2 = TornOf(d)
  OBVIOUS
<1>8. daemon'[c] = d2 /\ DaemonOK(d, c) /\ d.st \in {"receiving", "running"}
  BY <1>3, <1>6, <1>7 DEF Torn, Tears, DaemonKnown
<1>9. d2.st = "gone" /\ d2.torn /\ d2.seen = d.seen
  BY <1>7, <1>8, TornRecord
<1>10. FirstOK(toDaemon', outbox, client[c].st, c)
  <2>1. Arrives(toDaemon, toDaemon', c)
    BY <1>4 DEF StepOf
  <2>2. Moved(Begins(toDaemon, c), Begins(toDaemon', c), Talk(toDaemon, c), Talk(toDaemon', c))
    BY <1>1, <2>1, TalkArrives
  <2>3. Moved(Opens(outbox, c), Opens(outbox, c), Chat(outbox, c), Chat(outbox, c))
    BY DEF Moved
  <2> QED BY <1>2, <2>2, <2>3, FirstMoved
<1>11. c \notin Duplex => AskOK(toDaemon', outbox, d2, c)
  <2>1. /\ toDaemon # <<>> /\ toDaemon' = Tail(toDaemon)
        /\ ~IsPayload(Head(toDaemon).frame, c)
    BY <1>6 DEF Torn, IsPayload
  <2>2. ~Alive(toDaemon', outbox, d2, c) /\ d2.st # "running"
    BY <1>9 DEF Alive
  <2>3. c \notin Duplex => AskOK(toDaemon, outbox, d, c)
    BY <1>2, <1>7
  <2> QED BY <1>1, <1>9, <2>1, <2>2, <2>3, AskArrives
<1>12. LateOK(toDaemon', outbox, toClient', client[c], d2, c)
  BY <1>2, <1>9, <1>10, <1>11 DEF LateOK
<1>13. LateOK(toDaemon', outbox', toClient', client'[c], daemon'[c], c)
  BY <1>5, <1>8, <1>12
<1>14. LateInv'
  BY <1>1, <1>4, <1>13, StepsLate
<1>15. PICK G : G = GivenUp(client, aborted)
  OBVIOUS
<1>16. G = GivenUp(client', aborted') /\ G \subseteq G /\ SlotsOK(ring'.storage, G)
  BY <1>5, <1>15 DEF GivenUp, RingInv
<1>17. Noted(ring', G, toDaemon', outbox', toClient', client'[c], daemon'[c], c)
  BY <1>8, <1>9 DEF Noted
<1>18. \A b \in ring.ids : b = c \/ b \in ring'.ids \/ Cardinality(G) > RingLimit
  BY <1>5
<1>19. RingInv'
  BY <1>1, <1>4, <1>15, <1>16, <1>17, <1>18, StepsRing
<1> QED BY <1>14, <1>19

(* A step of the reverse calls.                                               *)
LEMMA ReverseLate ==
    ASSUME PeerInv, LateInv, RingInv, ReverseNext, UNCHANGED peerVars
    PROVE  LateInv' /\ RingInv'
<1>1. LinkInv /\ UNCHANGED <<client, ring, daemon>>
  BY DEF PeerInv, StartInv, peerVars
<1>2. PICK a \in ReverseId : StepOf(a)
  BY <1>1, ReverseStep
<1>3. a \notin Call
  BY IdsAssumption DEF IdsAssumption
<1>4. LateInv'
  BY <1>1, <1>2, <1>3, StepsLate
<1>5. aborted' \cap Call = aborted \cap Call
  BY ReverseAborts
<1>6. PICK G : G = GivenUp(client, aborted)
  OBVIOUS
<1>7. G = GivenUp(client', aborted') /\ G \subseteq G
  BY <1>1, <1>5, <1>6 DEF GivenUp
<1>8. /\ SlotsOK(ring'.storage, G)
      /\ \A b \in ring.ids : b = a \/ b \in ring'.ids \/ Cardinality(G) > RingLimit
  BY <1>1, <1>6 DEF RingInv
<1>9. RingInv'
  BY <1>1, <1>2, <1>3, <1>6, <1>7, <1>8, StepsRing
<1> QED BY <1>4, <1>9

(* The sender transmits the next frame, or drops a batch.                     *)
LEMMA TransmitLate ==
    ASSUME PeerInv, LateInv, RingInv, Transmit, UNCHANGED <<incoming, peerVars>>
    PROVE  LateInv' /\ RingInv'
<1>1. LinkInv
  BY DEF PeerInv, StartInv
<1>2. UNCHANGED <<client, daemon, ring, toClient, aborted>> /\ UNCHANGED incoming
  BY DEF peerVars, Transmit
<1>3. ASSUME NEW c \in Call, NEW d, Alive(toDaemon', outbox', d, c)
      PROVE  Alive(toDaemon, outbox, d, c)
  BY <1>1, <1>2, <1>3, OverStays
<1>4. ASSUME NEW c \in Call
      PROVE  /\ LateOK(toDaemon', outbox', toClient', client'[c], daemon'[c], c)
             /\ Noted(ring', GivenUp(client, aborted), toDaemon', outbox', toClient',
                      client'[c], daemon'[c], c)
  <2>1. /\ FirstOK(toDaemon, outbox, client[c].st, c)
        /\ client[c].end = "cut" => client[c].st = "done"
        /\ daemon[c].torn => daemon[c].st = "gone"
        /\ ~daemon[c].torn => QuietOK(toDaemon, outbox, toClient, client[c], daemon[c], c)
        /\ c \notin Duplex => AskOK(toDaemon, outbox, daemon[c], c)
    BY DEF LateInv, LateOK
  <2>2. FirstOK(toDaemon', outbox', client[c].st, c)
    BY <1>1, <1>2, <2>1, FirstTransmit
  <2>3. ~daemon[c].torn => QuietOK(toDaemon', outbox', toClient, client[c], daemon[c], c)
    BY <1>3, <2>1 DEF QuietOK
  <2>4. c \notin Duplex => AskOK(toDaemon', outbox', daemon[c], c)
    BY <1>1, <1>2, <2>1, AskTransmit
  <2>5. LateOK(toDaemon', outbox', toClient, client[c], daemon[c], c)
    BY <2>1, <2>2, <2>3, <2>4 DEF LateOK
  <2>6. Noted(ring, GivenUp(client, aborted), toDaemon', outbox', toClient, client[c], daemon[c], c)
    BY <1>3 DEF RingInv, Noted, Over
  <2> QED BY <1>2, <2>5, <2>6
<1>5. GivenUp(client', aborted') = GivenUp(client, aborted) /\ ring'.storage = ring.storage
  BY <1>2
<1>6. SlotsOK(ring.storage, GivenUp(client, aborted))
  BY DEF RingInv
<1> QED BY <1>4, <1>5, <1>6 DEF LateInv, RingInv

(* A call that does not run, when nothing is under way.                       *)
LEMMA NothingLate ==
    ASSUME NEW k, NEW d, NEW c, k.end = "cut" => k.st = "done", d.st \in {"absent", "gone"},
           d.torn => d.st = "gone", ~d.torn /\ c \in Unary => d.emitted <= 1
    PROVE  LateOK(<<>>, <<>>, <<>>, k, d, c) /\ Over(<<>>, <<>>, <<>>, d, c)
<1>1. Len(<<>>) = 0 /\ 1 .. 0 = {}
  OBVIOUS
<1>2. /\ Begins(<<>>, c) = {} /\ Talk(<<>>, c) = {} /\ Opens(<<>>, c) = {} /\ Chat(<<>>, c) = {}
      /\ Closings(<<>>, c) = {} /\ Paid(<<>>, c) = {} /\ Finals(<<>>, c) = {}
      /\ \A kind : Marks(<<>>, kind, c) = {}
  BY <1>1 DEF Begins, Talk, Opens, Chat, Closings, Paid, Finals, Marks
<1>3. FirstOK(<<>>, <<>>, k.st, c)
  BY <1>2 DEF FirstOK
<1>4. ~d.torn => QuietOK(<<>>, <<>>, <<>>, k, d, c)
  BY <1>2 DEF QuietOK
<1>5. AskOK(<<>>, <<>>, d, c)
  BY <1>1, <1>2 DEF AskOK
<1>6. Over(<<>>, <<>>, <<>>, d, c)
  BY <1>2 DEF Over, Alive
<1> QED BY <1>3, <1>4, <1>5, <1>6 DEF LateOK

LEMMA InitLate == Init => LateInv /\ RingInv
<1> SUFFICES ASSUME Init PROVE LateInv /\ RingInv
  OBVIOUS
<1>1. outbox = <<>> /\ toDaemon = <<>> /\ toClient = <<>> /\ aborted = {} /\ ring.storage = <<>>
  BY DEF Init, LinkInit, PeerInit, PeerInitBut
<1>2. ASSUME NEW c \in Call
      PROVE  /\ LateOK(toDaemon, outbox, toClient, client[c], daemon[c], c)
             /\ Over(toDaemon, outbox, toClient, daemon[c], c)
  <2>1. client[c] = NewClient /\ daemon[c] = NewDaemon
    BY DEF Init, PeerInit, PeerInitBut, NewDaemon, NewClient
  <2>2. /\ NewClient.end = "none" /\ NewDaemon.st = "absent" /\ NewDaemon.emitted = 0 /\ 0 <= 1
        /\ ~NewDaemon.torn
    BY DEF NewClient, NewDaemon
  <2> QED BY <1>1, <2>1, <2>2, NothingLate
<1>3. SlotsOK(ring.storage, GivenUp(client, aborted))
  <2>1. Len(<<>>) = 0 /\ 1 .. 0 = {}
    OBVIOUS
  <2> QED BY <1>1, <2>1 DEF SlotsOK
<1> QED BY <1>2, <1>3 DEF LateInv, RingInv, Noted

(* The connection ends: nothing more is heard of any call.                    *)
LEMMA TerminateLate ==
    ASSUME PeerInv, LateInv, RingInv, NEW reason, Terminate(reason)
    PROVE  LateInv' /\ RingInv'
<1>1. outbox' = <<>> /\ toDaemon' = <<>> /\ toClient' = <<>> /\ ring' = ring
  BY DEF Terminate, Down
<1>2. ASSUME NEW c \in Call
      PROVE  /\ client'[c].end = "cut" => client'[c].st = "done"
             /\ client[c].end = "cut" => client'[c].end = "cut"
  <2>1. client[c] \in ClientCall /\ (client[c].end = "cut" => client[c].st = "done")
    BY CreditTypes DEF LateInv, LateOK
  <2> QED BY <2>1 DEF Terminate, ClientCall
<1>3. ASSUME NEW c \in Call
      PROVE  /\ daemon'[c].st \in {"absent", "gone"}
             /\ daemon'[c].torn => daemon'[c].st = "gone"
             /\ ~daemon'[c].torn /\ c \in Unary => daemon'[c].emitted <= 1
  <2>1. /\ DaemonOK(daemon[c], c) /\ (daemon[c].torn => daemon[c].st = "gone")
        /\ ~daemon[c].torn /\ c \in Unary => daemon[c].emitted <= 1
    BY CreditTypes DEF LateInv, LateOK, QuietOK
  <2>2. daemon[c] \in DaemonRecord
    BY <2>1 DEF DaemonOK
  <2>3. CASE c \in Active
    <3>1. daemon'[c] = Abandoned(daemon[c])
      BY <2>3 DEF Terminate
    <3>2. /\ Abandoned(daemon[c]).st = "gone" /\ Abandoned(daemon[c]).emitted = daemon[c].emitted
          /\ Abandoned(daemon[c]).torn = daemon[c].torn
      BY <2>2 DEF Abandoned, DaemonRecord
    <3> QED BY <2>1, <3>1, <3>2
  <2>4. CASE c \notin Active
    <3>1. daemon'[c] = daemon[c]
      BY <2>4 DEF Terminate
    <3>2. daemon[c].st \in {"absent", "gone"}
      BY <2>2, <2>4 DEF Active, DaemonRecord
    <3> QED BY <2>1, <3>1, <3>2
  <2> QED BY <2>3, <2>4
<1>4. ASSUME NEW c \in Call
      PROVE  /\ LateOK(toDaemon', outbox', toClient', client'[c], daemon'[c], c)
             /\ Over(toDaemon', outbox', toClient', daemon'[c], c)
  BY <1>1, <1>2, <1>3, NothingLate
<1>5. GivenUp(client, aborted) \subseteq GivenUp(client', aborted')
  <2>1. aborted \subseteq aborted'
    BY DEF Terminate
  <2> QED BY <1>2, <2>1 DEF GivenUp
<1>6. SlotsOK(ring'.storage, GivenUp(client', aborted'))
  BY <1>1, <1>5, SlotsMore DEF RingInv
<1> QED BY <1>4, <1>6 DEF LateInv, RingInv, Noted

LEMMA NextLate ==
    PeerInv /\ CreditInv /\ LateInv /\ RingInv /\ [Next]_vars => LateInv' /\ RingInv'
<1> SUFFICES ASSUME PeerInv, CreditInv, LateInv, RingInv, [Next]_vars PROVE LateInv' /\ RingInv'
  OBVIOUS
<1>1. CASE PeerNext
  BY <1>1, ClientLate, DaemonLate, OversizedLate DEF PeerNext
<1>2. CASE ReverseNext /\ UNCHANGED peerVars
  BY <1>2, ReverseLate
<1>3. CASE Deliver /\ UNCHANGED reverseVars
  <2>1. Transmit /\ UNCHANGED <<incoming, peerVars>>
    BY <1>3 DEF Deliver, reverseVars
  <2> QED BY <2>1, TransmitLate
<1>4. CASE Ends
  BY <1>4, TerminateLate DEF Ends, RefuseGap, RefuseFrame, RefuseReverse, Disconnect
<1>5. CASE UNCHANGED vars
  BY <1>5 DEF vars, peerVars, linkVars, LateInv, RingInv
<1> QED BY <1>1, <1>2, <1>3, <1>4, <1>5 DEF Next

(* No frame that is under way takes the client by surprise, unless it gave up *)
(* too many calls, or the daemon answered on after an error.                  *)
LEMMA NothingUnexpected ==
    ASSUME PeerInv, CreditInv, LateInv, RingInv, toClient # <<>>, Head(toClient).call \in Call,
           Unexpected(Head(toClient)), ~daemon[Head(toClient).call].torn
    PROVE  Cardinality(GivenUp(client, aborted)) > RingLimit
<1>1. PICK f, c, k, d, x : /\ f = Head(toClient) /\ c = f.call
                           /\ k = client[c] /\ d = daemon[c] /\ x = duplex[c]
  OBVIOUS
<1>2. c \in Call /\ ~d.torn
  BY <1>1
<1>3. /\ toDaemon \in Seq(SentType) /\ outbox \in Seq(BatchType) /\ toClient \in Seq(FrameType)
      /\ k \in ClientCall /\ x \in DuplexRequest /\ DaemonOK(d, c) /\ k.got \in Nat
      /\ f \in FrameType
  <2>1. toClient \in Seq(FrameType)
    BY <1>2, CreditTypes
  <2> QED BY <1>1, <1>2, <2>1, CreditTypes, HeadTailProperties
<1>4. /\ QuietOK(toDaemon, outbox, toClient, k, d, c)
      /\ QueueOK(toClient, d, c) /\ (k.st = "live" => LiveOK(toClient, Received(k), d, c))
      /\ ClientOK(k) /\ DuplexOK(x, k, c) /\ CreditOK(toDaemon, outbox, toClient, x, k, d, c)
  BY <1>1, <1>2, CallRecords DEF PeerInv, ResponsesInv, ResponsesOK, LateInv, LateOK, CreditInv
<1>5. CASE f.kind = "payload"
  <2>1. IsPayload(f, c)
    BY <1>1, <1>5 DEF IsPayload
  <2>2. 1 \in Paid(toClient, c) /\ toClient[1] = f
    BY <1>1, <1>3, <2>1, PaidTail
  <2>3. k.st # "ended"
    BY <1>4, <2>2 DEF QuietOK
  <2>4. k.st # "idle"
    BY <1>1, <1>2, <2>2, IdlePaid
  <2>5. PICK n, g, b, h : n = f.n /\ g = k.got /\ b = Len(k.buffered) /\ h = Handed(d)
    OBVIOUS
  <2>6. n \in Nat /\ g \in Nat /\ b \in Nat /\ h \in Nat /\ k.credit \in Nat
    <3>1. k.buffered \in Seq(1 .. MaxItems) /\ k.credit \in 0 .. Credit /\ f.n \in Nat
      BY <1>3 DEF ClientCall, FrameType
    <3>2. Len(k.buffered) \in Nat /\ k.credit \in Nat
      BY <3>1, LenProperties, PeerConstants
    <3> QED BY <1>3, <2>5, <3>1, <3>2, DaemonFields
  <2>12. Ahead(toClient, 1, c)
    <3>1. Head(toClient) # EndError(c)
      BY <1>1, <1>5 DEF EndError, Counted
    <3> QED BY <1>3, <3>1, AheadTail
  <2>7. ASSUME k.st = "live" PROVE n > g + b /\ n <= Credit + g /\ n <= h
    BY <1>4, <2>2, <2>5, <2>7, <2>12 DEF LiveOK, QuietOK, QueueOK, Received
  <2>8. ~(k.st = "live" /\ k.credit = 0)
    <3> SUFFICES ASSUME k.st = "live", k.credit = 0 PROVE FALSE
      OBVIOUS
    <3>1. 0 + b = Credit
      BY <1>4, <2>5 DEF ClientOK
    <3>2. n > g + b /\ n <= Credit + g
      BY <2>7
    <3> QED BY <2>6, <3>1, <3>2
  <2>9. ~(k.st = "live" /\ c \in Unary /\ k.buffered # <<>>)
    <3> SUFFICES ASSUME k.st = "live", c \in Unary, k.buffered # <<>> PROVE FALSE
      OBVIOUS
    <3>1. b # 0
      <4>1. k.buffered \in Seq(1 .. MaxItems)
        BY <1>3 DEF ClientCall
      <4> QED BY <2>5, <4>1, EmptySeq
    <3>2. n > g + b /\ n <= h
      BY <2>7
    <3>3. h <= 1
      <4>1. d.emitted <= 1 /\ d.held = <<>>
        BY <1>3, <1>4 DEF QuietOK, DaemonOK
      <4>2. Len(d.held) = 0 /\ d.emitted \in Nat
        BY <1>3, <4>1, DaemonFields
      <4> QED BY <2>5, <4>1, <4>2 DEF Handed
    <3> QED BY <2>6, <3>1, <3>2, <3>3
  <2>10. k.st = "done" /\ c \notin ring.ids
    BY <1>1, <1>5, <2>3, <2>4, <2>8, <2>9 DEF Unexpected
  <2>11. Noted(ring, GivenUp(client, aborted), toDaemon, outbox, toClient, k, d, c)
    BY <1>1, <1>2 DEF RingInv
  <2> QED BY <1>2, <2>2, <2>10, <2>11 DEF Noted, Over
<1>6. CASE f.kind = "end"
  <2>1. IsEnd(f, c) /\ 1 \in Closings(toClient, c)
    <3>1. IsEnd(f, c)
      BY <1>1, <1>6 DEF IsEnd
    <3> QED BY <1>1, <1>3, <3>1, ClosingsTail
  <2>2. k.st # "idle"
    BY <1>4, <2>1 DEF QuietOK
  <2>3. k.st = "ended" /\ f.n = 1
    BY <1>1, <1>6, <2>2 DEF Unexpected
  <2>4. f = EndOk(c)
    BY <1>1, <1>3, <1>6, <2>3 DEF EndOk, Counted, FrameType
  <2>5. 1 \in Finals(toClient, c)
    <3>1. 1 \in 1 .. Len(toClient)
      BY <2>1 DEF Closings
    <3>2. toClient[1] = Head(toClient)
      BY <1>3, HeadTailProperties
    <3> QED BY <1>1, <2>4, <3>1, <3>2 DEF Finals
  <2> QED BY <1>4, <2>3, <2>5 DEF QuietOK
<1>7. CASE f.kind = "window"
  <2>1. x.st \notin {"none", "closed"} /\ x.credit = InputCredit
    BY <1>1, <1>7 DEF Unexpected
  <2>2. x.st \in {"open", "ending", "ended"}
    BY <1>3, <2>1 DEF DuplexRequest
  <2>3. k.st = "live" /\ c \in Duplex
    BY <1>4, <2>2 DEF DuplexOK
  <2>4. Debt(toDaemon, outbox, toClient, x, d, c) <= InputCredit
    BY <1>4, <2>3 DEF CreditOK, Owed
  <2>5. PICK v, w, m, i, g : /\ v = x.credit /\ w = Waits(outbox, c)
                             /\ m = Marked(toDaemon, "payload", c)
                             /\ i = d.input /\ g = Granted(toClient, c)
    OBVIOUS
  <2>6. v + w + m + i + g <= InputCredit
    BY <2>4, <2>5 DEF Debt
  <2>7. w \in {0, 1} /\ m \in Nat /\ i \in Nat /\ g \in Nat
    BY <1>3, <2>5, SumsNat
  <2>8. g > 0
    <3>1. IsWindow(f, c)
      BY <1>1, <1>7 DEF IsWindow
    <3>2. Granted(Tail(toClient), c) \in Nat /\ g = Granted(Tail(toClient), c) + 1
      BY <1>1, <1>3, <2>5, <3>1, GrantedTail
    <3> QED BY <3>2
  <2>9. v = InputCredit
    BY <2>1, <2>5
  <2>10. w \in Nat /\ InputCredit \in Nat
    BY <2>7, PeerConstants
  <2> QED BY <2>6, <2>7, <2>8, <2>9, <2>10
<1> QED BY <1>1, <1>5, <1>6, <1>7 DEF Unexpected

(* What the client may hear of its calls, in every reachable state.           *)
LEMMA LateKept == Spec => [](PeerInv /\ CreditInv /\ LateInv /\ RingInv)
BY CreditKept, InitLate, NextLate, PTL DEF Spec

-----------------------------------------------------------------------------
(* The client ends the connection over a late frame only when it has given up *)
(* more calls than LocallyCancelledCalls remembers, or the daemon answered on *)
(* after an oversized payload of that call, for any limits, any number of     *)
(* calls and any order of the frames: a call that the client has cancelled    *)
(* may be answered until its end arrives, and everything else that the daemon *)
(* sends is within the credit and before the end of its call.                 *)
THEOREM LateFramesAreTolerated == Spec => LateFramesTolerated
<1>1. PeerInv /\ CreditInv /\ LateInv /\ RingInv /\ [Next]_vars =>
        [RefuseFrame =>
           \/ Cardinality({c \in aborted \cap Call : client[c].end = "cut"}) > RingLimit
           \/ daemon[Head(toClient).call].torn
          ]_<<peerVars, linkVars>>
  BY NothingUnexpected DEF RefuseFrame, GivenUp
<1> QED BY <1>1, LateKept, PTL DEF Spec, LateFramesTolerated

(* Flow control invents no credit, for any limits and any number of calls:    *)
(* what the daemon may send on a stream and what is on its way never exceed   *)
(* the initial credit, although a frame that gives credit back may be lost    *)
(* with a full queue; and the messages of a duplex call that both sides know  *)
(* account for every byte, although the batches of a call that is given up    *)
(* are dropped from the queue in front of them.                               *)
THEOREM CreditIsConserved == Spec => []CreditConserved
<1>1. PeerInv /\ CreditInv /\ LateInv => CreditConserved
  <2> SUFFICES ASSUME PeerInv, CreditInv, LateInv, NEW c \in Call, client[c].st = "live", c \in Active
               PROVE  /\ daemon[c].credit + ResponseCredit(c) <= Credit
                      /\ c \in Duplex /\ ~daemon[c].complete =>
                            duplex[c].credit + RequestCredit(c) = InputCredit
    BY DEF CreditConserved
  <2>1. /\ toDaemon \in Seq(SentType) /\ outbox \in Seq(BatchType) /\ toClient \in Seq(FrameType)
        /\ \A i \in 1 .. Len(outbox) : BatchOK(outbox[i])
        /\ client[c] \in ClientCall /\ duplex[c] \in DuplexRequest /\ DaemonOK(daemon[c], c)
        /\ client[c].got \in Nat
    BY CreditTypes
  <2>2. PICK k, d, x : k = client[c] /\ d = daemon[c] /\ x = duplex[c]
    OBVIOUS
  <2>3. /\ Lent(toDaemon, outbox, k, d, c)
        /\ c \in Duplex => Owed(toDaemon, outbox, toClient, x, d, c)
    BY <2>2 DEF CreditInv, CreditOK
  <2>4. d.st \in {"receiving", "running"}
    BY <2>2 DEF Active
  <2>5. QueueOK(toClient, d, c) /\ LiveOK(toClient, Received(k), d, c)
    BY <2>2 DEF PeerInv, ResponsesInv, ResponsesOK
  <2>10. \A i \in Paid(toClient, c) : Ahead(toClient, i, c)
    <3>1. ~d.torn /\ QuietOK(toDaemon, outbox, toClient, k, d, c)
      BY <2>2, <2>4 DEF LateInv, LateOK
    <3>2. Closings(toClient, c) = {}
      BY <2>4, <3>1 DEF QuietOK, Alive
    <3>3. IsEnd(EndError(c), c)
      BY DEF EndError, Counted, IsEnd
    <3>4. Faults(toClient, c) = {}
      BY <3>2, <3>3 DEF Faults, Closings
    <3> QED BY <3>4 DEF Ahead
  <2>6. DOMAIN toClient = 1 .. Len(toClient)
    BY <2>1, LenProperties
  <2>7. /\ Carrying(toClient, "payload", c) = Paid(toClient, c)
        /\ Carrying(toClient, "window", c) = Grants(toClient, c)
    BY <2>6 DEF Carrying, Paid, IsPayload, Grants, IsWindow
  <2>8. daemon[c].credit + ResponseCredit(c) <= Credit
    <3>1. PICK u, h, g, l, m, r, v, s, t :
            /\ u = d.credit /\ h = Handed(d) /\ g = k.got /\ l = Len(k.buffered)
            /\ m = Marked(toDaemon, "window", c) /\ r = Refunded(outbox, c)
            /\ v = Cardinality(Paid(toClient, c))
            /\ s = Cardinality(CreditBytes(Inbound, c))
            /\ t = Cardinality(UNION {{i} \X CreditBytes(outbox[i].frames, c) : i \in DOMAIN outbox})
      OBVIOUS
    <3>2. u \in Nat /\ h \in Nat
      BY <2>1, <2>2, <3>1, DaemonFields, PeerConstants
    <3>3. g \in Nat /\ l \in Nat
      BY <2>1, <2>2, <3>1, CallRecords DEF PeerInv
    <3>4. m \in Nat /\ r \in Nat
      BY <2>1, <3>1, MarkedNat, RefundedNat
    <3>5. v \in Nat /\ v <= h - (g + l)
      <4>1. Received(k) = g + l /\ g + l \in Nat
        BY <3>1, <3>3 DEF Received
      <4>2. g + l <= h
        BY <2>5, <3>1, <4>1 DEF LiveOK
      <4>3. \A i \in Paid(toClient, c) : toClient[i].n > g + l /\ toClient[i].n <= h
        BY <2>5, <2>10, <3>1, <4>1 DEF LiveOK, QueueOK
      <4>4. \A i, j \in Paid(toClient, c) : i < j => toClient[i].n < toClient[j].n
        BY <2>5 DEF QueueOK
      <4> QED BY <2>1, <3>1, <3>2, <4>1, <4>2, <4>3, <4>4, PaidCount
    <3>6. s \in Nat /\ s <= m
      BY <2>1, <2>3, <3>1, InboundCount DEF Lent
    <3>7. t \in Nat /\ t <= r
      BY <2>1, <2>3, <3>1, OutboxCount DEF Lent
    <3>8. u + h + m + r <= Credit + g
      BY <2>3, <2>4, <3>1 DEF Lent, Loan
    <3>9. u + (v + l + s + t) <= Credit
      BY <3>2, <3>3, <3>4, <3>5, <3>6, <3>7, <3>8, PeerConstants
    <3>10. ResponseCredit(c) = v + l + s + t
      BY <2>2, <2>7, <3>1 DEF ResponseCredit
    <3> QED BY <2>2, <3>1, <3>9, <3>10
  <2>9. ASSUME c \in Duplex, ~daemon[c].complete
        PROVE  duplex[c].credit + RequestCredit(c) = InputCredit
    <3>1. MessagesOK(toDaemon, outbox, x, k, d, c)
      BY <2>2, <2>9 DEF PeerInv, MessagesInv
    <3>2. Debt(toDaemon, outbox, toClient, x, d, c) = InputCredit
      BY <2>2, <2>3, <2>4, <2>9 DEF Owed, Alive
    <3>3. PICK v, w, m, i, g :
            /\ v = x.credit /\ w = Waits(outbox, c) /\ m = Marked(toDaemon, "payload", c)
            /\ i = d.input /\ g = Granted(toClient, c)
      OBVIOUS
    <3>4. v \in Nat /\ w \in {0, 1} /\ m \in Nat /\ i \in Nat /\ g \in Nat
      BY <2>1, <2>2, <3>3, SumsNat
    <3>5. Cardinality(UNION {{j} \X Carrying(outbox[j].frames, "payload", c) : j \in DOMAIN outbox})
            = w
      <4>1. /\ \A j \in 1 .. Len(outbox) : Shape(outbox[j], c)
            /\ \A j, n \in Waiting(outbox, c) : j = n
        BY <3>1, MessageParts
      <4> QED BY <2>1, <3>3, <4>1, WaitsCount
    <3>6. Cardinality(Carrying(Inbound, "payload", c)) = m
      BY <2>1, <3>3, InboundCount DEF Marked
    <3>7. RequestCredit(c) = w + m + i + g
      BY <2>2, <2>7, <3>3, <3>5, <3>6 DEF RequestCredit, Granted
    <3>8. v + w + m + i + g = InputCredit
      BY <3>2, <3>3 DEF Debt
    <3>9. v + (w + m + i + g) = InputCredit
      BY <3>4, <3>8
    <3> QED BY <2>2, <3>3, <3>7, <3>9
  <2> QED BY <2>8, <2>9
<1> QED BY <1>1, LateKept, PTL
=============================================================================
