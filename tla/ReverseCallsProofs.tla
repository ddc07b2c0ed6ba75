------------------------- MODULE ReverseCallsProofs --------------------------
(* The safety of the calls the daemon makes of a client, for any number of    *)
(* calls, any limits and any interleaving with the client's own calls.  One   *)
(* invariant carries all of it: what each of the three queues says of a       *)
(* reverse call is a sequence that ten numbers describe, and both records of  *)
(* the call fit these numbers.                                                *)
EXTENDS PeerCallsProofs, ReverseBooksProofs

-----------------------------------------------------------------------------
(* The invariant.                                                             *)

(* The frames of one call, in the two directions and in the client's queue.   *)
Heard(q, c, a, w, x) == Extract(q, c, Downward(c, a, w, x))
Said(p, c, v, lo, hi, e) == Extract(FramesOf(p), c, Upward(c, v, lo, hi, e))
Queues(o, c, u, n, m, t) == Extract(FirstsOf(o), c, Upward(c, u, n - m, n, t))

(* What holds of one reverse call: its books fit what is under way.           *)
RevOK(d, k, A, q, p, o, c) ==
    \E a, w, x, v, lo, hi, e, u, m, t :
        /\ Heard(q, c, a, w, x) /\ Said(p, c, v, lo, hi, e)
        /\ Queues(o, c, u, k.yields, m, t)
        /\ BookOK(d, k, A, c, a, w, x, v, lo, hi, e, u, m, t)

(* A batch speaks of one call; one of a reverse call is a single frame, and   *)
(* may be aborted if that is a payload.                                       *)
Single(b, a) ==
    a \in ReverseId => /\ Len(b.frames) = 1
                       /\ b.signal = a <=> b.frames[1].kind = "payload"
OutboxOK(o) ==
    \A i \in 1 .. Len(o) : \E a \in Id : Of(o[i], a) /\ Single(o[i], a)

(* The invariant of the reverse calls.                                        *)
ReverseInv ==
    /\ reverse \in [ReverseId -> ReverseCall]
    /\ OutboxOK(outbox) /\ None \notin aborted
    /\ IsFiniteSet(Known) /\ Cardinality(Known) <= MaxReverse
    /\ \A c \in ReverseId : RevOK(reverse[c], incoming[c], aborted, toClient, toDaemon, outbox, c)

-----------------------------------------------------------------------------
(* Steps of other calls.                                                      *)

(* What other calls do to the three queues.                                   *)
LEMMA HeardOther ==
    ASSUME NEW q \in Seq(FrameType), NEW q1, NEW q2, NEW a, NEW c, c # a,
           Reads(q, q1, a), Answers(q1, q2, a), NEW s \in Seq(FrameType), Extract(q, c, s)
    PROVE  Extract(q2, c, s)
<1>1. q1 \in Seq(FrameType) /\ Extract(q1, c, s)
  <2>1. CASE q1 = q
    BY <2>1
  <2>2. CASE q # <<>> /\ Head(q).call = a /\ q1 = Tail(q)
    BY <2>2, ExtractSkip, HeadTailProperties
  <2> QED BY <2>1, <2>2 DEF Reads
<1>2. /\ q2 \in Seq(FrameType) /\ Len(q1) <= Len(q2) /\ \A i \in 1 .. Len(q1) : q2[i] = q1[i]
      /\ \A i \in Len(q1) + 1 .. Len(q2) : q2[i].call # c
  BY DEF Answers
<1> QED BY <1>1, <1>2, ExtractMore

(* The frames that arrive at the daemon.                                      *)
LEMMA SaidOther ==
    ASSUME NEW p \in Seq(SentType), NEW p2, NEW a, NEW c, c # a, Arrives(p, p2, a),
           NEW s \in Seq(FrameType), Extract(FramesOf(p), c, s)
    PROVE  Extract(FramesOf(p2), c, s)
<1>1. CASE p2 = p
  BY <1>1
<1>2. CASE p # <<>> /\ Head(p).frame.call = a /\ p2 = Tail(p)
  <2>1. PICK f, f2 : f = FramesOf(p) /\ f2 = FramesOf(p2)
    OBVIOUS
  <2>2. /\ f \in Seq(FrameType) /\ f # <<>> /\ Head(f) = Head(p).frame /\ f2 = Tail(f)
    BY <1>2, <2>1, FramesFacts
  <2>3. Extract(f2, c, s)
    BY <1>2, <2>1, <2>2, ExtractSkip
  <2> QED BY <2>1, <2>3
<1> QED BY <1>1, <1>2 DEF Arrives

(* And the batches that the client queues.                                    *)
LEMMA QueuesOther ==
    ASSUME NEW o \in Seq(BatchType), \A i \in DOMAIN o : BatchOK(o[i]), NEW o2, NEW a, NEW c,
           c # a, Sends(o, o2, a), NEW s \in Seq(FrameType), Extract(FirstsOf(o), c, s)
    PROVE  Extract(FirstsOf(o2), c, s)
<1>1. PICK l, n : /\ l = Len(o) /\ n = Len(o2) /\ l \in Nat /\ n \in Nat /\ l <= n
                  /\ DOMAIN o = 1 .. l /\ DOMAIN o2 = 1 .. n /\ o2 \in Seq(BatchType)
  BY LenProperties DEF Sends
<1>2. \A i \in 1 .. l : o2[i] = o[i]
  BY <1>1 DEF Sends
<1>3. \A i \in l + 1 .. n : BatchOK(o2[i]) /\ Of(o2[i], a)
  BY <1>1 DEF Sends
<1>4. \A i \in 1 .. n : i \in 1 .. l \/ i \in l + 1 .. n
  BY <1>1
<1>5. \A i \in DOMAIN o2 : BatchOK(o2[i])
  BY <1>1, <1>2, <1>3, <1>4
<1>6. PICK f, f2 : f = FirstsOf(o) /\ f2 = FirstsOf(o2)
  OBVIOUS
<1>7. /\ f \in Seq(FrameType) /\ Len(f) = l /\ \A i \in 1 .. l : f[i] = o[i].frames[1]
  BY <1>1, <1>6, FirstsFacts
<1>8. /\ f2 \in Seq(FrameType) /\ Len(f2) = n /\ \A i \in 1 .. n : f2[i] = o2[i].frames[1]
  BY <1>1, <1>5, <1>6, FirstsFacts
<1>9. \A i \in 1 .. l : f2[i] = f[i]
  <2>1. \A i \in 1 .. l : i \in 1 .. n
    BY <1>1
  <2> QED BY <1>2, <1>7, <1>8, <2>1
<1>10. ASSUME NEW i \in l + 1 .. n PROVE f2[i].call # c
  <2>1. i \in 1 .. n /\ BatchOK(o2[i]) /\ Of(o2[i], a) /\ f2[i] = o2[i].frames[1]
    BY <1>1, <1>3, <1>8
  <2>2. PICK g : g = o2[i].frames
    OBVIOUS
  <2>3. g \in Seq(FrameType) /\ g # <<>> /\ \A j \in DOMAIN g : g[j].call = a
    BY <2>1, <2>2 DEF BatchOK, BatchType, Of
  <2>4. PICK z : z = Len(g) /\ z \in Nat /\ z # 0 /\ DOMAIN g = 1 .. z
    BY <2>3, LenProperties, EmptySeq
  <2>5. 1 \in DOMAIN g
    BY <2>4
  <2> QED BY <2>1, <2>2, <2>3, <2>5
<1>11. Extract(f2, c, s)
  BY <1>1, <1>6, <1>7, <1>8, <1>9, <1>10, ExtractMore
<1> QED BY <1>6, <1>11

(* What is said of a call is a sequence of frames.                            *)
LEMMA BookTypes ==
    ASSUME NEW d, NEW k, NEW A, NEW c \in ReverseId, NEW a, NEW w, NEW x, NEW v, NEW lo,
           NEW hi, NEW e, NEW u, NEW m, NEW t,
           BookOK(d, k, A, c, a, w, x, v, lo, hi, e, u, m, t)
    PROVE  /\ c \in Id /\ k.yields - m \in Nat /\ k.yields - m <= k.yields
           /\ Downward(c, a, w, x) \in Seq(FrameType)
           /\ Upward(c, v, lo, hi, e) \in Seq(FrameType)
           /\ Upward(c, u, k.yields - m, k.yields, t) \in Seq(FrameType)
<1>1. /\ a \in 0 .. 3 /\ w \in Nat /\ x \in 0 .. 1 /\ v \in 0 .. 1 /\ lo \in Nat
      /\ hi \in Nat /\ lo <= hi /\ e \in 0 .. 2 /\ u \in 0 .. 1 /\ m \in 0 .. 1
      /\ t \in 0 .. 2 /\ k.yields \in Nat /\ OrderOK(k, A, c, lo, hi, v, e, u, m, t)
  BY BookParts
<1>2. c \in Id
  BY DEF Id
<1>3. PICK y : y = k.yields /\ y \in Nat
  BY <1>1
<1>4. hi + m <= y
  BY <1>1, <1>3 DEF OrderOK
<1>5. y - m \in Nat /\ y - m <= y
  BY <1>1, <1>3, <1>4
<1>6. Downward(c, a, w, x) \in Seq(FrameType)
  BY <1>1, <1>2, DownwardType
<1>7. Upward(c, v, lo, hi, e) \in Seq(FrameType)
  BY <1>1, <1>2, UpwardType
<1>8. Upward(c, u, y - m, y, t) \in Seq(FrameType)
  BY <1>1, <1>2, <1>3, <1>5, UpwardType
<1> QED BY <1>2, <1>3, <1>5, <1>6, <1>7, <1>8

(* A step of another call.                                                    *)
LEMMA OtherRev ==
    ASSUME LinkInv, NEW a, StepOf(a), NEW c \in ReverseId, c # a, NEW d, NEW k,
           RevOK(d, k, aborted, toClient, toDaemon, outbox, c), c \in aborted' <=> c \in aborted
    PROVE  RevOK(d, k, aborted', toClient', toDaemon', outbox', c)
<1>1. PICK r, w, x, v, lo, hi, e, u, m, t :
        /\ Heard(toClient, c, r, w, x) /\ Said(toDaemon, c, v, lo, hi, e)
        /\ Queues(outbox, c, u, k.yields, m, t)
        /\ BookOK(d, k, aborted, c, r, w, x, v, lo, hi, e, u, m, t)
  BY DEF RevOK
<1>2. /\ Downward(c, r, w, x) \in Seq(FrameType) /\ Upward(c, v, lo, hi, e) \in Seq(FrameType)
      /\ Upward(c, u, k.yields - m, k.yields, t) \in Seq(FrameType)
  BY <1>1, BookTypes
<1>3. /\ toClient \in Seq(FrameType) /\ toDaemon \in Seq(SentType) /\ outbox \in Seq(BatchType)
      /\ \A i \in DOMAIN outbox : BatchOK(outbox[i])
  BY DEF LinkInv
<1>4. Heard(toClient', c, r, w, x)
  <2>1. PICK q1 : Reads(toClient, q1, a) /\ Answers(q1, toClient', a)
    BY DEF StepOf
  <2> QED BY <1>1, <1>2, <1>3, <2>1, HeardOther DEF Heard
<1>5. Said(toDaemon', c, v, lo, hi, e)
  BY <1>1, <1>2, <1>3, SaidOther DEF Said, StepOf
<1>6. Queues(outbox', c, u, k.yields, m, t)
  BY <1>1, <1>2, <1>3, QueuesOther DEF Queues, StepOf
<1>7. BookOK(d, k, aborted', c, r, w, x, v, lo, hi, e, u, m, t)
  BY <1>1, AbortsBook
<1> QED BY <1>4, <1>5, <1>6, <1>7 DEF RevOK

-----------------------------------------------------------------------------
(* The first frame of a queue.                                                *)

(* The frames the daemon adds for the client.                                 *)
LEMMA HeardMore ==
    ASSUME NEW q \in Seq(FrameType), NEW c \in Id, NEW a \in 0 .. 3, NEW w \in Nat,
           Heard(q, c, a, w, 0)
    PROVE  /\ Heard(q \o <<Frame("cancel", c)>>, c, a, w, 1)
           /\ Heard(q \o <<Counted("window", c, 1)>>, c, a, w + 1, 0)
           /\ a = 0 /\ w = 0 =>
                Heard(q \o <<Frame("start", c), Frame("payload", c), Frame("end", c)>>, c, 3, 0, 0)
<1>1. PICK f, g, h, z, n : /\ f = Frame("start", c) /\ g = Frame("payload", c)
                           /\ h = Frame("end", c) /\ z = Frame("cancel", c)
                           /\ n = Counted("window", c, 1)
  OBVIOUS
<1>2. /\ f \in FrameType /\ g \in FrameType /\ h \in FrameType /\ z \in FrameType
      /\ n \in FrameType /\ f.call = c /\ g.call = c /\ h.call = c /\ z.call = c /\ n.call = c
  BY <1>1, FrameFacts
<1>3. PICK s : s = Downward(c, a, w, 0) /\ s \in Seq(FrameType) /\ Extract(q, c, s)
  <2>1. 0 \in 0 .. 1
    OBVIOUS
  <2> QED BY <2>1, DownwardType DEF Heard
<1>4. Append(s, n) = Downward(c, a, w + 1, 0) /\ Append(s, z) = Downward(c, a, w, 1)
  BY <1>1, <1>3, DownwardAppend
<1>5. Append(q, z) = q \o <<z>> /\ Append(q, n) = q \o <<n>>
  BY <1>2, AppendIsConcat
<1>6. Extract(Append(q, z), c, Append(s, z)) /\ Extract(Append(q, n), c, Append(s, n))
  BY <1>2, <1>3, ExtractAppend
<1>7. ASSUME a = 0, w = 0 PROVE Extract(q \o <<f, g, h>>, c, Downward(c, 3, 0, 0))
  <2>1. s = <<>>
    <3>1. 0 \in 0 .. 1
      OBVIOUS
    <3> QED BY <1>3, <1>7, <3>1, DownwardNothing
  <2>2. PICK q1, s1 : /\ q1 = Append(q, f) /\ s1 = Append(s, f) /\ Extract(q1, c, s1)
                      /\ q1 \in Seq(FrameType) /\ s1 \in Seq(FrameType)
    BY <1>2, <1>3, ExtractAppend, AppendProperties
  <2>3. PICK q2, s2 : /\ q2 = Append(q1, g) /\ s2 = Append(s1, g) /\ Extract(q2, c, s2)
                      /\ q2 \in Seq(FrameType) /\ s2 \in Seq(FrameType)
    BY <1>2, <2>2, ExtractAppend, AppendProperties
  <2>4. Extract(Append(q2, h), c, Append(s2, h))
    BY <1>2, <2>3, ExtractAppend
  <2>5. Append(q2, h) = q \o <<f, g, h>>
    <3>1. Append(Append(Append(q, f), g), h) = q \o <<f, g, h>>
      BY <1>2, ThreeFrames, ZenonT(20)
    <3> QED BY <2>2, <2>3, <3>1
  <2>6. Append(s2, h) = Downward(c, 3, 0, 0)
    BY <1>1, <2>1, <2>2, <2>3, DownwardAppend
  <2> QED BY <2>4, <2>5, <2>6
<1> QED BY <1>1, <1>4, <1>5, <1>6, <1>7 DEF Heard

(* The next frame for the client is one of the call.                          *)
LEMMA HeardHead ==
    ASSUME NEW q \in Seq(FrameType), q # <<>>, NEW c \in Id, NEW a \in 0 .. 3, NEW w \in Nat,
           NEW x \in 0 .. 1, Heard(q, c, a, w, x), Head(q).call = c
    PROVE  \/ a > 0 /\ Head(q) = Request(c, 4 - a) /\ Heard(Tail(q), c, a - 1, w, x)
           \/ /\ a = 0 /\ w > 0 /\ Head(q) = Counted("window", c, 1)
              /\ Heard(Tail(q), c, 0, w - 1, x)
           \/ /\ a = 0 /\ w = 0 /\ x = 1 /\ Head(q) = Frame("cancel", c)
              /\ Heard(Tail(q), c, 0, 0, 0)
<1>1. PICK s : s = Downward(c, a, w, x) /\ s \in Seq(FrameType) /\ Extract(q, c, s)
  BY DownwardType DEF Heard
<1>2. s # <<>> /\ Head(s) = Head(q) /\ Extract(Tail(q), c, Tail(s))
  BY <1>1, ExtractHead
<1>3. DownwardNext(s, c, a, w, x)
  <2>1. Downward(c, a, w, x) # <<>>
    BY <1>1, <1>2
  <2> QED BY <1>1, <2>1, DownwardHead
<1> QED BY <1>2, <1>3 DEF Heard, DownwardNext

(* The next frame for the daemon is one of the call.                          *)
LEMMA SaidHead ==
    ASSUME NEW p \in Seq(SentType), p # <<>>, NEW c \in Id, NEW v \in 0 .. 1, NEW lo \in Nat,
           NEW hi \in Nat, lo <= hi, NEW e \in 0 .. 2, Said(p, c, v, lo, hi, e),
           Head(p).frame.call = c
    PROVE  \/ /\ v = 1 /\ Head(p).frame = Counted("window", c, 1)
              /\ Said(Tail(p), c, 0, lo, hi, e)
           \/ /\ v = 0 /\ lo < hi /\ Head(p).frame = Counted("payload", c, lo + 1)
              /\ Said(Tail(p), c, 0, lo + 1, hi, e)
           \/ /\ v = 0 /\ lo = hi /\ e > 0 /\ Head(p).frame = Counted("end", c, e - 1)
              /\ Said(Tail(p), c, 0, lo, hi, 0)
<1>1. PICK f : f = FramesOf(p) /\ f \in Seq(FrameType) /\ f # <<>>
               /\ Head(f) = Head(p).frame /\ FramesOf(Tail(p)) = Tail(f)
  BY FramesFacts
<1>2. PICK s : s = Upward(c, v, lo, hi, e) /\ s \in Seq(FrameType) /\ Extract(f, c, s)
  BY <1>1, UpwardType DEF Said
<1>3. s # <<>> /\ Head(s) = Head(f) /\ Extract(Tail(f), c, Tail(s))
  BY <1>1, <1>2, ExtractHead
<1>4. UpwardNext(s, c, v, lo, hi, e)
  BY <1>2, <1>3, UpwardHead
<1> QED BY <1>1, <1>3, <1>4 DEF Said, UpwardNext

(* The client queues a byte of credit, a payload or a CallEnd.                *)
LEMMA QueuesMore ==
    ASSUME NEW o \in Seq(BatchType), \A i \in DOMAIN o : BatchOK(o[i]), NEW c \in Id,
           NEW u \in 0 .. 1, NEW n \in Nat, NEW m \in 0 .. 1, m <= n, Queues(o, c, u, n, m, 0),
           NEW b, BatchOK(b)
    PROVE  /\ u = 0 /\ m = 0 /\ b.frames[1] = Counted("window", c, 1) =>
                 Queues(Append(o, b), c, 1, n, 0, 0)
           /\ m = 0 /\ b.frames[1] = Counted("payload", c, n + 1) =>
                 Queues(Append(o, b), c, u, n + 1, 1, 0)
           /\ \A z \in 0 .. 1 : b.frames[1] = Counted("end", c, z) =>
                 Queues(Append(o, b), c, u, n, m, z + 1)
<1>1. PICK f : f = FirstsOf(o) /\ f \in Seq(FrameType)
               /\ FirstsOf(Append(o, b)) = Append(f, b.frames[1])
  BY FirstsFacts
<1>2. PICK l \in Nat : l = n - m /\ l <= n
  OBVIOUS
<1>3. PICK s : s = Upward(c, u, l, n, 0) /\ s \in Seq(FrameType) /\ Extract(f, c, s)
  <2>1. 0 \in 0 .. 2
    OBVIOUS
  <2> QED BY <1>1, <1>2, <2>1, UpwardType DEF Queues
<1>4. ASSUME NEW g \in FrameType, g.call = c, b.frames[1] = g
      PROVE  Extract(FirstsOf(Append(o, b)), c, Append(s, g))
  BY <1>1, <1>3, <1>4, ExtractAppend
<1>5. ASSUME u = 0, m = 0, b.frames[1] = Counted("window", c, 1)
      PROVE  Queues(Append(o, b), c, 1, n, 0, 0)
  <2>1. PICK g : g = Counted("window", c, 1) /\ g \in FrameType /\ g.call = c
    BY FrameFacts
  <2>2. l = n
    BY <1>2, <1>5
  <2>3. s = <<>>
    BY <1>3, <1>5, <2>2, UpwardIdle
  <2>4. Append(s, g) = Upward(c, 1, l, n, 0)
    BY <2>1, <2>2, <2>3, UpwardWindow
  <2>5. Extract(FirstsOf(Append(o, b)), c, Append(s, g))
    BY <1>4, <1>5, <2>1
  <2>6. n - 0 = n
    OBVIOUS
  <2> QED BY <2>2, <2>4, <2>5, <2>6 DEF Queues
<1>6. ASSUME m = 0, b.frames[1] = Counted("payload", c, n + 1)
      PROVE  Queues(Append(o, b), c, u, n + 1, 1, 0)
  <2>1. PICK g : g = Counted("payload", c, n + 1) /\ g \in FrameType /\ g.call = c
    BY FrameFacts
  <2>2. l = n /\ (n + 1) - 1 = n
    BY <1>2, <1>6
  <2>3. Append(s, g) = Upward(c, u, n, n + 1, 0)
    <3>1. Append(Upward(c, u, n, n, 0), Counted("payload", c, n + 1)) = Upward(c, u, n, n + 1, 0)
      <4>1. n <= n
        OBVIOUS
      <4> QED BY <4>1, UpwardAppend
    <3> QED BY <1>3, <2>1, <2>2, <3>1
  <2>4. Extract(FirstsOf(Append(o, b)), c, Upward(c, u, n, n + 1, 0))
    BY <1>4, <1>6, <2>1, <2>3
  <2> QED BY <2>2, <2>4 DEF Queues
<1>7. ASSUME NEW z \in 0 .. 1, b.frames[1] = Counted("end", c, z)
      PROVE  Queues(Append(o, b), c, u, n, m, z + 1)
  <2>1. PICK g : g = Counted("end", c, z) /\ g \in FrameType /\ g.call = c
    BY FrameFacts
  <2>2. Append(s, g) = Upward(c, u, l, n, z + 1)
    <3>1. Append(Upward(c, u, l, n, 0), Counted("end", c, z)) = Upward(c, u, l, n, z + 1)
      <4>1. l <= n
        BY <1>2
      <4> QED BY <4>1, EndAppend, ZenonT(20)
    <3> QED BY <1>3, <2>1, <3>1
  <2>3. Extract(FirstsOf(Append(o, b)), c, Upward(c, u, l, n, z + 1))
    BY <1>4, <1>7, <2>1, <2>2
  <2> QED BY <1>2, <2>3 DEF Queues
<1> QED BY <1>5, <1>6, <1>7

(* The batches of the client's queue, with one more.                          *)
LEMMA OutboxMore ==
    ASSUME NEW o \in Seq(BatchType), OutboxOK(o), NEW b \in BatchType, NEW a \in Id, Of(b, a),
           Single(b, a)
    PROVE  OutboxOK(Append(o, b)) /\ OutboxOK(Queued(o, b))
<1>1. PICK n, o2 : n = Len(o) /\ n \in Nat /\ o2 = Append(o, b)
  BY LenProperties
<1>2. Len(o2) = n + 1 /\ o2[n + 1] = b /\ \A i \in 1 .. n : o2[i] = o[i]
  BY <1>1, AppendProperties
<1>3. \A i \in 1 .. n + 1 : i \in 1 .. n \/ i = n + 1
  BY <1>1
<1>4. OutboxOK(o2)
  BY <1>1, <1>2, <1>3 DEF OutboxOK
<1> QED BY <1>1, <1>4 DEF Queued

(* Batches of another call than a reverse call.                               *)
LEMMA OutboxSends ==
    ASSUME NEW o \in Seq(BatchType), OutboxOK(o), NEW o2, NEW a \in Id, a \notin ReverseId,
           Sends(o, o2, a)
    PROVE  OutboxOK(o2)
<1>1. PICK l, n : /\ l = Len(o) /\ n = Len(o2) /\ l \in Nat /\ n \in Nat /\ l <= n
                  /\ o2 \in Seq(BatchType)
  BY LenProperties DEF Sends
<1>2. \A i \in 1 .. l : o2[i] = o[i]
  BY <1>1 DEF Sends
<1>3. \A i \in l + 1 .. n : Of(o2[i], a)
  BY <1>1 DEF Sends
<1>4. \A i \in 1 .. n : i \in 1 .. l \/ i \in l + 1 .. n
  BY <1>1
<1> QED BY <1>1, <1>2, <1>3, <1>4 DEF OutboxOK, Single

(* Everything that is said of a call is in the queue.                         *)
LEMMA ExtractMember ==
    ASSUME NEW q \in Seq(FrameType), NEW c, NEW s \in Seq(FrameType), Extract(q, c, s),
           NEW j \in 1 .. Len(s)
    PROVE  \E i \in 1 .. Len(q) : q[i] = s[j]
BY DEF Extract, Picks

(* A batch of the queue, by its first frame.                                  *)
LEMMA FirstFrame ==
    ASSUME NEW b, BatchOK(b), NEW a, Of(b, a)
    PROVE  b.frames[1].call = a
<1>1. PICK g : g = b.frames /\ g \in Seq(FrameType) /\ g # <<>>
  BY DEF BatchOK, BatchType
<1>2. PICK z : z = Len(g) /\ z \in Nat /\ z # 0 /\ DOMAIN g = 1 .. z
  BY <1>1, LenProperties, EmptySeq
<1>3. 1 \in DOMAIN g
  BY <1>2
<1> QED BY <1>1, <1>3 DEF Of

(* A call with nothing to send has sent its payloads.                         *)
LEMMA SentAll ==
    ASSUME LinkInv, OutboxOK(outbox), NEW c \in ReverseId, Sent(c), NEW u \in 0 .. 1,
           NEW n \in Nat, NEW m \in 0 .. 1, m <= n, NEW t \in 0 .. 2,
           Queues(outbox, c, u, n, m, t)
    PROVE  m = 0
<1> SUFFICES ASSUME m = 1 PROVE FALSE
  OBVIOUS
<1>1. PICK o : o = outbox
  OBVIOUS
<1>2. /\ o \in Seq(BatchType) /\ \A i \in DOMAIN o : BatchOK(o[i])
      /\ DOMAIN o = 1 .. Len(o) /\ \A i \in DOMAIN o : o[i].signal # c
  BY <1>1, LenProperties DEF LinkInv, Sent
<1>3. PICK f : /\ f = FirstsOf(o) /\ f \in Seq(FrameType) /\ Len(f) = Len(o)
               /\ \A i \in 1 .. Len(o) : f[i] = o[i].frames[1]
  BY <1>2, FirstsFacts
<1>4. c \in Id
  BY DEF Id
<1>5. PICK l \in Nat : l = n - m /\ l <= n /\ n - l = 1
  OBVIOUS
<1>6. PICK z \in 0 .. 1 : z = One(t)
  BY DEF One
<1>7. PICK s : /\ s = Upward(c, u, l, n, t) /\ s \in Seq(FrameType) /\ Extract(f, c, s)
               /\ Len(s) = u + (n - l) + z
  <2>1. Upward(c, u, l, n, t) \in Seq(FrameType)
        /\ Len(Upward(c, u, l, n, t)) = u + (n - l) + One(t)
    <3>1. l <= n
      BY <1>5
    <3> QED BY <1>4, <3>1, UpwardType
  <2>2. Extract(f, c, Upward(c, u, l, n, t))
    BY <1>1, <1>3, <1>5 DEF Queues
  <2> QED BY <1>6, <2>1, <2>2
<1>8. PICK j \in Nat : j = u + 1
  OBVIOUS
<1>9. j \in 1 .. Len(s) /\ j \in 1 .. u + (n - l) + z /\ ~(j <= u) /\ j <= u + (n - l)
  BY <1>5, <1>7, <1>8
<1>10. s[j] = Counted("payload", c, l + (j - u))
  BY <1>6, <1>7, <1>9 DEF Upward
<1>11. s[j].kind = "payload" /\ s[j].call = c
  BY <1>10 DEF Counted
<1>12. PICK i \in 1 .. Len(f) : f[i] = s[j]
  BY <1>3, <1>7, <1>9, ExtractMember
<1>13. PICK a \in Id : Of(o[i], a) /\ Single(o[i], a)
  BY <1>1, <1>3, <1>12 DEF OutboxOK
<1>14. BatchOK(o[i]) /\ o[i].signal # c
  BY <1>2, <1>3, <1>12
<1>15. o[i].frames[1].call = a /\ o[i].frames[1] = s[j]
  BY <1>3, <1>12, <1>13, <1>14, FirstFrame
<1> QED BY <1>11, <1>13, <1>14, <1>15 DEF Single

-----------------------------------------------------------------------------
(* Steps of one reverse call: the daemon.                                     *)

(* A step of reverse call c that keeps its books.                             *)
Own(c, d2, k2) ==
    /\ reverse' = [reverse EXCEPT ![c] = d2] /\ incoming' = [incoming EXCEPT ![c] = k2]
    /\ RevOK(d2, k2, aborted', toClient', toDaemon', outbox', c)
    /\ aborted' \in {aborted, aborted \cup {c}} /\ OutboxOK(outbox')
    /\ d2.st \in {"pending", "retired"} =>
          reverse[c].st \in {"pending", "retired"} \/ Cardinality(Known) < MaxReverse

(* The parts of the invariant that one call is about.                         *)
LEMMA OwnParts ==
    ASSUME LinkInv, ReverseInv, NEW c \in ReverseId
    PROVE  /\ reverse \in [ReverseId -> ReverseCall] /\ incoming \in [ReverseId -> IncomingCall]
           /\ reverse[c] \in ReverseCall /\ incoming[c] \in IncomingCall /\ c \in Id
           /\ RevOK(reverse[c], incoming[c], aborted, toClient, toDaemon, outbox, c)
           /\ toClient \in Seq(FrameType) /\ toDaemon \in Seq(SentType)
           /\ outbox \in Seq(BatchType) /\ \A i \in DOMAIN outbox : BatchOK(outbox[i])
           /\ OutboxOK(outbox)
BY DEF LinkInv, IncomingOK, ReverseInv, Id

(* A step of the daemon.                                                      *)
LEMMA DaemonOwn ==
    ASSUME LinkInv, ReverseInv, NEW c \in ReverseId, NEW d2, reverse' = [reverse EXCEPT ![c] = d2],
           UNCHANGED <<incoming, outbox, aborted>>,
           RevOK(d2, incoming[c], aborted, toClient', toDaemon', outbox, c),
           d2.st \in {"pending", "retired"} =>
              reverse[c].st \in {"pending", "retired"} \/ Cardinality(Known) < MaxReverse
    PROVE  \E d3, k3 : Own(c, d3, k3)
<1>1. incoming \in [ReverseId -> IncomingCall] /\ OutboxOK(outbox)
  BY OwnParts
<1>2. incoming' = [incoming EXCEPT ![c] = incoming[c]]
  BY <1>1
<1>3. Own(c, d2, incoming[c])
  BY <1>1, <1>2 DEF Own
<1> QED BY <1>3

(* The daemon's callers.                                                      *)
LEMMA CallerOwn ==
    ASSUME LinkInv, ReverseInv, NEW c \in ReverseId, ReverseCaller(c)
    PROVE  \E d3, k3 : Own(c, d3, k3)
<1>1. /\ reverse \in [ReverseId -> ReverseCall] /\ c \in Id
      /\ RevOK(reverse[c], incoming[c], aborted, toClient, toDaemon, outbox, c)
      /\ toClient \in Seq(FrameType)
  BY OwnParts
<1>2. PICK d, k, A : d = reverse[c] /\ k = incoming[c] /\ A = aborted
  OBVIOUS
<1>3. PICK a, w, x, v, lo, hi, e, u, m, t :
        /\ Heard(toClient, c, a, w, x) /\ Said(toDaemon, c, v, lo, hi, e)
        /\ Queues(outbox, c, u, k.yields, m, t)
        /\ BookOK(d, k, A, c, a, w, x, v, lo, hi, e, u, m, t)
  BY <1>1, <1>2 DEF RevOK
<1>4. /\ d \in ReverseCall /\ a \in 0 .. 3 /\ w \in Nat /\ x \in 0 .. 1
      /\ d.st = "pending" => x = 0
  BY <1>3, BookParts DEF StageOK
<1>5. ASSUME NEW d2, reverse' = [reverse EXCEPT ![c] = d2], NEW a2, NEW w2, NEW x2,
             UNCHANGED <<incoming, outbox, aborted, toDaemon>>, Heard(toClient', c, a2, w2, x2),
             BookOK(d2, k, A, c, a2, w2, x2, v, lo, hi, e, u, m, t),
             d2.st = d.st \/ d2.st = "done" \/ d.st = "pending" \/ Cardinality(Known) < MaxReverse
      PROVE  \E d3, k3 : Own(c, d3, k3)
  <2>1. RevOK(d2, k, A, toClient', toDaemon', outbox, c)
    BY <1>3, <1>5 DEF RevOK
  <2> QED BY <1>2, <1>5, <2>1, DaemonOwn
<1>6. ASSUME NEW d2, reverse' = [reverse EXCEPT ![c] = d2],
             Says(<<>>) \/ UNCHANGED <<incoming, linkVars>>,
             BookOK(d2, k, A, c, a, w, x, v, lo, hi, e, u, m, t),
             d2.st = d.st \/ d2.st = "done"
      PROVE  \E d3, k3 : Own(c, d3, k3)
  <2>1. toClient' = toClient
    BY <1>1, <1>6, ConcatEmptySeq DEF Says, linkVars
  <2>2. UNCHANGED <<incoming, outbox, aborted, toDaemon>>
    BY <1>6 DEF Says, linkVars
  <2> QED BY <1>3, <1>5, <1>6, <2>1, <2>2
<1>7. ASSUME NEW f \in ReverseCall, Alike(d, f), f.lent = d.lent, f.credit = d.credit,
             d.st = "pending", reverse' = [reverse EXCEPT ![c] = Retired(c, f)],
             Says(CancelFrame(c))
      PROVE  \E d3, k3 : Own(c, d3, k3)
  <2>1. x = 0 /\ BookOK(Retired(c, f), k, A, c, a, w, 1, v, lo, hi, e, u, m, t)
    <3>1. lo \in Nat
      BY <1>3, BookParts
    <3> QED BY <1>3, <1>7, <3>1, RetireBook
  <2>2. Heard(toClient', c, a, w, 1)
    BY <1>1, <1>3, <1>4, <1>7, <2>1, HeardMore DEF Says, CancelFrame
  <2>3. UNCHANGED <<incoming, outbox, aborted, toDaemon>>
    BY <1>7 DEF Says
  <2> QED BY <1>5, <1>7, <2>1, <2>2, <2>3
<1>8. d.read <= d.read
  BY <1>4, ReverseFields, ReverseConstants
<1>9. CASE ReverseStart(c)
  <2>1. PICK d2 : d2 = [d EXCEPT !.st = "pending", !.lent = 1]
    OBVIOUS
  <2>2. /\ a = 0 /\ w = 0 /\ x = 0
        /\ BookOK(d2, k, A, c, 3, 0, 0, v, lo, hi, e, u, m, t)
    <3>1. d.st = "idle"
      BY <1>2, <1>9 DEF ReverseStart
    <3>2. BookOK(d, k, A, c, a, w, x, v, lo, hi, e, u, m, t)
      BY <1>3
    <3>3. a = 0 /\ w = 0 /\ x = 0
      BY <3>1, <3>2, BookParts DEF StageOK
    <3>4. BookOK([d EXCEPT !.st = "pending", !.lent = 1], k, A, c, 3, 0, 0,
                 v, lo, hi, e, u, m, t)
      BY <3>1, <3>2, StartBook, ZenonT(30)
    <3> QED BY <2>1, <3>3, <3>4
  <2>3. reverse' = [reverse EXCEPT ![c] = d2]
    BY <1>1, <1>2, <1>9, <2>1 DEF ReverseStart
  <2>4. Heard(toClient', c, 3, 0, 0)
    BY <1>1, <1>3, <1>4, <1>9, <2>2, HeardMore DEF ReverseStart, Says
  <2>5. UNCHANGED <<incoming, outbox, aborted, toDaemon>> /\ Cardinality(Known) < MaxReverse
    BY <1>9 DEF ReverseStart, Says
  <2> QED BY <1>5, <2>2, <2>3, <2>4, <2>5
<1>10. CASE ReverseRefused(c)
  <2>1. PICK d2 : d2 = [d EXCEPT !.st = "done", !.caller = "cut"]
    OBVIOUS
  <2>2. BookOK(d2, k, A, c, a, w, x, v, lo, hi, e, u, m, t)
    BY <1>2, <1>3, <1>10, <2>1, StartBook DEF ReverseRefused
  <2>3. reverse' = [reverse EXCEPT ![c] = d2] /\ Says(<<>>) /\ d2.st = "done"
    BY <1>1, <1>2, <1>4, <1>10, <2>1 DEF ReverseRefused, ReverseCall
  <2> QED BY <1>6, <2>2, <2>3
<1>11. CASE ReverseReceive(c)
  <2>1. /\ c \in ReverseStream /\ d.caller = "waiting" /\ UNCHANGED <<incoming, linkVars>>
        /\ d.channel # <<>> \/ d.st \in {"retired", "done"}
    BY <1>2, <1>11 DEF ReverseReceive
  <2>2. PICK d2 : /\ reverse' = [reverse EXCEPT ![c] = d2]
                  /\ d2 = CASE d.channel # <<>> /\ Head(d.channel) # 0 ->
                                 [d EXCEPT !.got = Head(d.channel), !.channel = Tail(@),
                                           !.read = @ + 1]
                            [] d.channel # <<>> /\ Head(d.channel) = 0 ->
                                 [d EXCEPT !.caller = "cut", !.channel = <<>>]
                            [] OTHER -> [d EXCEPT !.caller = "complete"]
    BY <1>2, <1>11 DEF ReverseReceive
  <2>3. CASE d.channel # <<>> /\ Head(d.channel) # 0
    <3>1. d2 = [d EXCEPT !.got = Head(d.channel), !.channel = Tail(d.channel), !.read = d.read + 1]
      BY <1>4, <2>2, <2>3 DEF ReverseCall
    <3>2. BookOK(d2, k, A, c, a, w, x, v, lo, hi, e, u, m, t)
      BY <1>3, <2>1, <2>3, <3>1, ItemBook
    <3>3. d2.st = d.st
      BY <1>4, <3>1 DEF ReverseCall
    <3> QED BY <1>6, <2>1, <2>2, <3>2, <3>3
  <2>4. CASE d.channel # <<>> /\ Head(d.channel) = 0
    <3>1. d2 = [d EXCEPT !.caller = "cut", !.channel = <<>>]
      BY <2>2, <2>4
    <3>2. d.st # "idle"
      BY <1>3, <2>4, BookParts DEF StageOK, NewReverse
    <3>3. d2 = [d EXCEPT !.caller = "cut", !.channel = <<>>, !.drop = d.drop]
          /\ d2.st = d.st /\ d.drop \in BOOLEAN
      BY <1>4, <3>1 DEF ReverseCall
    <3>4. BookOK(d2, k, A, c, a, w, x, v, lo, hi, e, u, m, t)
      BY <1>3, <3>2, <3>3, LeftBook
    <3> QED BY <1>6, <2>1, <2>2, <3>3, <3>4
  <2>5. CASE d.channel = <<>>
    <3>1. d2 = [d EXCEPT !.caller = "complete"] /\ d.st \in {"retired", "done"}
      BY <2>1, <2>2, <2>5
    <3>2. BookOK(d2, k, A, c, a, w, x, v, lo, hi, e, u, m, t)
      BY <1>3, <2>1, <2>5, <3>1, CompleteBook
    <3>3. d2.st = d.st
      BY <1>4, <3>1 DEF ReverseCall
    <3> QED BY <1>6, <2>1, <2>2, <3>2, <3>3
  <2> QED BY <2>3, <2>4, <2>5
<1>12. CASE ReverseDrop(c)
  <2>1. PICK armed \in BOOLEAN :
          /\ reverse[c].st # "idle"
          /\ reverse' = [reverse EXCEPT ![c].caller = "cut", ![c].channel = <<>>,
                                        ![c].drop = armed]
          /\ UNCHANGED <<incoming, linkVars>>
    BY <1>12 DEF ReverseDrop
  <2>2. PICK d2 : d2 = [d EXCEPT !.caller = "cut", !.channel = <<>>, !.drop = armed]
    OBVIOUS
  <2>3. BookOK(d2, k, A, c, a, w, x, v, lo, hi, e, u, m, t)
    BY <1>2, <1>3, <2>1, <2>2, LeftBook
  <2>4. reverse' = [reverse EXCEPT ![c] = d2] /\ d2.st = d.st
    BY <1>1, <1>2, <1>4, <2>1, <2>2 DEF ReverseCall
  <2> QED BY <1>6, <2>1, <2>3, <2>4
<1>13. CASE ReverseControlCredit(c)
  <2>1. PICK f : f = [d EXCEPT !.read = @ - 1]
    OBVIOUS
  <2>2. /\ d.read > 0 /\ d.st # "idle" /\ d.read - 1 \in 0 .. MaxYields
    <3>1. d.read > 0
      BY <1>2, <1>13 DEF ReverseControlCredit
    <3>2. d.st # "idle"
      BY <1>3, <3>1, BookParts DEF StageOK, NewReverse
    <3>3. d.read \in 0 .. MaxYields
      BY <1>4, ReverseFields
    <3> QED BY <3>1, <3>2, <3>3, ReverseConstants
  <2>3. /\ f \in ReverseCall /\ f.st = d.st /\ f.lent = d.lent /\ f.credit = d.credit
        /\ f.buffered = d.buffered /\ f.channel = d.channel /\ f.caller = d.caller
        /\ f.got = d.got /\ f.read = d.read - 1
        /\ f = [d EXCEPT !.read = d.read - 1]
    BY <1>4, <2>1, <2>2 DEF ReverseCall
  <2>4. CASE d.st # "pending"
    <3>1. reverse' = [reverse EXCEPT ![c] = f] /\ Says(<<>>)
      BY <1>2, <1>13, <2>1, <2>3, <2>4 DEF ReverseControlCredit
    <3>2. BookOK(f, k, A, c, a, w, x, v, lo, hi, e, u, m, t)
      BY <1>3, <2>2, <2>3, ControlBook
    <3> QED BY <1>6, <2>3, <3>1, <3>2
  <2>5. CASE d.st = "pending" /\ (f.buffered = 0 \/ f.credit = ReverseCredit)
    <3>1. reverse' = [reverse EXCEPT ![c] = Retired(c, f)] /\ Says(CancelFrame(c))
      BY <1>2, <1>13, <2>1, <2>3, <2>5 DEF ReverseControlCredit
    <3>2. Alike(d, f)
      <4>1. d.read - 1 <= d.read
        BY <1>4, ReverseFields, ReverseConstants
      <4> QED BY <2>3, <4>1 DEF Alike
    <3> QED BY <1>7, <2>3, <2>5, <3>1, <3>2
  <2>6. CASE d.st = "pending" /\ ~(f.buffered = 0 \/ f.credit = ReverseCredit)
    <3>1. PICK g : g = [f EXCEPT !.buffered = @ - 1, !.credit = @ + 1]
      OBVIOUS
    <3>2. reverse' = [reverse EXCEPT ![c] = g] /\ Says(<<Counted("window", c, 1)>>)
      BY <1>2, <1>13, <2>1, <2>3, <2>6, <3>1 DEF ReverseControlCredit
    <3>3. g = [d EXCEPT !.read = d.read - 1, !.buffered = d.buffered - 1, !.credit = d.credit + 1]
          /\ g.st = d.st
      BY <1>4, <2>3, <3>1 DEF ReverseCall
    <3>4. x = 0 /\ BookOK(g, k, A, c, a, w + 1, x, v, lo, hi, e, u, m, t)
      <4>1. d.st = "pending" /\ d.read > 0 /\ d.buffered # 0 /\ d.credit # ReverseCredit
        BY <2>2, <2>3, <2>6
      <4>2. g = Repaid(d)
        BY <3>3 DEF Repaid
      <4> QED BY <1>3, <4>1, <4>2, CreditBook, ZenonT(30)
    <3>5. Heard(toClient', c, a, w + 1, x)
      BY <1>1, <1>3, <1>4, <3>2, <3>4, HeardMore DEF Says
    <3>6. UNCHANGED <<incoming, outbox, aborted, toDaemon>>
      BY <3>2 DEF Says
    <3> QED BY <1>5, <3>2, <3>3, <3>4, <3>5, <3>6
  <2> QED BY <2>4, <2>5, <2>6
<1>14. CASE ReverseControlCancel(c)
  <2>1. PICK f : f = [d EXCEPT !.drop = FALSE]
    OBVIOUS
  <2>2. d.st # "idle"
    <3>1. d.drop
      BY <1>2, <1>14 DEF ReverseControlCancel
    <3> QED BY <1>3, <3>1, BookParts DEF StageOK, NewReverse
  <2>3. /\ f \in ReverseCall /\ f.st = d.st /\ f.lent = d.lent /\ f.credit = d.credit
        /\ f.buffered = d.buffered /\ f.channel = d.channel /\ f.caller = d.caller
        /\ f.got = d.got /\ f.read = d.read
    BY <1>4, <2>1 DEF ReverseCall
  <2>4. CASE d.st # "pending"
    <3>1. reverse' = [reverse EXCEPT ![c] = f] /\ Says(<<>>)
      BY <1>2, <1>14, <2>1, <2>3, <2>4 DEF ReverseControlCancel
    <3>2. BookOK(f, k, A, c, a, w, x, v, lo, hi, e, u, m, t)
      BY <1>3, <2>1, <2>2, ControlBook
    <3> QED BY <1>6, <2>3, <3>1, <3>2
  <2>5. CASE d.st = "pending"
    <3>1. reverse' = [reverse EXCEPT ![c] = Retired(c, f)] /\ Says(CancelFrame(c))
      BY <1>2, <1>14, <2>1, <2>3, <2>5 DEF ReverseControlCancel
    <3>2. Alike(d, f)
      BY <1>8, <2>3 DEF Alike
    <3> QED BY <1>7, <2>3, <2>5, <3>1, <3>2
  <2> QED BY <2>4, <2>5
<1>15. CASE ReverseExpire(c)
  <2>1. /\ d.st = "pending" /\ reverse' = [reverse EXCEPT ![c] = Retired(c, d)]
        /\ Says(CancelFrame(c))
    BY <1>1, <1>2, <1>15 DEF ReverseExpire
  <2>2. Alike(d, d)
    BY <1>8 DEF Alike
  <2> QED BY <1>4, <1>7, <2>1, <2>2
<1> QED BY <1>9, <1>10, <1>11, <1>12, <1>13, <1>14, <1>15 DEF ReverseCaller

(* What the daemon does with the answers of the client.                       *)
LEMMA AnsweredOwn ==
    ASSUME LinkInv, ReverseInv, NEW c \in ReverseId, ReverseAnswered(c)
    PROVE  \E d3, k3 : Own(c, d3, k3)
<1>1. /\ reverse \in [ReverseId -> ReverseCall] /\ c \in Id
      /\ RevOK(reverse[c], incoming[c], aborted, toClient, toDaemon, outbox, c)
      /\ toClient \in Seq(FrameType) /\ toDaemon \in Seq(SentType)
  BY OwnParts
<1>2. PICK d, k, A : d = reverse[c] /\ k = incoming[c] /\ A = aborted
  OBVIOUS
<1>3. PICK a, w, x, v, lo, hi, e, u, m, t :
        /\ Heard(toClient, c, a, w, x) /\ Said(toDaemon, c, v, lo, hi, e)
        /\ Queues(outbox, c, u, k.yields, m, t)
        /\ BookOK(d, k, A, c, a, w, x, v, lo, hi, e, u, m, t)
  BY <1>1, <1>2 DEF RevOK
<1>4. /\ d \in ReverseCall /\ a \in 0 .. 3 /\ w \in Nat /\ x \in 0 .. 1 /\ v \in 0 .. 1
      /\ lo \in Nat /\ hi \in Nat /\ lo <= hi /\ e \in 0 .. 2
      /\ d.st = "pending" => x = 0
  BY <1>3, BookParts DEF StageOK
<1>5. ASSUME NEW d2, reverse' = [reverse EXCEPT ![c] = d2], NEW x2, NEW v2, NEW lo2, NEW e2,
             UNCHANGED <<incoming, outbox, aborted>>, Heard(toClient', c, a, w, x2),
             Said(toDaemon', c, v2, lo2, hi, e2),
             BookOK(d2, k, A, c, a, w, x2, v2, lo2, hi, e2, u, m, t),
             d.st \in {"pending", "retired"}
      PROVE  \E d3, k3 : Own(c, d3, k3)
  <2>1. RevOK(d2, k, A, toClient', toDaemon', outbox, c)
    BY <1>3, <1>5 DEF RevOK
  <2> QED BY <1>2, <1>5, <2>1, DaemonOwn
<1>6. ASSUME Replies(<<>>) PROVE Heard(toClient', c, a, w, x)
  BY <1>1, <1>3, <1>6, ConcatEmptySeq DEF Replies
<1>7. ASSUME NEW s, Replies(s)
      PROVE  UNCHANGED <<incoming, outbox, aborted>> /\ toDaemon' = Tail(toDaemon)
  BY <1>7 DEF Replies
<1>8. ASSUME NEW kind \in {"payload", "end", "window"}, NEW n \in Nat,
             Expects(Counted(kind, c, n))
      PROVE  /\ toDaemon # <<>> /\ Head(toDaemon).frame = Counted(kind, c, n)
             /\ d.st \in {"pending", "retired"}
             /\ kind = "payload" => d.credit # 0
             /\ kind = "payload" /\ d.st = "pending" /\ c \in ReverseUnary => d.buffered # 1
             /\ \/ /\ v = 1 /\ Counted(kind, c, n) = Counted("window", c, 1)
                   /\ Said(Tail(toDaemon), c, 0, lo, hi, e)
                \/ /\ v = 0 /\ lo < hi /\ Counted(kind, c, n) = Counted("payload", c, lo + 1)
                   /\ Said(Tail(toDaemon), c, 0, lo + 1, hi, e)
                \/ /\ v = 0 /\ lo = hi /\ e > 0
                   /\ Counted(kind, c, n) = Counted("end", c, e - 1)
                   /\ Said(Tail(toDaemon), c, 0, lo, hi, 0)
  <2>1. PICK f : f = Counted(kind, c, n)
    OBVIOUS
  <2>2. f.call = c /\ f.kind = kind
    BY <2>1 DEF Counted
  <2>3. toDaemon # <<>> /\ Head(toDaemon).frame = f
    BY <1>8, <2>1 DEF Expects, DaemonReads
  <2>4. ~RefusedByDaemon(f)
    BY <1>8, <2>1 DEF Expects
  <2>5. /\ d.st \in {"pending", "retired"}
        /\ kind = "payload" => d.credit # 0
        /\ kind = "payload" /\ d.st = "pending" /\ c \in ReverseUnary => d.buffered # 1
    BY <1>2, <2>2, <2>4 DEF RefusedByDaemon
  <2>6. \/ v = 1 /\ f = Counted("window", c, 1) /\ Said(Tail(toDaemon), c, 0, lo, hi, e)
        \/ /\ v = 0 /\ lo < hi /\ f = Counted("payload", c, lo + 1)
           /\ Said(Tail(toDaemon), c, 0, lo + 1, hi, e)
        \/ /\ v = 0 /\ lo = hi /\ e > 0 /\ f = Counted("end", c, e - 1)
           /\ Said(Tail(toDaemon), c, 0, lo, hi, 0)
    BY <1>1, <1>3, <1>4, <2>2, <2>3, SaidHead
  <2> QED BY <2>1, <2>3, <2>5, <2>6
<1>9. \A kind, other, n, i : Counted(kind, c, n) = Counted(other, c, i) => kind = other /\ n = i
  BY DEF Counted
<1>10. CASE ReversePayload(c)
  <2>1. PICK n \in 1 .. MaxYields :
          /\ Expects(Counted("payload", c, n))
          /\ LET f == [reverse[c] EXCEPT !.credit = @ - 1]
             IN \/ /\ f.st = "retired" /\ reverse' = [reverse EXCEPT ![c] = f]
                   /\ Replies(<<>>)
                \/ /\ f.st = "pending" /\ Kept(c, f)
                   /\ reverse' = [reverse EXCEPT ![c] =
                                    [f EXCEPT !.buffered = @ + 1,
                                              !.channel = IF c \in ReverseStream THEN Append(@, n)
                                                          ELSE @]]
                   /\ Replies(<<>>)
                \/ /\ f.st = "pending" /\ ~Kept(c, f)
                   /\ reverse' = [reverse EXCEPT ![c] = Retired(c, f)]
                   /\ Replies(CancelFrame(c))
    BY <1>10 DEF ReversePayload
  <2>2. n \in Nat
    BY ReverseConstants
  <2>3. /\ d.st \in {"pending", "retired"} /\ d.credit # 0
        /\ d.st = "pending" /\ c \in ReverseUnary => d.buffered # 1
        /\ v = 0 /\ lo < hi /\ n = lo + 1 /\ Said(Tail(toDaemon), c, 0, lo + 1, hi, e)
    BY <1>8, <1>9, <2>1, <2>2
  <2>4. PICK f : f = [d EXCEPT !.credit = @ - 1]
    OBVIOUS
  <2>5. d.credit - 1 \in 0 .. ReverseCredit
    BY <1>4, <2>3, ReverseFields, ReverseConstants
  <2>6. /\ f \in ReverseCall /\ f.st = d.st /\ f.lent = d.lent /\ f.credit = d.credit - 1
        /\ f.buffered = d.buffered /\ f.channel = d.channel /\ f.caller = d.caller
        /\ f.got = d.got /\ f.read = d.read /\ f = [d EXCEPT !.credit = d.credit - 1]
    BY <1>4, <2>4, <2>5 DEF ReverseCall
  <2>7. BookOK(d, k, A, c, a, w, x, 0, lo, hi, e, u, m, t)
    BY <1>3, <2>3
  <2>8. CASE f.st = "retired" /\ reverse' = [reverse EXCEPT ![c] = f] /\ Replies(<<>>)
    <3>1. d.st = "retired" /\ lo < hi /\ f = [d EXCEPT !.credit = d.credit - 1]
      BY <2>3, <2>6, <2>8
    <3>2. BookOK(f, k, A, c, a, w, x, 0, lo + 1, hi, e, u, m, t)
      BY <2>7, <3>1, DroppedBook, ZenonT(30)
    <3> QED BY <1>5, <1>6, <1>7, <2>3, <2>8, <3>2
  <2>9. ASSUME f.st = "pending", Kept(c, f), Replies(<<>>), NEW g,
               g = [f EXCEPT !.buffered = @ + 1,
                             !.channel = IF c \in ReverseStream THEN Append(@, n) ELSE @],
               reverse' = [reverse EXCEPT ![c] = g]
        PROVE  \E d3, k3 : Own(c, d3, k3)
    <3>1. g = [d EXCEPT !.credit = d.credit - 1, !.buffered = d.buffered + 1,
                        !.channel = IF c \in ReverseStream THEN Append(d.channel, lo + 1)
                                    ELSE d.channel]
      BY <1>4, <2>3, <2>6, <2>9 DEF ReverseCall
    <3>2. d.st = "pending" /\ lo < hi /\ (c \in ReverseUnary => d.buffered # 1)
      BY <2>3, <2>6, <2>9
    <3>3. c \in ReverseStream => d.buffered < MaxBuffered /\ d.caller = "waiting"
      BY <2>6, <2>9, ReverseConstants DEF Kept, Fits
    <3>4. BookOK(g, k, A, c, a, w, x, 0, lo + 1, hi, e, u, m, t)
      BY <2>7, <3>1, <3>2, <3>3, KeptBook, ZenonT(30)
    <3> QED BY <1>5, <1>6, <1>7, <2>3, <2>9, <3>4
  <2>10. CASE /\ f.st = "pending" /\ reverse' = [reverse EXCEPT ![c] = Retired(c, f)]
              /\ Replies(CancelFrame(c))
    <3>1. Alike(d, f)
      <4>1. d.read <= d.read
        BY <1>4, ReverseFields, ReverseConstants
      <4> QED BY <2>6, <4>1 DEF Alike
    <3>2. PICK l \in Nat : l = lo + 1
      BY <1>4
    <3>3. x = 0 /\ BookOK(Retired(c, f), k, A, c, a, w, 1, 0, l, hi, e, u, m, t)
      <4>1. d.st = "pending" /\ f.lent = d.lent /\ f \in ReverseCall
        BY <2>6, <2>10
      <4>2. f.credit = d.credit - 1 /\ l = lo + 1 /\ 0 = 0 /\ lo < hi
        BY <2>3, <2>6, <3>2
      <4>3. \/ f.credit = d.credit /\ l = lo
            \/ f.credit = d.credit - 1 /\ l = lo + 1 /\ 0 = 0 /\ lo < hi
        BY <4>2
      <4>4. BookOK(Retired(c, f), k, A, c, a, w, 1, 0, l, hi, e, u, m, t)
        BY <2>7, <3>1, <4>1, <4>3, RetireBook
      <4> QED BY <1>4, <4>1, <4>4
    <3>4. Heard(toClient', c, a, w, 1)
      BY <1>1, <1>3, <1>4, <2>10, <3>3, HeardMore DEF Replies, CancelFrame
    <3> QED BY <1>5, <1>7, <2>3, <2>10, <3>2, <3>3, <3>4
  <2> QED BY <1>2, <2>1, <2>4, <2>8, <2>9, <2>10
<1>11. CASE ReverseEnd(c)
  <2>1. PICK n \in 0 .. 1 : /\ Expects(Counted("end", c, n)) /\ Replies(<<>>)
                            /\ reverse' = [reverse EXCEPT ![c] = Closes(c, d, n)]
    BY <1>2, <1>11 DEF ReverseEnd, Closes
  <2>2. /\ d.st \in {"pending", "retired"} /\ v = 0 /\ lo = hi /\ e > 0 /\ n = e - 1
        /\ Said(Tail(toDaemon), c, 0, lo, hi, 0)
    BY <1>8, <1>9, <2>1
  <2>3. PICK f : f = Closes(c, d, e - 1)
    OBVIOUS
  <2>4. BookOK(f, k, A, c, a, w, x, 0, lo, hi, 0, u, m, t)
    <3>1. BookOK(d, k, A, c, a, w, x, 0, lo, hi, e, u, m, t)
      BY <1>3, <2>2
    <3> QED BY <2>2, <2>3, <3>1, EndBook, ZenonT(30)
  <2>5. reverse' = [reverse EXCEPT ![c] = f]
    BY <2>1, <2>2, <2>3
  <2>6. UNCHANGED <<incoming, outbox, aborted>> /\ Heard(toClient', c, a, w, x)
    BY <1>6, <1>7, <2>1
  <2>7. Said(toDaemon', c, 0, lo, hi, 0) /\ d.st \in {"pending", "retired"}
    BY <1>7, <2>1, <2>2
  <2> QED BY <1>5, <2>4, <2>5, <2>6, <2>7
<1>12. CASE ReverseWindow(c)
  <2>1. PICK f : f = [d EXCEPT !.lent = 0]
    OBVIOUS
  <2>2. /\ Expects(Counted("window", c, 1)) /\ Replies(<<>>)
        /\ reverse' = [reverse EXCEPT ![c] = f]
    BY <1>1, <1>2, <1>12, <2>1 DEF ReverseWindow
  <2>3. v = 1 /\ d.st \in {"pending", "retired"} /\ Said(Tail(toDaemon), c, 0, lo, hi, e)
    BY <1>8, <1>9, <2>2
  <2>4. BookOK(f, k, A, c, a, w, x, 0, lo, hi, e, u, m, t)
    <3>1. BookOK(d, k, A, c, a, w, x, 1, lo, hi, e, u, m, t)
      BY <1>3, <2>3
    <3> QED BY <2>1, <3>1, WindowBook, ZenonT(30)
  <2> QED BY <1>5, <1>6, <1>7, <2>2, <2>3, <2>4
<1> QED BY <1>10, <1>11, <1>12 DEF ReverseAnswered

-----------------------------------------------------------------------------
(* Steps of one reverse call: the client.                                     *)

(* A batch of one frame of a reverse call.                                    *)
LEMMA ReverseBatch ==
    ASSUME NEW c \in ReverseId, NEW f \in FrameType, f.call = c, NEW s \in {c, None},
           s = c <=> f.kind = "payload", NEW b, b = Batch(<<f>>, s)
    PROVE  BatchOK(b) /\ b \in BatchType /\ Of(b, c) /\ Single(b, c) /\ b.frames[1] = f
<1>1. c \in Id
  BY DEF Id
<1>2. BatchOK(b) /\ Of(b, c)
  BY <1>1, SingleBatch
<1>3. b.frames = <<f>> /\ b.signal = s
  BY DEF Batch
<1>4. Len(b.frames) = 1 /\ b.frames[1] = f
  BY <1>3
<1> QED BY <1>2, <1>3, <1>4 DEF Single, BatchOK

(* A queue of the client, with one more batch of a reverse call.              *)
Holds(o) == o \in Seq(BatchType) /\ (\A i \in DOMAIN o : BatchOK(o[i])) /\ OutboxOK(o)

(* A batch that fits is queued.                                               *)
LEMMA HoldsMore ==
    ASSUME NEW o, Holds(o), NEW a \in Id, NEW b, BatchOK(b), Of(b, a), Single(b, a)
    PROVE  Holds(Append(o, b)) /\ Holds(Queued(o, b))
<1>1. b \in BatchType /\ o \in Seq(BatchType) /\ OutboxOK(o)
  BY DEF BatchOK, Holds
<1>2. PICK n, o2 : n = Len(o) /\ n \in Nat /\ o2 = Append(o, b) /\ DOMAIN o = 1 .. n
  BY <1>1, LenProperties
<1>3. /\ o2 \in Seq(BatchType) /\ Len(o2) = n + 1 /\ o2[n + 1] = b
      /\ \A i \in 1 .. n : o2[i] = o[i]
  BY <1>1, <1>2, AppendProperties
<1>4. DOMAIN o2 = 1 .. n + 1 /\ \A i \in 1 .. n + 1 : i \in 1 .. n \/ i = n + 1
  BY <1>2, <1>3, LenProperties
<1>5. \A i \in DOMAIN o2 : BatchOK(o2[i])
  BY <1>2, <1>3, <1>4 DEF Holds
<1>6. OutboxOK(o2)
  BY <1>1, <1>2, OutboxMore
<1>7. Holds(o2)
  BY <1>3, <1>5, <1>6 DEF Holds
<1> QED BY <1>2, <1>7 DEF Queued

(* The CallEnd of a call, if it fits.                                         *)
LEMMA EndQueued ==
    ASSUME NEW o, Holds(o), NEW c \in ReverseId, NEW u \in 0 .. 1, NEW n \in Nat,
           NEW m \in 0 .. 1, m <= n, Queues(o, c, u, n, m, 0), NEW z \in 0 .. 1
    PROVE  /\ OutboxOK(Queued(o, EndBatch(c, z)))
           /\ \E t \in {0, z + 1} : /\ Queues(Queued(o, EndBatch(c, z)), c, u, n, m, t)
                                    /\ t = 0 => Len(o) >= MaxBatches
<1>1. c \in Id /\ None # c
  BY ReverseConstants DEF Id
<1>2. PICK f : f = Counted("end", c, z) /\ f \in FrameType /\ f.call = c /\ f.kind = "end"
  BY <1>1, FrameFacts
<1>3. PICK b : b = EndBatch(c, z) /\ BatchOK(b) /\ Of(b, c) /\ Single(b, c) /\ b.frames[1] = f
  BY <1>1, <1>2, ReverseBatch DEF EndBatch
<1>4. Holds(Queued(o, b))
  BY <1>1, <1>3, HoldsMore
<1>5. CASE Len(o) < MaxBatches
  <2>1. Queued(o, b) = Append(o, b)
    BY <1>5 DEF Queued
  <2>2. Queues(Append(o, b), c, u, n, m, z + 1)
    BY <1>1, <1>2, <1>3, QueuesMore DEF Holds
  <2>3. z + 1 # 0
    OBVIOUS
  <2> QED BY <1>3, <1>4, <2>1, <2>2, <2>3 DEF Holds
<1>6. CASE ~(Len(o) < MaxBatches)
  <2>1. Queued(o, b) = o
    BY <1>6 DEF Queued
  <2>2. Len(o) \in Nat /\ MaxBatches \in Nat
    BY LenProperties, BatchesAssumption DEF Holds, BatchesAssumption
  <2>3. Len(o) >= MaxBatches
    BY <1>6, <2>2
  <2> QED BY <1>3, <1>4, <2>1, <2>3 DEF Holds
<1> QED BY <1>5, <1>6

(* A step of the client.                                                      *)
LEMMA ClientOwn ==
    ASSUME LinkInv, ReverseInv, NEW c \in ReverseId, NEW k2,
           incoming' = [incoming EXCEPT ![c] = k2], reverse' = reverse,
           aborted' \in {aborted, aborted \cup {c}}, OutboxOK(outbox'),
           RevOK(reverse[c], k2, aborted', toClient', toDaemon', outbox', c)
    PROVE  \E d3, k3 : Own(c, d3, k3)
<1>1. reverse \in [ReverseId -> ReverseCall]
  BY OwnParts
<1>2. reverse' = [reverse EXCEPT ![c] = reverse[c]]
  BY <1>1
<1>3. Own(c, reverse[c], k2)
  BY <1>2 DEF Own
<1> QED BY <1>3

(* fail, and cancel.                                                          *)
LEMMA FailOwn ==
    ASSUME LinkInv, ReverseInv, NEW c \in ReverseId, NEW a, NEW w, NEW x, NEW v, NEW lo,
           NEW hi, NEW e, NEW u, NEW m, NEW t, NEW k0,
           BookOK(reverse[c], k0, aborted, c, a, w, x, v, lo, hi, e, u, m, t),
           k0.st \in {"receiving", "running"}, NEW o, Holds(o), Queues(o, c, u, k0.yields, m, t),
           NEW f, Over(k0, f), f.returned = k0.returned, a > 0 => f.early,
           (f.unsent <=> Len(o) >= MaxBatches), incoming' = [incoming EXCEPT ![c] = f],
           aborted' = aborted \cup {c}, outbox' = Queued(o, EndBatch(c, 0)),
           UNCHANGED <<reverse, toDaemon>>, Said(toDaemon, c, v, lo, hi, e), NEW w2, NEW x2,
           Heard(toClient', c, a, w2, x2),
           \/ w2 = w /\ x2 = x
           \/ a = 0 /\ w2 = w /\ x2 = 0
           \/ a = 0 /\ w > 0 /\ w2 = w - 1 /\ x2 = x
    PROVE  \E d3, k3 : Own(c, d3, k3)
<1>1. /\ u \in 0 .. 1 /\ m \in 0 .. 1 /\ k0.yields \in Nat /\ hi \in Nat
      /\ StageOK(reverse[c], k0, a, w, x, v, lo, hi, e, u, m, t)
      /\ OrderOK(k0, aborted, c, lo, hi, v, e, u, m, t)
  BY BookParts
<1>2. m <= k0.yields
  <2>1. PICK y : y = k0.yields /\ y \in Nat /\ hi + m <= y
    BY <1>1 DEF OrderOK
  <2>2. m <= y
    BY <1>1, <2>1
  <2> QED BY <2>1, <2>2
<1>3. t = 0
  BY <1>1 DEF StageOK, Still
<1>4. PICK t2 \in {0, 0 + 1} : /\ Queues(outbox', c, u, k0.yields, m, t2)
                               /\ t2 = 0 => Len(o) >= MaxBatches
  <2>1. 0 \in 0 .. 1
    OBVIOUS
  <2> QED BY <1>1, <1>2, <1>3, <2>1, EndQueued
<1>5. OutboxOK(outbox')
  <2>1. 0 \in 0 .. 1
    OBVIOUS
  <2> QED BY <1>1, <1>2, <1>3, <2>1, EndQueued
<1>6. t2 \in 0 .. 1 /\ (t2 = 0 => f.unsent)
  BY <1>4
<1>7. PICK d : d = reverse[c]
  OBVIOUS
<1>8. BookOK(d, f, aborted', c, a, w, x, v, lo, hi, e, u, m, t2)
  <2>1. t2 \in 0 .. 1 /\ (t2 = 0 => f.unsent)
    BY <1>6
  <2>2. BookOK(d, k0, aborted, c, a, w, x, v, lo, hi, e, u, m, t)
    BY <1>7
  <2> QED BY <2>1, <2>2, FailBook, ZenonT(30)
<1>9. BookOK(d, f, aborted', c, a, w2, x2, v, lo, hi, e, u, m, t2)
  <2>1. f.st = "gone"
    BY DEF Over
  <2>2. CASE w2 = w /\ x2 = x
    BY <1>8, <2>2
  <2>3. CASE a = 0 /\ w2 = w /\ x2 = 0
    BY <1>8, <2>1, <2>3, LateBook
  <2>4. CASE a = 0 /\ w > 0 /\ w2 = w - 1 /\ x2 = x
    BY <1>8, <2>1, <2>4, LateBook
  <2> QED BY <2>2, <2>3, <2>4
<1>10. f.yields = k0.yields
  BY DEF Over
<1>11. RevOK(d, f, aborted', toClient', toDaemon', outbox', c)
  BY <1>4, <1>9, <1>10 DEF RevOK
<1> QED BY <1>5, <1>7, <1>11, ClientOwn

(* The record of a call that is over.                                         *)
LEMMA GoneOver ==
    ASSUME NEW c \in ReverseId, incoming[c] \in IncomingCall, NEW o, Holds(o), NEW g,
           g = Gone(c, o)
    PROVE  /\ Over(incoming[c], g) /\ g.returned = incoming[c].returned
           /\ g.early = incoming[c].early /\ (g.unsent <=> Len(o) >= MaxBatches)
<1>1. PICK n \in Nat : n = Len(o) /\ MaxBatches \in Nat
  BY LenProperties, BatchesAssumption DEF Holds, BatchesAssumption
<1>2. PICK z \in BOOLEAN : z = (n >= MaxBatches)
  <2>1. (n >= MaxBatches) \in BOOLEAN
    BY <1>1
  <2> QED BY <2>1
<1>3. PICK k : k = incoming[c] /\ k \in IncomingCall
  OBVIOUS
<1>4. g = [k EXCEPT !.st = "gone", !.request = FALSE, !.waiting = FALSE, !.unsent = z]
  BY <1>1, <1>2, <1>3 DEF Gone
<1>5. /\ g \in IncomingCall /\ g.st = "gone" /\ g.waiting = FALSE /\ g.unsent = z
      /\ g.credit = k.credit /\ g.yields = k.yields /\ g.returned = k.returned
      /\ g.early = k.early
  BY <1>3, <1>4 DEF IncomingCall
<1> QED BY <1>1, <1>2, <1>3, <1>5 DEF Over

(* A payload that fits.                                                       *)
LEMMA PayloadQueued ==
    ASSUME NEW o, Holds(o), NEW c \in ReverseId, NEW u \in 0 .. 1, NEW y \in Nat,
           Queues(o, c, u, y, 0, 0), NEW o2,
           o2 = Append(o, Batch(<<Counted("payload", c, y + 1)>>, c))
    PROVE  OutboxOK(o2) /\ Queues(o2, c, u, y + 1, 1, 0)
<1>1. c \in Id
  BY DEF Id
<1>2. PICK g : /\ g = Counted("payload", c, y + 1) /\ g \in FrameType /\ g.call = c
               /\ g.kind = "payload"
  BY <1>1, FrameFacts
<1>3. PICK b : /\ b = Batch(<<g>>, c) /\ BatchOK(b) /\ Of(b, c) /\ Single(b, c)
               /\ b.frames[1] = g
  BY <1>2, ReverseBatch
<1>4. Holds(Append(o, b)) /\ o2 = Append(o, b)
  BY <1>1, <1>2, <1>3, HoldsMore
<1>5. 0 \in 0 .. 1 /\ 0 <= y
  OBVIOUS
<1>6. Queues(Append(o, b), c, u, y + 1, 1, 0)
  BY <1>1, <1>2, <1>3, <1>5, QueuesMore DEF Holds
<1> QED BY <1>4, <1>6 DEF Holds

(* What the client hears of a reverse call.                                   *)
LEMMA HearsOwn ==
    ASSUME LinkInv, NEW c \in ReverseId, NEW a \in 0 .. 3, NEW w \in Nat, NEW x \in 0 .. 1,
           Heard(toClient, c, a, w, x), NEW f, f.call = c, Hears(f)
    PROVE  /\ UNCHANGED <<reverse, toDaemon>> /\ ~RefusedByClient(f)
           /\ f.kind = "start" => a = 3 /\ Heard(toClient', c, 2, w, x)
           /\ f.kind = "payload" => a = 2 /\ Heard(toClient', c, 1, w, x)
           /\ f.kind = "end" => a = 1 /\ Heard(toClient', c, 0, w, x)
           /\ f.kind = "window" => a = 0 /\ w > 0 /\ Heard(toClient', c, 0, w - 1, x)
           /\ f.kind = "cancel" => a = 0 /\ w = 0 /\ x = 1 /\ Heard(toClient', c, 0, 0, 0)
<1>1. c \in Id
  BY DEF Id
<1>2. /\ toClient # <<>> /\ Head(toClient) = f /\ toClient' = Tail(toClient)
      /\ UNCHANGED <<reverse, toDaemon>> /\ ~RefusedByClient(f)
  BY DEF Hears, ClientReads
<1>3. \/ a > 0 /\ f = Request(c, 4 - a) /\ Heard(toClient', c, a - 1, w, x)
      \/ a = 0 /\ w > 0 /\ f = Counted("window", c, 1) /\ Heard(toClient', c, 0, w - 1, x)
      \/ a = 0 /\ w = 0 /\ x = 1 /\ f = Frame("cancel", c) /\ Heard(toClient', c, 0, 0, 0)
  <2>1. toClient \in Seq(FrameType)
    BY DEF LinkInv
  <2> QED BY <1>1, <1>2, <2>1, HeardHead
<1>4. Counted("window", c, 1).kind = "window" /\ Frame("cancel", c).kind = "cancel"
  BY DEF Counted, Frame
<1>5. CASE a > 0 /\ f = Request(c, 4 - a) /\ Heard(toClient', c, a - 1, w, x)
  <2>1. a = 1 \/ a = 2 \/ a = 3
    BY <1>5
  <2>2. CASE a = 1
    <3>1. f = Request(c, 3) /\ Heard(toClient', c, 0, w, x)
      BY <1>5, <2>2
    <3>2. f.kind = "end"
      BY <1>1, <3>1, RequestFacts DEF Frame
    <3> QED BY <1>2, <2>2, <3>1, <3>2
  <2>3. CASE a = 2
    <3>1. f = Request(c, 2) /\ Heard(toClient', c, 1, w, x)
      BY <1>5, <2>3
    <3>2. f.kind = "payload"
      BY <1>1, <3>1, RequestFacts DEF Frame
    <3> QED BY <1>2, <2>3, <3>1, <3>2
  <2>4. CASE a = 3
    <3>1. f = Request(c, 1) /\ Heard(toClient', c, 2, w, x)
      BY <1>5, <2>4
    <3>2. f.kind = "start"
      BY <1>1, <3>1, RequestFacts DEF Frame
    <3> QED BY <1>2, <2>4, <3>1, <3>2
  <2> QED BY <2>1, <2>2, <2>3, <2>4
<1> QED BY <1>2, <1>3, <1>4, <1>5

(* What the client does with the request of a reverse call, and with credit.  *)
LEMMA ReceivesOwn ==
    ASSUME LinkInv, ReverseInv, NEW c \in ReverseId, IncomingReceives(c)
    PROVE  \E d3, k3 : Own(c, d3, k3)
<1>1. /\ incoming \in [ReverseId -> IncomingCall] /\ c \in Id /\ Holds(outbox)
      /\ RevOK(reverse[c], incoming[c], aborted, toClient, toDaemon, outbox, c)
  BY OwnParts DEF Holds
<1>2. PICK d, k, A : d = reverse[c] /\ k = incoming[c] /\ A = aborted
  OBVIOUS
<1>3. PICK a, w, x, v, lo, hi, e, u, m, t :
        /\ Heard(toClient, c, a, w, x) /\ Said(toDaemon, c, v, lo, hi, e)
        /\ Queues(outbox, c, u, k.yields, m, t)
        /\ BookOK(d, k, A, c, a, w, x, v, lo, hi, e, u, m, t)
  BY <1>1, <1>2 DEF RevOK
<1>4. /\ k \in IncomingCall /\ a \in 0 .. 3 /\ w \in Nat /\ x \in 0 .. 1 /\ u \in 0 .. 1
      /\ m \in 0 .. 1 /\ k.yields \in Nat /\ k.credit \in Nat
      /\ StageOK(d, k, a, w, x, v, lo, hi, e, u, m, t)
      /\ OrderOK(k, A, c, lo, hi, v, e, u, m, t) /\ CallerOK(d, k, c, lo)
      /\ k.waiting => k.yields < MaxYields
  BY <1>3, BookParts
<1>5. ASSUME NEW f, f.call = c, Hears(f)
      PROVE  /\ UNCHANGED <<reverse, toDaemon>> /\ ~RefusedByClient(f)
             /\ f.kind = "start" => a = 3 /\ Heard(toClient', c, 2, w, x)
             /\ f.kind = "payload" => a = 2 /\ Heard(toClient', c, 1, w, x)
             /\ f.kind = "end" => a = 1 /\ Heard(toClient', c, 0, w, x)
             /\ f.kind = "window" => a = 0 /\ w > 0 /\ Heard(toClient', c, 0, w - 1, x)
             /\ f.kind = "cancel" => a = 0 /\ w = 0 /\ x = 1 /\ Heard(toClient', c, 0, 0, 0)
  BY <1>3, <1>4, <1>5, HearsOwn
<1>6. ASSUME NEW k2, incoming' = [incoming EXCEPT ![c] = k2], NEW a2, NEW w2, NEW x2, NEW u2,
             NEW m2, UNCHANGED <<reverse, toDaemon, aborted>>, Heard(toClient', c, a2, w2, x2),
             Queues(outbox', c, u2, k2.yields, m2, t), OutboxOK(outbox'),
             BookOK(d, k2, A, c, a2, w2, x2, v, lo, hi, e, u2, m2, t)
      PROVE  \E d3, k3 : Own(c, d3, k3)
  <2>1. RevOK(d, k2, aborted', toClient', toDaemon', outbox', c)
    BY <1>2, <1>3, <1>6 DEF RevOK
  <2> QED BY <1>2, <1>6, <2>1, ClientOwn
<1>7. ASSUME NEW k2, incoming' = [incoming EXCEPT ![c] = k2], NEW a2, NEW w2, NEW x2,
             UNCHANGED <<reverse, toDaemon, aborted, outbox>>, Heard(toClient', c, a2, w2, x2),
             k2.yields = k.yields,
             BookOK(d, k2, A, c, a2, w2, x2, v, lo, hi, e, u, m, t)
      PROVE  \E d3, k3 : Own(c, d3, k3)
  <2>1. Queues(outbox', c, u, k2.yields, m, t) /\ OutboxOK(outbox')
    BY <1>1, <1>3, <1>7 DEF Holds
  <2> QED BY <1>6, <1>7, <2>1
<1>8. incoming = [incoming EXCEPT ![c] = k]
  BY <1>1, <1>2
<1>9. CASE IncomingStart(c)
  <2>1. PICK f : f = Frame("start", c) /\ f.call = c /\ f.kind = "start"
    BY <1>1, FrameFacts
  <2>2. /\ Hears(f) /\ UNCHANGED <<outbox, aborted>>
        /\ incoming' = [incoming EXCEPT ![c].st = "receiving"]
    BY <1>9, <2>1 DEF IncomingStart
  <2>3. PICK k2 : k2 = [k EXCEPT !.st = "receiving"]
    OBVIOUS
  <2>4. incoming' = [incoming EXCEPT ![c] = k2] /\ k2.yields = k.yields
    BY <1>1, <1>2, <1>4, <2>2, <2>3 DEF IncomingCall
  <2>5. UNCHANGED <<reverse, toDaemon>> /\ a = 3 /\ Heard(toClient', c, 2, w, x)
    BY <1>5, <2>1, <2>2
  <2>6. BookOK(d, k2, A, c, 3 - 1, w, x, v, lo, hi, e, u, m, t)
    <3>1. BookOK(d, k, A, c, 3, w, x, v, lo, hi, e, u, m, t) /\ 3 = 3
      BY <1>3, <2>5
    <3> QED BY <2>3, <3>1, RequestBook, ZenonT(30)
  <2>7. 3 - 1 = 2
    OBVIOUS
  <2> QED BY <1>7, <2>2, <2>4, <2>5, <2>6, <2>7
<1>10. CASE IncomingPayload(c)
  <2>1. PICK f : f = Frame("payload", c) /\ f.call = c /\ f.kind = "payload"
    BY <1>1, FrameFacts
  <2>2. Hears(f) /\ UNCHANGED <<outbox, aborted>>
    BY <1>10, <2>1 DEF IncomingPayload
  <2>3. PICK k2 : /\ incoming' = [incoming EXCEPT ![c] = k2]
                  /\ \/ k2 = [k EXCEPT !.request = TRUE] \/ k2 = [k EXCEPT !.failure = TRUE]
    BY <1>1, <1>2, <1>10 DEF IncomingPayload
  <2>4. k2.yields = k.yields
    BY <1>4, <2>3 DEF IncomingCall
  <2>5. UNCHANGED <<reverse, toDaemon>> /\ a = 2 /\ Heard(toClient', c, 1, w, x)
        /\ ~RefusedByClient(f)
    BY <1>5, <2>1, <2>2
  <2>6. k.st # "gone"
    BY <1>2, <2>1, <2>5 DEF RefusedByClient
  <2>7. BookOK(d, k2, A, c, 2 - 1, w, x, v, lo, hi, e, u, m, t)
    <3>1. BookOK(d, k, A, c, 2, w, x, v, lo, hi, e, u, m, t) /\ 2 = 2
      BY <1>3, <2>5
    <3> QED BY <2>3, <2>6, <3>1, RequestBook, ZenonT(30)
  <2>8. 2 - 1 = 1
    OBVIOUS
  <2> QED BY <1>7, <2>2, <2>3, <2>4, <2>5, <2>7, <2>8
<1>11. CASE IncomingEnd(c)
  <2>1. PICK f : f = Frame("end", c) /\ f.call = c /\ f.kind = "end"
    BY <1>1, FrameFacts
  <2>2. Hears(f)
    BY <1>11, <2>1 DEF IncomingEnd
  <2>3. UNCHANGED <<reverse, toDaemon>> /\ a = 1 /\ Heard(toClient', c, 0, w, x)
        /\ ~RefusedByClient(f)
    BY <1>5, <2>1, <2>2
  <2>4. k.st # "gone"
    BY <1>2, <2>1, <2>3 DEF RefusedByClient
  <2>5. PICK k2 : k2 = [k EXCEPT !.st = "running", !.request = FALSE]
    OBVIOUS
  <2>6. /\ k2.st = "running" /\ k2.yields = k.yields /\ k2.credit = k.credit
        /\ k2.returned = k.returned
    BY <1>4, <2>5 DEF IncomingCall
  <2>7. /\ Still(v, lo, hi, e, u, m, t) /\ k.yields = 0
        /\ BookOK(d, k2, A, c, 0, w, x, v, lo, hi, e, 0, m, t)
        /\ BookOK(d, k2, A, c, 0, w, x, v, lo, hi, e, 1, m, t)
    <3>1. BookOK(d, k, A, c, 1, w, x, v, lo, hi, e, u, m, t)
      BY <1>3, <2>3
    <3>2. 0 \in 0 .. 1 /\ 1 \in 0 .. 1
      OBVIOUS
    <3>3. Still(v, lo, hi, e, u, m, t) /\ k.yields = 0
      BY <2>4, <2>5, <3>1, <3>2, RunBook, ZenonT(30)
    <3>4. BookOK(d, k2, A, c, 0, w, x, v, lo, hi, e, 0, m, t)
      BY <2>4, <2>5, <3>1, <3>2, RunBook, ZenonT(30)
    <3>5. BookOK(d, k2, A, c, 0, w, x, v, lo, hi, e, 1, m, t)
      BY <2>4, <2>5, <3>1, <3>2, RunBook, ZenonT(30)
    <3> QED BY <3>3, <3>4, <3>5
  <2>8. u = 0 /\ m = 0 /\ t = 0
    BY <2>7 DEF Still
  <2>9. PICK o : o = Queued(outbox, Batch(<<Counted("window", c, 1)>>, None))
    OBVIOUS
  <2>10. PICK u2 \in 0 .. 1 : Queues(o, c, u2, k.yields, m, t) /\ Holds(o)
    <3>1. PICK g : g = Counted("window", c, 1) /\ g \in FrameType /\ g.call = c
                      /\ g.kind = "window"
      BY <1>1, FrameFacts
    <3>2. None # c
      BY ReverseConstants
    <3>3. PICK b : /\ b = Batch(<<g>>, None) /\ BatchOK(b) /\ Of(b, c) /\ Single(b, c)
                   /\ b.frames[1] = g
      BY <3>1, <3>2, ReverseBatch
    <3>4. Holds(Queued(outbox, b)) /\ o = Queued(outbox, b)
      BY <1>1, <2>9, <3>1, <3>3, HoldsMore
    <3>5. CASE Len(outbox) < MaxBatches
      <4>1. Queues(outbox, c, 0, 0, 0, 0) /\ 0 \in 0 .. 1 /\ 0 \in Nat /\ 0 <= 0
        BY <1>3, <2>7, <2>8
      <4>2. Queues(Append(outbox, b), c, 1, 0, 0, 0)
        BY <1>1, <3>1, <3>3, <4>1, QueuesMore DEF Holds
      <4>3. o = Append(outbox, b) /\ 1 \in 0 .. 1
        BY <3>4, <3>5 DEF Queued
      <4> QED BY <2>7, <2>8, <3>4, <4>2, <4>3
    <3>6. CASE ~(Len(outbox) < MaxBatches)
      <4>1. o = outbox
        BY <3>4, <3>6 DEF Queued
      <4> QED BY <1>3, <1>4, <3>4, <4>1
    <3> QED BY <3>5, <3>6
  <2>11. BookOK(d, k2, A, c, 0, w, x, v, lo, hi, e, u2, m, t)
    <3>1. u2 = 0 \/ u2 = 1
      BY <2>10
    <3> QED BY <2>7, <3>1
  <2>12. ASSUME NEW q, Holds(q), NEW u3, Queues(q, c, u3, k.yields, m, t), FailAfter(c, q),
                BookOK(d, k2, A, c, 0, w, x, v, lo, hi, e, u3, m, t)
         PROVE  \E d3, k3 : Own(c, d3, k3)
    <3>1. PICK g : g = Gone(c, q)
      OBVIOUS
    <3>2. /\ Over(k, g) /\ g.returned = k.returned /\ (g.unsent <=> Len(q) >= MaxBatches)
      BY <1>2, <1>4, <2>12, <3>1, GoneOver
    <3>3. Over(k2, g) /\ g.returned = k2.returned
      BY <2>6, <3>2 DEF Over
    <3>4. /\ incoming' = [incoming EXCEPT ![c] = g] /\ aborted' = aborted \cup {c}
          /\ outbox' = Queued(q, EndBatch(c, 0))
      BY <2>12, <3>1 DEF FailAfter
    <3>5. ~(0 > 0) /\ Queues(q, c, u3, k2.yields, m, t) /\ k2.st \in {"receiving", "running"}
      BY <2>6, <2>12
    <3> QED BY <1>2, <1>3, <2>3, <2>12, <3>2, <3>3, <3>4, <3>5, FailOwn
  <2>13. CASE FailAfter(c, outbox)
    BY <1>1, <1>3, <2>7, <2>8, <2>12, <2>13
  <2>14. CASE FailAfter(c, o)
    BY <2>10, <2>11, <2>12, <2>14
  <2>15. CASE /\ incoming' = [incoming EXCEPT ![c].st = "running", ![c].request = FALSE]
              /\ outbox' = o /\ UNCHANGED aborted
    <3>1. incoming' = [incoming EXCEPT ![c] = k2]
      BY <1>1, <1>2, <2>5, <2>15
    <3>2. Queues(outbox', c, u2, k2.yields, m, t) /\ OutboxOK(outbox')
      BY <2>6, <2>10, <2>15 DEF Holds
    <3> QED BY <1>6, <2>3, <2>11, <2>15, <3>1, <3>2
  <2> QED BY <1>11, <2>9, <2>13, <2>14, <2>15 DEF IncomingEnd
<1>12. ASSUME NEW w2, NEW x2, FailAfter(c, outbox), Heard(toClient', c, a, w2, x2),
              UNCHANGED <<reverse, toDaemon>>, c \in Serving, a = 0,
              \/ w2 = w /\ x2 = 0
              \/ w > 0 /\ w2 = w - 1 /\ x2 = x
       PROVE  \E d3, k3 : Own(c, d3, k3)
  <2>1. PICK g : g = Gone(c, outbox)
    OBVIOUS
  <2>2. /\ Over(k, g) /\ g.returned = k.returned /\ (g.unsent <=> Len(outbox) >= MaxBatches)
    BY <1>1, <1>2, <1>4, <2>1, GoneOver
  <2>3. /\ incoming' = [incoming EXCEPT ![c] = g] /\ aborted' = aborted \cup {c}
        /\ outbox' = Queued(outbox, EndBatch(c, 0))
    BY <1>12, <2>1 DEF FailAfter
  <2>4. ~(a > 0) /\ k.st \in {"receiving", "running"}
    BY <1>2, <1>12 DEF Serving
  <2> QED BY <1>1, <1>2, <1>3, <1>12, <2>2, <2>3, <2>4, FailOwn
<1>13. CASE IncomingCancel(c)
  <2>1. PICK f : f = Frame("cancel", c) /\ f.call = c /\ f.kind = "cancel"
    BY <1>1, FrameFacts
  <2>2. Hears(f)
    BY <1>13, <2>1 DEF IncomingCancel
  <2>3. UNCHANGED <<reverse, toDaemon>> /\ a = 0 /\ w = 0 /\ x = 1
        /\ Heard(toClient', c, 0, 0, 0) /\ ~RefusedByClient(f)
    BY <1>5, <2>1, <2>2
  <2>4. CASE c \in Serving
    <3>1. FailAfter(c, outbox)
      BY <1>13, <2>4 DEF IncomingCancel, Answered, Cancelled
    <3> QED BY <1>12, <2>3, <2>4, <3>1
  <2>5. CASE c \notin Serving
    <3>1. UNCHANGED <<incoming, outbox, aborted>>
      BY <1>13, <2>5 DEF IncomingCancel, Answered
    <3>2. k.st = "gone"
      BY <1>2, <1>4, <2>1, <2>3, <2>5, IncomingFields DEF RefusedByClient, Serving
    <3>3. BookOK(d, k, A, c, 0, 0, 0, v, lo, hi, e, u, m, t)
      BY <1>3, <2>3, <3>2, LateBook
    <3>4. incoming' = [incoming EXCEPT ![c] = k]
      BY <1>8, <3>1
    <3> QED BY <1>7, <2>3, <3>1, <3>3, <3>4
  <2> QED BY <2>4, <2>5
<1>14. CASE IncomingCredit(c)
  <2>1. PICK f : f = Counted("window", c, 1) /\ f.call = c /\ f.kind = "window"
    BY <1>1, FrameFacts
  <2>2. Hears(f)
    BY <1>14, <2>1 DEF IncomingCredit
  <2>3. UNCHANGED <<reverse, toDaemon>> /\ a = 0 /\ w > 0
        /\ Heard(toClient', c, 0, w - 1, x) /\ ~RefusedByClient(f)
    BY <1>5, <2>1, <2>2
  <2>4. CASE c \notin Serving
    <3>1. UNCHANGED <<incoming, outbox, aborted>>
      BY <1>14, <2>4 DEF IncomingCredit
    <3>2. k.st = "gone"
      BY <1>2, <1>4, <2>1, <2>3, <2>4, IncomingFields DEF RefusedByClient, Serving
    <3>3. BookOK(d, k, A, c, 0, w - 1, x, v, lo, hi, e, u, m, t)
      BY <1>3, <2>3, <3>2, LateBook
    <3>4. incoming' = [incoming EXCEPT ![c] = k]
      BY <1>8, <3>1
    <3> QED BY <1>7, <2>3, <3>1, <3>3, <3>4
  <2>5. CASE c \in Serving
    <3>1. k.st = "running" /\ t = 0 /\ k.credit # ReverseCredit
      BY <1>2, <1>4, <2>1, <2>3, <2>5 DEF RefusedByClient, Serving, StageOK
    <3>2. k.credit \in 0 .. ReverseCredit /\ k.yields \in 0 .. MaxYields
      BY <1>4, IncomingFields
    <3>3. w - 1 \in Nat /\ k.st # "absent" /\ k.st # "gone" /\ k.st # "receiving"
      BY <1>4, <2>3, <3>1
    <3>4. CASE ~k.waiting
      <4>1. PICK k2 : k2 = [k EXCEPT !.credit = @ + 1]
        OBVIOUS
      <4>2. k.credit + 1 \in 0 .. ReverseCredit
        BY <3>1, <3>2, ReverseConstants
      <4>3. /\ k2 \in IncomingCall /\ k2.st = k.st /\ k2.request = k.request
            /\ k2.returned = k.returned /\ k2.yields = k.yields /\ k2.credit = k.credit + 1
            /\ k2.waiting = k.waiting
        BY <1>4, <4>1, <4>2 DEF IncomingCall
      <4>4. incoming' = [incoming EXCEPT ![c] = k2] /\ UNCHANGED <<outbox, aborted>>
        BY <1>2, <1>14, <2>5, <3>4, <4>1 DEF IncomingCredit, Credited
      <4>5. k2.yields + m = k.yields + m /\ k2.credit + (w - 1) + m = k.credit + w + m
        BY <1>4, <4>3
      <4>6. c \in ReverseUnary => k2.yields <= 1
        BY <1>4, <4>3 DEF CallerOK
      <4>7. BookOK(d, k2, A, c, a, w - 1, x, v, lo, hi, e, u, m, t)
        BY <1>3, <1>4, <3>3, <3>4, <4>3, <4>5, <4>6, HandlerBook, ZenonT(30)
      <4> QED BY <1>7, <2>3, <4>3, <4>4, <4>7
    <3>5. CASE k.waiting /\ ~CanSend
      <4>1. FailAfter(c, outbox)
        BY <1>2, <1>14, <2>5, <3>5 DEF IncomingCredit
      <4> QED BY <1>12, <2>3, <2>5, <4>1
    <3>6. CASE k.waiting /\ CanSend
      <4>1. PICK n \in Nat : n = k.yields + 1
        BY <1>4
      <4>2. PICK k2 : k2 = [k EXCEPT !.waiting = FALSE, !.yields = n]
        OBVIOUS
      <4>3. n \in 0 .. MaxYields /\ m = 0
        BY <1>4, <3>6, <4>1, ReverseConstants DEF OrderOK
      <4>4. /\ k2 \in IncomingCall /\ k2.st = k.st /\ k2.request = k.request
            /\ k2.returned = k.returned /\ k2.yields = n /\ k2.credit = k.credit
            /\ k2.waiting = FALSE
        BY <1>4, <4>2, <4>3 DEF IncomingCall
      <4>5. /\ incoming' = [incoming EXCEPT ![c] = k2] /\ UNCHANGED aborted
            /\ outbox' = Append(outbox, Batch(<<Counted("payload", c, n)>>, c))
        BY <1>2, <1>14, <2>5, <3>6, <4>1, <4>2 DEF IncomingCredit, Credited
      <4>6. k2.yields + m = k.yields + 1 /\ k2.credit + (w - 1) + 1 = k.credit + w + m
        BY <1>4, <4>1, <4>3, <4>4
      <4>7. c \in ReverseUnary => k2.yields <= 1
        BY <1>4, <3>6, <4>1, <4>4 DEF CallerOK
      <4>8. 1 \in 0 .. 1 /\ ~k2.waiting
        BY <4>4
      <4>9. BookOK(d, k2, A, c, a, w - 1, x, v, lo, hi, e, u, 1, t)
        BY <1>3, <1>4, <3>3, <4>4, <4>6, <4>7, <4>8, HandlerBook, ZenonT(30)
      <4>10. Queues(outbox', c, u, k2.yields, 1, t) /\ OutboxOK(outbox')
        <5>1. PICK y \in Nat : y = k.yields /\ n = y + 1
          BY <1>4, <4>1
        <5>2. Queues(outbox, c, u, y, 0, 0)
          BY <1>3, <3>1, <4>3, <5>1
        <5>3. outbox' = Append(outbox, Batch(<<Counted("payload", c, y + 1)>>, c))
          BY <4>5, <5>1
        <5>4. OutboxOK(outbox') /\ Queues(outbox', c, u, y + 1, 1, 0)
          BY <1>1, <1>4, <5>1, <5>2, <5>3, PayloadQueued
        <5> QED BY <3>1, <4>4, <5>1, <5>4
      <4> QED BY <1>6, <2>3, <4>5, <4>9, <4>10
    <3> QED BY <3>4, <3>5, <3>6
  <2> QED BY <2>4, <2>5
<1> QED BY <1>9, <1>10, <1>11, <1>13, <1>14 DEF IncomingReceives

(* What the handler of a reverse call does, and its timer.                    *)
LEMMA HandlerOwn ==
    ASSUME LinkInv, ReverseInv, NEW c \in ReverseId, IncomingHandler(c)
    PROVE  \E d3, k3 : Own(c, d3, k3)
<1>1. /\ incoming \in [ReverseId -> IncomingCall] /\ c \in Id /\ Holds(outbox)
      /\ RevOK(reverse[c], incoming[c], aborted, toClient, toDaemon, outbox, c)
  BY OwnParts DEF Holds
<1>2. PICK d, k, A : d = reverse[c] /\ k = incoming[c] /\ A = aborted
  OBVIOUS
<1>3. PICK a, w, x, v, lo, hi, e, u, m, t :
        /\ Heard(toClient, c, a, w, x) /\ Said(toDaemon, c, v, lo, hi, e)
        /\ Queues(outbox, c, u, k.yields, m, t)
        /\ BookOK(d, k, A, c, a, w, x, v, lo, hi, e, u, m, t)
  BY <1>1, <1>2 DEF RevOK
<1>4. /\ k \in IncomingCall /\ a \in 0 .. 3 /\ w \in Nat /\ x \in 0 .. 1 /\ u \in 0 .. 1
      /\ m \in 0 .. 1 /\ k.yields \in Nat /\ k.credit \in Nat /\ hi \in Nat /\ t \in 0 .. 2
      /\ StageOK(d, k, a, w, x, v, lo, hi, e, u, m, t)
      /\ OrderOK(k, A, c, lo, hi, v, e, u, m, t) /\ CallerOK(d, k, c, lo)
  BY <1>3, BookParts
<1>5. m <= k.yields
  <2>1. PICK y : y = k.yields /\ y \in Nat /\ hi + m <= y
    BY <1>4 DEF OrderOK
  <2>2. m <= y
    BY <1>4, <2>1
  <2> QED BY <2>1, <2>2
<1>6. UNCHANGED <<reverse, toDaemon, toClient>>
  BY DEF IncomingHandler, HandlerYield, HandlerReturn, IncomingFail, Works
<1>7. ASSUME NEW k2, incoming' = [incoming EXCEPT ![c] = k2], NEW m2, NEW t2, UNCHANGED aborted,
             Queues(outbox', c, u, k2.yields, m2, t2), OutboxOK(outbox'),
             BookOK(d, k2, A, c, a, w, x, v, lo, hi, e, u, m2, t2)
      PROVE  \E d3, k3 : Own(c, d3, k3)
  <2>1. RevOK(d, k2, aborted', toClient', toDaemon', outbox', c)
    BY <1>2, <1>3, <1>6, <1>7 DEF RevOK
  <2> QED BY <1>2, <1>6, <1>7, <2>1, ClientOwn
<1>8. ASSUME NEW g, incoming' = [incoming EXCEPT ![c] = g], aborted' = aborted \cup {c},
             outbox' = Queued(outbox, EndBatch(c, 0)), Over(k, g), g.returned = k.returned,
             (g.unsent <=> Len(outbox) >= MaxBatches), a > 0 => g.early,
             k.st \in {"receiving", "running"}
      PROVE  \E d3, k3 : Own(c, d3, k3)
  BY <1>1, <1>2, <1>3, <1>6, <1>8, FailOwn
<1>9. PICK g : g = Gone(c, outbox)
  OBVIOUS
<1>10. /\ Over(k, g) /\ g.returned = k.returned /\ g.early = k.early
       /\ (g.unsent <=> Len(outbox) >= MaxBatches)
  BY <1>1, <1>2, <1>4, <1>9, GoneOver
<1>11. ASSUME Works(c)
       PROVE  /\ k.st = "running" /\ ~k.waiting /\ m = 0 /\ t = 0 /\ a = 0
              /\ k.st # "absent" /\ k.st # "gone" /\ k.st # "receiving"
  <2>1. k.st = "running" /\ ~k.waiting /\ Sent(c)
    BY <1>2, <1>11 DEF Works
  <2>2. t = 0 /\ a = 0
    BY <1>4, <2>1 DEF StageOK
  <2>3. m = 0
    BY <1>1, <1>3, <1>4, <1>5, <2>1, SentAll DEF Holds
  <2> QED BY <2>1, <2>2, <2>3
<1>12. k.credit \in 0 .. ReverseCredit /\ k.yields \in 0 .. MaxYields
  BY <1>4, IncomingFields
<1>13. CASE HandlerYield(c)
  <2>1. /\ k.st = "running" /\ ~k.waiting /\ m = 0 /\ t = 0 /\ a = 0
        /\ k.st # "absent" /\ k.st # "gone" /\ k.st # "receiving"
    BY <1>11, <1>13 DEF HandlerYield
  <2>2. k.yields < MaxYields /\ (c \in ReverseUnary => k.yields = 0)
    <3>1. k.yields < IF c \in ReverseUnary THEN 1 ELSE MaxYields
      BY <1>2, <1>13 DEF HandlerYield
    <3>2. CASE c \in ReverseUnary
      <4>1. k.yields < 1
        BY <3>1, <3>2
      <4> QED BY <1>4, <4>1, ReverseConstants
    <3>3. CASE c \notin ReverseUnary
      BY <3>1, <3>3
    <3> QED BY <3>2, <3>3
  <2>3. CASE k.credit = 0
    <3>1. PICK k2 : k2 = [k EXCEPT !.waiting = TRUE]
      OBVIOUS
    <3>2. incoming' = [incoming EXCEPT ![c] = k2] /\ UNCHANGED <<outbox, aborted>>
      BY <1>1, <1>2, <1>13, <2>3, <3>1 DEF HandlerYield
    <3>3. /\ k2 \in IncomingCall /\ k2.st = k.st /\ k2.request = k.request
          /\ k2.returned = k.returned /\ k2.yields = k.yields /\ k2.credit = k.credit
      BY <1>4, <3>1 DEF IncomingCall
    <3>4. k2.yields + m = k.yields + m /\ k2.credit + w + m = k.credit + w + m
      BY <3>3
    <3>5. (c \in ReverseUnary => k2.yields <= 1) /\ (c \in ReverseUnary => k2.yields = 0)
      BY <1>4, <2>2, <3>3
    <3>6. k2.yields < MaxYields
      BY <2>2, <3>3
    <3>7. BookOK(d, k2, A, c, a, w, x, v, lo, hi, e, u, m, t)
      BY <1>3, <1>4, <2>1, <3>3, <3>4, <3>5, <3>6, HandlerBook, ZenonT(30)
    <3>8. Queues(outbox', c, u, k2.yields, m, t) /\ OutboxOK(outbox')
      BY <1>1, <1>3, <3>2, <3>3 DEF Holds
    <3> QED BY <1>7, <3>2, <3>7, <3>8
  <2>4. CASE k.credit # 0 /\ ~CanSend
    <3>1. FailAfter(c, outbox)
      BY <1>2, <1>13, <2>4 DEF HandlerYield
    <3>2. /\ incoming' = [incoming EXCEPT ![c] = g] /\ aborted' = aborted \cup {c}
          /\ outbox' = Queued(outbox, EndBatch(c, 0))
      BY <1>9, <3>1 DEF FailAfter
    <3>3. ~(a > 0) /\ k.st \in {"receiving", "running"}
      BY <2>1
    <3> QED BY <1>8, <1>10, <3>2, <3>3
  <2>5. CASE k.credit # 0 /\ CanSend
    <3>1. PICK y \in Nat, n \in Nat, q \in Nat :
             y = k.yields /\ n = y + 1 /\ q = k.credit - 1 /\ k.credit = q + 1
      <4>1. PICK y, z : y = k.yields /\ z = k.credit /\ y \in Nat /\ z \in Nat /\ z # 0
        BY <1>4, <2>5
      <4>2. y + 1 \in Nat /\ z - 1 \in Nat /\ z = (z - 1) + 1
        BY <4>1
      <4> QED BY <4>1, <4>2
    <3>2. PICK k2 : k2 = [k EXCEPT !.yields = n, !.credit = q]
      OBVIOUS
    <3>3. n \in 0 .. MaxYields /\ q \in 0 .. ReverseCredit
      BY <1>12, <2>2, <3>1, ReverseConstants
    <3>4. /\ k2 \in IncomingCall /\ k2.st = k.st /\ k2.request = k.request
          /\ k2.returned = k.returned /\ k2.yields = n /\ k2.credit = q
          /\ k2.waiting = k.waiting
      BY <1>4, <3>2, <3>3 DEF IncomingCall
    <3>5. /\ incoming' = [incoming EXCEPT ![c] = k2] /\ UNCHANGED aborted
          /\ outbox' = Append(outbox, Batch(<<Counted("payload", c, y + 1)>>, c))
      BY <1>1, <1>2, <1>13, <2>5, <3>1, <3>2 DEF HandlerYield
    <3>6. OutboxOK(outbox') /\ Queues(outbox', c, u, y + 1, 1, 0)
      <4>1. Queues(outbox, c, u, y, 0, 0)
        BY <1>3, <2>1, <3>1
      <4> QED BY <1>1, <1>4, <3>5, <4>1, PayloadQueued
    <3>7. k2.yields + m = k.yields + 1 /\ k2.credit + w + 1 = k.credit + w + m
      <4>1. n + 0 = y + 1 /\ q + w + 1 = (q + 1) + w + 0
        BY <1>4, <3>1
      <4> QED BY <2>1, <3>1, <3>4, <4>1
    <3>8. c \in ReverseUnary => k2.yields <= 1
      BY <2>2, <3>1, <3>4
    <3>9. 1 \in 0 .. 1 /\ ~k2.waiting
      BY <2>1, <3>4
    <3>10. BookOK(d, k2, A, c, a, w, x, v, lo, hi, e, u, 1, t)
      BY <1>3, <1>4, <2>1, <3>4, <3>7, <3>8, <3>9, HandlerBook, ZenonT(30)
    <3>11. Queues(outbox', c, u, k2.yields, 1, t)
      BY <2>1, <3>1, <3>4, <3>6
    <3> QED BY <1>7, <3>5, <3>6, <3>10, <3>11
  <2> QED BY <2>3, <2>4, <2>5
<1>14. CASE HandlerReturn(c)
  <2>1. k.st = "running" /\ m = 0 /\ t = 0
    BY <1>11, <1>14 DEF HandlerReturn
  <2>2. PICK f : f = [g EXCEPT !.returned = TRUE]
    OBVIOUS
  <2>3. /\ incoming' = [incoming EXCEPT ![c] = f] /\ UNCHANGED aborted
        /\ outbox' = Queued(outbox, EndBatch(c, 1))
    BY <1>9, <1>14, <2>2 DEF HandlerReturn
  <2>4. Over(k, f) /\ f.returned = TRUE /\ f.unsent = g.unsent /\ f.yields = k.yields
    <3>1. g \in IncomingCall
      BY <1>10 DEF Over
    <3>2. /\ f \in IncomingCall /\ f.st = g.st /\ f.waiting = g.waiting /\ f.credit = g.credit
          /\ f.yields = g.yields /\ f.returned = TRUE /\ f.unsent = g.unsent
      BY <2>2, <3>1 DEF IncomingCall
    <3> QED BY <1>10, <3>2 DEF Over
  <2>5. PICK o : o = outbox'
    OBVIOUS
  <2>6. PICK t2 \in {0, 2} : /\ OutboxOK(o) /\ Queues(o, c, u, k.yields, m, t2)
                             /\ t2 = 0 => Len(outbox) >= MaxBatches
    <3>1. 1 \in 0 .. 1 /\ 1 + 1 = 2
      OBVIOUS
    <3> QED BY <1>1, <1>3, <1>4, <1>5, <2>1, <2>3, <2>5, <3>1, EndQueued
  <2>7. BookOK(d, f, A, c, a, w, x, v, lo, hi, e, u, m, t2)
    <3>1. t2 = 0 => f.unsent
      BY <1>10, <2>4, <2>6
    <3>2. /\ BookOK(d, f, A, c, a, w, x, v, lo, hi, e, u, m, 2)
          /\ f.unsent => BookOK(d, f, A, c, a, w, x, v, lo, hi, e, u, m, 0)
      BY <1>3, <2>1, <2>4, ReturnBook
    <3> QED BY <2>6, <3>1, <3>2
  <2> QED BY <1>7, <2>3, <2>4, <2>5, <2>6, <2>7
<1>15. CASE IncomingFail(c)
  <2>1. PICK z \in BOOLEAN : z = (k.st = "receiving")
    OBVIOUS
  <2>2. PICK f : f = [g EXCEPT !.early = z]
    OBVIOUS
  <2>3. /\ incoming' = [incoming EXCEPT ![c] = f] /\ aborted' = aborted \cup {c}
        /\ outbox' = Queued(outbox, EndBatch(c, 0)) /\ c \in Serving
    BY <1>2, <1>9, <1>15, <2>1, <2>2 DEF IncomingFail
  <2>4. g \in IncomingCall
    BY <1>10 DEF Over
  <2>5. /\ f \in IncomingCall /\ f.st = g.st /\ f.waiting = g.waiting /\ f.credit = g.credit
        /\ f.yields = g.yields /\ f.returned = g.returned /\ f.unsent = g.unsent /\ f.early = z
    BY <2>1, <2>2, <2>4 DEF IncomingCall
  <2>6. Over(k, f) /\ f.returned = k.returned
    BY <1>10, <2>5 DEF Over
  <2>7. f.unsent <=> Len(outbox) >= MaxBatches
    BY <1>10, <2>5
  <2>8. k.st \in {"receiving", "running"}
    BY <1>2, <2>3 DEF Serving
  <2>9. a > 0 => f.early
    <3>1. k.st = "running" => a = 0
      BY <1>4 DEF StageOK
    <3>2. k.st = "running" \/ z
      BY <2>1, <2>8
    <3>3. a = 0 => ~(a > 0)
      BY <1>4
    <3> QED BY <2>5, <3>1, <3>2, <3>3
  <2> QED BY <1>8, <2>3, <2>6, <2>7, <2>8, <2>9
<1> QED BY <1>13, <1>14, <1>15 DEF IncomingHandler

-----------------------------------------------------------------------------
(* The steps of the reverse calls, and of the client's.                       *)

(* Every step of reverse call c keeps its books.                              *)
LEMMA ReverseOwn ==
    ASSUME LinkInv, ReverseInv, NEW c \in ReverseId,
           ReverseCaller(c) \/ ReverseAnswered(c) \/ IncomingReceives(c) \/ IncomingHandler(c)
    PROVE  \E d3, k3 : Own(c, d3, k3)
BY CallerOwn, AnsweredOwn, ReceivesOwn, HandlerOwn

(* And those of the other calls.                                              *)
LEMMA OwnInv ==
    ASSUME LinkInv, ReverseInv, NEW c \in ReverseId, NEW d, NEW k, Own(c, d, k), StepOf(c)
    PROVE  ReverseInv'
<1>1. /\ reverse \in [ReverseId -> ReverseCall] /\ incoming \in [ReverseId -> IncomingCall]
      /\ None \notin aborted /\ IsFiniteSet(Known) /\ Cardinality(Known) <= MaxReverse
  BY OwnParts DEF ReverseInv
<1>2. /\ reverse' = [reverse EXCEPT ![c] = d] /\ incoming' = [incoming EXCEPT ![c] = k]
      /\ RevOK(d, k, aborted', toClient', toDaemon', outbox', c) /\ OutboxOK(outbox')
      /\ aborted' \in {aborted, aborted \cup {c}}
  BY DEF Own
<1>3. d \in ReverseCall
  BY <1>2, BookParts DEF RevOK
<1>4. reverse' \in [ReverseId -> ReverseCall]
  BY <1>1, <1>2, <1>3
<1>5. None \notin aborted'
  BY <1>1, <1>2, ReverseConstants
<1>6. ASSUME NEW b \in ReverseId
      PROVE  RevOK(reverse'[b], incoming'[b], aborted', toClient', toDaemon', outbox', b)
  <2>1. CASE b = c
    BY <1>1, <1>2, <2>1
  <2>2. CASE b # c
    <3>1. reverse'[b] = reverse[b] /\ incoming'[b] = incoming[b]
      BY <1>1, <1>2, <2>2
    <3>2. RevOK(reverse[b], incoming[b], aborted, toClient, toDaemon, outbox, b)
      BY OwnParts
    <3>3. b \in aborted' <=> b \in aborted
      BY <1>2, <2>2
    <3> QED BY <2>2, <3>1, <3>2, <3>3, OtherRev
  <2> QED BY <2>1, <2>2
<1>7. IsFiniteSet(Known') /\ Cardinality(Known') <= MaxReverse
  <2>1. Known' \subseteq Known \cup {c} /\ (d.st \notin {"pending", "retired"} => c \notin Known')
    BY <1>1, <1>2 DEF Known
  <2>2. MaxReverse \in Nat /\ Cardinality(Known) \in Nat
    BY <1>1, ReverseConstants, FS_CardinalityType
  <2>3. ASSUME NEW S, IsFiniteSet(S), Cardinality(S) <= MaxReverse, Known' \subseteq S
        PROVE  IsFiniteSet(Known') /\ Cardinality(Known') <= MaxReverse
    <3>1. PICK K : K = Known'
      OBVIOUS
    <3>2. IsFiniteSet(K) /\ Cardinality(K) <= Cardinality(S) /\ Cardinality(K) \in Nat
          /\ Cardinality(S) \in Nat
      BY <2>3, <3>1, FS_Subset, FS_CardinalityType
    <3> QED BY <2>2, <2>3, <3>1, <3>2
  <2>4. CASE Known' \subseteq Known
    BY <1>1, <2>3, <2>4
  <2>5. CASE ~(Known' \subseteq Known)
    <3>1. d.st \in {"pending", "retired"} /\ c \notin Known
      BY <2>1, <2>5
    <3>2. Cardinality(Known) < MaxReverse
      BY <3>1 DEF Own, Known
    <3>3. IsFiniteSet(Known \cup {c}) /\ Cardinality(Known \cup {c}) = Cardinality(Known) + 1
      BY <1>1, <3>1, FS_AddElement
    <3>4. Cardinality(Known \cup {c}) <= MaxReverse
      BY <2>2, <3>2, <3>3
    <3> QED BY <2>1, <2>3, <3>3, <3>4
  <2> QED BY <2>4, <2>5
<1> QED BY <1>2, <1>4, <1>5, <1>6, <1>7 DEF ReverseInv

(* What the calls of the client abort are calls of the client.                *)
LEMMA PeerAborts ==
    ASSUME NEW c \in Call, Caller(c) \/ ClientReceives(c)
    PROVE  aborted' \in {aborted, aborted \cup {c}}
<1>1. ASSUME NEW end, Take(c, end) PROVE aborted' \in {aborted, aborted \cup {c}}
  BY <1>1 DEF Take
<1>2. ASSUME NEW queue, CancelAfter(c, queue) PROVE aborted' \in {aborted, aborted \cup {c}}
  BY <1>1, <1>2 DEF CancelAfter
<1>3. CASE Start(c) \/ StartRefused(c) \/ DuplexSend(c) \/ Read(c)
  BY <1>3 DEF Start, StartRefused, DuplexSend, Read, linkVars
<1>4. CASE Cancel(c) \/ DuplexFlush(c) \/ DuplexFlushFails(c) \/ DuplexEnd(c)
  BY <1>2, <1>4 DEF Cancel, DuplexFlush, DuplexFlushFails, DuplexEnd
<1>5. CASE Return(c)
  BY <1>1, <1>2, <1>5 DEF Return
<1>6. CASE ReceivePayload(c)
  BY <1>2, <1>6 DEF ReceivePayload, callVars
<1>7. CASE ReceiveEnd(c) \/ ReceiveFailure(c) \/ ReceiveInputCredit(c)
  BY <1>1, <1>7 DEF ReceiveEnd, ReceiveFailure, ReceiveInputCredit, callVars
<1> QED BY <1>3, <1>4, <1>5, <1>6, <1>7 DEF Caller, ClientReceives

(* A step of a call of the client.                                            *)
LEMMA PeerRev ==
    ASSUME LinkInv, ReverseInv, NEW c \in Call, StepOf(c), UNCHANGED reverseVars,
           aborted' \in {aborted, aborted \cup {c}}
    PROVE  ReverseInv'
<1>1. c \in Id /\ c \notin ReverseId /\ c # None
  BY IdsAssumption, PeerAssumption DEF Id, IdsAssumption, PeerAssumption
<1>2. reverse' = reverse /\ incoming' = incoming /\ Known' = Known
  BY DEF reverseVars, Known
<1>3. OutboxOK(outbox')
  BY <1>1, OutboxSends DEF LinkInv, ReverseInv, StepOf
<1>4. ASSUME NEW b \in ReverseId
      PROVE  RevOK(reverse[b], incoming[b], aborted', toClient', toDaemon', outbox', b)
  <2>1. b # c /\ (b \in aborted' <=> b \in aborted)
    BY <1>1
  <2>2. RevOK(reverse[b], incoming[b], aborted, toClient, toDaemon, outbox, b)
    BY DEF ReverseInv
  <2> QED BY <2>1, <2>2, OtherRev
<1>5. None \notin aborted'
  BY <1>1 DEF ReverseInv
<1> QED BY <1>2, <1>3, <1>4, <1>5 DEF ReverseInv

-----------------------------------------------------------------------------
(* The sender.                                                                *)

(* Frames of other calls may change in place.                                 *)
LEMMA ExtractReplace ==
    ASSUME NEW q \in Seq(FrameType), NEW q2 \in Seq(FrameType), NEW c,
           NEW s \in Seq(FrameType), Extract(q, c, s), Len(q2) = Len(q),
           \A i \in 1 .. Len(q) : q2[i] = q[i] \/ (q[i].call # c /\ q2[i].call # c)
    PROVE  Extract(q2, c, s)
<1>1. PICK g : Picks(g, q, c, Len(s)) /\ \A j \in 1 .. Len(s) : q[g[j]] = s[j]
  BY DEF Extract
<1>2. PICK l, n : l = Len(q) /\ n = Len(s) /\ l \in Nat /\ n \in Nat /\ Len(q2) = l
  BY LenProperties
<1>3. /\ g \in [1 .. n -> 1 .. l] /\ \A i, j \in 1 .. n : i < j => g[i] < g[j]
      /\ \A i \in 1 .. l : q[i].call = c <=> \E j \in 1 .. n : g[j] = i
  BY <1>1, <1>2 DEF Picks
<1>4. \A i \in 1 .. l : q2[i].call = c <=> \E j \in 1 .. n : g[j] = i
  BY <1>2, <1>3
<1>5. Picks(g, q2, c, n)
  BY <1>2, <1>3, <1>4 DEF Picks
<1>6. ASSUME NEW j \in 1 .. n PROVE q2[g[j]] = s[j]
  <2>1. g[j] \in 1 .. l /\ q[g[j]].call = c
    BY <1>3
  <2> QED BY <1>1, <1>2, <2>1
<1> QED BY <1>2, <1>5, <1>6 DEF Extract

(* The first batch of the queue is one of the call.                           *)
LEMMA QueuesHead ==
    ASSUME NEW o \in Seq(BatchType), \A i \in DOMAIN o : BatchOK(o[i]), o # <<>>, NEW c \in Id,
           NEW u \in 0 .. 1, NEW n \in Nat, NEW m \in 0 .. 1, m <= n, NEW t \in 0 .. 2,
           Queues(o, c, u, n, m, t), NEW f, f = Head(o).frames[1], f.call = c
    PROVE  \/ u = 1 /\ f = Counted("window", c, 1) /\ Queues(Tail(o), c, 0, n, m, t)
           \/ u = 0 /\ m = 1 /\ f = Counted("payload", c, n) /\ Queues(Tail(o), c, 0, n, 0, t)
           \/ /\ u = 0 /\ m = 0 /\ t > 0 /\ f = Counted("end", c, t - 1)
              /\ Queues(Tail(o), c, 0, n, 0, 0)
<1>1. PICK q : q = FirstsOf(o) /\ q \in Seq(FrameType) /\ q # <<>> /\ Head(q) = f
               /\ FirstsOf(Tail(o)) = Tail(q)
  BY FirstsFacts
<1>2. PICK l \in Nat : l = n - m /\ l <= n
  OBVIOUS
<1>3. l <= n
  BY <1>2
<1>4. PICK s : s = Upward(c, u, l, n, t) /\ s \in Seq(FrameType) /\ Extract(q, c, s)
  BY <1>1, <1>2, <1>3, UpwardType DEF Queues
<1>5. s # <<>> /\ Head(s) = f /\ Extract(FirstsOf(Tail(o)), c, Tail(s))
  <2>1. q \in Seq(FrameType) /\ q # <<>> /\ Head(q).call = c
    BY <1>1
  <2>2. s # <<>> /\ Head(s) = Head(q) /\ Extract(Tail(q), c, Tail(s))
    BY <1>4, <2>1, ExtractHead
  <2> QED BY <1>1, <2>2
<1>6. UpwardNext(s, c, u, l, n, t)
  BY <1>3, <1>4, <1>5, UpwardHead
<1>7. CASE u = 1 /\ Head(s) = Counted("window", c, 1) /\ Tail(s) = Upward(c, 0, l, n, t)
  BY <1>2, <1>5, <1>7 DEF Queues
<1>8. CASE /\ u = 0 /\ l < n /\ Head(s) = Counted("payload", c, l + 1)
           /\ Tail(s) = Upward(c, 0, l + 1, n, t)
  <2>1. m = 1 /\ l + 1 = n /\ n - 0 = n
    BY <1>2, <1>8
  <2> QED BY <1>5, <1>8, <2>1 DEF Queues
<1>9. CASE /\ u = 0 /\ l = n /\ t > 0 /\ Head(s) = Counted("end", c, t - 1)
           /\ Tail(s) = Upward(c, 0, l, n, 0)
  <2>1. m = 0 /\ n - 0 = n
    BY <1>2, <1>9
  <2> QED BY <1>5, <1>9, <2>1 DEF Queues
<1> QED BY <1>6, <1>7, <1>8, <1>9 DEF UpwardNext

(* One more frame of the call is under way to the daemon.                     *)
LEMMA SaidMore ==
    ASSUME NEW p \in Seq(SentType), NEW b \in SentType, NEW c \in Id, NEW v \in 0 .. 1,
           NEW lo \in Nat, NEW hi \in Nat, lo <= hi, Said(p, c, v, lo, hi, 0)
    PROVE  /\ v = 0 /\ lo = hi /\ b.frame = Counted("window", c, 1) =>
                 Said(Append(p, b), c, 1, lo, hi, 0)
           /\ b.frame = Counted("payload", c, hi + 1) => Said(Append(p, b), c, v, lo, hi + 1, 0)
           /\ \A z \in 0 .. 1 : b.frame = Counted("end", c, z) =>
                 Said(Append(p, b), c, v, lo, hi, z + 1)
<1>1. PICK f : f = FramesOf(p) /\ f \in Seq(FrameType)
               /\ FramesOf(Append(p, b)) = Append(f, b.frame)
  BY FramesFacts
<1>2. PICK s : s = Upward(c, v, lo, hi, 0) /\ s \in Seq(FrameType) /\ Extract(f, c, s)
  <2>1. 0 \in 0 .. 2
    OBVIOUS
  <2> QED BY <1>1, <2>1, UpwardType DEF Said
<1>3. ASSUME NEW g \in FrameType, g.call = c, b.frame = g
      PROVE  Extract(FramesOf(Append(p, b)), c, Append(s, g))
  BY <1>1, <1>2, <1>3, ExtractAppend
<1>4. ASSUME v = 0, lo = hi, b.frame = Counted("window", c, 1)
      PROVE  Said(Append(p, b), c, 1, lo, hi, 0)
  <2>1. PICK g : g = Counted("window", c, 1) /\ g \in FrameType /\ g.call = c
    BY FrameFacts
  <2>2. s = <<>>
    BY <1>2, <1>4, UpwardIdle
  <2>3. Append(s, g) = Upward(c, 1, lo, hi, 0)
    BY <1>4, <2>1, <2>2, UpwardWindow
  <2> QED BY <1>3, <1>4, <2>1, <2>3 DEF Said
<1>5. ASSUME b.frame = Counted("payload", c, hi + 1)
      PROVE  Said(Append(p, b), c, v, lo, hi + 1, 0)
  <2>1. PICK g : g = Counted("payload", c, hi + 1) /\ g \in FrameType /\ g.call = c
    BY FrameFacts
  <2>2. Append(s, g) = Upward(c, v, lo, hi + 1, 0)
    BY <1>2, <2>1, UpwardAppend
  <2> QED BY <1>3, <1>5, <2>1, <2>2 DEF Said
<1>6. ASSUME NEW z \in 0 .. 1, b.frame = Counted("end", c, z)
      PROVE  Said(Append(p, b), c, v, lo, hi, z + 1)
  <2>1. PICK g : g = Counted("end", c, z) /\ g \in FrameType /\ g.call = c
    BY FrameFacts
  <2>2. Append(s, g) = Upward(c, v, lo, hi, z + 1)
    <3>1. Append(Upward(c, v, lo, hi, 0), Counted("end", c, z)) = Upward(c, v, lo, hi, z + 1)
      BY EndAppend, ZenonT(20)
    <3> QED BY <1>2, <2>1, <3>1
  <2> QED BY <1>3, <1>6, <2>1, <2>2 DEF Said
<1> QED BY <1>4, <1>5, <1>6

(* Frames and batches of other calls.                                         *)
LEMMA OthersSent ==
    ASSUME NEW p \in Seq(SentType), NEW o \in Seq(BatchType), \A i \in DOMAIN o : BatchOK(o[i]),
           NEW c, NEW s \in Seq(FrameType), NEW r \in Seq(FrameType),
           Extract(FramesOf(p), c, s), Extract(FirstsOf(o), c, r)
    PROVE  /\ \A b \in SentType : b.frame.call # c => Extract(FramesOf(Append(p, b)), c, s)
           /\ o # <<>> /\ Head(o).frames[1].call # c => Extract(FirstsOf(Tail(o)), c, r)
<1>1. ASSUME NEW b \in SentType, b.frame.call # c PROVE Extract(FramesOf(Append(p, b)), c, s)
  <2>1. PICK f, n : f = FramesOf(p) /\ f \in Seq(FrameType) /\ n = Len(f) /\ n \in Nat
                    /\ FramesOf(Append(p, b)) = Append(f, b.frame)
    BY FramesFacts, LenProperties
  <2>2. PICK f2 : f2 = Append(f, b.frame)
    OBVIOUS
  <2>3. b.frame \in FrameType
    BY DEF SentType
  <2>4. /\ f2 \in Seq(FrameType) /\ Len(f2) = n + 1 /\ f2[n + 1] = b.frame
        /\ \A i \in 1 .. n : f2[i] = f[i]
    BY <2>1, <2>2, <2>3, AppendProperties
  <2>5. /\ Len(f) <= Len(f2) /\ \A i \in 1 .. Len(f) : f2[i] = f[i]
        /\ \A i \in Len(f) + 1 .. Len(f2) : f2[i].call # c
    <3>1. n <= n + 1 /\ \A i \in n + 1 .. n + 1 : i = n + 1
      BY <2>1
    <3> QED BY <1>1, <2>1, <2>4, <3>1
  <2>6. Extract(f2, c, s)
    BY <2>1, <2>4, <2>5, ExtractMore
  <2> QED BY <2>1, <2>2, <2>6
<1>2. ASSUME o # <<>>, Head(o).frames[1].call # c PROVE Extract(FirstsOf(Tail(o)), c, r)
  <2>1. PICK q : q = FirstsOf(o) /\ q \in Seq(FrameType) /\ q # <<>>
                 /\ Head(q) = Head(o).frames[1] /\ FirstsOf(Tail(o)) = Tail(q)
    BY <1>2, FirstsFacts
  <2> QED BY <1>2, <2>1, ExtractSkip
<1> QED BY <1>1, <1>2

(* The queue without its first batch, or without the first frame of it.       *)
LEMMA TransmitOutbox ==
    ASSUME LinkInv, OutboxOK(outbox), Transmit, UNCHANGED incoming
    PROVE  OutboxOK(outbox')
<1>1. PICK b, n, l, r : /\ b = Head(outbox) /\ n = Len(b.frames) /\ l = Len(outbox)
                        /\ r = Tail(b.frames)
  OBVIOUS
<1>2. /\ outbox \in Seq(BatchType) /\ outbox # <<>> /\ BatchOK(b) /\ b = outbox[1] /\ n \in Nat
      /\ \/ outbox' = Tail(outbox)
         \/ /\ n > 1 /\ Len(outbox') = l /\ outbox'[1] = Batch(r, b.signal)
            /\ Len(r) = n - 1 /\ \A i \in 1 .. n - 1 : r[i] = b.frames[i + 1]
            /\ \A i \in 2 .. l : outbox'[i] = outbox[i]
  BY <1>1, TransmitFacts DEF LinkInv
<1>3. l \in Nat /\ l # 0 /\ 1 \in 1 .. l
  BY <1>1, <1>2, LenProperties, EmptySeq
<1>4. \A i \in 1 .. l : \E a \in Id : Of(outbox[i], a) /\ Single(outbox[i], a)
  BY <1>1 DEF OutboxOK
<1>5. CASE outbox' = Tail(outbox)
  <2>1. /\ Len(Tail(outbox)) = l - 1 /\ \A i \in 1 .. l - 1 : Tail(outbox)[i] = outbox[i + 1]
    BY <1>1, <1>2, <1>3, HeadTailProperties
  <2>2. \A i \in 1 .. l - 1 : i + 1 \in 1 .. l
    BY <1>3
  <2> QED BY <1>4, <1>5, <2>1, <2>2 DEF OutboxOK
<1>6. CASE /\ n > 1 /\ Len(outbox') = l /\ outbox'[1] = Batch(r, b.signal)
           /\ Len(r) = n - 1 /\ \A i \in 1 .. n - 1 : r[i] = b.frames[i + 1]
           /\ \A i \in 2 .. l : outbox'[i] = outbox[i]
  <2>1. PICK a \in Id : Of(b, a) /\ Single(b, a)
    BY <1>2, <1>3, <1>4
  <2>2. a \notin ReverseId
    <3>1. n \in Nat /\ n > 1
      BY <1>2, <1>6
    <3>2. n # 1
      BY <3>1
    <3> QED BY <1>1, <2>1, <3>2 DEF Single
  <2>3. PICK b2 : b2 = Batch(r, b.signal) /\ b2.frames = r /\ b2.signal = b.signal
    <3>1. \A x, y : Batch(x, y).frames = x /\ Batch(x, y).signal = y
      BY DEF Batch
    <3> QED BY <3>1
  <2>4. Of(b2, a)
    <3>1. b.frames \in Seq(FrameType) /\ b.frames # <<>>
      BY <1>2 DEF BatchOK, BatchType
    <3>2. r \in Seq(FrameType) /\ DOMAIN b.frames = 1 .. n
      BY <1>1, <3>1, HeadTailProperties, LenProperties
    <3>3. DOMAIN r = 1 .. n - 1 /\ \A i \in 1 .. n - 1 : i + 1 \in 1 .. n
      BY <1>2, <1>6, <3>2, LenProperties
    <3> QED BY <1>6, <2>1, <2>3, <3>2, <3>3 DEF Of
  <2>5. Of(outbox'[1], a) /\ Single(outbox'[1], a)
    BY <1>6, <2>2, <2>3, <2>4 DEF Single
  <2>6. \A i \in 1 .. l : i = 1 \/ i \in 2 .. l
    BY <1>3
  <2> QED BY <1>4, <1>6, <2>1, <2>5, <2>6 DEF OutboxOK
<1> QED BY <1>2, <1>5, <1>6

(* A frame of a call of the client is transmitted, or a batch dropped.        *)
LEMMA TransmitOther ==
    ASSUME LinkInv, OutboxOK(outbox), Transmit, UNCHANGED incoming, NEW c,
           NEW s \in Seq(FrameType), NEW z \in Seq(FrameType), Head(outbox).frames[1].call # c,
           Extract(FramesOf(toDaemon), c, s), Extract(FirstsOf(outbox), c, z)
    PROVE  Extract(FramesOf(toDaemon'), c, s) /\ Extract(FirstsOf(outbox'), c, z)
<1>1. PICK b, n, l, r, e : /\ b = Head(outbox) /\ n = Len(b.frames) /\ l = Len(outbox)
                           /\ r = Tail(b.frames) /\ e = [frame |-> b.frames[1], gap |-> skipped]
  OBVIOUS
<1>2. /\ outbox \in Seq(BatchType) /\ toDaemon \in Seq(SentType)
      /\ \A i \in DOMAIN outbox : BatchOK(outbox[i])
  BY DEF LinkInv
<1>3. outbox # <<>> /\ BatchOK(b) /\ b = outbox[1] /\ n \in Nat /\ n > 0 /\ LinkInv'
  BY <1>1, TransmitFacts
<1>4. \/ outbox' = Tail(outbox) /\ toDaemon' = toDaemon
      \/ /\ toDaemon' = Append(toDaemon, e) /\ e \in SentType
         /\ \/ outbox' = Tail(outbox)
            \/ /\ n > 1 /\ Len(outbox') = l /\ outbox'[1] = Batch(r, b.signal)
               /\ Len(r) = n - 1 /\ \A i \in 1 .. n - 1 : r[i] = b.frames[i + 1]
               /\ \A i \in 2 .. l : outbox'[i] = outbox[i]
  BY <1>1, TransmitFacts
<1>5. e.frame.call # c
  BY <1>1
<1>6. Extract(FramesOf(toDaemon'), c, s)
  <2>1. e \in SentType => Extract(FramesOf(Append(toDaemon, e)), c, s)
    BY <1>2, <1>5, OthersSent
  <2> QED BY <1>4, <2>1
<1>7. CASE outbox' = Tail(outbox)
  <2>1. Extract(FirstsOf(Tail(outbox)), c, z)
    BY <1>2, <1>3, OthersSent
  <2> QED BY <1>6, <1>7, <2>1
<1>8. CASE /\ n > 1 /\ Len(outbox') = l /\ outbox'[1] = Batch(r, b.signal)
           /\ Len(r) = n - 1 /\ \A i \in 1 .. n - 1 : r[i] = b.frames[i + 1]
           /\ \A i \in 2 .. l : outbox'[i] = outbox[i]
  <2>1. PICK o, o2 : o = outbox /\ o2 = outbox'
    OBVIOUS
  <2>2. l \in Nat /\ l # 0 /\ 1 \in 1 .. l /\ \A i \in 1 .. l : i = 1 \/ i \in 2 .. l
    BY <1>1, <1>2, <1>3, LenProperties, EmptySeq
  <2>3. PICK a \in Id : Of(b, a)
    BY <1>1, <1>3, <2>2 DEF OutboxOK
  <2>4. DOMAIN b.frames = 1 .. n
    BY <1>1, <1>3, LenProperties DEF BatchOK, BatchType
  <2>5. 1 \in 1 .. n /\ 2 \in 1 .. n /\ 1 \in 1 .. n - 1 /\ 1 + 1 = 2
    BY <1>3, <1>8
  <2>6. b.frames[1].call = a /\ b.frames[2].call = a /\ r[1] = b.frames[2]
    BY <1>8, <2>3, <2>4, <2>5 DEF Of
  <2>7. o2[1].frames[1].call # c
    <3>1. \A x, y : Batch(x, y).frames = x
      BY DEF Batch
    <3>2. o2[1].frames = r
      BY <1>8, <2>1, <3>1
    <3> QED BY <1>1, <2>6, <3>2
  <2>8. /\ o2 \in Seq(BatchType) /\ \A i \in DOMAIN o2 : BatchOK(o2[i])
    BY <1>3, <2>1 DEF LinkInv
  <2>9. PICK q, q2 : q = FirstsOf(o) /\ q2 = FirstsOf(o2)
    OBVIOUS
  <2>10. /\ q \in Seq(FrameType) /\ Len(q) = l /\ \A i \in 1 .. l : q[i] = o[i].frames[1]
    BY <1>1, <1>2, <2>1, <2>9, FirstsFacts
  <2>11. /\ q2 \in Seq(FrameType) /\ Len(q2) = l /\ \A i \in 1 .. l : q2[i] = o2[i].frames[1]
    BY <1>8, <2>1, <2>8, <2>9, FirstsFacts
  <2>12. ASSUME NEW i \in 1 .. l PROVE q2[i] = q[i] \/ (q[i].call # c /\ q2[i].call # c)
    <3>1. CASE i = 1
      BY <1>1, <1>3, <2>1, <2>7, <2>10, <2>11, <3>1
    <3>2. CASE i # 1
      <4>1. i \in 2 .. l
        BY <2>2, <3>2
      <4>2. o2[i] = o[i]
        BY <1>8, <2>1, <4>1
      <4> QED BY <2>10, <2>11, <4>2
    <3> QED BY <3>1, <3>2
  <2>13. Extract(q2, c, z)
    <3>1. Extract(q, c, z)
      BY <2>1, <2>9
    <3> QED BY <2>10, <2>11, <2>12, <3>1, ExtractReplace
  <2> QED BY <1>6, <2>1, <2>9, <2>13
<1> QED BY <1>4, <1>7, <1>8

(* A frame of a reverse call is transmitted, or its payload dropped.          *)
LEMMA TransmitRev ==
    ASSUME LinkInv, ReverseInv, Transmit, UNCHANGED reverseVars, NEW c \in ReverseId
    PROVE  RevOK(reverse[c], incoming[c], aborted', toClient', toDaemon', outbox', c)
<1>1. PICK d, k, A : d = reverse[c] /\ k = incoming[c] /\ A = aborted
  OBVIOUS
<1>2. /\ c \in Id /\ OutboxOK(outbox) /\ RevOK(d, k, A, toClient, toDaemon, outbox, c)
      /\ outbox \in Seq(BatchType) /\ toDaemon \in Seq(SentType) /\ toClient' = toClient
      /\ \A i \in DOMAIN outbox : BatchOK(outbox[i])
      /\ aborted' = A /\ None \notin A /\ UNCHANGED incoming
  BY <1>1, OwnParts DEF ReverseInv, Transmit, reverseVars
<1>3. PICK a, w, x, v, lo, hi, e, u, m, t :
        /\ Heard(toClient, c, a, w, x) /\ Said(toDaemon, c, v, lo, hi, e)
        /\ Queues(outbox, c, u, k.yields, m, t)
        /\ BookOK(d, k, A, c, a, w, x, v, lo, hi, e, u, m, t)
  BY <1>2 DEF RevOK
<1>4. /\ v \in 0 .. 1 /\ lo \in Nat /\ hi \in Nat /\ lo <= hi /\ e \in 0 .. 2 /\ u \in 0 .. 1
      /\ m \in 0 .. 1 /\ t \in 0 .. 2 /\ k.yields \in Nat
      /\ OrderOK(k, A, c, lo, hi, v, e, u, m, t)
  BY <1>3, BookParts
<1>5. PICK y \in Nat : y = k.yields /\ m <= y
  <2>1. PICK y : y = k.yields /\ y \in Nat /\ hi + m <= y
    BY <1>4 DEF OrderOK
  <2>2. m <= y
    BY <1>4, <2>1
  <2> QED BY <2>1, <2>2
<1>6. ASSUME NEW v2, NEW lo2, NEW hi2, NEW e2, NEW u2, NEW m2, NEW t2,
             Said(toDaemon', c, v2, lo2, hi2, e2), Queues(outbox', c, u2, y, m2, t2),
             BookOK(d, k, A, c, a, w, x, v2, lo2, hi2, e2, u2, m2, t2)
      PROVE  RevOK(reverse[c], incoming[c], aborted', toClient', toDaemon', outbox', c)
  BY <1>1, <1>2, <1>3, <1>5, <1>6 DEF RevOK
<1>7. PICK b, g : /\ b = Head(outbox) /\ g = [frame |-> b.frames[1], gap |-> skipped]
  OBVIOUS
<1>8. PICK f : f = b.frames[1] /\ g.frame = f
  BY <1>7
<1>9. outbox # <<>> /\ BatchOK(b) /\ b = outbox[1]
  BY <1>2, <1>7, TransmitFacts
<1>10. CASE f.call # c
  <2>1. /\ Upward(c, v, lo, hi, e) \in Seq(FrameType)
        /\ Upward(c, u, k.yields - m, k.yields, t) \in Seq(FrameType)
    BY <1>3, BookTypes
  <2>2. Said(toDaemon', c, v, lo, hi, e) /\ Queues(outbox', c, u, k.yields, m, t)
    BY <1>2, <1>3, <1>7, <1>8, <1>10, <2>1, TransmitOther DEF Said, Queues
  <2> QED BY <1>3, <1>5, <1>6, <2>2
<1>11. CASE f.call = c
  <2>1. Of(b, c) /\ Single(b, c)
    <3>1. PICK l \in Nat : l = Len(outbox) /\ l # 0
      BY <1>2, <1>9, LenProperties, EmptySeq
    <3>2. 1 \in 1 .. l
      BY <3>1
    <3>3. PICK j \in Id : Of(b, j) /\ Single(b, j)
      BY <1>2, <1>9, <3>1, <3>2 DEF OutboxOK
    <3>4. j = c
      BY <1>8, <1>9, <1>11, <3>3, FirstFrame
    <3> QED BY <3>3, <3>4
  <2>2. Len(b.frames) = 1 /\ (b.signal = c <=> f.kind = "payload") /\ b.signal \in {c, None}
    BY <1>8, <2>1 DEF Single, Of
  <2>3. /\ outbox' = Tail(outbox)
        /\ \/ toDaemon' = toDaemon /\ b.signal \in A
           \/ b.signal \notin A /\ toDaemon' = Append(toDaemon, g) /\ g \in SentType
    <3>1. ~(Len(b.frames) > 1)
      BY <2>2
    <3> QED BY <1>1, <1>2, <1>7, <3>1, TransmitFacts
  <2>4. \/ u = 1 /\ f = Counted("window", c, 1) /\ Queues(Tail(outbox), c, 0, y, m, t)
        \/ /\ u = 0 /\ m = 1 /\ f = Counted("payload", c, y)
           /\ Queues(Tail(outbox), c, 0, y, 0, t)
        \/ /\ u = 0 /\ m = 0 /\ t > 0 /\ f = Counted("end", c, t - 1)
           /\ Queues(Tail(outbox), c, 0, y, 0, 0)
    <3>1. Queues(outbox, c, u, y, m, t) /\ f = Head(outbox).frames[1]
      BY <1>3, <1>5, <1>7, <1>8
    <3> QED BY <1>2, <1>4, <1>5, <1>9, <1>11, <3>1, QueuesHead
  <2>5. CASE u = 1 /\ f = Counted("window", c, 1) /\ Queues(Tail(outbox), c, 0, y, m, t)
    <3>1. v = 0 /\ lo = hi /\ e = 0 /\ BookOK(d, k, A, c, a, w, x, 1, lo, hi, e, 0, m, t)
      BY <1>3, <2>5, SentBook
    <3>2. f.kind = "window"
      BY <1>2, <2>5, FrameFacts
    <3>3. b.signal \notin A
      BY <1>2, <2>2, <3>2
    <3>4. Said(toDaemon', c, 1, lo, hi, e)
      <4>1. Said(toDaemon, c, 0, lo, hi, 0) /\ 0 \in 0 .. 1
        BY <1>3, <3>1
      <4>2. Said(Append(toDaemon, g), c, 1, lo, hi, 0)
        BY <1>2, <1>4, <1>8, <2>3, <2>5, <3>1, <3>3, <4>1, SaidMore
      <4> QED BY <2>3, <3>1, <3>3, <4>2
    <3> QED BY <1>6, <2>3, <2>5, <3>1, <3>4
  <2>6. CASE /\ u = 0 /\ m = 1 /\ f = Counted("payload", c, y)
             /\ Queues(Tail(outbox), c, 0, y, 0, t)
    <3>1. f.kind = "payload" /\ b.signal = c
      BY <1>2, <2>2, <2>6, FrameFacts
    <3>2. CASE c \in A
      <4>1. BookOK(d, k, A, c, a, w, x, v, lo, hi, e, u, 0, t)
        BY <1>3, <2>6, <3>2, SentBook
      <4>2. toDaemon' = toDaemon
        BY <2>3, <3>1, <3>2
      <4> QED BY <1>3, <1>6, <2>3, <2>6, <4>1, <4>2
    <3>3. CASE c \notin A
      <4>1. e = 0 /\ hi + 1 = y /\ BookOK(d, k, A, c, a, w, x, v, lo, y, e, u, 0, t)
        BY <1>3, <1>5, <2>6, <3>3, SentBook
      <4>2. Said(Append(toDaemon, g), c, v, lo, hi + 1, 0)
        BY <1>2, <1>3, <1>4, <1>8, <2>3, <2>6, <3>1, <3>3, <4>1, SaidMore
      <4>3. Said(toDaemon', c, v, lo, y, e)
        BY <2>3, <3>1, <3>3, <4>1, <4>2
      <4> QED BY <1>6, <2>3, <2>6, <4>1, <4>3
    <3> QED BY <3>2, <3>3
  <2>7. CASE /\ u = 0 /\ m = 0 /\ t > 0 /\ f = Counted("end", c, t - 1)
             /\ Queues(Tail(outbox), c, 0, y, 0, 0)
    <3>1. e = 0 /\ BookOK(d, k, A, c, a, w, x, v, lo, hi, t, u, m, 0)
      BY <1>3, <2>7, SentBook
    <3>2. PICK z \in 0 .. 1 : z = t - 1 /\ t = z + 1
      BY <1>4, <2>7
    <3>3. f.kind = "end"
      BY <1>2, <2>7, <3>2, FrameFacts
    <3>4. b.signal \notin A
      BY <1>2, <2>2, <3>3
    <3>5. Said(Append(toDaemon, g), c, v, lo, hi, z + 1)
      BY <1>2, <1>3, <1>4, <1>8, <2>3, <2>7, <3>1, <3>2, <3>4, SaidMore
    <3>6. Said(toDaemon', c, v, lo, hi, t)
      BY <2>3, <3>2, <3>4, <3>5
    <3> QED BY <1>6, <2>3, <2>7, <3>1, <3>6
  <2> QED BY <2>4, <2>5, <2>6, <2>7
<1> QED BY <1>10, <1>11

(* Transmission keeps the books.                                              *)
LEMMA TransmitReverse ==
    ASSUME LinkInv, ReverseInv, Transmit, UNCHANGED reverseVars
    PROVE  ReverseInv'
<1>1. reverse' = reverse /\ incoming' = incoming /\ Known' = Known /\ aborted' = aborted
  BY DEF reverseVars, Known, Transmit
<1>2. OutboxOK(outbox')
  BY <1>1, TransmitOutbox DEF ReverseInv
<1> QED BY <1>1, <1>2, TransmitRev DEF ReverseInv

-----------------------------------------------------------------------------
(* The start, the end of the connection, and the induction.                   *)

(* Empty queues.                                                              *)
LEMMA NothingUnderWay == FramesOf(<<>>) = <<>> /\ FirstsOf(<<>>) = <<>>
<1>1. /\ <<>> \in Seq(FrameType) /\ <<>> \in Seq(SentType) /\ <<>> \in Seq(BatchType)
      /\ Len(<<>>) = 0 /\ (1 .. 0) = {} /\ DOMAIN <<>> = {}
  OBVIOUS
<1>2. FramesOf(<<>>) \in Seq(FrameType) /\ Len(FramesOf(<<>>)) = 0
  BY <1>1, FramesFacts
<1>3. FirstsOf(<<>>) \in Seq(FrameType) /\ Len(FirstsOf(<<>>)) = 0
  BY <1>1, FirstsFacts
<1> QED BY <1>2, <1>3, EmptySeq

(* Nothing is under way of a call.                                            *)
LEMMA SilentRev ==
    ASSUME NEW c \in ReverseId, NEW d, NEW k, NEW A, NEW y \in Nat, y = k.yields,
           BookOK(d, k, A, c, 0, 0, 0, 0, y, y, 0, 0, 0, 0)
    PROVE  RevOK(d, k, A, <<>>, <<>>, <<>>, c)
<1>1. c \in Id /\ 0 \in 0 .. 3 /\ 0 \in Nat /\ 0 \in 0 .. 1 /\ y - 0 = y
  BY DEF Id
<1>2. Downward(c, 0, 0, 0) = <<>>
  BY <1>1, DownwardNothing
<1>3. Upward(c, 0, y, y, 0) = <<>>
  BY <1>1, UpwardIdle
<1>4. <<>> \in Seq(FrameType) /\ Len(<<>>) = 0 /\ (1 .. 0) = {}
  OBVIOUS
<1>5. FramesOf(<<>>) = <<>> /\ FirstsOf(<<>>) = <<>>
  BY NothingUnderWay
<1>6. Extract(<<>>, c, <<>>)
  BY <1>4, ExtractNothing
<1>7. Heard(<<>>, c, 0, 0, 0) /\ Said(<<>>, c, 0, y, y, 0) /\ Queues(<<>>, c, 0, k.yields, 0, 0)
  BY <1>1, <1>2, <1>3, <1>5, <1>6 DEF Heard, Said, Queues
<1> QED BY <1>7 DEF RevOK

(* At first there are no reverse calls.                                       *)
LEMMA InitReverse == Init => ReverseInv
<1> SUFFICES ASSUME Init PROVE ReverseInv
  OBVIOUS
<1>1. /\ outbox = <<>> /\ toDaemon = <<>> /\ toClient = <<>> /\ aborted = {}
      /\ reverse = [c \in ReverseId |-> NewReverse]
      /\ incoming = [c \in ReverseId |-> NewIncoming]
  BY DEF Init, LinkInit, ReverseInit, ReverseInitBut, NewReverse, NewIncoming
<1>2. ASSUME NEW c \in ReverseId
      PROVE  /\ NewReverse \in ReverseCall
             /\ RevOK(NewReverse, NewIncoming, {}, <<>>, <<>>, <<>>, c)
  <2>1. BookOK(NewReverse, NewIncoming, {}, c, 0, 0, 0, 0, 0, 0, 0, 0, 0, 0)
    BY NewBook
  <2>2. NewIncoming.yields = 0 /\ 0 \in Nat
    BY DEF NewIncoming
  <2> QED BY <2>1, <2>2, SilentRev, BookParts
<1>3. reverse \in [ReverseId -> ReverseCall]
  BY <1>1, <1>2
<1>4. OutboxOK(outbox) /\ None \notin aborted
  BY <1>1 DEF OutboxOK
<1>5. Known = {}
  BY <1>1 DEF Known, NewReverse
<1>6. IsFiniteSet(Known) /\ Cardinality(Known) <= MaxReverse
  BY <1>5, FS_EmptySet, ReverseConstants
<1> QED BY <1>1, <1>2, <1>3, <1>4, <1>6 DEF ReverseInv

(* The connection ends.                                                       *)
LEMMA DownReverse ==
    ASSUME ReverseInv, ReverseDown, NEW reason, Terminate(reason)
    PROVE  ReverseInv'
<1>1. /\ outbox' = <<>> /\ toDaemon' = <<>> /\ toClient' = <<>> /\ aborted' = aborted \cup Pending
  BY DEF Terminate, Down
<1>2. /\ reverse' = [c \in ReverseId |-> Left(c, reverse[c])]
      /\ incoming' = [c \in ReverseId |-> Ceased(incoming[c])]
  BY DEF ReverseDown, Left, Ceased
<1>3. ASSUME NEW c \in ReverseId
      PROVE  /\ reverse'[c] \in ReverseCall /\ reverse'[c].st \notin {"pending", "retired"}
             /\ RevOK(reverse'[c], incoming'[c], aborted', <<>>, <<>>, <<>>, c)
  <2>1. PICK d, k, a, w, x, v, lo, hi, e, u, m, t :
           /\ d = reverse[c] /\ k = incoming[c]
           /\ BookOK(d, k, aborted, c, a, w, x, v, lo, hi, e, u, m, t)
    BY DEF ReverseInv, RevOK
  <2>2. PICK f, g, y : f = Left(c, d) /\ g = Ceased(k) /\ y = g.yields
    OBVIOUS
  <2>3. BookOK(f, g, aborted, c, 0, 0, 0, 0, y, y, 0, 0, 0, 0)
    BY <2>1, <2>2, DownBook
  <2>4. c \in aborted' <=> c \in aborted
    BY <1>1, IdsAssumption DEF Pending, IdsAssumption
  <2>5. BookOK(f, g, aborted', c, 0, 0, 0, 0, y, y, 0, 0, 0, 0)
    BY <2>3, <2>4, AbortsBook
  <2>6. f \in ReverseCall /\ g.yields \in Nat
    BY <2>5, BookParts
  <2>7. f.st \notin {"pending", "retired"}
    <3>1. d \in ReverseCall
      BY <2>1, BookParts
    <3>2. PICK z : z = [d EXCEPT !.st = "done"] /\ z \in ReverseCall /\ z.st = "done"
      <4>1. PICK z : z = [d EXCEPT !.st = "done"]
        OBVIOUS
      <4>2. z \in ReverseCall /\ z.st = "done"
        BY <3>1, <4>1 DEF ReverseCall
      <4> QED BY <4>1, <4>2
    <3>3. f \in {Failed(c, z), [z EXCEPT !.caller = "cut"], z}
      BY <2>2, <3>2 DEF Left
    <3>4. Failed(c, z).st = "done" /\ [z EXCEPT !.caller = "cut"].st = "done"
      BY <3>2 DEF Failed, ReverseCall
    <3> QED BY <3>2, <3>3, <3>4
  <2>8. RevOK(f, g, aborted', <<>>, <<>>, <<>>, c)
    BY <2>2, <2>5, <2>6, SilentRev
  <2> QED BY <1>2, <2>1, <2>2, <2>6, <2>7, <2>8
<1>4. reverse' \in [ReverseId -> ReverseCall]
  <2>1. reverse' = [c \in ReverseId |-> reverse'[c]]
    BY <1>2
  <2> QED BY <1>3, <2>1
<1>5. OutboxOK(outbox') /\ None \notin aborted'
  BY <1>1, PeerAssumption DEF OutboxOK, ReverseInv, Pending, PeerAssumption
<1>6. Known' = {}
  BY <1>3 DEF Known
<1>7. IsFiniteSet(Known') /\ Cardinality(Known') <= MaxReverse
  BY <1>6, FS_EmptySet, ReverseConstants
<1> QED BY <1>1, <1>3, <1>4, <1>5, <1>7 DEF ReverseInv

(* Every step of the system keeps the books of the reverse calls.             *)
LEMMA NextReverse == BooksInv /\ StartInv /\ ReverseInv /\ [Next]_vars => ReverseInv'
<1> SUFFICES ASSUME BooksInv, StartInv, ReverseInv, [Next]_vars PROVE ReverseInv'
  OBVIOUS
<1>1. LinkInv
  BY DEF StartInv
<1>2. ASSUME NEW c \in Call, Caller(c) \/ ClientReceives(c), UNCHANGED reverseVars
      PROVE  ReverseInv'
  <2>1. StepOf(c)
    BY <1>1, <1>2, CallerStepOf
  <2>2. aborted' \in {aborted, aborted \cup {c}}
    BY <1>2, PeerAborts
  <2> QED BY <1>1, <1>2, <2>1, <2>2, PeerRev
<1>3. ASSUME NEW c \in Call, DaemonReceives(c) \/ Handler(c), UNCHANGED reverseVars
      PROVE  ReverseInv'
  <2>1. DaemonKnown(c) /\ (DaemonStart(c) => daemon[c].st = "absent")
    BY StartsOnce
  <2>2. StepOf(c) /\ DaemonKeeps
    BY <1>1, <1>3, <2>1, DaemonStepOf
  <2>3. aborted' \in {aborted, aborted \cup {c}}
    BY <2>2 DEF DaemonKeeps, callVars
  <2> QED BY <1>1, <1>3, <2>2, <2>3, PeerRev
<1>9. ASSUME NEW c \in Call, DaemonOversized(c), UNCHANGED reverseVars
      PROVE  ReverseInv'
  <2>1. DaemonKnown(c)
    BY StartsOnce
  <2>2. StepOf(c) /\ DaemonKeeps
    BY <1>1, <1>9, <2>1, OversizedStepOf
  <2>3. aborted' \in {aborted, aborted \cup {c}}
    BY <2>2 DEF DaemonKeeps, callVars
  <2> QED BY <1>1, <1>9, <2>2, <2>3, PeerRev
<1>4. CASE PeerNext /\ UNCHANGED reverseVars
  BY <1>2, <1>3, <1>4, <1>9 DEF PeerNext
<1>5. CASE ReverseNext /\ UNCHANGED peerVars
  <2>1. PICK c \in ReverseId :
           ReverseCaller(c) \/ ReverseAnswered(c) \/ IncomingReceives(c) \/ IncomingHandler(c)
    BY <1>5 DEF ReverseNext
  <2>2. PICK d, k : Own(c, d, k)
    BY <1>1, <2>1, ReverseOwn
  <2>3. StepOf(c)
    BY <1>1, <1>5, <2>1, ReverseCallerStep, ReverseAnsweredStep, IncomingReceivesStep,
       IncomingHandlerStep
  <2> QED BY <1>1, <2>2, <2>3, OwnInv
<1>6. CASE Deliver /\ UNCHANGED reverseVars
  BY <1>1, <1>6, TransmitReverse DEF Deliver
<1>7. CASE Ends /\ ReverseDown
  <2>1. PICK reason : Terminate(reason)
    BY <1>7 DEF Ends, RefuseGap, RefuseFrame, RefuseReverse, Disconnect
  <2> QED BY <1>7, <2>1, DownReverse
<1>8. CASE UNCHANGED vars
  <2>1. Known' = Known
    BY <1>8 DEF vars, reverseVars, Known
  <2> QED BY <1>8, <2>1 DEF vars, reverseVars, linkVars, ReverseInv
<1> QED BY <1>4, <1>5, <1>6, <1>7, <1>8 DEF Next

(* The books of the reverse calls are always in order.                        *)
LEMMA ReverseKept == Spec => [](LinkInv /\ ReverseInv)
<1>1. Spec => [](BooksInv /\ StartInv /\ ResponsesInv)
  BY ResponsesKept
<1>2. StartInv => LinkInv
  BY DEF StartInv
<1> QED BY <1>1, <1>2, InitReverse, NextReverse, PTL DEF Spec

-----------------------------------------------------------------------------
(* What the invariant says.                                                   *)

(* What is known of one reverse call.                                         *)
LEMMA RevParts ==
    ASSUME LinkInv, ReverseInv, NEW c \in ReverseId
    PROVE  \E a, w, x, v, lo, hi, e, u, m, t :
              /\ Heard(toClient, c, a, w, x) /\ Said(toDaemon, c, v, lo, hi, e)
              /\ Queues(outbox, c, u, incoming[c].yields, m, t)
              /\ BookOK(reverse[c], incoming[c], aborted, c, a, w, x, v, lo, hi, e, u, m, t)
BY OwnParts DEF RevOK

(* The credit, the buffer and the channel of a reverse call keep within their *)
(* limits on both sides: INITIAL_CALL_CREDIT_BYTES and                        *)
(* MAX_STREAM_BUFFERED_ITEMS of protocol_reverse.rs bound what ReverseCalls and *)
(* IncomingCalls count up and down.                                           *)
THEOREM ReverseTypes == Spec => []ReverseTypeOK
<1>1. LinkInv /\ ReverseInv => ReverseTypeOK
  BY DEF LinkInv, IncomingOK, ReverseInv, ReverseTypeOK
<1> QED BY <1>1, ReverseKept, PTL

(* A caller that is told its stream is complete, or has its answer, has all the *)
(* handler yielded, and the handler returned: receive_end after an error, a   *)
(* cancellation or a payload that did not fit never looks like a whole response. *)
THEOREM ReverseCompleteIsAll == Spec => []ReverseCompleteMeansAll
<1>1. LinkInv /\ ReverseInv => ReverseCompleteMeansAll
  <2> SUFFICES ASSUME LinkInv, ReverseInv, NEW c \in ReverseId, reverse[c].caller = "complete"
               PROVE  /\ incoming[c].returned
                      /\ c \in ReverseStream => reverse[c].got = incoming[c].yields
    BY DEF ReverseCompleteMeansAll
  <2>1. \E lo : CallerOK(reverse[c], incoming[c], c, lo)
    BY RevParts, BookParts
  <2> QED BY <2>1 DEF CallerOK
<1> QED BY <1>1, ReverseKept, PTL

(* A call the daemon gave up is ended by the client, and forgotten: when nothing *)
(* is under way any more, a call that is still in `retired` is one whose CallEnd *)
(* did not fit the queue of the client.                                       *)
THEOREM GivenUpIsAnswered == Spec => []RetiredIsAnswered
<1>1. LinkInv /\ ReverseInv => RetiredIsAnswered
  <2> SUFFICES ASSUME LinkInv, ReverseInv, outbox = <<>>, toDaemon = <<>>, toClient = <<>>,
                      NEW c \in ReverseId, reverse[c].st = "retired"
               PROVE  incoming[c].unsent
    BY DEF RetiredIsAnswered
  <2>1. PICK d, k : d = reverse[c] /\ k = incoming[c]
    OBVIOUS
  <2>2. PICK a, w, x, v, lo, hi, e, u, m, t :
           /\ Heard(<<>>, c, a, w, x) /\ Said(<<>>, c, v, lo, hi, e)
           /\ Queues(<<>>, c, u, k.yields, m, t)
           /\ BookOK(d, k, aborted, c, a, w, x, v, lo, hi, e, u, m, t)
    BY <2>1, RevParts
  <2>3. /\ a \in 0 .. 3 /\ w \in Nat /\ x \in 0 .. 1 /\ v \in 0 .. 1 /\ lo \in Nat
        /\ hi \in Nat /\ lo <= hi /\ e \in 0 .. 2 /\ u \in 0 .. 1 /\ m \in 0 .. 1
        /\ t \in 0 .. 2 /\ k.yields \in Nat /\ StageOK(d, k, a, w, x, v, lo, hi, e, u, m, t)
    BY <2>2, BookParts
  <2>4. /\ Downward(c, a, w, x) \in Seq(FrameType) /\ Upward(c, v, lo, hi, e) \in Seq(FrameType)
        /\ c \in Id /\ k.yields - m \in Nat /\ k.yields - m <= k.yields
        /\ Upward(c, u, k.yields - m, k.yields, t) \in Seq(FrameType)
    BY <2>2, BookTypes
  <2>5. FramesOf(<<>>) = <<>> /\ FirstsOf(<<>>) = <<>>
    BY NothingUnderWay
  <2>6. x = 0
    <3>1. Downward(c, a, w, x) = <<>>
      BY <2>2, <2>4, ExtractEmpty DEF Heard
    <3> QED BY <2>3, <2>4, <3>1, DownwardNothing
  <2>7. e = 0
    <3>1. Upward(c, v, lo, hi, e) = <<>>
      BY <2>2, <2>4, <2>5, ExtractEmpty DEF Said
    <3>2. v \in 0 .. 1 /\ lo \in Nat /\ hi \in Nat /\ lo <= hi /\ e \in 0 .. 2 /\ c \in Id
      BY <2>3, <2>4
    <3> QED BY <3>1, <3>2, UpwardSilent, ZenonT(20)
  <2>8. t = 0
    <3>1. PICK l, n : l = k.yields - m /\ n = k.yields /\ l \in Nat /\ n \in Nat /\ l <= n
      BY <2>3, <2>4
    <3>2. l <= n
      BY <3>1
    <3>3. Upward(c, u, l, n, t) = <<>>
      BY <2>2, <2>4, <2>5, <3>1, ExtractEmpty DEF Queues
    <3>4. u \in 0 .. 1 /\ t \in 0 .. 2 /\ c \in Id
      BY <2>3, <2>4
    <3> QED BY <3>1, <3>2, <3>3, <3>4, UpwardSilent, ZenonT(20)
  <2>9. k.st = "gone"
    BY <2>1, <2>3, <2>6 DEF StageOK
  <2>10. k.unsent \/ e > 0 \/ t > 0
    BY <2>1, <2>3, <2>9 DEF StageOK
  <2> QED BY <2>1, <2>7, <2>8, <2>10
<1> QED BY <1>1, ReverseKept, PTL

-----------------------------------------------------------------------------
(* The two sides agree.                                                       *)

(* The daemon has no cause to refuse a frame.                                 *)
LEMMA DaemonAgrees == LinkInv /\ ReverseInv => ~DaemonRefuses
<1> SUFFICES ASSUME LinkInv, ReverseInv, toDaemon # <<>>, RefusedByDaemon(Head(toDaemon).frame)
             PROVE  FALSE
  BY DEF DaemonRefuses
<1>1. PICK f, c : f = Head(toDaemon).frame /\ c = f.call /\ c \in ReverseId
  BY DEF RefusedByDaemon
<1>2. PICK d, k : d = reverse[c] /\ k = incoming[c]
  OBVIOUS
<1>3. PICK a, w, x, v, lo, hi, e, u, m, t :
        /\ Said(toDaemon, c, v, lo, hi, e)
        /\ BookOK(d, k, aborted, c, a, w, x, v, lo, hi, e, u, m, t)
  BY <1>1, <1>2, RevParts
<1>4. /\ d \in ReverseCall /\ d.credit \in Nat /\ k.credit \in Nat /\ a \in 0 .. 3 /\ w \in Nat
      /\ v \in 0 .. 1 /\ lo \in Nat /\ hi \in Nat /\ lo <= hi /\ e \in 0 .. 2 /\ u \in 0 .. 1
      /\ m \in 0 .. 1 /\ k.yields \in Nat /\ k \in IncomingCall
      /\ StageOK(d, k, a, w, x, v, lo, hi, e, u, m, t)
      /\ OrderOK(k, aborted, c, lo, hi, v, e, u, m, t)
      /\ FundsOK(d, k, a, w, lo, hi, v, u, m) /\ CallerOK(d, k, c, lo)
  BY <1>1, <1>3, BookParts
<1>5. c \in Id /\ toDaemon \in Seq(SentType) /\ 1 \in Nat /\ Head(toDaemon).frame.call = c
  BY <1>1 DEF Id, LinkInv
<1>6. /\ d.lent \in 0 .. 1 /\ d.buffered \in Nat
      /\ d.st \in {"idle", "pending", "retired", "done"}
  BY <1>4, ReverseFields, ReverseConstants
<1>7. \/ v = 1 /\ f = Counted("window", c, 1)
      \/ v = 0 /\ lo < hi /\ f = Counted("payload", c, lo + 1)
      \/ v = 0 /\ lo = hi /\ e > 0 /\ f = Counted("end", c, e - 1)
  BY <1>1, <1>3, <1>4, <1>5, SaidHead
<1>8. ~Still(v, lo, hi, e, u, m, t)
  BY <1>4, <1>7 DEF Still
<1>9. d.st \in {"pending", "retired"}
  BY <1>4, <1>6, <1>8 DEF StageOK
<1>10. \/ f.kind = "payload" /\ d.credit = 0
       \/ f.kind = "payload" /\ c \in ReverseUnary /\ d.buffered = 1
       \/ f.kind = "window" /\ d.lent = 0
  BY <1>1, <1>2, <1>9 DEF RefusedByDaemon
<1>11. CASE v = 1 /\ f = Counted("window", c, 1)
  <2>1. f.kind = "window"
    BY <1>5, <1>11, FrameFacts
  <2>2. PICK y : y = One(a) /\ y \in Nat
    BY DEF One
  <2>3. v + u + y <= d.lent
    BY <1>4, <2>2 DEF FundsOK
  <2>4. d.lent # 0
    <3>1. PICK l \in Int : l = d.lent
      BY <1>6
    <3>2. 1 + u + y <= l
      BY <1>11, <2>3, <3>1
    <3>3. l # 0
      BY <1>4, <2>2, <3>1, <3>2
    <3> QED BY <3>1, <3>3
  <2> QED BY <1>10, <2>1, <2>4
<1>12. CASE v = 0 /\ lo < hi /\ f = Counted("payload", c, lo + 1)
  <2>1. f.kind = "payload"
    BY <1>4, <1>5, <1>12, FrameFacts
  <2>2. PICK y, z : y = d.credit /\ z = k.credit /\ y \in Nat /\ z \in Nat
    BY <1>4
  <2>3. z + w + (hi - lo) + m <= y
    BY <1>4, <2>2 DEF FundsOK
  <2>4. d.credit # 0
    <3>1. w \in Nat /\ m \in 0 .. 1 /\ lo \in Nat /\ hi \in Nat /\ lo < hi
      BY <1>4, <1>12
    <3>2. y # 0
      BY <2>2, <2>3, <3>1
    <3> QED BY <2>2, <3>2
  <2>5. c \in ReverseUnary /\ d.buffered = 1
    BY <1>10, <2>1, <2>4
  <2>6. PICK n : n = k.yields /\ n \in Nat /\ n <= 1 /\ 1 <= lo /\ hi + m <= n
    BY <1>4, <2>5 DEF CallerOK, OrderOK
  <2> QED BY <1>4, <1>12, <2>6
<1>13. CASE v = 0 /\ lo = hi /\ e > 0 /\ f = Counted("end", c, e - 1)
  <2>1. e - 1 \in Nat
    BY <1>4, <1>13
  <2>2. f.kind = "end"
    BY <1>5, <1>13, <2>1, FrameFacts
  <2> QED BY <1>10, <2>2
<1> QED BY <1>7, <1>11, <1>12, <1>13

(* The client serves calls that the daemon knows.                             *)
LEMMA ServingKnown ==
    ASSUME LinkInv, ReverseInv
    PROVE  Serving \subseteq Known
<1> SUFFICES ASSUME NEW b \in Serving PROVE b \in Known
  OBVIOUS
<1>1. b \in ReverseId /\ incoming[b].st \in {"receiving", "running"}
  BY DEF Serving
<1>2. \E a, w, x, v, lo, hi, e, u, m, t :
         StageOK(reverse[b], incoming[b], a, w, x, v, lo, hi, e, u, m, t)
  BY <1>1, RevParts, BookParts
<1>3. reverse[b].st \in {"pending", "retired"}
  BY <1>1, <1>2 DEF StageOK
<1> QED BY <1>1, <1>3 DEF Known

(* There is room for a call the daemon starts.                                *)
LEMMA RoomForStart ==
    ASSUME LinkInv, ReverseInv, NEW c \in ReverseId, c \in Known, c \notin Serving
    PROVE  ~(Cardinality(Serving) >= MaxIncoming)
<1>1. PICK K, S : K = Known /\ S = Serving /\ S \subseteq K /\ c \in K /\ c \notin S
  BY ServingKnown
<1>2. IsFiniteSet(K) /\ Cardinality(K) <= MaxReverse /\ Cardinality(K) \in Nat
  BY <1>1, FS_CardinalityType DEF ReverseInv
<1>3. IsFiniteSet(S) /\ Cardinality(S) \in Nat
  BY <1>1, <1>2, FS_Subset, FS_CardinalityType
<1>4. Cardinality(S \cup {c}) = Cardinality(S) + 1 /\ S \cup {c} \subseteq K
  BY <1>1, <1>3, FS_AddElement
<1>5. Cardinality(S \cup {c}) <= Cardinality(K)
  BY <1>2, <1>4, FS_Subset
<1>6. ~(Cardinality(S) >= MaxIncoming)
  BY <1>2, <1>3, <1>4, <1>5, ReverseConstants
<1> QED BY <1>1, <1>6

(* The client refuses a frame only of a call that was too slow.               *)
LEMMA ClientAgrees ==
    LinkInv /\ ReverseInv /\ ClientRefuses => \E c \in ReverseId : incoming[c].early
<1> SUFFICES ASSUME LinkInv, ReverseInv, toClient # <<>>, RefusedByClient(Head(toClient))
             PROVE  \E c \in ReverseId : incoming[c].early
  BY DEF ClientRefuses
<1>1. PICK f, c : f = Head(toClient) /\ c = f.call /\ c \in ReverseId
  BY DEF RefusedByClient
<1>2. PICK d, k : d = reverse[c] /\ k = incoming[c]
  OBVIOUS
<1>3. PICK a, w, x, v, lo, hi, e, u, m, t :
        /\ Heard(toClient, c, a, w, x)
        /\ BookOK(d, k, aborted, c, a, w, x, v, lo, hi, e, u, m, t)
  BY <1>1, <1>2, RevParts
<1>4. /\ d \in ReverseCall /\ d.credit \in Nat /\ k.credit \in Nat /\ a \in 0 .. 3 /\ w \in Nat
      /\ x \in 0 .. 1 /\ lo \in Nat /\ hi \in Nat /\ lo <= hi /\ m \in 0 .. 1
      /\ k \in IncomingCall /\ StageOK(d, k, a, w, x, v, lo, hi, e, u, m, t)
      /\ FundsOK(d, k, a, w, lo, hi, v, u, m)
  BY <1>1, <1>3, BookParts
<1>5. c \in Id /\ toClient \in Seq(FrameType) /\ Head(toClient).call = c
  BY <1>1 DEF Id, LinkInv
<1>6. k.st \in {"absent", "receiving", "running", "gone"} /\ d.credit \in 0 .. ReverseCredit
  BY <1>4, IncomingFields, ReverseFields
<1>7. \/ a > 0 /\ f = Request(c, 4 - a)
      \/ a = 0 /\ w > 0 /\ f = Counted("window", c, 1)
      \/ a = 0 /\ w = 0 /\ x = 1 /\ f = Frame("cancel", c)
  BY <1>1, <1>3, <1>4, <1>5, HeardHead
<1>8. \/ f.kind = "start" /\ Cardinality(Serving) >= MaxIncoming
      \/ f.kind \in {"payload", "end"} /\ k.st \notin {"receiving", "running"}
      \/ f.kind = "payload" /\ k.request
      \/ f.kind \in {"cancel", "window"} /\ k.st = "absent"
      \/ f.kind = "window" /\ k.st # "gone" /\ k.credit = ReverseCredit
  BY <1>1, <1>2 DEF RefusedByClient
<1>9. CASE a > 0 /\ f = Request(c, 4 - a)
  <2>1. a = 1 \/ a = 2 \/ a = 3
    BY <1>4, <1>9
  <2>2. CASE a = 3
    <3>1. f = Request(c, 1)
      BY <1>9, <2>2
    <3>2. f.kind = "start"
      BY <1>5, <3>1, RequestFacts DEF Frame
    <3>3. k.st = "absent" /\ d.st \in {"pending", "retired"}
      BY <1>4, <1>6, <2>2 DEF StageOK
    <3>4. c \in Known /\ c \notin Serving
      BY <1>1, <1>2, <3>3 DEF Known, Serving
    <3>5. Cardinality(Serving) >= MaxIncoming
      BY <1>8, <3>2
    <3> QED BY <1>1, <3>4, <3>5, RoomForStart
  <2>3. CASE a = 2
    <3>1. f = Request(c, 2)
      BY <1>9, <2>3
    <3>2. f.kind = "payload"
      BY <1>5, <3>1, RequestFacts DEF Frame
    <3>3. k.st = "gone" /\ k.early
      <4>1. k.st = "receiving" \/ k.st = "gone"
        BY <1>4, <1>6, <2>3 DEF StageOK
      <4>2. k.st # "receiving"
        BY <1>4, <1>8, <2>3, <3>2 DEF StageOK
      <4> QED BY <1>4, <2>3, <4>1, <4>2 DEF StageOK
    <3> QED BY <1>1, <1>2, <3>3
  <2>4. CASE a = 1
    <3>1. f = Request(c, 3)
      BY <1>9, <2>4
    <3>2. f.kind = "end"
      BY <1>5, <3>1, RequestFacts DEF Frame
    <3>3. k.st \notin {"receiving", "running"}
      BY <1>8, <3>2
    <3>4. k.st = "gone" /\ k.early
      BY <1>4, <1>6, <2>4, <3>3 DEF StageOK
    <3> QED BY <1>1, <1>2, <3>4
  <2> QED BY <2>1, <2>2, <2>3, <2>4
<1>10. CASE a = 0 /\ w > 0 /\ f = Counted("window", c, 1)
  <2>1. f.kind = "window"
    BY <1>5, <1>10, FrameFacts
  <2>2. k.st # "absent" /\ k.st # "receiving"
    BY <1>4, <1>10 DEF StageOK
  <2>3. k.st # "gone" /\ k.credit = ReverseCredit
    BY <1>8, <2>1, <2>2
  <2>4. PICK y, z : y = d.credit /\ z = k.credit /\ y \in Nat /\ z \in Nat /\ y <= z
    BY <1>4, <1>6, <2>3, ReverseConstants
  <2>5. z + w + (hi - lo) + m <= y
    BY <1>4, <2>4 DEF FundsOK
  <2>6. w \in Nat /\ w > 0 /\ lo \in Nat /\ hi \in Nat /\ lo <= hi /\ m \in 0 .. 1
    BY <1>4, <1>10
  <2>7. PICK n \in Nat : n = hi - lo
    BY <2>6
  <2>8. z + w + n + m <= y
    BY <2>5, <2>7
  <2> QED BY <2>4, <2>6, <2>7, <2>8
<1>11. CASE a = 0 /\ w = 0 /\ x = 1 /\ f = Frame("cancel", c)
  <2>1. f.kind = "cancel"
    BY <1>5, <1>11, FrameFacts
  <2>2. k.st # "absent"
    BY <1>4, <1>11 DEF StageOK
  <2> QED BY <1>8, <2>1, <2>2
<1> QED BY <1>7, <1>9, <1>10, <1>11

(* The two sides agree on what the reverse calls are, so ReverseCalls never has *)
(* to end the session for a frame of the client, and IncomingCalls throws only *)
(* after a timer that fired before the request of its call was whole.         *)
THEOREM ReverseSidesAgree == Spec => []ReverseAgreed
<1>1. LinkInv /\ ReverseInv => ReverseAgreed
  BY DaemonAgrees, ClientAgrees DEF ReverseAgreed
<1> QED BY <1>1, ReverseKept, PTL

-----------------------------------------------------------------------------
(* The credit.                                                                *)

(* The credit on its way to the client.                                       *)
LEMMA CreditUnderWay ==
    ASSUME NEW q \in Seq(FrameType), NEW c \in Id, NEW a \in 0 .. 3, NEW w \in Nat,
           NEW x \in 0 .. 1, Heard(q, c, a, w, x)
    PROVE  Cardinality(OfKindIn(q, c, "window")) = w
<1>1. PICK s : s = Downward(c, a, w, x) /\ s \in Seq(FrameType) /\ Extract(q, c, s)
  BY DownwardType DEF Heard
<1>2. IsFiniteSet(OfKind(s, "window")) /\ Cardinality(OfKind(s, "window")) = w
  BY <1>1, DownwardCount
<1> QED BY <1>1, <1>2, ExtractCount

(* The payloads on their way to the daemon.                                   *)
LEMMA PayloadsUnderWay ==
    ASSUME NEW p \in Seq(SentType), NEW c \in Id, NEW v \in 0 .. 1, NEW lo \in Nat,
           NEW hi \in Nat, lo <= hi, NEW e \in 0 .. 2, Said(p, c, v, lo, hi, e)
    PROVE  Cardinality(OfKindIn(FramesOf(p), c, "payload")) = hi - lo
<1>1. PICK f : f = FramesOf(p) /\ f \in Seq(FrameType)
  BY FramesFacts
<1>2. PICK s : s = Upward(c, v, lo, hi, e) /\ s \in Seq(FrameType) /\ Extract(f, c, s)
  BY <1>1, UpwardType DEF Said
<1>3. IsFiniteSet(OfKind(s, "payload")) /\ Cardinality(OfKind(s, "payload")) = hi - lo
  BY <1>2, UpwardCount
<1> QED BY <1>1, <1>2, <1>3, ExtractCount

(* The payloads that wait in the queue of the client.                         *)
LEMMA WaitingCount ==
    ASSUME NEW o, Holds(o), NEW c \in ReverseId, NEW u \in 0 .. 1, NEW n \in Nat,
           NEW m \in 0 .. 1, m <= n, NEW t \in 0 .. 2, Queues(o, c, u, n, m, t)
    PROVE  Cardinality({i \in DOMAIN o : o[i].signal = c}) = m
<1>1. /\ o \in Seq(BatchType) /\ (\A i \in DOMAIN o : BatchOK(o[i])) /\ OutboxOK(o)
      /\ c \in Id /\ c # None
  BY ReverseConstants DEF Holds, Id
<1>2. PICK l \in Nat : l = n - m /\ l <= n /\ n - l = m
  OBVIOUS
<1>3. PICK f, z : /\ f = FirstsOf(o) /\ z = Len(o) /\ f \in Seq(FrameType) /\ Len(f) = z
                  /\ (\A i \in 1 .. z : f[i] = o[i].frames[1]) /\ DOMAIN o = 1 .. z
  BY <1>1, FirstsFacts, LenProperties
<1>4. l <= n
  BY <1>2
<1>5. PICK s : s = Upward(c, u, l, n, t) /\ s \in Seq(FrameType) /\ Extract(f, c, s)
  BY <1>1, <1>2, <1>3, <1>4, UpwardType DEF Queues
<1>6. IsFiniteSet(OfKind(s, "payload")) /\ Cardinality(OfKind(s, "payload")) = n - l
  BY <1>1, <1>4, <1>5, UpwardCount
<1>7. Cardinality(OfKindIn(f, c, "payload")) = n - l
  BY <1>3, <1>5, <1>6, ExtractCount
<1>8. ASSUME NEW i \in 1 .. z
      PROVE  o[i].signal = c <=> f[i].kind = "payload" /\ f[i].call = c
  <2>1. PICK b : b = o[i] /\ BatchOK(b) /\ f[i] = b.frames[1]
    BY <1>1, <1>3
  <2>2. PICK a \in Id : Of(b, a) /\ Single(b, a)
    BY <1>1, <1>3, <2>1 DEF OutboxOK
  <2>3. f[i].call = a
    BY <2>1, <2>2, FirstFrame
  <2>4. b.signal = c => a = c
    BY <1>1, <2>2 DEF Of
  <2>5. a = c => (b.signal = c <=> b.frames[1].kind = "payload")
    BY <2>2 DEF Single
  <2> QED BY <2>1, <2>3, <2>4, <2>5
<1>9. {i \in DOMAIN o : o[i].signal = c} = OfKindIn(f, c, "payload")
  BY <1>3, <1>8 DEF OfKindIn
<1> QED BY <1>2, <1>7, <1>9

(* Flow control of a reverse stream invents and loses no credit: what the     *)
(* handler may send, what is queued, under way or buffered, and the credit on *)
(* its way back make up INITIAL_CALL_CREDIT_BYTES while both sides know the call. *)
THEOREM ReverseCreditKept == Spec => []ReverseCreditConserved
<1>1. LinkInv /\ ReverseInv => ReverseCreditConserved
  <2> SUFFICES ASSUME LinkInv, ReverseInv, NEW c \in ReverseStream,
                      reverse[c].st = "pending", incoming[c].st = "running"
               PROVE  incoming[c].credit + reverse[c].buffered
                        + Cardinality({i \in DOMAIN outbox : outbox[i].signal = c})
                        + Cardinality({i \in DOMAIN toDaemon :
                            toDaemon[i].frame.call = c /\ toDaemon[i].frame.kind = "payload"})
                        + Cardinality({i \in DOMAIN toClient :
                            toClient[i].call = c /\ toClient[i].kind = "window"})
                      = ReverseCredit
    BY DEF ReverseCreditConserved
  <2>1. c \in ReverseId /\ c \in Id
    BY DEF ReverseId, Id
  <2>2. PICK d, k : d = reverse[c] /\ k = incoming[c]
    OBVIOUS
  <2>3. PICK a, w, x, v, lo, hi, e, u, m, t :
          /\ Heard(toClient, c, a, w, x) /\ Said(toDaemon, c, v, lo, hi, e)
          /\ Queues(outbox, c, u, k.yields, m, t)
          /\ BookOK(d, k, aborted, c, a, w, x, v, lo, hi, e, u, m, t)
    BY <2>1, <2>2, RevParts
  <2>4. /\ d \in ReverseCall /\ d.credit \in Nat /\ k.credit \in Nat /\ a \in 0 .. 3
        /\ w \in Nat /\ x \in 0 .. 1 /\ v \in 0 .. 1 /\ lo \in Nat /\ hi \in Nat /\ lo <= hi
        /\ e \in 0 .. 2 /\ u \in 0 .. 1 /\ m \in 0 .. 1 /\ t \in 0 .. 2 /\ k.yields \in Nat
        /\ OrderOK(k, aborted, c, lo, hi, v, e, u, m, t)
        /\ FundsOK(d, k, a, w, lo, hi, v, u, m)
    BY <2>1, <2>3, BookParts
  <2>5. PICK y : y = k.yields /\ y \in Nat /\ m <= y
    <3>1. PICK y : y = k.yields /\ y \in Nat /\ hi + m <= y
      BY <2>4 DEF OrderOK
    <3>2. m <= y
      BY <2>4, <3>1
    <3> QED BY <3>1, <3>2
  <2>6. Holds(outbox) /\ toClient \in Seq(FrameType) /\ toDaemon \in Seq(SentType)
    BY <2>1, OwnParts DEF Holds
  <2>7. Cardinality({i \in DOMAIN outbox : outbox[i].signal = c}) = m
    <3>1. PICK o : o = outbox
      OBVIOUS
    <3>2. Holds(o) /\ Queues(o, c, u, y, m, t) /\ y \in Nat /\ m <= y
      BY <2>3, <2>5, <2>6, <3>1
    <3>3. Cardinality({i \in DOMAIN o : o[i].signal = c}) = m
      BY <2>1, <2>4, <3>2, WaitingCount
    <3> QED BY <3>1, <3>3
  <2>8. /\ Cardinality({i \in DOMAIN toClient : toClient[i].call = c
                                                /\ toClient[i].kind = "window"}) = w
        /\ Cardinality({i \in DOMAIN toDaemon : toDaemon[i].frame.call = c
                                                /\ toDaemon[i].frame.kind = "payload"}) = hi - lo
    <3>1. PICK q, p : q = toClient /\ p = toDaemon
      OBVIOUS
    <3>2. /\ q \in Seq(FrameType) /\ p \in Seq(SentType) /\ Heard(q, c, a, w, x)
          /\ Said(p, c, v, lo, hi, e)
      BY <2>3, <2>6, <3>1
    <3>3. /\ Cardinality(OfKindIn(q, c, "window")) = w
          /\ Cardinality(OfKindIn(FramesOf(p), c, "payload")) = hi - lo
      <4>1. a \in 0 .. 3 /\ w \in Nat /\ x \in 0 .. 1
        BY <2>4
      <4>2. v \in 0 .. 1 /\ lo \in Nat /\ hi \in Nat /\ lo <= hi /\ e \in 0 .. 2
        BY <2>4
      <4>3. Cardinality(OfKindIn(q, c, "window")) = w
        BY <2>1, <3>2, <4>1, CreditUnderWay
      <4>4. Cardinality(OfKindIn(FramesOf(p), c, "payload")) = hi - lo
        BY <2>1, <3>2, <4>2, PayloadsUnderWay
      <4> QED BY <4>3, <4>4
    <3>4. {i \in DOMAIN q : q[i].call = c /\ q[i].kind = "window"} = OfKindIn(q, c, "window")
      <4>1. DOMAIN q = 1 .. Len(q)
        BY <3>2, LenProperties
      <4> QED BY <4>1 DEF OfKindIn
    <3>5. {i \in DOMAIN p : p[i].frame.call = c /\ p[i].frame.kind = "payload"}
            = OfKindIn(FramesOf(p), c, "payload")
      <4>1. PICK f, n : /\ f = FramesOf(p) /\ n = Len(p) /\ Len(f) = n
                        /\ \A i \in 1 .. n : f[i] = p[i].frame
        BY <3>2, FramesFacts
      <4>2. DOMAIN p = 1 .. n
        BY <3>2, <4>1, LenProperties
      <4> QED BY <4>1, <4>2 DEF OfKindIn
    <3> QED BY <3>1, <3>3, <3>4, <3>5
  <2>9. PICK dc, kc, b, n : /\ dc = d.credit /\ kc = k.credit /\ b = d.buffered /\ n = hi - lo
                            /\ dc \in Nat /\ kc \in Nat /\ b \in Nat /\ n \in Nat
    <3>1. d.buffered \in Nat
      BY <2>4, ReverseFields, ReverseConstants
    <3>2. hi - lo \in Nat
      BY <2>4
    <3> QED BY <2>4, <3>1, <3>2
  <2>10. kc + w + n + m = dc /\ dc + b = ReverseCredit
    BY <2>2, <2>4, <2>9 DEF FundsOK
  <2>11. kc + b + m + n + w = ReverseCredit
    BY <2>4, <2>9, <2>10
  <2> QED BY <2>2, <2>7, <2>8, <2>9, <2>11
<1> QED BY <1>1, ReverseKept, PTL
=============================================================================
