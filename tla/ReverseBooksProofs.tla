------------------------- MODULE ReverseBooksProofs --------------------------
(* Lemmas about one reverse call, without the rest of the connection: the     *)
(* frames of a call among those of a queue, the sequences of frames that a    *)
(* call can have under way, and what each operation of either side does to the *)
(* two records of a call and to the numbers that describe its frames.         *)
EXTENDS PeerFrames, FiniteSetTheorems, SequenceTheorems, FunctionTheorems, TLAPS

-----------------------------------------------------------------------------
(* The frames of one call among those of a queue.                             *)

(* The places g[1], g[2], ... are those where q speaks of call c.             *)
Picks(g, q, c, n) ==
    /\ g \in [1 .. n -> 1 .. Len(q)]
    /\ \A i, j \in 1 .. n : i < j => g[i] < g[j]
    /\ \A i \in 1 .. Len(q) : q[i].call = c <=> \E j \in 1 .. n : g[j] = i

(* What q says of call c, in order, is s.                                     *)
Extract(q, c, s) ==
    \E g : Picks(g, q, c, Len(s)) /\ \A j \in 1 .. Len(s) : q[g[j]] = s[j]

(* Frames of other calls do not matter at the end of a queue.                 *)
LEMMA ExtractMore ==
    ASSUME NEW q \in Seq(FrameType), NEW q2 \in Seq(FrameType), NEW c,
           NEW s \in Seq(FrameType), Extract(q, c, s), Len(q) <= Len(q2),
           \A i \in 1 .. Len(q) : q2[i] = q[i],
           \A i \in Len(q) + 1 .. Len(q2) : q2[i].call # c
    PROVE  Extract(q2, c, s)
<1>1. PICK g : Picks(g, q, c, Len(s)) /\ \A j \in 1 .. Len(s) : q[g[j]] = s[j]
  BY DEF Extract
<1>2. PICK l, m, n : /\ l = Len(q) /\ m = Len(q2) /\ n = Len(s) /\ l \in Nat /\ m \in Nat
                     /\ n \in Nat /\ l <= m
  BY LenProperties
<1>3. /\ 1 .. l \subseteq 1 .. m /\ \A i \in 1 .. m : i \in 1 .. l \/ i \in l + 1 .. m
      /\ \A i \in 1 .. l : i \notin l + 1 .. m
  BY <1>2
<1>4. /\ g \in [1 .. n -> 1 .. l] /\ \A i, j \in 1 .. n : i < j => g[i] < g[j]
      /\ \A i \in 1 .. l : q[i].call = c <=> \E j \in 1 .. n : g[j] = i
  BY <1>1, <1>2 DEF Picks
<1>5. g \in [1 .. n -> 1 .. m] /\ \A j \in 1 .. n : g[j] \in 1 .. l
  BY <1>3, <1>4
<1>6. \A i \in 1 .. m : q2[i].call = c <=> \E j \in 1 .. n : g[j] = i
  BY <1>2, <1>3, <1>4, <1>5
<1>7. Picks(g, q2, c, n)
  BY <1>2, <1>4, <1>5, <1>6 DEF Picks
<1>8. \A j \in 1 .. n : q2[g[j]] = s[j]
  BY <1>1, <1>2, <1>5
<1> QED BY <1>2, <1>7, <1>8 DEF Extract

(* A frame of the call joins the queue.                                       *)
LEMMA ExtractAppend ==
    ASSUME NEW q \in Seq(FrameType), NEW c, NEW s \in Seq(FrameType), Extract(q, c, s),
           NEW f \in FrameType, f.call = c
    PROVE  Extract(Append(q, f), c, Append(s, f))
<1>1. PICK g : Picks(g, q, c, Len(s)) /\ \A j \in 1 .. Len(s) : q[g[j]] = s[j]
  BY DEF Extract
<1>2. PICK l, n : l = Len(q) /\ n = Len(s) /\ l \in Nat /\ n \in Nat
  BY LenProperties
<1>3. PICK q2, s2 : q2 = Append(q, f) /\ s2 = Append(s, f)
  OBVIOUS
<1>4. /\ Len(q2) = l + 1 /\ q2[l + 1] = f /\ \A i \in 1 .. l : q2[i] = q[i]
      /\ Len(s2) = n + 1 /\ s2[n + 1] = f /\ \A i \in 1 .. n : s2[i] = s[i]
  BY <1>2, <1>3, AppendProperties
<1>5. PICK h : h = [j \in 1 .. n + 1 |-> IF j \in 1 .. n THEN g[j] ELSE l + 1]
  OBVIOUS
<1>6. /\ \A i \in 1 .. l + 1 : i \in 1 .. l \/ i = l + 1
      /\ \A j \in 1 .. n + 1 : j \in 1 .. n \/ j = n + 1
      /\ l + 1 \in 1 .. l + 1 /\ n + 1 \in 1 .. n + 1 /\ n + 1 \notin 1 .. n
      /\ 1 .. l \subseteq 1 .. l + 1 /\ 1 .. n \subseteq 1 .. n + 1
      /\ \A i \in 1 .. l : i < l + 1 /\ i # l + 1
      /\ \A j \in 1 .. n : ~(n + 1 < j)
      /\ ~(n + 1 < n + 1)
  BY <1>2
<1>7. /\ g \in [1 .. n -> 1 .. l] /\ \A i, j \in 1 .. n : i < j => g[i] < g[j]
      /\ \A i \in 1 .. l : q[i].call = c <=> \E j \in 1 .. n : g[j] = i
  BY <1>1, <1>2 DEF Picks
<1>8. h[n + 1] = l + 1 /\ \A j \in 1 .. n : h[j] = g[j] /\ h[j] \in 1 .. l
  BY <1>5, <1>6, <1>7
<1>9. h \in [1 .. n + 1 -> 1 .. l + 1]
  BY <1>5, <1>6, <1>7
<1>10. \A i, j \in 1 .. n + 1 : i < j => h[i] < h[j]
  BY <1>6, <1>7, <1>8
<1>11. ASSUME NEW i \in 1 .. l + 1
       PROVE  q2[i].call = c <=> \E j \in 1 .. n + 1 : h[j] = i
  <2>1. CASE i \in 1 .. l
    <3>1. q2[i].call = c <=> \E j \in 1 .. n : g[j] = i
      BY <1>4, <1>7, <2>1
    <3>2. h[n + 1] # i /\ \A j \in 1 .. n : h[j] = g[j]
      BY <1>6, <1>8, <2>1
    <3>3. (\E j \in 1 .. n : g[j] = i) <=> \E j \in 1 .. n + 1 : h[j] = i
      BY <1>6, <3>2, ZenonT(20)
    <3> QED BY <3>1, <3>3
  <2>2. CASE i = l + 1
    <3>1. q2[i].call = c
      BY <1>4, <2>2
    <3>2. h[n + 1] = i /\ n + 1 \in 1 .. n + 1
      BY <1>6, <1>8, <2>2
    <3> QED BY <3>1, <3>2, ZenonT(20)
  <2> QED BY <1>6, <2>1, <2>2
<1>12. ASSUME NEW j \in 1 .. n + 1
       PROVE  q2[h[j]] = s2[j]
  <2>1. CASE j \in 1 .. n
    <3>1. PICK p : p = g[j] /\ p \in 1 .. l /\ h[j] = p
      BY <1>8, <2>1
    <3>2. q2[p] = q[p] /\ s2[j] = s[j]
      BY <1>4, <2>1, <3>1
    <3>3. q[p] = s[j]
      BY <1>1, <1>2, <2>1, <3>1
    <3> QED BY <3>1, <3>2, <3>3
  <2>2. CASE j = n + 1
    BY <1>4, <1>8, <2>2
  <2> QED BY <1>6, <2>1, <2>2
<1>13. Picks(h, q2, c, n + 1)
  BY <1>4, <1>9, <1>10, <1>11 DEF Picks
<1>14. /\ Picks(h, q2, c, Len(s2)) /\ \A j \in 1 .. Len(s2) : q2[h[j]] = s2[j]
  BY <1>4, <1>12, <1>13
<1>15. Extract(q2, c, s2)
  BY <1>14 DEF Extract
<1> QED BY <1>3, <1>15

(* A frame of another call leaves the queue.                                  *)
LEMMA ExtractSkip ==
    ASSUME NEW q \in Seq(FrameType), q # <<>>, NEW c, NEW s \in Seq(FrameType),
           Extract(q, c, s), Head(q).call # c
    PROVE  Extract(Tail(q), c, s)
<1>1. PICK g : Picks(g, q, c, Len(s)) /\ \A j \in 1 .. Len(s) : q[g[j]] = s[j]
  BY DEF Extract
<1>2. PICK l, n : l = Len(q) /\ n = Len(s) /\ l \in Nat /\ n \in Nat /\ l # 0
  BY LenProperties, EmptySeq
<1>3. PICK t : t = Tail(q)
  OBVIOUS
<1>4. Len(t) = l - 1 /\ \A i \in 1 .. l - 1 : t[i] = q[i + 1]
  BY <1>2, <1>3, HeadTailProperties
<1>5. /\ 1 \in 1 .. l /\ \A i \in 1 .. l : i = 1 \/ (i - 1 \in 1 .. l - 1 /\ (i - 1) + 1 = i)
      /\ \A i \in 1 .. l - 1 : i + 1 \in 1 .. l /\ (i + 1) - 1 = i
      /\ \A i, j \in 1 .. l : i < j => i - 1 < j - 1
      /\ \A i, j \in 1 .. l : i - 1 = j - 1 => i = j
  BY <1>2
<1>6. /\ g \in [1 .. n -> 1 .. l] /\ \A i, j \in 1 .. n : i < j => g[i] < g[j]
      /\ \A i \in 1 .. l : q[i].call = c <=> \E j \in 1 .. n : g[j] = i
  BY <1>1, <1>2 DEF Picks
<1>7. q[1].call # c
  OBVIOUS
<1>8. \A j \in 1 .. n : g[j] \in 1 .. l /\ g[j] # 1 /\ g[j] - 1 \in 1 .. l - 1
  BY <1>5, <1>6, <1>7
<1>9. PICK h : h = [j \in 1 .. n |-> g[j] - 1]
  OBVIOUS
<1>10. h \in [1 .. n -> 1 .. l - 1] /\ \A j \in 1 .. n : h[j] = g[j] - 1
  BY <1>8, <1>9
<1>11. \A i, j \in 1 .. n : i < j => h[i] < h[j]
  BY <1>5, <1>6, <1>8, <1>10
<1>12. ASSUME NEW i \in 1 .. l - 1
       PROVE  t[i].call = c <=> \E j \in 1 .. n : h[j] = i
  <2>1. t[i] = q[i + 1] /\ i + 1 \in 1 .. l /\ (i + 1) - 1 = i
    BY <1>4, <1>5
  <2>2. ASSUME NEW j \in 1 .. n PROVE g[j] = i + 1 <=> h[j] = i
    BY <1>5, <1>8, <1>10, <2>1
  <2> QED BY <1>6, <2>1, <2>2
<1>13. ASSUME NEW j \in 1 .. n
       PROVE  t[h[j]] = s[j]
  <2>1. PICK p : p = g[j] /\ p \in 1 .. l /\ p - 1 \in 1 .. l - 1 /\ (p - 1) + 1 = p
    BY <1>5, <1>8
  <2>2. t[p - 1] = q[p]
    BY <1>4, <2>1
  <2>3. q[p] = s[j] /\ h[j] = p - 1
    BY <1>1, <1>2, <1>10, <2>1
  <2> QED BY <2>2, <2>3
<1>14. Picks(h, t, c, n)
  BY <1>4, <1>10, <1>11, <1>12 DEF Picks
<1> QED BY <1>2, <1>3, <1>13, <1>14 DEF Extract

(* The first frame of the queue is one of the call, and leaves it.            *)
LEMMA ExtractHead ==
    ASSUME NEW q \in Seq(FrameType), q # <<>>, NEW c, NEW s \in Seq(FrameType),
           Extract(q, c, s), Head(q).call = c
    PROVE  s # <<>> /\ Head(s) = Head(q) /\ Extract(Tail(q), c, Tail(s))
<1>1. PICK g : Picks(g, q, c, Len(s)) /\ \A j \in 1 .. Len(s) : q[g[j]] = s[j]
  BY DEF Extract
<1>2. PICK l, n : l = Len(q) /\ n = Len(s) /\ l \in Nat /\ n \in Nat /\ l # 0
  BY LenProperties, EmptySeq
<1>3. /\ 1 \in 1 .. l /\ \A i \in 1 .. l : i = 1 \/ (i - 1 \in 1 .. l - 1 /\ (i - 1) + 1 = i)
      /\ \A i \in 1 .. l - 1 : i + 1 \in 1 .. l /\ (i + 1) - 1 = i /\ i + 1 # 1
      /\ \A i, j \in 1 .. l : i < j => i - 1 < j - 1 /\ j # 1
      /\ \A i, j \in 1 .. l : i - 1 = j - 1 => i = j
      /\ \A i \in 1 .. l : ~(i < 1)
  BY <1>2
<1>4. /\ g \in [1 .. n -> 1 .. l] /\ \A i, j \in 1 .. n : i < j => g[i] < g[j]
      /\ \A i \in 1 .. l : q[i].call = c <=> \E j \in 1 .. n : g[j] = i
  BY <1>1, <1>2 DEF Picks
<1>5. q[1].call = c /\ q[1] = Head(q)
  OBVIOUS
<1>6. PICK m \in 1 .. n : g[m] = 1
  BY <1>3, <1>4, <1>5
<1>7. /\ 1 \in 1 .. n /\ n # 0 /\ \A j \in 1 .. n : j = 1 \/ 1 < j
      /\ \A j \in 1 .. n - 1 : j + 1 \in 1 .. n /\ 1 < j + 1
      /\ \A i, j \in 1 .. n - 1 : i < j => i + 1 < j + 1
      /\ \A j \in 1 .. n : j = 1 \/ (j - 1 \in 1 .. n - 1 /\ (j - 1) + 1 = j)
  BY <1>2, <1>6
<1>8. g[1] = 1
  BY <1>3, <1>4, <1>6, <1>7
<1>9. s # <<>> /\ Head(s) = s[1] /\ s[1] = q[1]
  BY <1>1, <1>2, <1>7, <1>8
<1>10. PICK t, z : t = Tail(q) /\ z = Tail(s)
  OBVIOUS
<1>11. /\ Len(t) = l - 1 /\ \A i \in 1 .. l - 1 : t[i] = q[i + 1]
       /\ Len(z) = n - 1 /\ \A j \in 1 .. n - 1 : z[j] = s[j + 1]
  BY <1>2, <1>9, <1>10, HeadTailProperties
<1>12. \A j \in 1 .. n - 1 : /\ g[j + 1] \in 1 .. l /\ g[j + 1] # 1 /\ g[j + 1] - 1 \in 1 .. l - 1
                             /\ (g[j + 1] - 1) + 1 = g[j + 1]
  BY <1>3, <1>4, <1>7, <1>8
<1>13. PICK h : h = [j \in 1 .. n - 1 |-> g[j + 1] - 1]
  OBVIOUS
<1>14. h \in [1 .. n - 1 -> 1 .. l - 1] /\ \A j \in 1 .. n - 1 : h[j] = g[j + 1] - 1
  BY <1>12, <1>13
<1>15. ASSUME NEW i \in 1 .. n - 1, NEW j \in 1 .. n - 1, i < j PROVE h[i] < h[j]
  <2>1. g[i + 1] < g[j + 1]
    BY <1>4, <1>7, <1>15
  <2>2. PICK p, r : p = g[i + 1] /\ r = g[j + 1] /\ p \in 1 .. l /\ r \in 1 .. l /\ p < r
    BY <1>12, <2>1
  <2>3. p - 1 < r - 1
    BY <1>3, <2>2
  <2>4. h[i] = p - 1 /\ h[j] = r - 1
    BY <1>14, <2>2
  <2> QED BY <2>3, <2>4
<1>16. ASSUME NEW i \in 1 .. l - 1
       PROVE  t[i].call = c <=> \E j \in 1 .. n - 1 : h[j] = i
  <2>1. t[i] = q[i + 1] /\ i + 1 \in 1 .. l /\ (i + 1) - 1 = i /\ i + 1 # 1
    BY <1>3, <1>11
  <2>2. ASSUME NEW j \in 1 .. n - 1 PROVE g[j + 1] = i + 1 <=> h[j] = i
    <3>1. PICK p : p = g[j + 1] /\ p \in 1 .. l /\ h[j] = p - 1
      BY <1>12, <1>14
    <3>2. p \in Int /\ i \in Int
      BY <3>1
    <3>3. p = i + 1 <=> p - 1 = i
      BY <3>2
    <3> QED BY <3>1, <3>3
  <2>3. q[i + 1].call = c <=> \E j \in 1 .. n : g[j] = i + 1
    BY <1>4, <2>1
  <2>4. (\E j \in 1 .. n : g[j] = i + 1) <=> \E j \in 1 .. n - 1 : g[j + 1] = i + 1
    BY <1>7, <1>8, <2>1
  <2> QED BY <2>1, <2>2, <2>3, <2>4
<1>17. ASSUME NEW j \in 1 .. n - 1
       PROVE  t[h[j]] = z[j]
  <2>1. PICK p : /\ p = g[j + 1] /\ p - 1 \in 1 .. l - 1 /\ (p - 1) + 1 = p /\ h[j] = p - 1
                 /\ j + 1 \in 1 .. n
    BY <1>7, <1>12, <1>14
  <2>2. t[p - 1] = q[p]
    BY <1>11, <2>1
  <2>3. q[p] = s[j + 1] /\ z[j] = s[j + 1]
    BY <1>1, <1>2, <1>11, <2>1
  <2> QED BY <2>1, <2>2, <2>3
<1>18. Picks(h, t, c, Len(z)) /\ \A j \in 1 .. Len(z) : t[h[j]] = z[j]
  BY <1>11, <1>14, <1>15, <1>16, <1>17 DEF Picks
<1>19. Extract(t, c, z)
  BY <1>18 DEF Extract
<1> QED BY <1>5, <1>9, <1>10, <1>19

(* Nothing is said.                                                           *)
LEMMA ExtractNothing ==
    ASSUME NEW q \in Seq(FrameType), NEW c, \A i \in 1 .. Len(q) : q[i].call # c
    PROVE  Extract(q, c, <<>>)
<1>1. PICK g : g = [j \in 1 .. 0 |-> 1]
  OBVIOUS
<1>2. (1 .. 0) = {} /\ Len(<<>>) = 0
  OBVIOUS
<1>3. Picks(g, q, c, 0)
  BY <1>1, <1>2 DEF Picks
<1>4. \A j \in 1 .. 0 : q[g[j]] = <<>>[j]
  BY <1>2
<1> QED BY <1>2, <1>3, <1>4 DEF Extract

(* A queue that is empty says nothing.                                        *)
LEMMA ExtractEmpty ==
    ASSUME NEW c, NEW s \in Seq(FrameType), Extract(<<>>, c, s)
    PROVE  s = <<>>
<1>1. PICK g : Picks(g, <<>>, c, Len(s))
  BY DEF Extract
<1>2. PICK n : n = Len(s) /\ n \in Nat
  BY LenProperties
<1>3. g \in [1 .. n -> 1 .. 0]
  BY <1>1, <1>2 DEF Picks
<1>4. 1 \notin 1 .. n
  BY <1>3
<1>5. n = 0
  BY <1>2, <1>4
<1> QED BY <1>2, <1>5, EmptySeq

(* The places of the frames of one kind, and of those that are of call c.     *)
OfKind(s, kind)      == {j \in 1 .. Len(s) : s[j].kind = kind}
OfKindIn(q, c, kind) == {i \in 1 .. Len(q) : q[i].kind = kind /\ q[i].call = c}

(* The frames of one kind are as many in the queue as in what it says.        *)
LEMMA ExtractCount ==
    ASSUME NEW q \in Seq(FrameType), NEW c, NEW s \in Seq(FrameType), Extract(q, c, s),
           NEW kind, IsFiniteSet(OfKind(s, kind))
    PROVE  Cardinality(OfKindIn(q, c, kind)) = Cardinality(OfKind(s, kind))
<1>1. PICK g : Picks(g, q, c, Len(s)) /\ \A j \in 1 .. Len(s) : q[g[j]] = s[j]
  BY DEF Extract
<1>2. PICK l, n : l = Len(q) /\ n = Len(s) /\ l \in Nat /\ n \in Nat
  BY LenProperties
<1>3. PICK T, S : /\ T = {i \in 1 .. l : q[i].kind = kind /\ q[i].call = c}
                  /\ S = {j \in 1 .. n : s[j].kind = kind}
  OBVIOUS
<1>4. PICK h : h = [j \in S |-> g[j]]
  OBVIOUS
<1>5. /\ g \in [1 .. n -> 1 .. l] /\ \A i, j \in 1 .. n : i < j => g[i] < g[j]
      /\ \A i \in 1 .. l : q[i].call = c <=> \E j \in 1 .. n : g[j] = i
  BY <1>1, <1>2 DEF Picks
<1>6. \A j \in 1 .. n : g[j] \in 1 .. l /\ q[g[j]] = s[j] /\ q[g[j]].call = c
  BY <1>1, <1>2, <1>5
<1>7. h \in [S -> T]
  BY <1>3, <1>4, <1>6
<1>8. \A i, j \in 1 .. n : i < j \/ j < i \/ i = j
  BY <1>2
<1>9. \A i, j \in 1 .. l : i < j => i # j
  BY <1>2
<1>10. \A i, j \in S : h[i] = h[j] => i = j
  BY <1>3, <1>4, <1>5, <1>6, <1>8, <1>9
<1>11. ASSUME NEW i \in T
       PROVE  \E j \in S : h[j] = i
  <2>1. i \in 1 .. l /\ q[i].kind = kind /\ q[i].call = c
    BY <1>3
  <2>2. PICK j \in 1 .. n : g[j] = i
    BY <1>5, <2>1
  <2>3. s[j] = q[i]
    BY <1>6, <2>2
  <2>4. j \in S
    BY <1>3, <2>1, <2>3
  <2>5. h[j] = i
    BY <1>4, <2>2, <2>4
  <2> QED BY <2>4, <2>5
<1>12. h \in Bijection(S, T)
  BY <1>7, <1>10, <1>11, Fun_IsBij DEF Injection
<1>13. Cardinality(T) = Cardinality(S)
  <2>1. IsFiniteSet(S)
    BY <1>2, <1>3 DEF OfKind
  <2> QED BY <1>12, <2>1, FS_Bijection DEF ExistsBijection
<1> QED BY <1>2, <1>3, <1>13 DEF OfKind, OfKindIn

-----------------------------------------------------------------------------
(* What a queue says of one reverse call.                                     *)

(* What is said to the client of one of the daemon's calls: the last a frames *)
(* of its request, then w bytes of credit, then x Cancel frames.              *)
Request(c, i) == Frame(<<"start", "payload", "end">>[i], c)
Downward(c, a, w, x) ==
    [j \in 1 .. a + w + x |->
        IF j <= a THEN Request(c, 3 - a + j)
        ELSE IF j <= a + w THEN Counted("window", c, 1) ELSE Frame("cancel", c)]

(* What is said to the daemon: v bytes of credit, the payloads after the      *)
(* lo-th up to the hi-th, and when e is not 0 the CallEnd that carries e - 1. *)
One(e) == IF e > 0 THEN 1 ELSE 0
Upward(c, v, lo, hi, e) ==
    [j \in 1 .. v + (hi - lo) + One(e) |->
        IF j <= v THEN Counted("window", c, 1)
        ELSE IF j <= v + (hi - lo) THEN Counted("payload", c, lo + (j - v))
        ELSE Counted("end", c, e - 1)]

(* One frame.                                                                 *)
LEMMA OneFrame ==
    ASSUME NEW a \in Id, NEW kind \in {"start", "payload", "end", "cancel", "window"},
           NEW n \in Nat
    PROVE  /\ Frame(kind, a) \in FrameType /\ Counted(kind, a, n) \in FrameType
           /\ Frame(kind, a).call = a /\ Counted(kind, a, n).call = a
           /\ Frame(kind, a).kind = kind /\ Counted(kind, a, n).kind = kind
BY DEF Frame, Counted, FrameType

(* The frames of a request.                                                   *)
LEMMA RequestFacts ==
    ASSUME NEW c \in Id
    PROVE  /\ Request(c, 1) = Frame("start", c) /\ Request(c, 2) = Frame("payload", c)
           /\ Request(c, 3) = Frame("end", c)
           /\ \A i \in 1 .. 3 : Request(c, i) \in FrameType /\ Request(c, i).call = c
                                /\ Request(c, i).kind # "window"
<1>1. /\ Request(c, 1) = Frame("start", c) /\ Request(c, 2) = Frame("payload", c)
      /\ Request(c, 3) = Frame("end", c)
  BY DEF Request
<1>2. \A i \in 1 .. 3 : i = 1 \/ i = 2 \/ i = 3
  OBVIOUS
<1>3. ASSUME NEW kind \in {"start", "payload", "end"}
      PROVE  /\ Frame(kind, c) \in FrameType /\ Frame(kind, c).call = c
             /\ Frame(kind, c).kind # "window"
  BY DEF Frame, FrameType
<1> QED BY <1>1, <1>2, <1>3

(* They are frames of the call.                                               *)
LEMMA DownwardType ==
    ASSUME NEW c \in Id, NEW a \in 0 .. 3, NEW w \in Nat, NEW x \in 0 .. 1
    PROVE  Downward(c, a, w, x) \in Seq(FrameType) /\ Len(Downward(c, a, w, x)) = a + w + x
<1>1. PICK n \in Nat : n = a + w + x
  OBVIOUS
<1>2. PICK s : s = Downward(c, a, w, x)
  OBVIOUS
<1>3. /\ Counted("window", c, 1) \in FrameType /\ Frame("cancel", c) \in FrameType
  BY OneFrame
<1>4. \A j \in 1 .. n : j <= a => 3 - a + j \in 1 .. 3
  BY <1>1
<1>5. \A j \in 1 .. n : s[j] \in FrameType
  BY <1>1, <1>2, <1>3, <1>4, RequestFacts DEF Downward
<1>6. s = [j \in 1 .. n |-> s[j]]
  BY <1>1, <1>2 DEF Downward
<1> QED BY <1>1, <1>2, <1>5, <1>6

(* And those are too.                                                         *)
LEMMA UpwardType ==
    ASSUME NEW c \in Id, NEW v \in 0 .. 1, NEW lo \in Nat, NEW hi \in Nat, lo <= hi,
           NEW e \in 0 .. 2
    PROVE  /\ Upward(c, v, lo, hi, e) \in Seq(FrameType)
           /\ Len(Upward(c, v, lo, hi, e)) = v + (hi - lo) + One(e)
<1>1. PICK n \in Nat : n = v + (hi - lo) + One(e) /\ One(e) \in 0 .. 1 /\ (One(e) = 1 <=> e > 0)
  BY DEF One
<1>2. PICK s : s = Upward(c, v, lo, hi, e)
  OBVIOUS
<1>3. Counted("window", c, 1) \in FrameType
  BY OneFrame
<1>4. ASSUME NEW j \in 1 .. n PROVE s[j] \in FrameType
  <2>1. s[j] = IF j <= v THEN Counted("window", c, 1)
               ELSE IF j <= v + (hi - lo) THEN Counted("payload", c, lo + (j - v))
               ELSE Counted("end", c, e - 1)
    BY <1>1, <1>2 DEF Upward
  <2>2. CASE j <= v
    BY <1>3, <2>1, <2>2
  <2>3. CASE ~(j <= v) /\ j <= v + (hi - lo)
    <3>1. lo + (j - v) \in Nat
      BY <2>3
    <3> QED BY <2>1, <2>3, <3>1, OneFrame
  <2>4. CASE ~(j <= v) /\ ~(j <= v + (hi - lo))
    <3>1. e - 1 \in Nat
      BY <1>1, <2>4
    <3> QED BY <2>1, <2>4, <3>1, OneFrame
  <2> QED BY <2>2, <2>3, <2>4
<1>5. s = [j \in 1 .. n |-> s[j]]
  BY <1>1, <1>2 DEF Upward
<1> QED BY <1>1, <1>2, <1>4, <1>5

(* Two sequences of frames with the same places.                              *)
LEMMA SameFrames ==
    ASSUME NEW s \in Seq(FrameType), NEW z \in Seq(FrameType), NEW n, Len(s) = n,
           Len(z) = n, \A j \in 1 .. n : s[j] = z[j]
    PROVE  s = z
BY SeqEqual

(* The first of the frames to the client, and what comes after it.            *)
DownwardNext(s, c, a, w, x) ==
    \/ a > 0 /\ Head(s) = Request(c, 4 - a) /\ Tail(s) = Downward(c, a - 1, w, x)
    \/ /\ a = 0 /\ w > 0 /\ Head(s) = Counted("window", c, 1)
       /\ Tail(s) = Downward(c, 0, w - 1, x)
    \/ /\ a = 0 /\ w = 0 /\ x = 1 /\ Head(s) = Frame("cancel", c)
       /\ Tail(s) = Downward(c, 0, 0, 0)

(* The frames to the client have no other first.                              *)
LEMMA DownwardHead ==
    ASSUME NEW c \in Id, NEW a \in 0 .. 3, NEW w \in Nat, NEW x \in 0 .. 1,
           Downward(c, a, w, x) # <<>>
    PROVE  DownwardNext(Downward(c, a, w, x), c, a, w, x)
<1>1. PICK s : s = Downward(c, a, w, x)
  OBVIOUS
<1>2. PICK n \in Nat : n = a + w + x
  OBVIOUS
<1>3. s \in Seq(FrameType) /\ Len(s) = n
  BY <1>1, <1>2, DownwardType
<1>4. n > 0
  BY <1>1, <1>3, EmptySeq
<1>5. /\ Head(s) = s[1] /\ Tail(s) \in Seq(FrameType) /\ Len(Tail(s)) = n - 1
      /\ \A j \in 1 .. n - 1 : Tail(s)[j] = s[j + 1]
  BY <1>1, <1>3, <1>4, HeadTailProperties
<1>6. PICK t : t = Tail(s)
  OBVIOUS
<1>7. \A j \in 1 .. n : s[j] = IF j <= a THEN Request(c, 3 - a + j)
          ELSE IF j <= a + w THEN Counted("window", c, 1) ELSE Frame("cancel", c)
  BY <1>1, <1>2 DEF Downward
<1>8. \A j \in 1 .. n - 1 : j + 1 \in 1 .. n
  BY <1>2
<1>9. \A j \in 1 .. n - 1 : t[j] = IF j + 1 <= a THEN Request(c, 3 - a + (j + 1))
          ELSE IF j + 1 <= a + w THEN Counted("window", c, 1) ELSE Frame("cancel", c)
  BY <1>5, <1>6, <1>7, <1>8
<1>10. ASSUME NEW a2 \in 0 .. 3, NEW w2 \in Nat, NEW x2 \in 0 .. 1, a2 + w2 + x2 = n - 1,
              \A j \in 1 .. n - 1 : t[j] = IF j <= a2 THEN Request(c, 3 - a2 + j)
                  ELSE IF j <= a2 + w2 THEN Counted("window", c, 1) ELSE Frame("cancel", c)
       PROVE  t = Downward(c, a2, w2, x2)
  <2>1. PICK z : z = Downward(c, a2, w2, x2)
    OBVIOUS
  <2>2. z \in Seq(FrameType) /\ Len(z) = n - 1
    BY <1>10, <2>1, DownwardType
  <2>3. \A j \in 1 .. n - 1 : z[j] = t[j]
    BY <1>10, <2>1 DEF Downward
  <2>4. t \in Seq(FrameType) /\ Len(t) = n - 1
    BY <1>5, <1>6
  <2>5. z = t
    BY <2>2, <2>3, <2>4, SameFrames
  <2> QED BY <2>1, <2>5
<1>11. CASE a > 0
  <2>1. s[1] = Request(c, 3 - a + 1) /\ 3 - a + 1 = 4 - a
    BY <1>2, <1>4, <1>7, <1>11
  <2>2. a - 1 \in 0 .. 3 /\ (a - 1) + w + x = n - 1
    BY <1>2, <1>11
  <2>3. \A j \in 1 .. n - 1 : /\ (j + 1 <= a <=> j <= a - 1)
                              /\ (j + 1 <= a + w <=> j <= (a - 1) + w)
                              /\ 3 - a + (j + 1) = 3 - (a - 1) + j
    OBVIOUS
  <2>4. t = Downward(c, a - 1, w, x)
    BY <1>9, <1>10, <2>2, <2>3
  <2> QED BY <1>1, <1>5, <1>6, <1>11, <2>1, <2>4 DEF DownwardNext
<1>12. CASE a = 0 /\ w > 0
  <2>1. s[1] = Counted("window", c, 1)
    BY <1>2, <1>4, <1>7, <1>12
  <2>2. w - 1 \in Nat /\ 0 + (w - 1) + x = n - 1
    BY <1>2, <1>12
  <2>3. \A j \in 1 .. n - 1 : ~(j + 1 <= a) /\ ~(j <= 0)
                              /\ (j + 1 <= a + w <=> j <= 0 + (w - 1))
    BY <1>12
  <2>4. t = Downward(c, 0, w - 1, x)
    <3>1. \A j \in 1 .. n - 1 : t[j] = IF j <= 0 + (w - 1) THEN Counted("window", c, 1)
                                       ELSE Frame("cancel", c)
      BY <1>9, <2>3
    <3> QED BY <1>10, <2>2, <2>3, <3>1
  <2> QED BY <1>1, <1>5, <1>6, <1>12, <2>1, <2>4 DEF DownwardNext
<1>13. CASE a = 0 /\ w = 0
  <2>1. x = 1 /\ n = 1
    BY <1>2, <1>4, <1>13
  <2>2. s[1] = Frame("cancel", c)
    BY <1>7, <1>13, <2>1
  <2>3. \A j \in 1 .. n - 1 : FALSE
    BY <2>1
  <2>4. t = Downward(c, 0, 0, 0)
    BY <1>10, <2>1, <2>3
  <2> QED BY <1>1, <1>5, <1>6, <1>13, <2>1, <2>2, <2>4 DEF DownwardNext
<1> QED BY <1>11, <1>12, <1>13

(* Nothing is said to the client.                                             *)
LEMMA DownwardNothing ==
    ASSUME NEW c \in Id, NEW a \in 0 .. 3, NEW w \in Nat, NEW x \in 0 .. 1
    PROVE  Downward(c, a, w, x) = <<>> <=> a = 0 /\ w = 0 /\ x = 0
<1>1. PICK s : s = Downward(c, a, w, x)
  OBVIOUS
<1>2. s \in Seq(FrameType) /\ Len(s) = a + w + x
  BY <1>1, DownwardType
<1>3. s = <<>> <=> a + w + x = 0
  BY <1>2, EmptySeq
<1> QED BY <1>1, <1>3

(* Three frames, one by one.                                                  *)
LEMMA ThreeFrames ==
    ASSUME NEW q \in Seq(FrameType), NEW f \in FrameType, NEW g \in FrameType,
           NEW h \in FrameType
    PROVE  Append(Append(Append(q, f), g), h) = q \o <<f, g, h>>
<1>1. PICK n \in Nat : n = Len(q)
  BY LenProperties
<1>2. PICK r, s, t : r = Append(q, f) /\ s = Append(r, g) /\ t = Append(s, h)
  OBVIOUS
<1>3. /\ r \in Seq(FrameType) /\ Len(r) = n + 1 /\ r[n + 1] = f
      /\ \A i \in 1 .. n : r[i] = q[i]
  BY <1>1, <1>2, AppendProperties
<1>4. /\ s \in Seq(FrameType) /\ Len(s) = n + 2 /\ s[n + 2] = g
      /\ \A i \in 1 .. n + 1 : s[i] = r[i]
  BY <1>2, <1>3, AppendProperties
<1>5. /\ t \in Seq(FrameType) /\ Len(t) = n + 3 /\ t[n + 3] = h
      /\ \A i \in 1 .. n + 2 : t[i] = s[i]
  BY <1>2, <1>4, AppendProperties
<1>6. PICK x, y : x = <<f, g, h>> /\ y = q \o x
  OBVIOUS
<1>7. x \in Seq(FrameType) /\ Len(x) = 3 /\ x[1] = f /\ x[2] = g /\ x[3] = h
  BY <1>6
<1>8. /\ y \in Seq(FrameType) /\ Len(y) = n + 3
      /\ \A i \in 1 .. n + 3 : y[i] = IF i <= n THEN q[i] ELSE x[i - n]
  BY <1>1, <1>6, <1>7, ConcatProperties
<1>9. ASSUME NEW i \in 1 .. n + 3 PROVE t[i] = y[i]
  <2>1. CASE i \in 1 .. n
    <3>1. i \in 1 .. n + 1 /\ i \in 1 .. n + 2 /\ i <= n
      BY <2>1
    <3> QED BY <1>3, <1>4, <1>5, <1>8, <2>1, <3>1
  <2>2. CASE i = n + 1
    <3>1. i \in 1 .. n + 1 /\ i \in 1 .. n + 2 /\ ~(i <= n) /\ i - n = 1
      BY <2>2
    <3> QED BY <1>3, <1>4, <1>5, <1>7, <1>8, <2>2, <3>1
  <2>3. CASE i = n + 2
    <3>1. i \in 1 .. n + 2 /\ ~(i <= n) /\ i - n = 2
      BY <2>3
    <3> QED BY <1>4, <1>5, <1>7, <1>8, <2>3, <3>1
  <2>4. CASE i = n + 3
    <3>1. ~(i <= n) /\ i - n = 3
      BY <2>4
    <3> QED BY <1>5, <1>7, <1>8, <2>4, <3>1
  <2> QED BY <2>1, <2>2, <2>3, <2>4
<1>10. t = y
  BY <1>5, <1>8, <1>9, SameFrames
<1> QED BY <1>2, <1>6, <1>10

(* A frame joins those to the client.                                         *)
LEMMA DownwardAppend ==
    ASSUME NEW c \in Id, NEW a \in 0 .. 3, NEW w \in Nat
    PROVE  /\ Append(Downward(c, a, w, 0), Counted("window", c, 1)) = Downward(c, a, w + 1, 0)
           /\ Append(Downward(c, a, w, 0), Frame("cancel", c)) = Downward(c, a, w, 1)
           /\ Append(Append(Append(<<>>, Frame("start", c)), Frame("payload", c)),
                     Frame("end", c)) = Downward(c, 3, 0, 0)
<1>1. PICK s : s = Downward(c, a, w, 0)
  OBVIOUS
<1>2. PICK n \in Nat : n = a + w
  OBVIOUS
<1>3. s \in Seq(FrameType) /\ Len(s) = n
  <2>1. 0 \in 0 .. 1 /\ a + w + 0 = n
    BY <1>2
  <2> QED BY <1>1, <2>1, DownwardType
<1>4. \A j \in 1 .. n : s[j] = IF j <= a THEN Request(c, 3 - a + j)
          ELSE IF j <= a + w THEN Counted("window", c, 1) ELSE Frame("cancel", c)
  BY <1>1, <1>2 DEF Downward
<1>5. \A j \in 1 .. n + 1 : j \in 1 .. n \/ (j = n + 1 /\ ~(j <= a) /\ ~(j <= a + w)
                                              /\ j <= a + (w + 1))
  BY <1>2
<1>6. \A j \in 1 .. n : j <= a + w /\ j <= a + (w + 1)
  BY <1>2
<1>7. ASSUME NEW f \in FrameType
      PROVE  /\ Append(s, f) \in Seq(FrameType) /\ Len(Append(s, f)) = n + 1
             /\ Append(s, f)[n + 1] = f /\ \A j \in 1 .. n : Append(s, f)[j] = s[j]
  BY <1>3, AppendProperties
<1>8. Append(s, Counted("window", c, 1)) = Downward(c, a, w + 1, 0)
  <2>1. PICK f \in FrameType : f = Counted("window", c, 1)
    BY OneFrame
  <2>2. PICK z, y : z = Downward(c, a, w + 1, 0) /\ y = Append(s, f)
    OBVIOUS
  <2>3. a + (w + 1) + 0 = n + 1 /\ w + 1 \in Nat /\ 0 \in 0 .. 1
    BY <1>2
  <2>4. z \in Seq(FrameType) /\ Len(z) = n + 1
    BY <2>2, <2>3, DownwardType
  <2>5. \A j \in 1 .. n + 1 : z[j] = IF j <= a THEN Request(c, 3 - a + j)
          ELSE IF j <= a + (w + 1) THEN f ELSE Frame("cancel", c)
    BY <2>1, <2>2, <2>3 DEF Downward
  <2>6. ASSUME NEW j \in 1 .. n + 1
        PROVE  z[j] = y[j]
    <3>1. CASE j \in 1 .. n
      <4>1. z[j] = IF j <= a THEN Request(c, 3 - a + j) ELSE f
        BY <1>6, <2>5, <3>1
      <4>2. s[j] = IF j <= a THEN Request(c, 3 - a + j) ELSE f
        BY <1>4, <1>6, <2>1, <3>1
      <4>3. y[j] = s[j]
        BY <1>7, <2>2, <3>1
      <4> QED BY <4>1, <4>2, <4>3
    <3>2. CASE j \notin 1 .. n
      <4>1. j = n + 1 /\ ~(j <= a) /\ j <= a + (w + 1)
        BY <1>5, <3>2
      <4>2. y[j] = f
        BY <1>7, <2>2, <4>1
      <4> QED BY <2>5, <4>1, <4>2
    <3> QED BY <3>1, <3>2
  <2> QED BY <1>7, <2>1, <2>2, <2>4, <2>6, SameFrames
<1>9. Append(s, Frame("cancel", c)) = Downward(c, a, w, 1)
  <2>1. PICK f \in FrameType : f = Frame("cancel", c)
    BY OneFrame
  <2>2. PICK z, y : z = Downward(c, a, w, 1) /\ y = Append(s, f)
    OBVIOUS
  <2>3. a + w + 1 = n + 1 /\ 1 \in 0 .. 1
    BY <1>2
  <2>4. z \in Seq(FrameType) /\ Len(z) = n + 1
    BY <2>2, <2>3, DownwardType
  <2>5. \A j \in 1 .. n + 1 : z[j] = IF j <= a THEN Request(c, 3 - a + j)
          ELSE IF j <= a + w THEN Counted("window", c, 1) ELSE f
    BY <2>1, <2>2, <2>3 DEF Downward
  <2>6. \A j \in 1 .. n + 1 : z[j] = y[j]
    BY <1>4, <1>5, <1>6, <1>7, <2>1, <2>2, <2>5
  <2> QED BY <1>7, <2>1, <2>2, <2>4, <2>6, SameFrames
<1>10. Append(Append(Append(<<>>, Frame("start", c)), Frame("payload", c)), Frame("end", c))
         = Downward(c, 3, 0, 0)
  <2>1. PICK f \in FrameType, g \in FrameType, h \in FrameType :
          f = Frame("start", c) /\ g = Frame("payload", c) /\ h = Frame("end", c)
    BY OneFrame
  <2>2. PICK z, y : z = Downward(c, 3, 0, 0) /\ y = <<f, g, h>>
    OBVIOUS
  <2>3. Append(Append(Append(<<>>, f), g), h) = y
    <3>1. <<>> \in Seq(FrameType) /\ <<>> \o <<f, g, h>> = <<f, g, h>>
      OBVIOUS
    <3> QED BY <2>2, <3>1, ThreeFrames
  <2>4. z \in Seq(FrameType) /\ Len(z) = 3
    <3>1. 3 \in 0 .. 3 /\ 0 \in Nat /\ 0 \in 0 .. 1 /\ 3 + 0 + 0 = 3
      OBVIOUS
    <3> QED BY <2>2, <3>1, DownwardType
  <2>5. \A j \in 1 .. 3 : z[j] = Request(c, 3 - 3 + j)
    BY <2>2 DEF Downward
  <2>6. z[1] = f /\ z[2] = g /\ z[3] = h
    BY <2>1, <2>5, RequestFacts
  <2>7. y \in Seq(FrameType) /\ Len(y) = 3 /\ y[1] = f /\ y[2] = g /\ y[3] = h
    BY <2>2
  <2>8. \A j \in 1 .. 3 : z[j] = y[j]
    <3>1. \A j \in 1 .. 3 : j = 1 \/ j = 2 \/ j = 3
      OBVIOUS
    <3> QED BY <2>6, <2>7, <3>1
  <2>9. z = y
    BY <2>4, <2>7, <2>8, SameFrames
  <2> QED BY <2>1, <2>2, <2>3, <2>9
<1> QED BY <1>1, <1>8, <1>9, <1>10

(* Frames without credit.                                                     *)
LEMMA UpwardRest ==
    ASSUME NEW c \in Id, NEW l \in Nat, NEW hi \in Nat, l <= hi, NEW d \in 0 .. 2,
           NEW t \in Seq(FrameType), Len(t) = (hi - l) + One(d),
           \A j \in 1 .. Len(t) : t[j] = IF j <= hi - l THEN Counted("payload", c, l + j)
                                         ELSE Counted("end", c, d - 1)
    PROVE  t = Upward(c, 0, l, hi, d)
<1>1. PICK m \in Nat : m = Len(t)
  BY LenProperties
<1>2. PICK v \in 0 .. 1 : v = 0
  OBVIOUS
<1>3. PICK z : z = Upward(c, v, l, hi, d)
  OBVIOUS
<1>4. z \in Seq(FrameType) /\ Len(z) = v + (hi - l) + One(d)
  BY <1>3, UpwardType, ZenonT(20)
<1>5. v + (hi - l) + One(d) = m
  <2>1. One(d) \in Nat
    BY DEF One
  <2> QED BY <1>1, <1>2, <2>1
<1>6. \A j \in 1 .. m : /\ (j <= v + (hi - l) <=> j <= hi - l) /\ ~(j <= v)
                        /\ l + (j - v) = l + j
  BY <1>1, <1>2
<1>7. \A j \in 1 .. m : z[j] = IF j <= v THEN Counted("window", c, 1)
                  ELSE IF j <= v + (hi - l) THEN Counted("payload", c, l + (j - v))
                  ELSE Counted("end", c, d - 1)
  BY <1>3, <1>5 DEF Upward
<1>8. \A j \in 1 .. m : z[j] = t[j]
  BY <1>1, <1>6, <1>7
<1>9. Len(z) = m /\ Len(t) = m
  BY <1>1, <1>4, <1>5
<1>10. z = t
  BY <1>4, <1>8, <1>9, SameFrames
<1> QED BY <1>2, <1>3, <1>10

(* The first of the frames to the daemon, and what comes after it.            *)
UpwardNext(s, c, v, lo, hi, e) ==
    \/ v = 1 /\ Head(s) = Counted("window", c, 1) /\ Tail(s) = Upward(c, 0, lo, hi, e)
    \/ /\ v = 0 /\ lo < hi /\ Head(s) = Counted("payload", c, lo + 1)
       /\ Tail(s) = Upward(c, 0, lo + 1, hi, e)
    \/ /\ v = 0 /\ lo = hi /\ e > 0 /\ Head(s) = Counted("end", c, e - 1)
       /\ Tail(s) = Upward(c, 0, lo, hi, 0)

(* The frames to the daemon have no other first.                              *)
LEMMA UpwardHead ==
    ASSUME NEW c \in Id, NEW v \in 0 .. 1, NEW lo \in Nat, NEW hi \in Nat, lo <= hi,
           NEW e \in 0 .. 2, Upward(c, v, lo, hi, e) # <<>>
    PROVE  UpwardNext(Upward(c, v, lo, hi, e), c, v, lo, hi, e)
<1>1. PICK s : s = Upward(c, v, lo, hi, e)
  OBVIOUS
<1>2. PICK i \in 0 .. 1 : i = One(e) /\ (i = 1 <=> e > 0)
  BY DEF One
<1>3. PICK n \in Nat : n = v + (hi - lo) + i
  OBVIOUS
<1>4. s \in Seq(FrameType) /\ Len(s) = n
  <2>1. s \in Seq(FrameType) /\ Len(s) = v + (hi - lo) + One(e)
    BY <1>1, UpwardType, ZenonT(20)
  <2> QED BY <1>2, <1>3, <2>1
<1>5. n > 0
  BY <1>1, <1>4, EmptySeq
<1>6. /\ Head(s) = s[1] /\ Tail(s) \in Seq(FrameType) /\ Len(Tail(s)) = n - 1
      /\ \A j \in 1 .. n - 1 : Tail(s)[j] = s[j + 1]
  BY <1>1, <1>4, <1>5, HeadTailProperties
<1>7. PICK t : t = Tail(s)
  OBVIOUS
<1>8. \A j \in 1 .. n : s[j] = IF j <= v THEN Counted("window", c, 1)
        ELSE IF j <= v + (hi - lo) THEN Counted("payload", c, lo + (j - v))
        ELSE Counted("end", c, e - 1)
  BY <1>1, <1>2, <1>3 DEF Upward
<1>9. \A j \in 1 .. n - 1 : j + 1 \in 1 .. n /\ ~(j <= 0)
  BY <1>3
<1>10. \A j \in 1 .. n - 1 : t[j] = IF j + 1 <= v THEN Counted("window", c, 1)
        ELSE IF j + 1 <= v + (hi - lo) THEN Counted("payload", c, lo + ((j + 1) - v))
        ELSE Counted("end", c, e - 1)
  BY <1>6, <1>7, <1>8, <1>9
<1>11. t \in Seq(FrameType) /\ Len(t) = n - 1
  BY <1>6, <1>7
<1>12. CASE v = 1
  <2>1. s[1] = Counted("window", c, 1)
    BY <1>3, <1>5, <1>8, <1>12
  <2>2. (hi - lo) + i = n - 1
    BY <1>3, <1>12
  <2>3. \A j \in 1 .. n - 1 : /\ ~(j + 1 <= v)
                              /\ (j + 1 <= v + (hi - lo) <=> j <= hi - lo)
                              /\ lo + ((j + 1) - v) = lo + j
    BY <1>12
  <2>4. /\ \A j \in 1 .. Len(t) : t[j] = IF j <= hi - lo THEN Counted("payload", c, lo + j)
                                         ELSE Counted("end", c, e - 1)
        /\ Len(t) = (hi - lo) + One(e)
    BY <1>2, <1>10, <1>11, <2>2, <2>3
  <2>5. t = Upward(c, 0, lo, hi, e)
    BY <1>11, <2>4, UpwardRest
  <2> QED BY <1>1, <1>6, <1>7, <1>12, <2>1, <2>5 DEF UpwardNext
<1>13. CASE v = 0 /\ lo < hi
  <2>1. s[1] = Counted("payload", c, lo + (1 - v)) /\ lo + (1 - v) = lo + 1
    BY <1>3, <1>5, <1>8, <1>13
  <2>2. (hi - (lo + 1)) + i = n - 1 /\ lo + 1 \in Nat /\ lo + 1 <= hi
    BY <1>3, <1>13
  <2>3. \A j \in 1 .. n - 1 : /\ ~(j + 1 <= v)
                              /\ (j + 1 <= v + (hi - lo) <=> j <= hi - (lo + 1))
                              /\ lo + ((j + 1) - v) = (lo + 1) + j
    BY <1>13
  <2>4. \A j \in 1 .. n - 1 : t[j] = IF j <= hi - (lo + 1)
                                     THEN Counted("payload", c, (lo + 1) + j)
                                     ELSE Counted("end", c, e - 1)
    BY <1>10, <2>3
  <2>5. t = Upward(c, 0, lo + 1, hi, e)
    <3>1. PICK l \in Nat : l = lo + 1 /\ l <= hi
      BY <2>2
    <3>2. /\ \A j \in 1 .. Len(t) : t[j] = IF j <= hi - l THEN Counted("payload", c, l + j)
                                           ELSE Counted("end", c, e - 1)
          /\ Len(t) = (hi - l) + One(e)
      BY <1>2, <1>11, <2>2, <2>4, <3>1
    <3>3. t = Upward(c, 0, l, hi, e)
      BY <1>11, <3>1, <3>2, UpwardRest
    <3> QED BY <3>1, <3>3
  <2> QED BY <1>1, <1>6, <1>7, <1>13, <2>1, <2>5 DEF UpwardNext
<1>14. CASE v = 0 /\ lo = hi
  <2>1. i = 1 /\ n = 1 /\ e > 0
    BY <1>2, <1>3, <1>5, <1>14
  <2>2. s[1] = Counted("end", c, e - 1)
    BY <1>8, <1>14, <2>1
  <2>3. (1 .. n - 1) = {} /\ One(0) = 0 /\ (hi - lo) + 0 = n - 1 /\ 0 \in 0 .. 2
    BY <1>14, <2>1 DEF One
  <2>4. t = Upward(c, 0, lo, hi, 0)
    <3>1. PICK d \in 0 .. 2 : d = 0 /\ (hi - lo) + One(d) = n - 1
      BY <2>3
    <3>2. /\ \A j \in 1 .. Len(t) : t[j] = IF j <= hi - lo THEN Counted("payload", c, lo + j)
                                           ELSE Counted("end", c, d - 1)
          /\ Len(t) = (hi - lo) + One(d)
      BY <1>11, <2>3, <3>1
    <3>3. t = Upward(c, 0, lo, hi, d)
      BY <1>11, <3>2, UpwardRest
    <3> QED BY <3>1, <3>3
  <2> QED BY <1>1, <1>6, <1>7, <1>14, <2>1, <2>2, <2>4 DEF UpwardNext
<1> QED BY <1>12, <1>13, <1>14

(* Nothing is said to the daemon.                                             *)
LEMMA UpwardNothing ==
    ASSUME NEW c \in Id, NEW v \in 0 .. 1, NEW lo \in Nat, NEW hi \in Nat, lo <= hi,
           NEW e \in 0 .. 2
    PROVE  Upward(c, v, lo, hi, e) = <<>> <=> v = 0 /\ lo = hi /\ e = 0
<1>1. PICK s : s = Upward(c, v, lo, hi, e)
  OBVIOUS
<1>2. PICK i \in 0 .. 1 : i = One(e) /\ (i = 1 <=> e > 0)
  BY DEF One
<1>3. s \in Seq(FrameType) /\ Len(s) = v + (hi - lo) + i
  <2>1. s \in Seq(FrameType) /\ Len(s) = v + (hi - lo) + One(e)
    BY <1>1, UpwardType, ZenonT(20)
  <2> QED BY <1>2, <2>1
<1>4. s = <<>> <=> v + (hi - lo) + i = 0
  BY <1>3, EmptySeq
<1> QED BY <1>1, <1>2, <1>4

(* No CallEnd is said then.                                                   *)
LEMMA UpwardSilent ==
    ASSUME NEW c \in Id, NEW v \in 0 .. 1, NEW lo \in Nat, NEW hi \in Nat, lo <= hi,
           NEW e \in 0 .. 2, Upward(c, v, lo, hi, e) = <<>>
    PROVE  e = 0
BY UpwardNothing

(* What is nothing has no number.                                             *)
LEMMA UpwardIdle ==
    ASSUME NEW c \in Id, NEW lo \in Nat
    PROVE  Upward(c, 0, lo, lo, 0) = <<>>
<1>1. 0 \in 0 .. 1 /\ 0 \in 0 .. 2 /\ lo <= lo
  OBVIOUS
<1> QED BY <1>1, UpwardNothing

(* A payload joins those to the daemon, or the CallEnd.                       *)
LEMMA UpwardAppend ==
    ASSUME NEW c \in Id, NEW v \in 0 .. 1, NEW lo \in Nat, NEW hi \in Nat, lo <= hi
    PROVE  /\ Append(Upward(c, v, lo, hi, 0), Counted("payload", c, hi + 1))
                = Upward(c, v, lo, hi + 1, 0)
           /\ \A n \in 0 .. 1 : Append(Upward(c, v, lo, hi, 0), Counted("end", c, n))
                                  = Upward(c, v, lo, hi, n + 1)
<1>1. PICK s : s = Upward(c, v, lo, hi, 0)
  OBVIOUS
<1>2. PICK n \in Nat : n = v + (hi - lo)
  OBVIOUS
<1>3. One(0) = 0 /\ \A i \in 0 .. 1 : One(i + 1) = 1
  BY DEF One
<1>4. 0 \in 0 .. 2 /\ v + (hi - lo) + 0 = n
  BY <1>2
<1>5. s \in Seq(FrameType) /\ Len(s) = n
  <2>1. s \in Seq(FrameType) /\ Len(s) = v + (hi - lo) + One(0)
    BY <1>1, <1>4, UpwardType, ZenonT(20)
  <2> QED BY <1>3, <1>4, <2>1
<1>6. \A j \in 1 .. n : s[j] = IF j <= v THEN Counted("window", c, 1)
        ELSE IF j <= v + (hi - lo) THEN Counted("payload", c, lo + (j - v))
        ELSE Counted("end", c, 0 - 1)
  BY <1>1, <1>3, <1>4 DEF Upward
<1>7. /\ \A j \in 1 .. n + 1 : j \in 1 .. n \/ (j = n + 1 /\ ~(j <= v) /\ ~(j <= v + (hi - lo)))
      /\ \A j \in 1 .. n : j <= v + (hi - lo) /\ j <= v + ((hi + 1) - lo)
      /\ n + 1 <= v + ((hi + 1) - lo) /\ lo + ((n + 1) - v) = hi + 1
  BY <1>2
<1>8. ASSUME NEW f \in FrameType
      PROVE  /\ Append(s, f) \in Seq(FrameType) /\ Len(Append(s, f)) = n + 1
             /\ Append(s, f)[n + 1] = f /\ \A j \in 1 .. n : Append(s, f)[j] = s[j]
  BY <1>5, AppendProperties
<1>9. Append(s, Counted("payload", c, hi + 1)) = Upward(c, v, lo, hi + 1, 0)
  <2>1. PICK f \in FrameType : f = Counted("payload", c, hi + 1)
    BY OneFrame
  <2>2. PICK z, y : z = Upward(c, v, lo, hi + 1, 0) /\ y = Append(s, f)
    OBVIOUS
  <2>3. v + ((hi + 1) - lo) + 0 = n + 1 /\ hi + 1 \in Nat /\ lo <= hi + 1
    BY <1>2
  <2>4. z \in Seq(FrameType) /\ Len(z) = n + 1
    <3>1. z \in Seq(FrameType) /\ Len(z) = v + ((hi + 1) - lo) + One(0)
      <4>1. PICK i : i = hi + 1
        OBVIOUS
      <4>2. z = Upward(c, v, lo, i, 0) /\ i \in Nat /\ lo <= i /\ 0 \in 0 .. 2
        BY <1>4, <2>2, <2>3, <4>1
      <4>3. z \in Seq(FrameType) /\ Len(z) = v + (i - lo) + One(0)
        BY <4>2, UpwardType, ZenonT(20)
      <4> QED BY <4>1, <4>3
    <3> QED BY <1>3, <2>3, <3>1
  <2>5. \A j \in 1 .. n + 1 : z[j] = IF j <= v THEN Counted("window", c, 1)
        ELSE IF j <= v + ((hi + 1) - lo) THEN Counted("payload", c, lo + (j - v))
        ELSE Counted("end", c, 0 - 1)
    BY <1>3, <2>2, <2>3 DEF Upward
  <2>6. ASSUME NEW j \in 1 .. n + 1
        PROVE  z[j] = y[j]
    <3>1. CASE j \in 1 .. n
      <4>1. z[j] = IF j <= v THEN Counted("window", c, 1) ELSE Counted("payload", c, lo + (j - v))
        BY <1>7, <2>5, <3>1
      <4>2. s[j] = IF j <= v THEN Counted("window", c, 1) ELSE Counted("payload", c, lo + (j - v))
        BY <1>6, <1>7, <3>1
      <4>3. y[j] = s[j]
        BY <1>8, <2>2, <3>1
      <4> QED BY <4>1, <4>2, <4>3
    <3>2. CASE j \notin 1 .. n
      <4>1. j = n + 1 /\ ~(j <= v) /\ j <= v + ((hi + 1) - lo) /\ lo + (j - v) = hi + 1
        BY <1>7, <3>2
      <4>2. y[j] = f
        BY <1>8, <2>2, <4>1
      <4> QED BY <2>1, <2>5, <4>1, <4>2
    <3> QED BY <3>1, <3>2
  <2> QED BY <1>8, <2>1, <2>2, <2>4, <2>6, SameFrames
<1>10. ASSUME NEW i \in 0 .. 1
       PROVE  Append(s, Counted("end", c, i)) = Upward(c, v, lo, hi, i + 1)
  <2>1. PICK f \in FrameType : f = Counted("end", c, i)
    BY OneFrame
  <2>2. PICK z, y : z = Upward(c, v, lo, hi, i + 1) /\ y = Append(s, f)
    OBVIOUS
  <2>3. v + (hi - lo) + 1 = n + 1 /\ i + 1 \in 0 .. 2 /\ (i + 1) - 1 = i
    BY <1>2
  <2>4. z \in Seq(FrameType) /\ Len(z) = n + 1
    <3>1. z \in Seq(FrameType) /\ Len(z) = v + (hi - lo) + One(i + 1)
      BY <2>2, <2>3, UpwardType, ZenonT(20)
    <3> QED BY <1>3, <2>3, <3>1
  <2>5. \A j \in 1 .. n + 1 : z[j] = IF j <= v THEN Counted("window", c, 1)
        ELSE IF j <= v + (hi - lo) THEN Counted("payload", c, lo + (j - v))
        ELSE Counted("end", c, (i + 1) - 1)
    BY <1>3, <2>2, <2>3 DEF Upward
  <2>6. \A j \in 1 .. n + 1 : z[j] = y[j]
    BY <1>6, <1>7, <1>8, <2>1, <2>2, <2>3, <2>5
  <2>7. y \in Seq(FrameType) /\ Len(y) = n + 1
    BY <1>8, <2>2
  <2>8. z = y
    BY <2>4, <2>6, <2>7, SameFrames
  <2> QED BY <2>1, <2>2, <2>8
<1> QED BY <1>1, <1>9, <1>10

(* The CallEnd alone.                                                         *)
LEMMA EndAppend ==
    ASSUME NEW c \in Id, NEW v \in 0 .. 1, NEW lo \in Nat, NEW hi \in Nat, lo <= hi,
           NEW n \in 0 .. 1
    PROVE  Append(Upward(c, v, lo, hi, 0), Counted("end", c, n)) = Upward(c, v, lo, hi, n + 1)
BY UpwardAppend, ZenonT(20)

(* The credit joins when nothing is under way.                                *)
LEMMA UpwardWindow ==
    ASSUME NEW c \in Id, NEW lo \in Nat
    PROVE  Append(<<>>, Counted("window", c, 1)) = Upward(c, 1, lo, lo, 0)
<1>1. PICK f \in FrameType : f = Counted("window", c, 1)
  BY OneFrame
<1>2. PICK z, y : z = Upward(c, 1, lo, lo, 0) /\ y = <<f>>
  OBVIOUS
<1>3. One(0) = 0 /\ 1 + (lo - lo) + 0 = 1 /\ 1 \in 0 .. 1 /\ 0 \in 0 .. 2 /\ lo <= lo
  BY DEF One
<1>4. z \in Seq(FrameType) /\ Len(z) = 1
  <2>1. z \in Seq(FrameType) /\ Len(z) = 1 + (lo - lo) + One(0)
    BY <1>2, <1>3, UpwardType
  <2> QED BY <1>3, <2>1
<1>5. \A j \in 1 .. 1 : z[j] = f
  <2>1. \A j \in 1 .. 1 : j <= 1
    OBVIOUS
  <2> QED BY <1>1, <1>2, <1>3, <2>1 DEF Upward
<1>6. y \in Seq(FrameType) /\ Len(y) = 1 /\ y[1] = f
  BY <1>2
<1>7. \A j \in 1 .. 1 : j = 1
  OBVIOUS
<1>8. z = y
  BY <1>4, <1>5, <1>6, <1>7, SameFrames
<1>9. Append(<<>>, f) = <<f>>
  OBVIOUS
<1> QED BY <1>1, <1>2, <1>8, <1>9

(* The frames of the sender's queue, without the gaps.                        *)
FramesOf(p) == [i \in 1 .. Len(p) |-> p[i].frame]

(* And the first frame of every batch that waits.                             *)
FirstsOf(o) == [i \in 1 .. Len(o) |-> o[i].frames[1]]

(* What FramesOf keeps.                                                       *)
LEMMA FramesFacts ==
    ASSUME NEW p \in Seq(SentType)
    PROVE  /\ FramesOf(p) \in Seq(FrameType) /\ Len(FramesOf(p)) = Len(p)
           /\ \A i \in 1 .. Len(p) : FramesOf(p)[i] = p[i].frame
           /\ \A e \in SentType : FramesOf(Append(p, e)) = Append(FramesOf(p), e.frame)
           /\ p # <<>> => /\ FramesOf(p) # <<>> /\ Head(FramesOf(p)) = Head(p).frame
                          /\ FramesOf(Tail(p)) = Tail(FramesOf(p))
<1>1. PICK n \in Nat : n = Len(p) /\ \A i \in 1 .. n : p[i] \in SentType
  BY LenProperties, ElementOfSeq
<1>2. PICK s : s = FramesOf(p)
  OBVIOUS
<1>3. \A e \in SentType : e.frame \in FrameType
  BY DEF SentType
<1>4. s = [i \in 1 .. n |-> p[i].frame]
  BY <1>1, <1>2 DEF FramesOf
<1>5. s \in Seq(FrameType) /\ Len(s) = n /\ \A i \in 1 .. n : s[i] = p[i].frame
  BY <1>1, <1>3, <1>4
<1>6. ASSUME NEW e \in SentType PROVE FramesOf(Append(p, e)) = Append(s, e.frame)
  <2>1. PICK q : q = Append(p, e)
    OBVIOUS
  <2>2. Len(q) = n + 1 /\ q[n + 1] = e /\ \A i \in 1 .. n : q[i] = p[i]
    BY <1>1, <2>1, AppendProperties
  <2>3. PICK f \in FrameType : f = e.frame
    BY <1>3
  <2>4. PICK y, z : y = Append(s, f) /\ z = FramesOf(q)
    OBVIOUS
  <2>5. /\ y \in Seq(FrameType) /\ Len(y) = n + 1 /\ y[n + 1] = f
        /\ \A i \in 1 .. n : y[i] = s[i]
    BY <1>5, <2>4, AppendProperties
  <2>6. z = [i \in 1 .. n + 1 |-> q[i].frame]
    BY <2>2, <2>4 DEF FramesOf
  <2>7. \A i \in 1 .. n + 1 : i \in 1 .. n \/ i = n + 1
    OBVIOUS
  <2>8. \A i \in 1 .. n + 1 : z[i] = y[i] /\ z[i] \in FrameType
    BY <1>1, <1>3, <1>5, <2>2, <2>3, <2>5, <2>6, <2>7
  <2>9. z \in Seq(FrameType) /\ Len(z) = n + 1
    BY <2>6, <2>8
  <2> QED BY <2>1, <2>3, <2>4, <2>5, <2>8, <2>9, SameFrames
<1>7. ASSUME p # <<>>
      PROVE  s # <<>> /\ Head(s) = Head(p).frame /\ FramesOf(Tail(p)) = Tail(s)
  <2>1. n > 0
    BY <1>1, <1>7, EmptySeq
  <2>2. s # <<>>
    BY <1>5, <2>1, EmptySeq
  <2>3. Head(s) = s[1] /\ Head(p) = p[1] /\ 1 \in 1 .. n
    BY <1>5, <1>7, <2>1, <2>2, HeadTailProperties
  <2>4. PICK q, y, z : q = Tail(p) /\ y = Tail(s) /\ z = FramesOf(q)
    OBVIOUS
  <2>5. /\ Len(q) = n - 1 /\ \A i \in 1 .. n - 1 : q[i] = p[i + 1]
        /\ Len(y) = n - 1 /\ \A i \in 1 .. n - 1 : y[i] = s[i + 1]
        /\ y \in Seq(FrameType)
    BY <1>1, <1>5, <1>7, <2>2, <2>4, HeadTailProperties
  <2>6. z = [i \in 1 .. n - 1 |-> q[i].frame]
    BY <2>4, <2>5 DEF FramesOf
  <2>7. \A i \in 1 .. n - 1 : i + 1 \in 1 .. n
    OBVIOUS
  <2>8. \A i \in 1 .. n - 1 : z[i] = y[i] /\ z[i] \in FrameType
    BY <1>1, <1>3, <1>5, <2>5, <2>6, <2>7
  <2>9. z \in Seq(FrameType) /\ Len(z) = n - 1
    <3>1. n - 1 \in Nat
      BY <2>1
    <3> QED BY <2>6, <2>8, <3>1
  <2>10. z = y
    BY <2>5, <2>8, <2>9, SameFrames
  <2> QED BY <1>5, <2>2, <2>3, <2>4, <2>10
<1> QED BY <1>1, <1>2, <1>5, <1>6, <1>7

(* What FirstsOf keeps.                                                       *)
LEMMA FirstsFacts ==
    ASSUME NEW o \in Seq(BatchType), \A i \in DOMAIN o : BatchOK(o[i])
    PROVE  /\ FirstsOf(o) \in Seq(FrameType) /\ Len(FirstsOf(o)) = Len(o)
           /\ \A i \in 1 .. Len(o) : FirstsOf(o)[i] = o[i].frames[1]
           /\ \A b : BatchOK(b) => FirstsOf(Append(o, b)) = Append(FirstsOf(o), b.frames[1])
           /\ o # <<>> => /\ FirstsOf(o) # <<>> /\ Head(FirstsOf(o)) = Head(o).frames[1]
                          /\ FirstsOf(Tail(o)) = Tail(FirstsOf(o))
<1>1. PICK n \in Nat : n = Len(o) /\ \A i \in 1 .. n : BatchOK(o[i])
  BY LenProperties
<1>2. PICK s : s = FirstsOf(o)
  OBVIOUS
<1>3. ASSUME NEW b, BatchOK(b) PROVE b.frames[1] \in FrameType
  <2>1. b.frames \in Seq(FrameType) /\ b.frames # <<>>
    BY <1>3 DEF BatchOK, BatchType
  <2>2. PICK g : g = b.frames
    OBVIOUS
  <2>3. g \in Seq(FrameType) /\ g # <<>>
    BY <2>1, <2>2
  <2>4. PICK m \in Nat : m = Len(g) /\ m # 0
    BY <2>3, LenProperties, EmptySeq
  <2>5. 1 \in 1 .. m
    BY <2>4
  <2>6. g[1] \in FrameType
    BY <2>3, <2>4, <2>5, ElementOfSeq
  <2> QED BY <2>2, <2>6
<1>4. s = [i \in 1 .. n |-> o[i].frames[1]]
  BY <1>1, <1>2 DEF FirstsOf
<1>5. \A i \in 1 .. n : o[i].frames[1] \in FrameType
  BY <1>1, <1>3
<1>6. s \in Seq(FrameType) /\ Len(s) = n /\ \A i \in 1 .. n : s[i] = o[i].frames[1]
  BY <1>4, <1>5
<1>7. ASSUME NEW b, BatchOK(b) PROVE FirstsOf(Append(o, b)) = Append(s, b.frames[1])
  <2>1. PICK q : q = Append(o, b)
    OBVIOUS
  <2>2. Len(q) = n + 1 /\ q[n + 1] = b /\ \A i \in 1 .. n : q[i] = o[i]
    BY <1>1, <1>7, <2>1, AppendProperties DEF BatchOK
  <2>3. PICK f \in FrameType : f = b.frames[1]
    BY <1>3, <1>7
  <2>4. PICK y, z : y = Append(s, f) /\ z = FirstsOf(q)
    OBVIOUS
  <2>5. /\ y \in Seq(FrameType) /\ Len(y) = n + 1 /\ y[n + 1] = f
        /\ \A i \in 1 .. n : y[i] = s[i]
    BY <1>6, <2>4, AppendProperties
  <2>6. z = [i \in 1 .. n + 1 |-> q[i].frames[1]]
    BY <2>2, <2>4 DEF FirstsOf
  <2>7. \A i \in 1 .. n + 1 : i \in 1 .. n \/ i = n + 1
    OBVIOUS
  <2>8. \A i \in 1 .. n + 1 : z[i] = y[i] /\ z[i] \in FrameType
    BY <1>5, <1>6, <2>2, <2>3, <2>5, <2>6, <2>7
  <2>9. z \in Seq(FrameType) /\ Len(z) = n + 1
    BY <2>6, <2>8
  <2> QED BY <2>1, <2>3, <2>4, <2>5, <2>8, <2>9, SameFrames
<1>8. ASSUME o # <<>>
      PROVE  s # <<>> /\ Head(s) = Head(o).frames[1] /\ FirstsOf(Tail(o)) = Tail(s)
  <2>1. n > 0
    BY <1>1, <1>8, EmptySeq
  <2>2. s # <<>>
    BY <1>6, <2>1, EmptySeq
  <2>3. Head(s) = s[1] /\ Head(o) = o[1] /\ 1 \in 1 .. n
    BY <1>6, <1>8, <2>1, <2>2, HeadTailProperties
  <2>4. PICK q, y, z : q = Tail(o) /\ y = Tail(s) /\ z = FirstsOf(q)
    OBVIOUS
  <2>5. /\ Len(q) = n - 1 /\ \A i \in 1 .. n - 1 : q[i] = o[i + 1]
        /\ Len(y) = n - 1 /\ \A i \in 1 .. n - 1 : y[i] = s[i + 1]
        /\ y \in Seq(FrameType)
    BY <1>1, <1>6, <1>8, <2>2, <2>4, HeadTailProperties
  <2>6. z = [i \in 1 .. n - 1 |-> q[i].frames[1]]
    BY <2>4, <2>5 DEF FirstsOf
  <2>7. \A i \in 1 .. n - 1 : i + 1 \in 1 .. n
    OBVIOUS
  <2>8. ASSUME NEW i \in 1 .. n - 1
        PROVE  z[i] = y[i] /\ z[i] \in FrameType
    <3>1. i + 1 \in 1 .. n
      BY <2>7
    <3>2. z[i] = o[i + 1].frames[1] /\ y[i] = s[i + 1]
      BY <2>5, <2>6
    <3> QED BY <1>5, <1>6, <3>1, <3>2
  <2>9. z \in Seq(FrameType) /\ Len(z) = n - 1
    <3>1. n - 1 \in Nat
      BY <2>1
    <3> QED BY <2>6, <2>8, <3>1
  <2>10. z = y
    <3>1. y \in Seq(FrameType) /\ Len(y) = n - 1
      BY <2>5
    <3>2. \A i \in 1 .. n - 1 : z[i] = y[i]
      BY <2>8
    <3> QED BY <2>9, <3>1, <3>2, SameFrames
  <2> QED BY <1>6, <2>2, <2>3, <2>4, <2>10
<1> QED BY <1>1, <1>2, <1>6, <1>7, <1>8

(* The bytes of credit, and the payloads, in what is said.                    *)
LEMMA DownwardCount ==
    ASSUME NEW c \in Id, NEW a \in 0 .. 3, NEW w \in Nat, NEW x \in 0 .. 1
    PROVE  /\ IsFiniteSet(OfKind(Downward(c, a, w, x), "window"))
           /\ Cardinality(OfKind(Downward(c, a, w, x), "window")) = w
<1>1. PICK s : s = Downward(c, a, w, x)
  OBVIOUS
<1>2. Len(s) = a + w + x
  BY <1>1, DownwardType
<1>3. ASSUME NEW j \in 1 .. a + w + x
      PROVE  s[j].kind = "window" <=> j \in a + 1 .. a + w
  <2>1. s[j] = IF j <= a THEN Request(c, 3 - a + j)
               ELSE IF j <= a + w THEN Counted("window", c, 1) ELSE Frame("cancel", c)
    BY <1>1 DEF Downward
  <2>2. CASE j <= a
    <3>1. 3 - a + j \in 1 .. 3 /\ j \notin a + 1 .. a + w
      BY <2>2
    <3> QED BY <2>1, <2>2, <3>1, RequestFacts
  <2>3. CASE ~(j <= a) /\ j <= a + w
    <3>1. j \in a + 1 .. a + w
      BY <2>3
    <3> QED BY <2>1, <2>3, <3>1 DEF Counted
  <2>4. CASE ~(j <= a) /\ ~(j <= a + w)
    <3>1. j \notin a + 1 .. a + w
      BY <2>4
    <3> QED BY <2>1, <2>4, <3>1 DEF Frame
  <2> QED BY <2>2, <2>3, <2>4
<1>4. \A j \in a + 1 .. a + w : j \in 1 .. a + w + x
  OBVIOUS
<1>5. {j \in 1 .. Len(s) : s[j].kind = "window"} = a + 1 .. a + w
  BY <1>2, <1>3, <1>4
<1>6. IsFiniteSet(a + 1 .. a + w) /\ Cardinality(a + 1 .. a + w) = w
  <2>1. PICK p, q : p = a + 1 /\ q = a + w /\ p \in Int /\ q \in Int
    OBVIOUS
  <2>2. IsFiniteSet(p .. q) /\ Cardinality(p .. q) = IF p > q THEN 0 ELSE q - p + 1
    BY <2>1, FS_Interval
  <2>3. (IF p > q THEN 0 ELSE q - p + 1) = w
    BY <2>1
  <2> QED BY <2>1, <2>2, <2>3
<1> QED BY <1>1, <1>5, <1>6 DEF OfKind

(* The payloads.                                                              *)
LEMMA UpwardCount ==
    ASSUME NEW c \in Id, NEW v \in 0 .. 1, NEW lo \in Nat, NEW hi \in Nat, lo <= hi,
           NEW e \in 0 .. 2
    PROVE  /\ IsFiniteSet(OfKind(Upward(c, v, lo, hi, e), "payload"))
           /\ Cardinality(OfKind(Upward(c, v, lo, hi, e), "payload")) = hi - lo
<1>1. PICK s : s = Upward(c, v, lo, hi, e)
  OBVIOUS
<1>2. PICK n \in Nat : n = hi - lo
  OBVIOUS
<1>3. PICK o \in 0 .. 1 : o = One(e)
  BY DEF One
<1>4. Len(s) = v + n + o
  <2>1. Len(s) = v + (hi - lo) + One(e)
    BY <1>1, UpwardType, ZenonT(20)
  <2> QED BY <1>2, <1>3, <2>1
<1>5. ASSUME NEW j \in 1 .. v + n + o
      PROVE  s[j].kind = "payload" <=> j \in v + 1 .. v + n
  <2>1. s[j] = IF j <= v THEN Counted("window", c, 1)
               ELSE IF j <= v + n THEN Counted("payload", c, lo + (j - v))
               ELSE Counted("end", c, e - 1)
    BY <1>1, <1>2, <1>3 DEF Upward
  <2>2. CASE j <= v
    <3>1. j \notin v + 1 .. v + n
      BY <2>2
    <3> QED BY <2>1, <2>2, <3>1 DEF Counted
  <2>3. CASE ~(j <= v) /\ j <= v + n
    <3>1. j \in v + 1 .. v + n
      BY <2>3
    <3> QED BY <2>1, <2>3, <3>1 DEF Counted
  <2>4. CASE ~(j <= v) /\ ~(j <= v + n)
    <3>1. j \notin v + 1 .. v + n
      BY <2>4
    <3> QED BY <2>1, <2>4, <3>1 DEF Counted
  <2> QED BY <2>2, <2>3, <2>4
<1>6. \A j \in v + 1 .. v + n : j \in 1 .. v + n + o
  OBVIOUS
<1>7. {j \in 1 .. Len(s) : s[j].kind = "payload"} = v + 1 .. v + n
  BY <1>4, <1>5, <1>6
<1>8. IsFiniteSet(v + 1 .. v + n) /\ Cardinality(v + 1 .. v + n) = n
  <2>1. PICK p, q : p = v + 1 /\ q = v + n /\ p \in Int /\ q \in Int
    OBVIOUS
  <2>2. IsFiniteSet(p .. q) /\ Cardinality(p .. q) = IF p > q THEN 0 ELSE q - p + 1
    BY <2>1, FS_Interval
  <2>3. (IF p > q THEN 0 ELSE q - p + 1) = n
    BY <2>1
  <2> QED BY <2>1, <2>2, <2>3
<1> QED BY <1>1, <1>2, <1>7, <1>8 DEF OfKind

-----------------------------------------------------------------------------
(* The books of one reverse call, and what the daemon does to them.           *)

(* The records of a call before it starts.                                    *)
NewReverse == [st |-> "idle", lent |-> 0, credit |-> ReverseCredit, buffered |-> 0,
               channel |-> <<>>, read |-> 0, drop |-> FALSE, caller |-> "waiting", got |-> 0]
NewIncoming == [st |-> "absent", request |-> FALSE, failure |-> FALSE,
                credit |-> ReverseCredit, waiting |-> FALSE, yields |-> 0,
                returned |-> FALSE, early |-> FALSE, unsent |-> FALSE]

(* The numbers of a call: a, w and x tell what is on its way to the client    *)
(* (Downward); v, lo, hi and e what is on its way to the daemon, and u, m and *)
(* t what waits in the queue of the client (Upward, with the last m payloads). *)
Numbers(a, w, x, v, lo, hi, e, u, m, t) ==
    /\ a \in 0 .. 3 /\ w \in Nat /\ x \in 0 .. 1
    /\ v \in 0 .. 1 /\ lo \in Nat /\ hi \in Nat /\ lo <= hi /\ e \in 0 .. 2
    /\ u \in 0 .. 1 /\ m \in 0 .. 1 /\ t \in 0 .. 2

(* The records have their types, and a handler waits only for a payload that  *)
(* it may still yield.                                                        *)
Records(d, k) ==
    /\ d \in ReverseCall /\ k \in IncomingCall
    /\ k.waiting => k.yields < MaxYields

(* The client has said nothing that the daemon has not read.                  *)
Still(v, lo, hi, e, u, m, t) == v = 0 /\ lo = hi /\ e = 0 /\ u = 0 /\ m = 0 /\ t = 0

(* How far both sides are: the request is whole on its way until the client   *)
(* hears of it, a call that is over at the client has its CallEnd under way or *)
(* lost, and one the daemon gave up has a Cancel under way or is over.        *)
StageOK(d, k, a, w, x, v, lo, hi, e, u, m, t) ==
    /\ d.st = "idle" => d = NewReverse /\ k.st = "absent"
    /\ k.st = "absent" =>
          /\ k = NewIncoming /\ Still(v, lo, hi, e, u, m, t)
          /\ \/ a = 3 /\ d.st \in {"pending", "retired"}
             \/ a = 0 /\ w = 0 /\ x = 0 /\ d.st \in {"idle", "done"}
    /\ k.st = "receiving" =>
          a \in {1, 2} /\ (a = 2 => ~k.request) /\ Still(v, lo, hi, e, u, m, t) /\ k.yields = 0
    /\ k.st = "running" => a = 0 /\ e = 0 /\ t = 0
    /\ k.st = "gone" => a # 3 /\ (a > 0 => k.early)
    /\ k.st \in {"receiving", "running"} => d.st \in {"pending", "retired"}
    /\ k.st = "gone" /\ d.st \in {"pending", "retired"} => k.unsent \/ e > 0 \/ t > 0
    /\ d.st = "done" => Still(v, lo, hi, e, u, m, t)
    /\ d.st = "retired" => x = 1 \/ k.st = "gone"
    /\ d.st = "pending" => x = 0

(* What the client queued leaves in order: the credit first, the payloads, and *)
(* the CallEnd last; payloads are lost only when the call was aborted, and a  *)
(* CallEnd with a status of success is that of a handler that returned.       *)
OrderOK(k, A, c, lo, hi, v, e, u, m, t) ==
    /\ u = 1 => v = 0 /\ lo = hi /\ e = 0
    /\ e > 0 => u = 0 /\ m = 0 /\ t = 0
    /\ e > 0 \/ t > 0 => k.st = "gone"
    /\ k.waiting => m = 0 /\ k.st = "running"
    /\ hi + m <= k.yields
    /\ c \in A => k.st = "gone"
    /\ c \notin A => hi + m = k.yields
    /\ k.returned => c \notin A /\ m = 0 /\ k.st = "gone"
    /\ e = 2 \/ t = 2 => k.returned

(* The credit: the daemon lent the byte of the request at most once, and gave *)
(* the client no more than it has left itself.                                *)
FundsOK(d, k, a, w, lo, hi, v, u, m) ==
    /\ v + u + One(a) <= d.lent
    /\ k.credit + w + (hi - lo) + m <= d.credit
    /\ k.st # "gone" => k.credit + w + (hi - lo) + m = d.credit
    /\ d.st = "pending" => d.credit + d.buffered = ReverseCredit

(* The channel holds the next payloads, or ends with the error.               *)
Follows(ch, got, n) == \A i \in 1 .. n : ch[i] = got + i
Broken(ch, got) ==
    /\ Len(ch) > 0 /\ ch[Len(ch)] = 0 /\ Follows(ch, got, Len(ch) - 1)

(* What the caller has read and can read: while the call is pending, all that *)
(* the daemon received; later the rest of a whole response, or an error.      *)
CallerOK(d, k, c, lo) ==
    /\ d.st = "pending" => Len(d.channel) + d.read <= d.buffered
    /\ d.read <= d.got
    /\ d.caller # "waiting" => d.channel = <<>>
    /\ c \in ReverseUnary =>
          /\ k.yields <= 1 /\ d.buffered <= lo /\ d.channel = <<>> /\ d.got = 0
          /\ k.waiting => k.yields = 0
    /\ c \in ReverseStream /\ d.caller = "waiting" =>
          /\ d.st = "pending" =>
                lo = d.got + Len(d.channel) /\ Follows(d.channel, d.got, Len(d.channel))
          /\ d.st \in {"retired", "done"} =>
                \/ Broken(d.channel, d.got)
                \/ /\ d.st = "done" /\ k.returned
                   /\ d.got + Len(d.channel) = k.yields
                   /\ Follows(d.channel, d.got, Len(d.channel))
    /\ d.caller = "complete" => k.returned /\ (c \in ReverseStream => d.got = k.yields)

(* All of them.                                                               *)
BookOK(d, k, A, c, a, w, x, v, lo, hi, e, u, m, t) ==
    /\ Numbers(a, w, x, v, lo, hi, e, u, m, t) /\ Records(d, k)
    /\ StageOK(d, k, a, w, x, v, lo, hi, e, u, m, t)
    /\ OrderOK(k, A, c, lo, hi, v, e, u, m, t)
    /\ FundsOK(d, k, a, w, lo, hi, v, u, m)
    /\ CallerOK(d, k, c, lo)

(* The bounds are numbers.                                                    *)
LEMMA ReverseConstants ==
    /\ ReverseCredit \in Nat /\ ReverseCredit > 0 /\ MaxBuffered \in Nat /\ MaxBuffered > 0
    /\ MaxYields \in Nat /\ MaxYields > 0 /\ MaxReverse \in Nat /\ MaxIncoming \in Nat
    /\ MaxReverse <= MaxIncoming /\ None \notin ReverseId
    /\ \A c \in ReverseId : c \in ReverseUnary <=> c \notin ReverseStream
BY ReverseAssumption DEF ReverseAssumption, ReverseId

(* The fields of the two records.                                             *)
LEMMA ReverseFields ==
    ASSUME NEW d \in ReverseCall
    PROVE  /\ d.st \in {"idle", "pending", "retired", "done"} /\ d.lent \in 0 .. 1
           /\ d.credit \in 0 .. ReverseCredit /\ d.buffered \in 0 .. MaxBuffered
           /\ d.channel \in Seq(0 .. MaxYields) /\ d.read \in 0 .. MaxYields
           /\ d.drop \in BOOLEAN /\ d.caller \in {"waiting", "complete", "cut"}
           /\ d.got \in 0 .. MaxYields
BY DEF ReverseCall

(* The fields of the record of the client.                                    *)
LEMMA IncomingFields ==
    ASSUME NEW k \in IncomingCall
    PROVE  /\ k.st \in {"absent", "receiving", "running", "gone"} /\ k.request \in BOOLEAN
           /\ k.failure \in BOOLEAN /\ k.credit \in 0 .. ReverseCredit
           /\ k.waiting \in BOOLEAN /\ k.yields \in 0 .. MaxYields
           /\ k.returned \in BOOLEAN /\ k.early \in BOOLEAN /\ k.unsent \in BOOLEAN
BY DEF IncomingCall

(* Those that are numbers.                                                    *)
LEMMA ReverseNumbers ==
    ASSUME NEW d \in ReverseCall
    PROVE  /\ d.lent \in Nat /\ d.lent <= 1 /\ d.credit \in Nat /\ d.credit <= ReverseCredit
           /\ d.buffered \in Nat /\ d.buffered <= MaxBuffered /\ d.read \in Nat
           /\ d.got \in Nat /\ Len(d.channel) \in Nat
<1>1. \A n \in Nat : \A i \in 0 .. n : i \in Nat /\ i <= n
  OBVIOUS
<1>2. Len(d.channel) \in Nat
  BY ReverseFields, LenProperties
<1>3. d.lent \in 0 .. 1 /\ 1 \in Nat
  BY ReverseFields
<1> QED BY <1>1, <1>2, <1>3, ReverseFields, ReverseConstants

(* And those of the client.                                                   *)
LEMMA IncomingNumbers ==
    ASSUME NEW k \in IncomingCall
    PROVE  /\ k.credit \in Nat /\ k.credit <= ReverseCredit
           /\ k.yields \in Nat /\ k.yields <= MaxYields
<1>1. \A n \in Nat : \A i \in 0 .. n : i \in Nat /\ i <= n
  OBVIOUS
<1> QED BY <1>1, IncomingFields, ReverseConstants

(* A call that is not started yet, and one that is.                           *)
LEMMA StartBook ==
    ASSUME NEW d, NEW k, NEW A, NEW c \in ReverseId, NEW a, NEW w, NEW x, NEW v, NEW lo,
           NEW hi, NEW e, NEW u, NEW m, NEW t, d.st = "idle",
           BookOK(d, k, A, c, a, w, x, v, lo, hi, e, u, m, t)
    PROVE  /\ a = 0 /\ w = 0 /\ x = 0
           /\ BookOK([d EXCEPT !.st = "pending", !.lent = 1], k, A, c, 3, 0, 0,
                     v, lo, hi, e, u, m, t)
           /\ BookOK([d EXCEPT !.st = "done", !.caller = "cut"], k, A, c, a, w, x,
                     v, lo, hi, e, u, m, t)
<1>1. /\ Numbers(a, w, x, v, lo, hi, e, u, m, t) /\ Records(d, k)
      /\ StageOK(d, k, a, w, x, v, lo, hi, e, u, m, t)
      /\ OrderOK(k, A, c, lo, hi, v, e, u, m, t)
      /\ FundsOK(d, k, a, w, lo, hi, v, u, m) /\ CallerOK(d, k, c, lo)
  BY DEF BookOK
<1>2. /\ d \in ReverseCall /\ k \in IncomingCall
  BY <1>1 DEF Records
<1>3. /\ d = NewReverse /\ k = NewIncoming /\ a = 0 /\ w = 0 /\ x = 0
      /\ Still(v, lo, hi, e, u, m, t)
  BY <1>1 DEF StageOK
<1>4. /\ d.lent = 0 /\ d.credit = ReverseCredit /\ d.buffered = 0 /\ d.channel = <<>>
      /\ d.read = 0 /\ d.drop = FALSE /\ d.caller = "waiting" /\ d.got = 0
      /\ k.st = "absent" /\ k.credit = ReverseCredit /\ k.yields = 0 /\ ~k.waiting
      /\ ~k.returned /\ ~k.unsent
  BY <1>3 DEF NewReverse, NewIncoming
<1>5. PICK p, q : p = [d EXCEPT !.st = "pending", !.lent = 1]
                  /\ q = [d EXCEPT !.st = "done", !.caller = "cut"]
  OBVIOUS
<1>6. p \in ReverseCall /\ q \in ReverseCall
  <2>1. 1 \in 0 .. 1
    OBVIOUS
  <2>2. p \in ReverseCall
    BY <1>2, <1>5, <2>1 DEF ReverseCall
  <2>3. q \in ReverseCall
    BY <1>2, <1>5 DEF ReverseCall
  <2> QED BY <2>2, <2>3
<1>7. /\ p.st = "pending" /\ p.lent = 1 /\ p.credit = ReverseCredit /\ p.buffered = 0
      /\ p.channel = <<>> /\ p.read = 0 /\ p.caller = "waiting" /\ p.got = 0
      /\ q.st = "done" /\ q.lent = 0 /\ q.credit = ReverseCredit /\ q.buffered = 0
      /\ q.channel = <<>> /\ q.read = 0 /\ q.caller = "cut" /\ q.got = 0
  BY <1>2, <1>4, <1>5 DEF ReverseCall
<1>8. Numbers(3, 0, 0, v, lo, hi, e, u, m, t)
  BY <1>1 DEF Numbers
<1>9. /\ StageOK(p, k, 3, 0, 0, v, lo, hi, e, u, m, t)
      /\ StageOK(q, k, a, w, x, v, lo, hi, e, u, m, t)
  BY <1>1, <1>3, <1>4, <1>7 DEF StageOK
<1>10. Len(<<>>) = 0
  OBVIOUS
<1>11. /\ FundsOK(p, k, 3, 0, lo, hi, v, u, m) /\ FundsOK(q, k, a, w, lo, hi, v, u, m)
  BY <1>1, <1>3, <1>4, <1>7, ReverseConstants DEF FundsOK, Still, One, Numbers
<1>12. CallerOK(p, k, c, lo) /\ CallerOK(q, k, c, lo)
  <2>1. lo = 0
    BY <1>1, <1>3, <1>4 DEF OrderOK, Numbers, Still
  <2> QED BY <1>4, <1>7, <1>10, <2>1 DEF CallerOK, Follows
<1>13. Records(p, k) /\ Records(q, k)
  BY <1>1, <1>6 DEF Records
<1> QED BY <1>1, <1>3, <1>5, <1>8, <1>9, <1>11, <1>12, <1>13 DEF BookOK

(* The caller reads an item of its stream.                                    *)
LEMMA ItemBook ==
    ASSUME NEW d, NEW k, NEW A, NEW c \in ReverseId, NEW a, NEW w, NEW x, NEW v, NEW lo,
           NEW hi, NEW e, NEW u, NEW m, NEW t,
           BookOK(d, k, A, c, a, w, x, v, lo, hi, e, u, m, t),
           c \in ReverseStream, d.caller = "waiting", d.channel # <<>>, Head(d.channel) # 0
    PROVE  BookOK([d EXCEPT !.got = Head(d.channel), !.channel = Tail(d.channel),
                            !.read = d.read + 1], k, A, c, a, w, x, v, lo, hi, e, u, m, t)
<1>1. /\ Numbers(a, w, x, v, lo, hi, e, u, m, t) /\ Records(d, k)
      /\ StageOK(d, k, a, w, x, v, lo, hi, e, u, m, t)
      /\ OrderOK(k, A, c, lo, hi, v, e, u, m, t)
      /\ FundsOK(d, k, a, w, lo, hi, v, u, m) /\ CallerOK(d, k, c, lo)
  BY DEF BookOK
<1>2. d \in ReverseCall
  BY <1>1 DEF Records
<1>3. PICK ch, g, r : ch = d.channel /\ g = d.got /\ r = d.read
  OBVIOUS
<1>4. /\ ch \in Seq(0 .. MaxYields) /\ ch # <<>> /\ Head(ch) # 0
      /\ g \in 0 .. MaxYields /\ r \in 0 .. MaxYields /\ r <= g
  BY <1>1, <1>2, <1>3, ReverseFields DEF CallerOK
<1>5. PICK n \in Nat : n = Len(ch) /\ n > 0
  BY <1>4, LenProperties, EmptySeq
<1>6. PICK z : /\ z = Tail(ch) /\ z \in Seq(0 .. MaxYields) /\ Len(z) = n - 1
               /\ \A i \in 1 .. n - 1 : z[i] = ch[i + 1]
  <2>1. PICK Y : Y = 0 .. MaxYields
    OBVIOUS
  <2>2. ch \in Seq(Y) /\ ch # <<>>
    BY <1>4, <2>1
  <2>3. /\ Tail(ch) \in Seq(Y) /\ Len(Tail(ch)) = Len(ch) - 1
        /\ \A i \in 1 .. Len(ch) - 1 : Tail(ch)[i] = ch[i + 1]
    BY <2>2, HeadTailProperties
  <2> QED BY <1>5, <2>1, <2>3
<1>7. Head(ch) = ch[1] /\ ch[1] \in 0 .. MaxYields /\ 1 \in 1 .. n
  <2>1. PICK Y : Y = 0 .. MaxYields
    OBVIOUS
  <2>2. ch \in Seq(Y) /\ 1 \in 1 .. n
    BY <1>4, <1>5, <2>1
  <2>3. ch[1] \in Y
    BY <1>5, <2>2, ElementOfSeq
  <2> QED BY <2>1, <2>2, <2>3
<1>8. d.st # "idle"
  BY <1>1, <1>3, <1>4 DEF StageOK, NewReverse
<1>9. ASSUME NEW j \in Nat, j <= n, j > 0, Follows(ch, g, j)
      PROVE  ch[1] = g + 1 /\ Follows(z, g + 1, j - 1)
  <2>1. \A i \in 1 .. j - 1 : i + 1 \in 1 .. j /\ i \in 1 .. n - 1 /\ g + (i + 1) = (g + 1) + i
    BY <1>4, <1>9
  <2>2. 1 \in 1 .. j
    BY <1>9
  <2> QED BY <1>6, <1>9, <2>1, <2>2 DEF Follows
<1>10. ASSUME Broken(ch, g) PROVE ch[1] = g + 1 /\ Broken(z, g + 1)
  <2>1. ch[n] = 0 /\ Follows(ch, g, n - 1)
    BY <1>5, <1>10 DEF Broken
  <2>2. n # 1 /\ n - 1 \in Nat /\ n - 1 > 0 /\ n - 1 <= n /\ n - 1 \in 1 .. n - 1
    BY <1>4, <1>5, <1>7, <2>1
  <2>3. ch[1] = g + 1 /\ Follows(z, g + 1, (n - 1) - 1)
    BY <1>9, <2>1, <2>2
  <2>4. z[n - 1] = ch[(n - 1) + 1] /\ (n - 1) + 1 = n
    BY <1>6, <2>2
  <2> QED BY <1>6, <2>1, <2>2, <2>3, <2>4 DEF Broken
<1>11. n \in Nat /\ n <= n
  OBVIOUS
<1>12. /\ d.st = "pending" =>
             n + r <= d.buffered /\ lo = g + n /\ ch[1] = g + 1 /\ Follows(z, g + 1, n - 1)
       /\ d.st \in {"retired", "done"} =>
             /\ ch[1] = g + 1
             /\ \/ Broken(z, g + 1)
                \/ /\ d.st = "done" /\ k.returned /\ g + n = k.yields
                   /\ Follows(z, g + 1, n - 1)
  <2>1. CASE d.st = "pending"
    <3>1. n + r <= d.buffered /\ lo = g + n /\ Follows(ch, g, n)
      BY <1>1, <1>3, <1>5, <2>1 DEF CallerOK
    <3> QED BY <1>5, <1>9, <1>11, <2>1, <3>1
  <2>2. CASE d.st \in {"retired", "done"}
    <3>1. \/ Broken(ch, g)
          \/ d.st = "done" /\ k.returned /\ g + n = k.yields /\ Follows(ch, g, n)
      BY <1>1, <1>3, <1>5, <2>2 DEF CallerOK
    <3> QED BY <1>5, <1>9, <1>10, <1>11, <2>2, <3>1
  <2> QED BY <2>1, <2>2
<1>13. ch[1] = g + 1
  BY <1>2, <1>8, <1>12, ReverseFields
<1>14. PICK f : f = [d EXCEPT !.got = ch[1], !.channel = z, !.read = r + 1]
  OBVIOUS
<1>15. r + 1 \in 0 .. MaxYields
  BY <1>4, <1>7, <1>13, ReverseConstants
<1>16. f \in ReverseCall
  BY <1>2, <1>6, <1>7, <1>14, <1>15 DEF ReverseCall
<1>17. /\ f.st = d.st /\ f.lent = d.lent /\ f.credit = d.credit /\ f.buffered = d.buffered
       /\ f.channel = z /\ f.read = r + 1 /\ f.got = ch[1] /\ f.caller = d.caller
  BY <1>2, <1>14 DEF ReverseCall
<1>18. StageOK(f, k, a, w, x, v, lo, hi, e, u, m, t)
  BY <1>1, <1>8, <1>17 DEF StageOK
<1>19. FundsOK(f, k, a, w, lo, hi, v, u, m)
  BY <1>1, <1>17 DEF FundsOK
<1>20. CallerOK(f, k, c, lo)
  <2>1. /\ (n - 1) + (r + 1) = n + r /\ r + 1 <= g + 1 /\ (g + 1) + (n - 1) = g + n
    <3>1. n \in Int /\ r \in Int /\ g \in Int /\ r <= g
      BY <1>4, ReverseConstants
    <3> QED BY <3>1
  <2>2. Len(z) = n - 1 /\ f.got = g + 1
    BY <1>6, <1>13, <1>17
  <2>3. c \notin ReverseUnary
    BY ReverseConstants
  <2> QED BY <1>12, <1>17, <2>1, <2>2, <2>3 DEF CallerOK
<1>21. Records(f, k)
  BY <1>1, <1>16 DEF Records
<1>22. BookOK(f, k, A, c, a, w, x, v, lo, hi, e, u, m, t)
  BY <1>1, <1>18, <1>19, <1>20, <1>21 DEF BookOK
<1>23. f = [d EXCEPT !.got = Head(d.channel), !.channel = Tail(d.channel),
                     !.read = d.read + 1]
  BY <1>3, <1>6, <1>7, <1>14
<1> QED BY <1>22, <1>23

(* The caller leaves, is told of an error, or comes to the end of its stream. *)
LEMMA LeftBook ==
    ASSUME NEW d, NEW k, NEW A, NEW c \in ReverseId, NEW a, NEW w, NEW x, NEW v, NEW lo,
           NEW hi, NEW e, NEW u, NEW m, NEW t, NEW drop \in BOOLEAN,
           BookOK(d, k, A, c, a, w, x, v, lo, hi, e, u, m, t), d.st # "idle"
    PROVE  BookOK([d EXCEPT !.caller = "cut", !.channel = <<>>, !.drop = drop],
                  k, A, c, a, w, x, v, lo, hi, e, u, m, t)
<1>1. /\ Numbers(a, w, x, v, lo, hi, e, u, m, t) /\ Records(d, k)
      /\ StageOK(d, k, a, w, x, v, lo, hi, e, u, m, t)
      /\ OrderOK(k, A, c, lo, hi, v, e, u, m, t)
      /\ FundsOK(d, k, a, w, lo, hi, v, u, m) /\ CallerOK(d, k, c, lo)
  BY DEF BookOK
<1>2. d \in ReverseCall
  BY <1>1 DEF Records
<1>3. PICK f : f = [d EXCEPT !.caller = "cut", !.channel = <<>>, !.drop = drop]
  OBVIOUS
<1>4. f \in ReverseCall
  BY <1>2, <1>3, EmptySeq DEF ReverseCall
<1>5. /\ f.st = d.st /\ f.lent = d.lent /\ f.credit = d.credit /\ f.buffered = d.buffered
      /\ f.channel = <<>> /\ f.read = d.read /\ f.got = d.got /\ f.caller = "cut"
  BY <1>2, <1>3 DEF ReverseCall
<1>6. StageOK(f, k, a, w, x, v, lo, hi, e, u, m, t)
  BY <1>1, <1>5 DEF StageOK
<1>7. FundsOK(f, k, a, w, lo, hi, v, u, m)
  BY <1>1, <1>5 DEF FundsOK
<1>8. CallerOK(f, k, c, lo)
  <2>1. Len(<<>>) = 0 /\ Len(d.channel) \in Nat /\ d.read \in Nat /\ d.buffered \in Nat
    BY <1>2, ReverseFields, ReverseConstants, LenProperties
  <2>2. f.st = "pending" => Len(f.channel) + f.read <= f.buffered
    <3>1. PICK l, r, b : /\ l = Len(d.channel) /\ r = d.read /\ b = d.buffered
                         /\ l \in Nat /\ r \in Nat /\ b \in Nat
      BY <2>1
    <3>2. d.st = "pending" => l + r <= b
      BY <1>1, <3>1 DEF CallerOK
    <3>3. d.st = "pending" => 0 + r <= b
      BY <3>1, <3>2
    <3> QED BY <1>5, <2>1, <3>1, <3>3
  <2> QED BY <1>1, <1>5, <2>2 DEF CallerOK
<1>9. Records(f, k)
  BY <1>1, <1>4 DEF Records
<1> QED BY <1>1, <1>3, <1>6, <1>7, <1>8, <1>9 DEF BookOK

(* The caller of a stream has read everything.                                *)
LEMMA CompleteBook ==
    ASSUME NEW d, NEW k, NEW A, NEW c \in ReverseId, NEW a, NEW w, NEW x, NEW v, NEW lo,
           NEW hi, NEW e, NEW u, NEW m, NEW t,
           BookOK(d, k, A, c, a, w, x, v, lo, hi, e, u, m, t), c \in ReverseStream,
           d.caller = "waiting", d.channel = <<>>, d.st \in {"retired", "done"}
    PROVE  BookOK([d EXCEPT !.caller = "complete"], k, A, c, a, w, x, v, lo, hi, e, u, m, t)
<1>1. /\ Numbers(a, w, x, v, lo, hi, e, u, m, t) /\ Records(d, k)
      /\ StageOK(d, k, a, w, x, v, lo, hi, e, u, m, t)
      /\ OrderOK(k, A, c, lo, hi, v, e, u, m, t)
      /\ FundsOK(d, k, a, w, lo, hi, v, u, m) /\ CallerOK(d, k, c, lo)
  BY DEF BookOK
<1>2. d \in ReverseCall /\ d.got \in Nat
  BY <1>1, ReverseFields, ReverseConstants DEF Records
<1>3. Len(<<>>) = 0
  OBVIOUS
<1>4. ~Broken(<<>>, d.got)
  BY <1>3 DEF Broken
<1>5. k.returned /\ d.got + 0 = k.yields
  BY <1>1, <1>3, <1>4 DEF CallerOK
<1>6. PICK f : f = [d EXCEPT !.caller = "complete"]
  OBVIOUS
<1>7. f \in ReverseCall
  BY <1>2, <1>6 DEF ReverseCall
<1>8. /\ f.st = d.st /\ f.lent = d.lent /\ f.credit = d.credit /\ f.buffered = d.buffered
      /\ f.channel = <<>> /\ f.read = d.read /\ f.got = d.got /\ f.caller = "complete"
  BY <1>2, <1>6 DEF ReverseCall
<1>9. StageOK(f, k, a, w, x, v, lo, hi, e, u, m, t)
  BY <1>1, <1>8 DEF StageOK
<1>10. FundsOK(f, k, a, w, lo, hi, v, u, m)
  BY <1>1, <1>8 DEF FundsOK
<1>11. CallerOK(f, k, c, lo)
  <2>1. c \notin ReverseUnary
    BY ReverseConstants
  <2>2. d.got = k.yields
    BY <1>2, <1>5
  <2> QED BY <1>1, <1>5, <1>8, <2>1, <2>2 DEF CallerOK
<1>12. Records(f, k)
  BY <1>1, <1>7 DEF Records
<1> QED BY <1>1, <1>6, <1>9, <1>10, <1>11, <1>12 DEF BookOK

(* The session takes a control message that changes nothing else.             *)
LEMMA ControlBook ==
    ASSUME NEW d, NEW k, NEW A, NEW c \in ReverseId, NEW a, NEW w, NEW x, NEW v, NEW lo,
           NEW hi, NEW e, NEW u, NEW m, NEW t,
           BookOK(d, k, A, c, a, w, x, v, lo, hi, e, u, m, t), d.st # "idle"
    PROVE  /\ d.read > 0 =>
                 BookOK([d EXCEPT !.read = d.read - 1], k, A, c, a, w, x, v, lo, hi, e, u, m, t)
           /\ BookOK([d EXCEPT !.drop = FALSE], k, A, c, a, w, x, v, lo, hi, e, u, m, t)
<1>1. /\ Numbers(a, w, x, v, lo, hi, e, u, m, t) /\ Records(d, k)
      /\ StageOK(d, k, a, w, x, v, lo, hi, e, u, m, t)
      /\ OrderOK(k, A, c, lo, hi, v, e, u, m, t)
      /\ FundsOK(d, k, a, w, lo, hi, v, u, m) /\ CallerOK(d, k, c, lo)
  BY DEF BookOK
<1>2. d \in ReverseCall
  BY <1>1 DEF Records
<1>3. PICK r, l, b, g : /\ r = d.read /\ l = Len(d.channel) /\ b = d.buffered /\ g = d.got
                        /\ r \in 0 .. MaxYields /\ l \in Nat /\ b \in Nat /\ g \in Nat
  <2>1. d.read \in 0 .. MaxYields
    BY <1>2, ReverseFields
  <2> QED BY <1>2, <2>1, ReverseNumbers
<1>4. ASSUME NEW f, NEW s \in Nat, s <= r, f \in ReverseCall,
             f.st = d.st, f.lent = d.lent, f.credit = d.credit, f.buffered = d.buffered,
             f.channel = d.channel, f.read = s, f.got = d.got, f.caller = d.caller
      PROVE  BookOK(f, k, A, c, a, w, x, v, lo, hi, e, u, m, t)
  <2>1. StageOK(f, k, a, w, x, v, lo, hi, e, u, m, t)
    BY <1>1, <1>4 DEF StageOK
  <2>2. FundsOK(f, k, a, w, lo, hi, v, u, m)
    BY <1>1, <1>4 DEF FundsOK
  <2>3. CallerOK(f, k, c, lo)
    <3>1. r <= g /\ (d.st = "pending" => l + r <= b)
      BY <1>1, <1>3 DEF CallerOK
    <3>2. s <= g /\ (d.st = "pending" => l + s <= b)
      <4>1. r \in Nat
        BY <1>3, ReverseConstants
      <4> QED BY <1>3, <1>4, <3>1, <4>1
    <3> QED BY <1>1, <1>3, <1>4, <3>2 DEF CallerOK
  <2>4. Records(f, k)
    BY <1>1, <1>4 DEF Records
  <2> QED BY <1>1, <2>1, <2>2, <2>3, <2>4 DEF BookOK
<1>5. ASSUME r > 0
      PROVE  BookOK([d EXCEPT !.read = r - 1], k, A, c, a, w, x, v, lo, hi, e, u, m, t)
  <2>1. PICK s \in Nat : s = r - 1 /\ s <= r /\ s \in 0 .. MaxYields
    BY <1>3, <1>5, ReverseConstants
  <2>2. PICK f : f = [d EXCEPT !.read = s]
    OBVIOUS
  <2>3. /\ f \in ReverseCall
        /\ f.st = d.st /\ f.lent = d.lent /\ f.credit = d.credit /\ f.buffered = d.buffered
        /\ f.channel = d.channel /\ f.read = s /\ f.got = d.got /\ f.caller = d.caller
    BY <1>2, <2>1, <2>2 DEF ReverseCall
  <2> QED BY <1>4, <2>1, <2>2, <2>3
<1>6. BookOK([d EXCEPT !.drop = FALSE], k, A, c, a, w, x, v, lo, hi, e, u, m, t)
  <2>1. PICK f : f = [d EXCEPT !.drop = FALSE]
    OBVIOUS
  <2>2. /\ f \in ReverseCall
        /\ f.st = d.st /\ f.lent = d.lent /\ f.credit = d.credit /\ f.buffered = d.buffered
        /\ f.channel = d.channel /\ f.read = r /\ f.got = d.got /\ f.caller = d.caller
    BY <1>2, <1>3, <2>1 DEF ReverseCall
  <2>3. r \in Nat /\ r <= r
    BY <1>3, ReverseConstants
  <2> QED BY <1>4, <2>1, <2>2, <2>3
<1> QED BY <1>3, <1>5, <1>6

(* The record of a caller that is told of an error.                           *)
LEMMA FailedRecord ==
    ASSUME NEW f \in ReverseCall, NEW c \in ReverseId,
           c \in ReverseStream /\ f.caller = "waiting" => Len(f.channel) <= MaxBuffered
    PROVE  LET r == Failed(c, f) IN
           /\ r \in ReverseCall /\ r.st = f.st /\ r.lent = f.lent /\ r.credit = f.credit
           /\ r.buffered = f.buffered /\ r.read = f.read /\ r.got = f.got
           /\ c \in ReverseUnary => r.caller = "cut" /\ r.channel = f.channel
           /\ c \in ReverseStream =>
                 /\ r.caller = f.caller
                 /\ r.channel = IF f.caller = "waiting" THEN Append(f.channel, 0) ELSE f.channel
<1>1. PICK r : r = Failed(c, f)
  OBVIOUS
<1>2. CASE c \in ReverseUnary
  <2>1. r = [f EXCEPT !.caller = "cut"] /\ c \notin ReverseStream
    BY <1>1, <1>2, ReverseConstants DEF Failed
  <2>2. r \in ReverseCall
    BY <2>1 DEF ReverseCall
  <2>3. /\ r.st = f.st /\ r.lent = f.lent /\ r.credit = f.credit /\ r.buffered = f.buffered
        /\ r.read = f.read /\ r.got = f.got /\ r.caller = "cut" /\ r.channel = f.channel
    BY <2>1 DEF ReverseCall
  <2> QED BY <1>1, <2>1, <2>2, <2>3
<1>3. CASE c \in ReverseStream /\ f.caller = "waiting"
  <2>1. PICK n \in Nat : n = Len(f.channel) /\ f.channel \in Seq(0 .. MaxYields)
    BY ReverseFields, LenProperties
  <2>2. n < MaxBuffered + 1
    BY <1>3, <2>1, ReverseConstants
  <2>3. Fits(f)
    BY <1>3, <2>1, <2>2 DEF Fits, ChannelCapacity
  <2>4. PICK z : z = Append(f.channel, 0)
    OBVIOUS
  <2>5. z \in Seq(0 .. MaxYields)
    <3>1. 0 \in 0 .. MaxYields
      BY ReverseConstants
    <3> QED BY <2>1, <2>4, <3>1, AppendProperties
  <2>6. r = [f EXCEPT !.channel = z] /\ c \notin ReverseUnary
    BY <1>1, <1>3, <2>3, <2>4, ReverseConstants DEF Failed
  <2>7. r \in ReverseCall
    BY <2>5, <2>6 DEF ReverseCall
  <2>8. /\ r.st = f.st /\ r.lent = f.lent /\ r.credit = f.credit /\ r.buffered = f.buffered
        /\ r.read = f.read /\ r.got = f.got /\ r.caller = f.caller /\ r.channel = z
    BY <2>6 DEF ReverseCall
  <2> QED BY <1>1, <1>3, <2>4, <2>6, <2>7, <2>8
<1>4. CASE c \in ReverseStream /\ f.caller # "waiting"
  <2>1. r = f /\ c \notin ReverseUnary
    BY <1>1, <1>4, ReverseConstants DEF Failed, Fits
  <2> QED BY <1>1, <1>4, <2>1
<1> QED BY <1>2, <1>3, <1>4 DEF ReverseId

(* The caller's side of two records is alike, and so is the client's.         *)
Alike(d, f) ==
    /\ f.channel = d.channel /\ f.caller = d.caller /\ f.got = d.got
    /\ f.read <= d.read /\ f.buffered = d.buffered
FailedAs(c, f, st) == [Failed(c, f) EXCEPT !.st = st]
(* The client goes on without a payload.                                      *)
Goes(k, k2) ==
    k2.yields = k.yields /\ k2.returned = k.returned /\ (k2.waiting => k.waiting)

(* The error is the last the caller hears: what it reads before is in order.  *)
LEMMA FailedCaller ==
    ASSUME NEW d \in ReverseCall, NEW k \in IncomingCall, NEW c \in ReverseId,
           NEW lo \in Nat, CallerOK(d, k, c, lo), d.st = "pending",
           NEW f \in ReverseCall, Alike(d, f), NEW st \in {"retired", "done"},
           NEW lo2 \in Nat, lo <= lo2, NEW k2, Goes(k, k2),
           NEW r, r = FailedAs(c, f, st)
    PROVE  /\ r \in ReverseCall /\ r.st = st /\ r.lent = f.lent /\ r.credit = f.credit
           /\ r.buffered = f.buffered
           /\ CallerOK(r, k2, c, lo2)
<1> USE DEF Alike, Goes
<1>1. PICK ch, g, b, n : /\ ch = d.channel /\ g = d.got /\ b = d.buffered /\ n = Len(ch)
                         /\ ch \in Seq(0 .. MaxYields) /\ g \in Nat /\ b \in Nat /\ n \in Nat
                         /\ d.read \in Nat /\ b <= MaxBuffered /\ f.read \in Nat
  BY ReverseFields, ReverseConstants, LenProperties
<1>2. n + d.read <= b /\ d.read <= g /\ n <= MaxBuffered /\ f.read <= g
  <2>1. PICK y, s : y = d.read /\ y \in Nat /\ s = f.read /\ s \in Nat /\ s <= y
    BY <1>1
  <2>2. n + y <= b /\ y <= g
    BY <1>1, <2>1 DEF CallerOK
  <2>3. n \in Nat /\ b \in Nat /\ g \in Nat /\ b <= MaxBuffered /\ MaxBuffered \in Nat
    BY <1>1, ReverseConstants
  <2>4. n <= MaxBuffered /\ s <= g
    BY <2>1, <2>2, <2>3
  <2> QED BY <2>1, <2>2, <2>4
<1>3. PICK i : i = Failed(c, f)
  OBVIOUS
<1>4. /\ i \in ReverseCall /\ i.lent = f.lent /\ i.credit = f.credit
      /\ i.buffered = b /\ i.read = f.read /\ i.got = g
      /\ c \in ReverseUnary => i.caller = "cut" /\ i.channel = ch
      /\ c \in ReverseStream =>
            /\ i.caller = d.caller
            /\ i.channel = IF d.caller = "waiting" THEN Append(ch, 0) ELSE ch
  BY <1>1, <1>2, <1>3, FailedRecord
<1>5. r = [i EXCEPT !.st = st]
  BY <1>3 DEF FailedAs
<1>6. /\ r \in ReverseCall /\ r.st = st /\ r.lent = f.lent /\ r.credit = f.credit
      /\ r.buffered = b /\ r.read = f.read /\ r.got = g
      /\ r.caller = i.caller /\ r.channel = i.channel
  BY <1>4, <1>5 DEF ReverseCall
<1>7. CASE c \in ReverseUnary
  <2>1. c \notin ReverseStream
    BY <1>7, ReverseConstants
  <2>2. k.yields <= 1 /\ b <= lo /\ ch = <<>> /\ g = 0 /\ (k.waiting => k.yields = 0)
    BY <1>1, <1>7 DEF CallerOK
  <2>3. b <= lo2
    BY <1>1, <2>2
  <2>4. CallerOK(r, k2, c, lo2)
    BY <1>2, <1>4, <1>6, <1>7, <2>1, <2>2, <2>3 DEF CallerOK
  <2> QED BY <1>1, <1>6, <2>4
<1>8. CASE c \in ReverseStream /\ d.caller # "waiting"
  <2>1. c \notin ReverseUnary
    BY <1>8, ReverseConstants
  <2>2. /\ ch = <<>> /\ d.caller = "complete" => k.returned /\ g = k.yields
    BY <1>1, <1>8 DEF CallerOK
  <2>3. ch = <<>>
    BY <1>1, <1>8 DEF CallerOK
  <2>4. CallerOK(r, k2, c, lo2)
    BY <1>2, <1>4, <1>6, <1>8, <2>1, <2>2, <2>3 DEF CallerOK
  <2> QED BY <1>1, <1>6, <2>4
<1>9. CASE c \in ReverseStream /\ d.caller = "waiting"
  <2>1. c \notin ReverseUnary
    BY <1>9, ReverseConstants
  <2>2. Follows(ch, g, n)
    BY <1>1, <1>9 DEF CallerOK
  <2>3. PICK z : z = Append(ch, 0)
    OBVIOUS
  <2>4. Len(z) = n + 1 /\ z[n + 1] = 0 /\ \A j \in 1 .. n : z[j] = ch[j]
    <3>1. 0 \in 0 .. MaxYields
      BY ReverseConstants
    <3> QED BY <1>1, <2>3, <3>1, AppendProperties
  <2>5. Broken(z, g)
    <3>1. (n + 1) - 1 = n /\ n + 1 > 0
      BY <1>1
    <3>2. Follows(z, g, n)
      BY <2>2, <2>4 DEF Follows
    <3> QED BY <2>4, <3>1, <3>2 DEF Broken
  <2>6. CallerOK(r, k2, c, lo2)
    BY <1>2, <1>4, <1>6, <1>9, <2>1, <2>3, <2>5 DEF CallerOK
  <2> QED BY <1>1, <1>6, <2>6
<1> QED BY <1>7, <1>8, <1>9 DEF ReverseId

(* retire: the Cancel frame follows what was said before.                     *)
LEMMA RetireBook ==
    ASSUME NEW d, NEW k, NEW A, NEW c \in ReverseId, NEW a, NEW w, NEW x, NEW v, NEW lo,
           NEW hi, NEW e, NEW u, NEW m, NEW t,
           BookOK(d, k, A, c, a, w, x, v, lo, hi, e, u, m, t), d.st = "pending",
           NEW f \in ReverseCall, Alike(d, f), f.lent = d.lent, NEW lo2 \in Nat,
           \/ f.credit = d.credit /\ lo2 = lo
           \/ f.credit = d.credit - 1 /\ lo2 = lo + 1 /\ v = 0 /\ lo < hi
    PROVE  x = 0 /\ BookOK(Retired(c, f), k, A, c, a, w, 1, v, lo2, hi, e, u, m, t)
<1>1. /\ Numbers(a, w, x, v, lo, hi, e, u, m, t) /\ Records(d, k)
      /\ StageOK(d, k, a, w, x, v, lo, hi, e, u, m, t)
      /\ OrderOK(k, A, c, lo, hi, v, e, u, m, t)
      /\ FundsOK(d, k, a, w, lo, hi, v, u, m) /\ CallerOK(d, k, c, lo)
  BY DEF BookOK
<1>2. d \in ReverseCall /\ k \in IncomingCall /\ lo \in Nat /\ hi \in Nat
  BY <1>1 DEF Records, Numbers
<1>3. x = 0
  BY <1>1 DEF StageOK
<1>4. lo <= lo2 /\ lo2 <= hi
  BY <1>1, <1>2 DEF Numbers
<1>5. PICK r : r = Retired(c, f)
  OBVIOUS
<1>6. /\ r \in ReverseCall /\ r.st = "retired" /\ r.lent = f.lent /\ r.credit = f.credit
      /\ r.buffered = f.buffered /\ CallerOK(r, k, c, lo2)
  <2>1. PICK st : st = "retired"
    OBVIOUS
  <2>2. r = FailedAs(c, f, st)
    BY <1>5, <2>1 DEF Retired, FailedAs
  <2>4. /\ r \in ReverseCall /\ r.st = st /\ r.lent = f.lent /\ r.credit = f.credit
        /\ r.buffered = f.buffered /\ CallerOK(r, k, c, lo2)
    <3>1. Goes(k, k) /\ st \in {"retired", "done"}
      BY <2>1 DEF Goes
    <3> QED BY <1>1, <1>2, <1>4, <2>2, <3>1, FailedCaller
  <2> QED BY <2>1, <2>4
<1>7. Numbers(a, w, 1, v, lo2, hi, e, u, m, t)
  BY <1>1, <1>4 DEF Numbers
<1>8. StageOK(r, k, a, w, 1, v, lo2, hi, e, u, m, t)
  BY <1>1, <1>2, <1>4, <1>6 DEF StageOK, Still
<1>9. OrderOK(k, A, c, lo2, hi, v, e, u, m, t)
  BY <1>1, <1>2, <1>4 DEF OrderOK, Numbers
<1>10. FundsOK(r, k, a, w, lo2, hi, v, u, m)
  <2>1. PICK dc, kc : /\ dc = d.credit /\ kc = k.credit /\ dc \in Nat /\ kc \in Nat
    BY <1>2, ReverseFields, IncomingFields, ReverseConstants
  <2>2. /\ kc + w + (hi - lo) + m <= dc /\ (k.st # "gone" => kc + w + (hi - lo) + m = dc)
        /\ v + u + One(a) <= d.lent
    BY <1>1, <2>1 DEF FundsOK
  <2>3. /\ kc + w + (hi - lo2) + m <= f.credit
        /\ (k.st # "gone" => kc + w + (hi - lo2) + m = f.credit)
    <3>1. w \in Nat /\ lo \in Nat /\ hi \in Nat /\ m \in Nat
      BY <1>1 DEF Numbers
    <3>2. \/ f.credit = dc /\ lo2 = lo
          \/ f.credit = dc - 1 /\ lo2 = lo + 1
      BY <2>1
    <3>3. CASE f.credit = dc /\ lo2 = lo
      BY <2>2, <3>3
    <3>4. CASE f.credit = dc - 1 /\ lo2 = lo + 1
      <4>1. kc + w + (hi - lo2) + m = (kc + w + (hi - lo) + m) - 1
        BY <2>1, <3>1, <3>4
      <4>2. kc + w + (hi - lo) + m \in Int
        BY <2>1, <3>1
      <4> QED BY <2>1, <2>2, <3>4, <4>1, <4>2
    <3> QED BY <3>2, <3>3, <3>4
  <2> QED BY <1>6, <2>1, <2>2, <2>3 DEF FundsOK
<1>11. Records(r, k)
  BY <1>1, <1>6 DEF Records
<1> QED BY <1>3, <1>5, <1>6, <1>7, <1>8, <1>9, <1>10, <1>11 DEF BookOK

(* A byte the caller has read is given back.                                  *)
Repaid(d) == [d EXCEPT !.read = d.read - 1, !.buffered = d.buffered - 1,
                       !.credit = d.credit + 1]

(* The books when it is.                                                      *)
LEMMA CreditBook ==
    ASSUME NEW d, NEW k, NEW A, NEW c \in ReverseId, NEW a, NEW w, NEW x, NEW v, NEW lo,
           NEW hi, NEW e, NEW u, NEW m, NEW t,
           BookOK(d, k, A, c, a, w, x, v, lo, hi, e, u, m, t), d.st = "pending",
           d.read > 0, d.buffered # 0, d.credit # ReverseCredit,
           NEW f, f = Repaid(d)
    PROVE  x = 0 /\ BookOK(f, k, A, c, a, w + 1, x, v, lo, hi, e, u, m, t)
<1>1. /\ Numbers(a, w, x, v, lo, hi, e, u, m, t) /\ Records(d, k)
      /\ StageOK(d, k, a, w, x, v, lo, hi, e, u, m, t)
      /\ OrderOK(k, A, c, lo, hi, v, e, u, m, t)
      /\ FundsOK(d, k, a, w, lo, hi, v, u, m) /\ CallerOK(d, k, c, lo)
  BY DEF BookOK
<1>2. d \in ReverseCall /\ k \in IncomingCall
  BY <1>1 DEF Records
<1>3. PICK r, b, y, n : /\ r = d.read /\ b = d.buffered /\ y = d.credit /\ n = Len(d.channel)
                        /\ r \in 0 .. MaxYields /\ b \in 0 .. MaxBuffered
                        /\ y \in 0 .. ReverseCredit /\ n \in Nat
  BY <1>2, ReverseFields, LenProperties
<1>4. /\ r - 1 \in 0 .. MaxYields /\ b - 1 \in 0 .. MaxBuffered /\ y + 1 \in 0 .. ReverseCredit
  <2>1. r > 0 /\ b # 0 /\ y # ReverseCredit
    BY <1>3
  <2>2. r - 1 \in 0 .. MaxYields
    BY <1>3, <2>1, ReverseConstants
  <2>3. b - 1 \in 0 .. MaxBuffered
    BY <1>3, <2>1, ReverseConstants
  <2>4. y + 1 \in 0 .. ReverseCredit
    BY <1>3, <2>1, ReverseConstants
  <2> QED BY <2>2, <2>3, <2>4
<1>5. f \in ReverseCall
  BY <1>2, <1>3, <1>4 DEF ReverseCall, Repaid
<1>6. /\ f.st = "pending" /\ f.lent = d.lent /\ f.credit = y + 1 /\ f.buffered = b - 1
      /\ f.channel = d.channel /\ f.read = r - 1 /\ f.got = d.got /\ f.caller = d.caller
  BY <1>2, <1>3 DEF ReverseCall, Repaid
<1>7. Numbers(a, w + 1, x, v, lo, hi, e, u, m, t)
  BY <1>1 DEF Numbers
<1>8. StageOK(f, k, a, w + 1, x, v, lo, hi, e, u, m, t) /\ x = 0
  BY <1>1, <1>6 DEF StageOK
<1>9. FundsOK(f, k, a, w + 1, lo, hi, v, u, m)
  <2>1. PICK kc : kc = k.credit /\ kc \in Nat
    BY <1>2, IncomingFields, ReverseConstants
  <2>2. /\ kc + w + (hi - lo) + m <= y /\ (k.st # "gone" => kc + w + (hi - lo) + m = y)
        /\ v + u + One(a) <= d.lent /\ y + b = ReverseCredit
    BY <1>1, <1>3, <2>1 DEF FundsOK
  <2>3. /\ kc + (w + 1) + (hi - lo) + m <= y + 1
        /\ (k.st # "gone" => kc + (w + 1) + (hi - lo) + m = y + 1)
        /\ (y + 1) + (b - 1) = ReverseCredit
    <3>1. /\ w \in Nat /\ lo \in Nat /\ hi \in Nat /\ m \in Nat /\ y \in Nat /\ b \in Nat
          /\ ReverseCredit \in Nat
      <4>1. w \in Nat /\ lo \in Nat /\ hi \in Nat /\ m \in Nat
        BY <1>1 DEF Numbers
      <4>2. y \in Nat /\ b \in Nat /\ ReverseCredit \in Nat
        BY <1>3, ReverseConstants
      <4> QED BY <4>1, <4>2
    <3>2. PICK s \in Int : s = kc + w + (hi - lo) + m
      BY <2>1, <3>1
    <3>3. kc + (w + 1) + (hi - lo) + m = s + 1
      BY <2>1, <3>1, <3>2
    <3>4. s <= y /\ (k.st # "gone" => s = y)
      BY <2>2, <3>2
    <3>5. s + 1 <= y + 1 /\ (y + 1) + (b - 1) = ReverseCredit
      BY <2>2, <3>1, <3>4
    <3> QED BY <3>3, <3>4, <3>5
  <2> QED BY <1>6, <2>1, <2>2, <2>3 DEF FundsOK
<1>10. CallerOK(f, k, c, lo)
  <2>1. PICK g \in Nat : g = d.got
    BY <1>2, ReverseFields, ReverseConstants
  <2>2. n + r <= b /\ r <= g /\ (c \in ReverseUnary => b <= lo)
    BY <1>1, <1>3, <2>1 DEF CallerOK
  <2>3. n + (r - 1) <= b - 1 /\ r - 1 <= g /\ (c \in ReverseUnary => b - 1 <= lo)
    <3>1. lo \in Nat /\ r \in Nat /\ b \in Nat
      <4>1. lo \in Nat
        BY <1>1 DEF Numbers
      <4>2. r \in Nat /\ b \in Nat
        BY <1>3, ReverseConstants
      <4> QED BY <4>1, <4>2
    <3>2. n + (r - 1) <= b - 1 /\ r - 1 <= g
      <4>1. n \in Nat /\ n + r <= b /\ r <= g /\ g \in Nat
        BY <1>3, <2>1, <2>2
      <4>2. n + (r - 1) <= b - 1
        BY <3>1, <4>1
      <4> QED BY <3>1, <4>1, <4>2
    <3>3. ASSUME b <= lo PROVE b - 1 <= lo
      BY <3>1, <3>3
    <3> QED BY <2>2, <3>2, <3>3
  <2> QED BY <1>1, <1>3, <1>6, <2>1, <2>3 DEF CallerOK
<1>11. Records(f, k)
  BY <1>1, <1>5 DEF Records
<1> QED BY <1>1, <1>7, <1>8, <1>9, <1>10, <1>11 DEF BookOK

(* The parts of the books, for use one by one.                                *)
LEMMA BookParts ==
    ASSUME NEW d, NEW k, NEW A, NEW c \in ReverseId, NEW a, NEW w, NEW x, NEW v, NEW lo,
           NEW hi, NEW e, NEW u, NEW m, NEW t,
           BookOK(d, k, A, c, a, w, x, v, lo, hi, e, u, m, t)
    PROVE  /\ d \in ReverseCall /\ k \in IncomingCall /\ d.credit \in Nat /\ k.credit \in Nat
           /\ a \in 0 .. 3 /\ w \in Nat /\ x \in 0 .. 1 /\ v \in 0 .. 1 /\ lo \in Nat
           /\ hi \in Nat /\ lo <= hi /\ e \in 0 .. 2 /\ u \in 0 .. 1 /\ m \in 0 .. 1
           /\ t \in 0 .. 2 /\ k.yields \in Nat
           /\ StageOK(d, k, a, w, x, v, lo, hi, e, u, m, t)
           /\ OrderOK(k, A, c, lo, hi, v, e, u, m, t)
           /\ FundsOK(d, k, a, w, lo, hi, v, u, m) /\ CallerOK(d, k, c, lo)
           /\ k.waiting => k.yields < MaxYields
<1>1. Numbers(a, w, x, v, lo, hi, e, u, m, t) /\ Records(d, k)
  BY DEF BookOK
<1>2. d \in ReverseCall /\ k \in IncomingCall /\ (k.waiting => k.yields < MaxYields)
  BY <1>1 DEF Records
<1>3. d.credit \in Nat /\ k.credit \in Nat /\ k.yields \in Nat
  BY <1>2, ReverseFields, IncomingFields, ReverseConstants
<1> QED BY <1>1, <1>2, <1>3 DEF BookOK, Numbers

(* A payload of a call the daemon gave up.                                    *)
LEMMA DroppedBook ==
    ASSUME NEW d, NEW k, NEW A, NEW c \in ReverseId, NEW a, NEW w, NEW x, NEW lo,
           NEW hi, NEW e, NEW u, NEW m, NEW t,
           BookOK(d, k, A, c, a, w, x, 0, lo, hi, e, u, m, t), d.st = "retired", lo < hi,
           NEW f, f = [d EXCEPT !.credit = d.credit - 1]
    PROVE  BookOK(f, k, A, c, a, w, x, 0, lo + 1, hi, e, u, m, t)
<1>1. /\ d \in ReverseCall /\ k \in IncomingCall /\ d.credit \in Nat /\ k.credit \in Nat
      /\ a \in 0 .. 3 /\ w \in Nat /\ x \in 0 .. 1 /\ lo \in Nat
      /\ hi \in Nat /\ e \in 0 .. 2 /\ u \in 0 .. 1 /\ m \in 0 .. 1 /\ t \in 0 .. 2
  BY BookParts
<1>2. /\ StageOK(d, k, a, w, x, 0, lo, hi, e, u, m, t)
      /\ OrderOK(k, A, c, lo, hi, 0, e, u, m, t)
      /\ FundsOK(d, k, a, w, lo, hi, 0, u, m) /\ CallerOK(d, k, c, lo)
      /\ k.waiting => k.yields < MaxYields
  BY BookParts
<1>3. PICK y, kc : y = d.credit /\ kc = k.credit /\ y \in Nat /\ kc \in Nat
  BY <1>1
<1>4. /\ kc + w + (hi - lo) + m <= y /\ (k.st # "gone" => kc + w + (hi - lo) + m = y)
      /\ 0 + u + One(a) <= d.lent
  BY <1>2, <1>3 DEF FundsOK
<1>5. y <= ReverseCredit
  BY <1>1, <1>3, ReverseFields, ReverseConstants
<1>6. y - 1 \in 0 .. ReverseCredit
  BY <1>1, <1>3, <1>4, <1>5, ReverseConstants
<1>7. f \in ReverseCall
  BY <1>1, <1>3, <1>6 DEF ReverseCall
<1>8. /\ f.st = "retired" /\ f.lent = d.lent /\ f.credit = y - 1 /\ f.buffered = d.buffered
      /\ f.channel = d.channel /\ f.read = d.read /\ f.got = d.got /\ f.caller = d.caller
  BY <1>1, <1>3 DEF ReverseCall
<1>9. Numbers(a, w, x, 0, lo + 1, hi, e, u, m, t)
  BY <1>1 DEF Numbers
<1>10. StageOK(f, k, a, w, x, 0, lo + 1, hi, e, u, m, t)
  BY <1>1, <1>2, <1>8 DEF StageOK, Still
<1>11. OrderOK(k, A, c, lo + 1, hi, 0, e, u, m, t)
  BY <1>1, <1>2 DEF OrderOK
<1>12. FundsOK(f, k, a, w, lo + 1, hi, 0, u, m)
  <2>1. PICK s \in Int : s = kc + w + (hi - lo) + m
    BY <1>1, <1>3
  <2>2. kc + w + (hi - (lo + 1)) + m = s - 1
    BY <1>1, <1>3, <2>1
  <2>3. s - 1 <= y - 1 /\ (k.st # "gone" => s - 1 = y - 1)
    BY <1>3, <1>4, <2>1
  <2> QED BY <1>3, <1>4, <1>8, <2>2, <2>3 DEF FundsOK
<1>13. CallerOK(f, k, c, lo + 1)
  <2>1. d.buffered \in Nat /\ (d.buffered <= lo => d.buffered <= lo + 1)
    <3>1. d.buffered \in Nat
      BY <1>1, ReverseNumbers
    <3> QED BY <1>1, <3>1
  <2> QED BY <1>2, <1>8, <2>1 DEF CallerOK
<1>14. Records(f, k)
  BY <1>1, <1>2, <1>7 DEF Records
<1> QED BY <1>9, <1>10, <1>11, <1>12, <1>13, <1>14 DEF BookOK

(* A payload that is kept: what the caller will read goes on in order.        *)
LEMMA KeptBook ==
    ASSUME NEW d, NEW k, NEW A, NEW c \in ReverseId, NEW a, NEW w, NEW x, NEW lo,
           NEW hi, NEW e, NEW u, NEW m, NEW t,
           BookOK(d, k, A, c, a, w, x, 0, lo, hi, e, u, m, t), d.st = "pending", lo < hi,
           c \in ReverseUnary => d.buffered # 1,
           c \in ReverseStream => d.buffered < MaxBuffered /\ d.caller = "waiting",
           NEW f, f = [d EXCEPT !.credit = d.credit - 1, !.buffered = d.buffered + 1,
                                !.channel = IF c \in ReverseStream
                                            THEN Append(d.channel, lo + 1) ELSE d.channel]
    PROVE  BookOK(f, k, A, c, a, w, x, 0, lo + 1, hi, e, u, m, t)
<1>1. /\ d \in ReverseCall /\ k \in IncomingCall /\ d.credit \in Nat /\ k.credit \in Nat
      /\ a \in 0 .. 3 /\ w \in Nat /\ x \in 0 .. 1 /\ lo \in Nat
      /\ hi \in Nat /\ e \in 0 .. 2 /\ u \in 0 .. 1 /\ m \in 0 .. 1 /\ t \in 0 .. 2
  BY BookParts
<1>2. /\ StageOK(d, k, a, w, x, 0, lo, hi, e, u, m, t)
      /\ OrderOK(k, A, c, lo, hi, 0, e, u, m, t)
      /\ FundsOK(d, k, a, w, lo, hi, 0, u, m) /\ CallerOK(d, k, c, lo)
      /\ k.waiting => k.yields < MaxYields
  BY BookParts
<1>3. PICK y, kc, b, ky : /\ y = d.credit /\ kc = k.credit /\ b = d.buffered /\ ky = k.yields
                          /\ y \in Nat /\ kc \in Nat /\ b \in Nat /\ b <= MaxBuffered
                          /\ ky \in Nat /\ ky <= MaxYields /\ y <= ReverseCredit
  BY <1>1, ReverseNumbers, IncomingNumbers
<1>4. /\ kc + w + (hi - lo) + m <= y /\ (k.st # "gone" => kc + w + (hi - lo) + m = y)
      /\ 0 + u + One(a) <= d.lent /\ y + b = ReverseCredit
  BY <1>2, <1>3 DEF FundsOK
<1>5. y - 1 \in 0 .. ReverseCredit
  BY <1>1, <1>3, <1>4, ReverseConstants
<1>6. hi + m <= ky
  BY <1>2, <1>3 DEF OrderOK
<1>7. lo + 1 \in 0 .. MaxYields
  BY <1>1, <1>3, <1>6, ReverseConstants
<1>8. c \in ReverseUnary => b = 0
  <2> SUFFICES ASSUME c \in ReverseUnary PROVE b = 0
    OBVIOUS
  <2>1. ky <= 1 /\ b <= lo
    BY <1>2, <1>3 DEF CallerOK
  <2> QED BY <1>1, <1>3, <1>6, <2>1
<1>9. b + 1 \in 0 .. MaxBuffered
  <2>1. CASE c \in ReverseUnary
    BY <1>8, <2>1, ReverseConstants
  <2>2. CASE c \in ReverseStream
    BY <1>3, <2>2, ReverseConstants
  <2> QED BY <2>1, <2>2 DEF ReverseId
<1>10. PICK z : z = IF c \in ReverseStream THEN Append(d.channel, lo + 1) ELSE d.channel
  OBVIOUS
<1>11. PICK n \in Nat : n = Len(d.channel) /\ d.channel \in Seq(0 .. MaxYields)
  BY <1>1, ReverseFields, LenProperties
<1>12. /\ z \in Seq(0 .. MaxYields)
       /\ c \in ReverseStream => /\ Len(z) = n + 1 /\ z[n + 1] = lo + 1
                                 /\ \A i \in 1 .. n : z[i] = d.channel[i]
  <2>1. /\ Append(d.channel, lo + 1) \in Seq(0 .. MaxYields)
        /\ Len(Append(d.channel, lo + 1)) = n + 1 /\ Append(d.channel, lo + 1)[n + 1] = lo + 1
        /\ \A i \in 1 .. n : Append(d.channel, lo + 1)[i] = d.channel[i]
    BY <1>7, <1>11, AppendProperties
  <2> QED BY <1>10, <1>11, <2>1
<1>13. f = [d EXCEPT !.credit = y - 1, !.buffered = b + 1, !.channel = z]
  BY <1>3, <1>10
<1>14. f \in ReverseCall
  <2>1. z \in Seq(0 .. MaxYields)
    BY <1>12
  <2> QED BY <1>1, <1>5, <1>9, <1>13, <2>1 DEF ReverseCall
<1>15. /\ f.st = "pending" /\ f.lent = d.lent /\ f.credit = y - 1 /\ f.buffered = b + 1
       /\ f.channel = z /\ f.read = d.read /\ f.got = d.got /\ f.caller = d.caller
  BY <1>1, <1>13 DEF ReverseCall
<1>16. Numbers(a, w, x, 0, lo + 1, hi, e, u, m, t)
  BY <1>1 DEF Numbers
<1>17. StageOK(f, k, a, w, x, 0, lo + 1, hi, e, u, m, t)
  BY <1>1, <1>2, <1>15 DEF StageOK, Still
<1>18. OrderOK(k, A, c, lo + 1, hi, 0, e, u, m, t)
  BY <1>1, <1>2 DEF OrderOK
<1>19. FundsOK(f, k, a, w, lo + 1, hi, 0, u, m)
  <2>1. PICK s \in Int : s = kc + w + (hi - lo) + m
    BY <1>1, <1>3
  <2>2. kc + w + (hi - (lo + 1)) + m = s - 1
    BY <1>1, <1>3, <2>1
  <2>3. s - 1 <= y - 1 /\ (k.st # "gone" => s - 1 = y - 1) /\ (y - 1) + (b + 1) = ReverseCredit
    BY <1>3, <1>4, <2>1
  <2> QED BY <1>3, <1>4, <1>15, <2>2, <2>3 DEF FundsOK
<1>20. CallerOK(f, k, c, lo + 1)
  <2>1. PICK g, r : g = d.got /\ r = d.read /\ g \in Nat /\ r \in Nat
    BY <1>1, ReverseNumbers
  <2>2. n + r <= b /\ r <= g /\ (d.caller # "waiting" => d.channel = <<>>)
    BY <1>2, <1>3, <1>11, <2>1 DEF CallerOK
  <2>3. CASE c \in ReverseUnary
    <3>1. c \notin ReverseStream /\ z = d.channel
      BY <1>10, <2>3, ReverseConstants
    <3>2. ky <= 1 /\ d.channel = <<>> /\ g = 0 /\ (k.waiting => ky = 0)
      BY <1>2, <1>3, <2>1, <2>3 DEF CallerOK
    <3>3. n + r <= b + 1 /\ b + 1 <= lo + 1
      BY <1>1, <1>3, <1>8, <2>1, <2>2, <2>3
    <3>4. d.caller = "complete" => k.returned
      BY <1>2 DEF CallerOK
    <3> QED BY <1>3, <1>11, <1>15, <2>1, <2>2, <2>3, <3>1, <3>2, <3>3, <3>4 DEF CallerOK
  <2>4. CASE c \in ReverseStream
    <3>1. lo = g + n /\ Follows(d.channel, g, n)
      BY <1>2, <1>11, <2>1, <2>4 DEF CallerOK
    <3>2. /\ (n + 1) + r <= b + 1 /\ lo + 1 = g + (n + 1)
          /\ \A i \in 1 .. n + 1 : i \in 1 .. n \/ i = n + 1
      <4>1. g \in Nat /\ n \in Nat /\ r \in Nat /\ b \in Nat /\ n + r <= b /\ lo = g + n
        BY <1>3, <2>1, <2>2, <3>1
      <4>2. (n + 1) + r <= b + 1 /\ lo + 1 = g + (n + 1)
        BY <4>1
      <4>3. \A i \in 1 .. n + 1 : i \in 1 .. n \/ i = n + 1
        OBVIOUS
      <4> QED BY <4>2, <4>3
    <3>3. Follows(z, g, n + 1)
      BY <1>12, <2>4, <3>1, <3>2 DEF Follows
    <3>4. c \notin ReverseUnary
      BY <2>4, ReverseConstants
    <3>5. Len(z) = n + 1
      BY <1>12, <2>4
    <3> QED BY <1>15, <2>1, <2>2, <2>4, <3>2, <3>3, <3>4, <3>5 DEF CallerOK
  <2> QED BY <2>3, <2>4 DEF ReverseId
<1>21. Records(f, k)
  BY <1>1, <1>2, <1>14 DEF Records
<1> QED BY <1>16, <1>17, <1>18, <1>19, <1>20, <1>21 DEF BookOK

(* receive_end of a retired call, or of a stream that is pending.             *)
LEMMA EndedBook ==
    ASSUME NEW d, NEW k, NEW A, NEW c \in ReverseId, NEW a, NEW w, NEW x, NEW lo,
           NEW hi, NEW e, NEW u, NEW m, NEW t,
           BookOK(d, k, A, c, a, w, x, 0, lo, hi, e, u, m, t), lo = hi, e > 0,
           NEW f \in ReverseCall, f.st = "done", f.lent = d.lent, f.credit = d.credit,
           CallerOK(f, k, c, lo)
    PROVE  BookOK(f, k, A, c, a, w, x, 0, lo, hi, 0, u, m, t)
<1>1. /\ d \in ReverseCall /\ k \in IncomingCall /\ d.credit \in Nat /\ k.credit \in Nat
      /\ a \in 0 .. 3 /\ w \in Nat /\ x \in 0 .. 1 /\ lo \in Nat
      /\ hi \in Nat /\ e \in 0 .. 2 /\ u \in 0 .. 1 /\ m \in 0 .. 1 /\ t \in 0 .. 2
  BY BookParts
<1>2. /\ StageOK(d, k, a, w, x, 0, lo, hi, e, u, m, t)
      /\ OrderOK(k, A, c, lo, hi, 0, e, u, m, t)
      /\ FundsOK(d, k, a, w, lo, hi, 0, u, m) /\ CallerOK(d, k, c, lo)
      /\ k.waiting => k.yields < MaxYields
  BY BookParts
<1>3. u = 0 /\ m = 0 /\ t = 0 /\ k.st = "gone"
  BY <1>2 DEF OrderOK
<1>4. Numbers(a, w, x, 0, lo, hi, 0, u, m, t)
  BY <1>1 DEF Numbers
<1>5. StageOK(f, k, a, w, x, 0, lo, hi, 0, u, m, t)
  BY <1>2, <1>3 DEF StageOK, Still
<1>6. OrderOK(k, A, c, lo, hi, 0, 0, u, m, t)
  BY <1>2, <1>3 DEF OrderOK
<1>7. FundsOK(f, k, a, w, lo, hi, 0, u, m)
  BY <1>2, <1>3 DEF FundsOK
<1>8. Records(f, k)
  BY <1>1, <1>2 DEF Records
<1> QED BY <1>4, <1>5, <1>6, <1>7, <1>8 DEF BookOK

(* The record of a call after its CallEnd.                                    *)
Closes(c, d, n) ==
    LET f == [d EXCEPT !.st = "done"] IN
    CASE d.st = "retired" -> f
      [] d.st = "pending" /\ n = 0 -> Failed(c, f)
      [] d.st = "pending" /\ n = 1 /\ c \in ReverseStream -> f
      [] OTHER -> [f EXCEPT !.caller = IF f.caller = "waiting" /\ f.buffered = 1
                                       THEN "complete" ELSE "cut"]

(* A caller that is told its call is complete has everything.                 *)
LEMMA EndBook ==
    ASSUME NEW d, NEW k, NEW A, NEW c \in ReverseId, NEW a, NEW w, NEW x, NEW lo,
           NEW hi, NEW e, NEW u, NEW m, NEW t,
           BookOK(d, k, A, c, a, w, x, 0, lo, hi, e, u, m, t), lo = hi, e > 0,
           d.st \in {"pending", "retired"}, NEW f, f = Closes(c, d, e - 1)
    PROVE  BookOK(f, k, A, c, a, w, x, 0, lo, hi, 0, u, m, t)
<1>1. /\ d \in ReverseCall /\ k \in IncomingCall /\ lo \in Nat
      /\ hi \in Nat /\ e \in 0 .. 2 /\ u \in 0 .. 1 /\ m \in 0 .. 1 /\ t \in 0 .. 2
  BY BookParts
<1>2. /\ OrderOK(k, A, c, lo, hi, 0, e, u, m, t) /\ CallerOK(d, k, c, lo)
  BY BookParts
<1>3. PICK g : g = [d EXCEPT !.st = "done"]
  OBVIOUS
<1>4. /\ g \in ReverseCall /\ g.st = "done" /\ g.lent = d.lent /\ g.credit = d.credit
      /\ g.buffered = d.buffered /\ g.channel = d.channel /\ g.read = d.read
      /\ g.got = d.got /\ g.caller = d.caller
  BY <1>1, <1>3 DEF ReverseCall
<1>5. e = 1 \/ e = 2
  BY <1>1
<1>6. SUFFICES /\ f \in ReverseCall /\ f.st = "done" /\ f.lent = d.lent /\ f.credit = d.credit
               /\ CallerOK(f, k, c, lo)
  BY <1>6, EndedBook
<1>7. CASE d.st = "retired"
  <2>1. f = g
    BY <1>3, <1>7 DEF Closes
  <2>2. CallerOK(g, k, c, lo)
    BY <1>2, <1>4, <1>7 DEF CallerOK
  <2> QED BY <1>4, <2>1, <2>2
<1>8. CASE d.st = "pending" /\ e = 1
  <2>1. f = Failed(c, g)
    BY <1>3, <1>8 DEF Closes
  <2>2. Alike(d, g)
    <3>1. d.read \in Nat /\ d.read <= d.read
      BY <1>1, ReverseFields, ReverseConstants
    <3> QED BY <1>4, <3>1 DEF Alike
  <2>3. Goes(k, k)
    BY DEF Goes
  <2>4. PICK r, st : st = "done" /\ r = FailedAs(c, g, st)
    OBVIOUS
  <2>5. lo <= lo /\ st \in {"retired", "done"}
    BY <1>1, <2>4
  <2>6. /\ r \in ReverseCall /\ r.st = st /\ r.lent = g.lent /\ r.credit = g.credit
        /\ r.buffered = g.buffered /\ CallerOK(r, k, c, lo)
    BY <1>1, <1>2, <1>4, <1>8, <2>2, <2>3, <2>4, <2>5, FailedCaller
  <2>7. f.st = "done" /\ f \in ReverseCall
    <3>1. c \in ReverseStream /\ g.caller = "waiting" => Len(g.channel) <= MaxBuffered
      <4>1. PICK n, s, b : /\ n = Len(d.channel) /\ s = d.read /\ b = d.buffered
                           /\ n \in Nat /\ s \in Nat /\ b \in Nat /\ b <= MaxBuffered
        BY <1>1, ReverseNumbers
      <4>2. n + s <= b
        BY <1>2, <1>8, <4>1 DEF CallerOK
      <4>3. n <= MaxBuffered
        BY <4>1, <4>2, ReverseConstants
      <4> QED BY <1>4, <4>1, <4>3
    <3>2. PICK h : h = Failed(c, g)
      OBVIOUS
    <3>3. h \in ReverseCall /\ h.st = g.st
      BY <1>4, <3>1, <3>2, FailedRecord
    <3> QED BY <1>4, <2>1, <3>2, <3>3
  <2>8. r = f
    BY <2>1, <2>4, <2>7 DEF FailedAs, ReverseCall
  <2> QED BY <1>4, <2>4, <2>6, <2>8
<1>9. CASE d.st = "pending" /\ e = 2 /\ c \in ReverseStream
  <2>1. f = g
    BY <1>3, <1>9 DEF Closes
  <2>2. k.returned /\ hi + 0 = k.yields
    BY <1>2, <1>9 DEF OrderOK
  <2>3. CallerOK(g, k, c, lo)
    <3>1. c \notin ReverseUnary
      BY <1>9, ReverseConstants
    <3>2. hi = k.yields
      BY <1>1, <2>2
    <3> QED BY <1>2, <1>4, <1>9, <2>2, <3>1, <3>2 DEF CallerOK
  <2> QED BY <1>4, <2>1, <2>3
<1>10. CASE d.st = "pending" /\ e = 2 /\ c \in ReverseUnary
  <2>1. c \notin ReverseStream
    BY <1>10, ReverseConstants
  <2>2. PICK s : s = IF g.caller = "waiting" /\ g.buffered = 1 THEN "complete" ELSE "cut"
    OBVIOUS
  <2>3. f = [g EXCEPT !.caller = s]
    BY <1>3, <1>10, <2>1, <2>2 DEF Closes
  <2>4. s \in {"waiting", "complete", "cut"}
    BY <2>2
  <2>5. /\ f \in ReverseCall /\ f.st = "done" /\ f.lent = d.lent /\ f.credit = d.credit
        /\ f.buffered = d.buffered /\ f.channel = d.channel /\ f.read = d.read
        /\ f.got = d.got /\ f.caller = s
    BY <1>4, <2>3, <2>4 DEF ReverseCall
  <2>6. k.returned
    BY <1>2, <1>10 DEF OrderOK
  <2>7. CallerOK(f, k, c, lo)
    BY <1>2, <1>10, <2>1, <2>5, <2>6 DEF CallerOK
  <2> QED BY <2>5, <2>7
<1> QED BY <1>5, <1>7, <1>8, <1>9, <1>10 DEF ReverseId

(* The byte of the request comes back.                                        *)
LEMMA WindowBook ==
    ASSUME NEW d, NEW k, NEW A, NEW c \in ReverseId, NEW a, NEW w, NEW x, NEW lo,
           NEW hi, NEW e, NEW u, NEW m, NEW t,
           BookOK(d, k, A, c, a, w, x, 1, lo, hi, e, u, m, t),
           NEW f, f = [d EXCEPT !.lent = 0]
    PROVE  BookOK(f, k, A, c, a, w, x, 0, lo, hi, e, u, m, t)
<1>1. /\ d \in ReverseCall /\ k \in IncomingCall /\ d.credit \in Nat /\ k.credit \in Nat
      /\ a \in 0 .. 3 /\ w \in Nat /\ x \in 0 .. 1 /\ lo \in Nat /\ lo <= hi
      /\ hi \in Nat /\ e \in 0 .. 2 /\ u \in 0 .. 1 /\ m \in 0 .. 1 /\ t \in 0 .. 2
  BY BookParts
<1>2. /\ StageOK(d, k, a, w, x, 1, lo, hi, e, u, m, t)
      /\ OrderOK(k, A, c, lo, hi, 1, e, u, m, t)
      /\ FundsOK(d, k, a, w, lo, hi, 1, u, m) /\ CallerOK(d, k, c, lo)
      /\ k.waiting => k.yields < MaxYields
  BY BookParts
<1>3. One(a) \in 0 .. 1 /\ (One(a) = 0 <=> a = 0) /\ d.lent \in 0 .. 1
  BY <1>1, ReverseFields DEF One
<1>4. 1 + u + One(a) <= d.lent
  BY <1>2 DEF FundsOK
<1>5. u = 0 /\ a = 0 /\ One(a) = 0
  BY <1>1, <1>3, <1>4
<1>6. /\ f \in ReverseCall /\ f.st = d.st /\ f.lent = 0 /\ f.credit = d.credit
      /\ f.buffered = d.buffered /\ f.channel = d.channel /\ f.read = d.read
      /\ f.got = d.got /\ f.caller = d.caller
  <2>1. d \in ReverseCall /\ 0 \in 0 .. 1
    BY <1>1
  <2>2. f \in ReverseCall
    BY <2>1 DEF ReverseCall
  <2> QED BY <2>1, <2>2 DEF ReverseCall
<1>7. d.st # "idle"
  BY <1>2 DEF StageOK, Still
<1>8. Numbers(a, w, x, 0, lo, hi, e, u, m, t)
  BY <1>1 DEF Numbers
<1>9. StageOK(f, k, a, w, x, 0, lo, hi, e, u, m, t)
  BY <1>2, <1>6, <1>7 DEF StageOK, Still
<1>10. OrderOK(k, A, c, lo, hi, 0, e, u, m, t)
  BY <1>2, <1>5 DEF OrderOK
<1>11. FundsOK(f, k, a, w, lo, hi, 0, u, m)
  BY <1>2, <1>5, <1>6 DEF FundsOK
<1>12. CallerOK(f, k, c, lo)
  BY <1>2, <1>6 DEF CallerOK
<1>13. Records(f, k)
  BY <1>1, <1>2, <1>6 DEF Records
<1> QED BY <1>8, <1>9, <1>10, <1>11, <1>12, <1>13 DEF BookOK

(* The client hears of a call, and keeps its request or marks it as failed.   *)
LEMMA RequestBook ==
    ASSUME NEW d, NEW k, NEW A, NEW c \in ReverseId, NEW a, NEW w, NEW x, NEW v, NEW lo,
           NEW hi, NEW e, NEW u, NEW m, NEW t,
           BookOK(d, k, A, c, a, w, x, v, lo, hi, e, u, m, t), NEW f,
           \/ a = 3 /\ f = [k EXCEPT !.st = "receiving"]
           \/ a = 2 /\ k.st # "gone" /\ f = [k EXCEPT !.request = TRUE]
           \/ a = 2 /\ k.st # "gone" /\ f = [k EXCEPT !.failure = TRUE]
    PROVE  BookOK(d, f, A, c, a - 1, w, x, v, lo, hi, e, u, m, t)
<1>1. /\ d \in ReverseCall /\ k \in IncomingCall /\ d.credit \in Nat /\ k.credit \in Nat
      /\ a \in 0 .. 3 /\ w \in Nat /\ x \in 0 .. 1 /\ v \in 0 .. 1 /\ lo \in Nat
      /\ hi \in Nat /\ lo <= hi /\ e \in 0 .. 2 /\ u \in 0 .. 1 /\ m \in 0 .. 1
      /\ t \in 0 .. 2 /\ k.yields \in Nat
  BY BookParts
<1>2. /\ StageOK(d, k, a, w, x, v, lo, hi, e, u, m, t)
      /\ OrderOK(k, A, c, lo, hi, v, e, u, m, t)
      /\ FundsOK(d, k, a, w, lo, hi, v, u, m) /\ CallerOK(d, k, c, lo)
      /\ k.waiting => k.yields < MaxYields
  BY BookParts
<1>3. /\ a = 3 => /\ k.st = "absent" /\ k.request = FALSE /\ k.yields = 0
                  /\ Still(v, lo, hi, e, u, m, t) /\ d.st \in {"pending", "retired"}
      /\ a = 2 /\ k.st # "gone" => k.st = "receiving"
  <2>1. k.st \in {"absent", "receiving", "running", "gone"}
    BY <1>1, IncomingFields
  <2>2. NewIncoming.request = FALSE /\ NewIncoming.yields = 0
    BY DEF NewIncoming
  <2> QED BY <1>2, <2>1, <2>2 DEF StageOK
<1>4. f \in IncomingCall
  BY <1>1 DEF IncomingCall
<1>5. /\ f.st = "receiving" /\ f.credit = k.credit /\ f.waiting = k.waiting
      /\ f.yields = k.yields /\ f.returned = k.returned /\ (a = 3 => f.request = k.request)
  BY <1>1, <1>3 DEF IncomingCall
<1>6. Numbers(a - 1, w, x, v, lo, hi, e, u, m, t)
  BY <1>1 DEF Numbers
<1>7. StageOK(d, f, a - 1, w, x, v, lo, hi, e, u, m, t)
  <2>1. (a = 3 => a - 1 = 2) /\ (a = 2 => a - 1 = 1) /\ (a = 3 \/ a = 2)
    OBVIOUS
  <2>2. CASE a = 3
    BY <1>2, <1>3, <1>5, <2>1, <2>2 DEF StageOK
  <2>3. CASE a = 2 /\ k.st # "gone"
    BY <1>2, <1>3, <1>5, <2>1, <2>3 DEF StageOK
  <2> QED BY <2>2, <2>3
<1>8. OrderOK(f, A, c, lo, hi, v, e, u, m, t)
  BY <1>2, <1>3, <1>5 DEF OrderOK
<1>9. FundsOK(d, f, a - 1, w, lo, hi, v, u, m)
  <2>1. One(a - 1) = One(a)
    BY DEF One
  <2> QED BY <1>2, <1>3, <1>5, <2>1 DEF FundsOK
<1>10. CallerOK(d, f, c, lo)
  BY <1>2, <1>5 DEF CallerOK
<1>11. Records(d, f)
  BY <1>1, <1>2, <1>4, <1>5 DEF Records
<1> QED BY <1>6, <1>7, <1>8, <1>9, <1>10, <1>11 DEF BookOK

(* The request is whole and its byte given back, if there is a place for it.  *)
LEMMA RunBook ==
    ASSUME NEW d, NEW k, NEW A, NEW c \in ReverseId, NEW w, NEW x, NEW v, NEW lo,
           NEW hi, NEW e, NEW u, NEW m, NEW t,
           BookOK(d, k, A, c, 1, w, x, v, lo, hi, e, u, m, t), k.st # "gone",
           NEW u2 \in 0 .. 1, NEW f, f = [k EXCEPT !.st = "running", !.request = FALSE]
    PROVE  /\ Still(v, lo, hi, e, u, m, t) /\ k.yields = 0 /\ k.st = "receiving"
           /\ BookOK(d, f, A, c, 0, w, x, v, lo, hi, e, u2, m, t)
<1>1. /\ d \in ReverseCall /\ k \in IncomingCall /\ d.credit \in Nat /\ k.credit \in Nat
      /\ w \in Nat /\ x \in 0 .. 1 /\ v \in 0 .. 1 /\ lo \in Nat
      /\ hi \in Nat /\ lo <= hi /\ e \in 0 .. 2 /\ u \in 0 .. 1 /\ m \in 0 .. 1
      /\ t \in 0 .. 2 /\ k.yields \in Nat
  BY BookParts
<1>2. /\ StageOK(d, k, 1, w, x, v, lo, hi, e, u, m, t)
      /\ OrderOK(k, A, c, lo, hi, v, e, u, m, t)
      /\ FundsOK(d, k, 1, w, lo, hi, v, u, m) /\ CallerOK(d, k, c, lo)
      /\ k.waiting => k.yields < MaxYields
  BY BookParts
<1>3. k.st = "receiving" /\ Still(v, lo, hi, e, u, m, t) /\ k.yields = 0
  <2>1. k.st \in {"absent", "receiving", "running", "gone"}
    BY <1>1, IncomingFields
  <2> QED BY <1>2, <2>1 DEF StageOK
<1>4. f \in IncomingCall
  BY <1>1 DEF IncomingCall
<1>5. /\ f.st = "running" /\ f.credit = k.credit /\ f.waiting = k.waiting
      /\ f.yields = k.yields /\ f.returned = k.returned
  BY <1>1 DEF IncomingCall
<1>6. Numbers(0, w, x, v, lo, hi, e, u2, m, t)
  BY <1>1 DEF Numbers
<1>7. StageOK(d, f, 0, w, x, v, lo, hi, e, u2, m, t)
  BY <1>2, <1>3, <1>5 DEF StageOK, Still
<1>8. OrderOK(f, A, c, lo, hi, v, e, u2, m, t)
  BY <1>2, <1>3, <1>5 DEF OrderOK, Still
<1>9. FundsOK(d, f, 0, w, lo, hi, v, u2, m)
  <2>1. One(1) = 1 /\ One(0) = 0
    BY DEF One
  <2>2. v + u + 1 <= d.lent /\ d.lent \in Nat
    <3>1. d.lent \in Nat
      BY <1>1, ReverseNumbers
    <3>2. v + u + One(1) <= d.lent
      BY <1>2 DEF FundsOK
    <3> QED BY <2>1, <3>1, <3>2
  <2>3. v + u2 + 0 <= d.lent
    BY <1>1, <2>2
  <2> QED BY <1>2, <1>3, <1>5, <2>1, <2>3 DEF FundsOK
<1>10. CallerOK(d, f, c, lo)
  BY <1>2, <1>5 DEF CallerOK
<1>11. Records(d, f)
  BY <1>1, <1>2, <1>4, <1>5 DEF Records
<1> QED BY <1>3, <1>6, <1>7, <1>8, <1>9, <1>10, <1>11 DEF BookOK

(* The record of a call that is over, with or without its CallEnd.            *)
Over(k, f) ==
    /\ f \in IncomingCall /\ f.st = "gone" /\ f.waiting = FALSE
    /\ f.credit = k.credit /\ f.yields = k.yields

(* fail, and cancel: the call is aborted.                                     *)
LEMMA FailBook ==
    ASSUME NEW d, NEW k, NEW A, NEW c \in ReverseId, NEW a, NEW w, NEW x, NEW v, NEW lo,
           NEW hi, NEW e, NEW u, NEW m, NEW t,
           BookOK(d, k, A, c, a, w, x, v, lo, hi, e, u, m, t),
           k.st \in {"receiving", "running"}, NEW f, Over(k, f), f.returned = k.returned,
           a > 0 => f.early, NEW t2 \in 0 .. 1, t2 = 0 => f.unsent
    PROVE  t = 0 /\ e = 0 /\ BookOK(d, f, A \cup {c}, c, a, w, x, v, lo, hi, e, u, m, t2)
<1>1. /\ d \in ReverseCall /\ k \in IncomingCall /\ d.credit \in Nat /\ k.credit \in Nat
      /\ a \in 0 .. 3 /\ w \in Nat /\ x \in 0 .. 1 /\ v \in 0 .. 1 /\ lo \in Nat
      /\ hi \in Nat /\ lo <= hi /\ e \in 0 .. 2 /\ u \in 0 .. 1 /\ m \in 0 .. 1
      /\ t \in 0 .. 2 /\ k.yields \in Nat
  BY BookParts
<1>2. /\ StageOK(d, k, a, w, x, v, lo, hi, e, u, m, t)
      /\ OrderOK(k, A, c, lo, hi, v, e, u, m, t)
      /\ FundsOK(d, k, a, w, lo, hi, v, u, m) /\ CallerOK(d, k, c, lo)
  BY BookParts
<1>3. t = 0 /\ e = 0 /\ ~k.returned /\ d.st \in {"pending", "retired"}
  <2>1. Still(v, lo, hi, e, u, m, t) => t = 0 /\ e = 0
    BY DEF Still
  <2> QED BY <1>2, <2>1 DEF StageOK, OrderOK
<1>4. Numbers(a, w, x, v, lo, hi, e, u, m, t2)
  BY <1>1 DEF Numbers
<1>5. t2 = 0 \/ t2 > 0
  OBVIOUS
<1>6. StageOK(d, f, a, w, x, v, lo, hi, e, u, m, t2)
  BY <1>2, <1>3, <1>5 DEF StageOK, Over
<1>7. OrderOK(f, A \cup {c}, c, lo, hi, v, e, u, m, t2)
  BY <1>2, <1>3 DEF OrderOK, Over
<1>8. FundsOK(d, f, a, w, lo, hi, v, u, m)
  <2>1. k.credit + w + (hi - lo) + m <= d.credit
    BY <1>2 DEF FundsOK
  <2> QED BY <1>2, <2>1 DEF FundsOK, Over
<1>9. CallerOK(d, f, c, lo)
  BY <1>2 DEF CallerOK, Over
<1>10. Records(d, f)
  BY <1>1 DEF Records, Over
<1> QED BY <1>3, <1>4, <1>6, <1>7, <1>8, <1>9, <1>10 DEF BookOK

(* The handler returns.                                                       *)
LEMMA ReturnBook ==
    ASSUME NEW d, NEW k, NEW A, NEW c \in ReverseId, NEW a, NEW w, NEW x, NEW v, NEW lo,
           NEW hi, NEW e, NEW u, NEW m, NEW t,
           BookOK(d, k, A, c, a, w, x, v, lo, hi, e, u, m, t), k.st = "running", m = 0,
           NEW f, Over(k, f), f.returned = TRUE
    PROVE  /\ BookOK(d, f, A, c, a, w, x, v, lo, hi, e, u, m, 2)
           /\ f.unsent => BookOK(d, f, A, c, a, w, x, v, lo, hi, e, u, m, 0)
<1> SUFFICES ASSUME NEW t2, t2 = 2 \/ (t2 = 0 /\ f.unsent)
             PROVE  BookOK(d, f, A, c, a, w, x, v, lo, hi, e, u, m, t2)
  OBVIOUS
<1>1. /\ d \in ReverseCall /\ k \in IncomingCall /\ d.credit \in Nat /\ k.credit \in Nat
      /\ a \in 0 .. 3 /\ w \in Nat /\ x \in 0 .. 1 /\ v \in 0 .. 1 /\ lo \in Nat
      /\ hi \in Nat /\ lo <= hi /\ e \in 0 .. 2 /\ u \in 0 .. 1 /\ m \in 0 .. 1
      /\ t \in 0 .. 2 /\ k.yields \in Nat
  BY BookParts
<1>2. /\ StageOK(d, k, a, w, x, v, lo, hi, e, u, m, t)
      /\ OrderOK(k, A, c, lo, hi, v, e, u, m, t)
      /\ FundsOK(d, k, a, w, lo, hi, v, u, m) /\ CallerOK(d, k, c, lo)
  BY BookParts
<1>3. a = 0 /\ t = 0 /\ e = 0 /\ ~k.returned /\ d.st \in {"pending", "retired"} /\ c \notin A
  BY <1>2 DEF StageOK, OrderOK
<1>4. Numbers(a, w, x, v, lo, hi, e, u, m, t2)
  BY <1>1 DEF Numbers
<1>5. StageOK(d, f, a, w, x, v, lo, hi, e, u, m, t2)
  BY <1>2, <1>3 DEF StageOK, Over
<1>6. OrderOK(f, A, c, lo, hi, v, e, u, m, t2)
  BY <1>2, <1>3 DEF OrderOK, Over
<1>7. FundsOK(d, f, a, w, lo, hi, v, u, m)
  <2>1. k.credit + w + (hi - lo) + m <= d.credit
    BY <1>2 DEF FundsOK
  <2> QED BY <1>2, <2>1 DEF FundsOK, Over
<1>8. CallerOK(d, f, c, lo)
  <2>1. d.caller # "complete"
    BY <1>2, <1>3 DEF CallerOK
  <2>2. d.st = "pending" \/ d.st = "retired"
    BY <1>3
  <2> QED BY <1>2, <2>1, <2>2 DEF CallerOK, Over
<1>9. Records(d, f)
  BY <1>1 DEF Records, Over
<1> QED BY <1>3, <1>4, <1>5, <1>6, <1>7, <1>8, <1>9 DEF BookOK

(* A Cancel frame, or credit, of a call that is over.                         *)
LEMMA LateBook ==
    ASSUME NEW d, NEW k, NEW A, NEW c \in ReverseId, NEW w, NEW x, NEW v, NEW lo,
           NEW hi, NEW e, NEW u, NEW m, NEW t,
           BookOK(d, k, A, c, 0, w, x, v, lo, hi, e, u, m, t), k.st = "gone"
    PROVE  /\ BookOK(d, k, A, c, 0, w, 0, v, lo, hi, e, u, m, t)
           /\ w > 0 => BookOK(d, k, A, c, 0, w - 1, x, v, lo, hi, e, u, m, t)
<1>1. /\ d \in ReverseCall /\ k \in IncomingCall /\ d.credit \in Nat /\ k.credit \in Nat
      /\ w \in Nat /\ x \in 0 .. 1 /\ v \in 0 .. 1 /\ lo \in Nat
      /\ hi \in Nat /\ lo <= hi /\ e \in 0 .. 2 /\ u \in 0 .. 1 /\ m \in 0 .. 1
      /\ t \in 0 .. 2 /\ k.yields \in Nat
  BY BookParts
<1>2. /\ StageOK(d, k, 0, w, x, v, lo, hi, e, u, m, t)
      /\ OrderOK(k, A, c, lo, hi, v, e, u, m, t)
      /\ FundsOK(d, k, 0, w, lo, hi, v, u, m) /\ CallerOK(d, k, c, lo)
  BY BookParts
<1>3. Records(d, k)
  BY DEF BookOK
<1>4. BookOK(d, k, A, c, 0, w, 0, v, lo, hi, e, u, m, t)
  <2>1. Numbers(0, w, 0, v, lo, hi, e, u, m, t)
    BY <1>1 DEF Numbers
  <2>2. StageOK(d, k, 0, w, 0, v, lo, hi, e, u, m, t)
    BY <1>2 DEF StageOK
  <2> QED BY <1>2, <1>3, <2>1, <2>2 DEF BookOK
<1>5. ASSUME w > 0 PROVE BookOK(d, k, A, c, 0, w - 1, x, v, lo, hi, e, u, m, t)
  <2>1. Numbers(0, w - 1, x, v, lo, hi, e, u, m, t)
    BY <1>1, <1>5 DEF Numbers
  <2>2. StageOK(d, k, 0, w - 1, x, v, lo, hi, e, u, m, t)
    BY <1>2 DEF StageOK
  <2>3. FundsOK(d, k, 0, w - 1, lo, hi, v, u, m)
    <3>1. PICK y, kc : y = d.credit /\ kc = k.credit /\ y \in Nat /\ kc \in Nat
      BY <1>1
    <3>2. kc + w + (hi - lo) + m <= y
      BY <1>2, <3>1 DEF FundsOK
    <3>3. kc + (w - 1) + (hi - lo) + m <= y
      BY <1>1, <3>1, <3>2
    <3> QED BY <1>2, <3>1, <3>3 DEF FundsOK
  <2> QED BY <1>2, <1>3, <2>1, <2>2, <2>3 DEF BookOK
<1> QED BY <1>4, <1>5

(* A byte of credit for a call that runs: it is kept, or used at once; and a  *)
(* handler that yields uses one or waits for it.                              *)
LEMMA HandlerBook ==
    ASSUME NEW d, NEW k, NEW A, NEW c \in ReverseId, NEW a, NEW w, NEW x, NEW v, NEW lo,
           NEW hi, NEW e, NEW u, NEW m, NEW t,
           BookOK(d, k, A, c, a, w, x, v, lo, hi, e, u, m, t), k.st # "absent", k.st # "gone",
           NEW f \in IncomingCall, NEW w2 \in Nat, NEW m2 \in 0 .. 1,
           f.st = k.st, f.request = k.request, f.returned = k.returned,
           f.yields + m = k.yields + m2, f.credit + w2 + m2 = k.credit + w + m,
           k.st = "receiving" => m2 = 0,
           f.waiting => /\ m2 = 0 /\ k.st = "running" /\ f.yields < MaxYields
                        /\ c \in ReverseUnary => f.yields = 0,
           c \in ReverseUnary => f.yields <= 1
    PROVE  BookOK(d, f, A, c, a, w2, x, v, lo, hi, e, u, m2, t)
<1>1. /\ d \in ReverseCall /\ k \in IncomingCall /\ d.credit \in Nat /\ k.credit \in Nat
      /\ a \in 0 .. 3 /\ w \in Nat /\ x \in 0 .. 1 /\ v \in 0 .. 1 /\ lo \in Nat
      /\ hi \in Nat /\ lo <= hi /\ e \in 0 .. 2 /\ u \in 0 .. 1 /\ m \in 0 .. 1
      /\ t \in 0 .. 2 /\ k.yields \in Nat
  BY BookParts
<1>2. /\ StageOK(d, k, a, w, x, v, lo, hi, e, u, m, t)
      /\ OrderOK(k, A, c, lo, hi, v, e, u, m, t)
      /\ FundsOK(d, k, a, w, lo, hi, v, u, m) /\ CallerOK(d, k, c, lo)
  BY BookParts
<1>3. PICK y, kc, fc, ky, fy : /\ y = d.credit /\ kc = k.credit /\ fc = f.credit
                               /\ ky = k.yields /\ fy = f.yields
                               /\ y \in Nat /\ kc \in Nat /\ fc \in Nat /\ ky \in Nat /\ fy \in Nat
  BY <1>1, IncomingFields, ReverseConstants
<1>4. k.st \in {"receiving", "running"} /\ e = 0 /\ t = 0 /\ ~k.returned /\ c \notin A
  <2>1. k.st \in {"absent", "receiving", "running", "gone"}
    BY <1>1, IncomingFields
  <2>2. Still(v, lo, hi, e, u, m, t) => t = 0 /\ e = 0
    BY DEF Still
  <2> QED BY <1>2, <2>1, <2>2 DEF StageOK, OrderOK
<1>5. hi + m = ky
  BY <1>2, <1>3, <1>4 DEF OrderOK
<1>6. hi + m2 = fy
  BY <1>1, <1>3, <1>5
<1>7. Numbers(a, w2, x, v, lo, hi, e, u, m2, t)
  BY <1>1 DEF Numbers
<1>8. StageOK(d, f, a, w2, x, v, lo, hi, e, u, m2, t)
  <2>1. CASE k.st = "receiving"
    <3>1. Still(v, lo, hi, e, u, m, t) /\ ky = 0 /\ m = 0 /\ m2 = 0
      BY <1>2, <1>3, <2>1 DEF StageOK, Still
    <3>2. fy = 0
      BY <1>3, <3>1
    <3> QED BY <1>2, <1>3, <2>1, <3>1, <3>2 DEF StageOK, Still
  <2>2. CASE k.st = "running"
    BY <1>2, <1>4, <2>2 DEF StageOK
  <2> QED BY <1>4, <2>1, <2>2
<1>9. OrderOK(f, A, c, lo, hi, v, e, u, m2, t)
  <2>1. hi + m2 <= f.yields /\ hi + m2 = f.yields
    BY <1>1, <1>3, <1>6
  <2> QED BY <1>2, <1>4, <2>1 DEF OrderOK
<1>10. FundsOK(d, f, a, w2, lo, hi, v, u, m2)
  <2>1. kc + w + (hi - lo) + m = y /\ v + u + One(a) <= d.lent
        /\ (d.st = "pending" => y + d.buffered = ReverseCredit)
    BY <1>2, <1>3, <1>4 DEF FundsOK
  <2>2. fc + w2 + (hi - lo) + m2 = kc + w + (hi - lo) + m
    BY <1>1, <1>3
  <2>3. fc + w2 + (hi - lo) + m2 = y /\ fc + w2 + (hi - lo) + m2 <= y
    BY <1>3, <2>1, <2>2
  <2> QED BY <1>3, <2>1, <2>3 DEF FundsOK
<1>11. CallerOK(d, f, c, lo)
  <2>1. d.caller # "complete" /\ (d.st = "pending" \/ d.st = "retired")
    BY <1>2, <1>4 DEF CallerOK, StageOK
  <2> QED BY <1>2, <2>1 DEF CallerOK
<1>12. Records(d, f)
  BY <1>1 DEF Records
<1> QED BY <1>7, <1>8, <1>9, <1>10, <1>11, <1>12 DEF BookOK

(* The next frame of the call leaves the client's queue.                      *)
LEMMA SentBook ==
    ASSUME NEW d, NEW k, NEW A, NEW c \in ReverseId, NEW a, NEW w, NEW x, NEW v, NEW lo,
           NEW hi, NEW e, NEW u, NEW m, NEW t,
           BookOK(d, k, A, c, a, w, x, v, lo, hi, e, u, m, t)
    PROVE  /\ u = 1 => /\ v = 0 /\ lo = hi /\ e = 0
                       /\ BookOK(d, k, A, c, a, w, x, 1, lo, hi, e, 0, m, t)
           /\ u = 0 /\ m = 1 /\ c \in A =>
                 BookOK(d, k, A, c, a, w, x, v, lo, hi, e, u, 0, t)
           /\ u = 0 /\ m = 1 /\ c \notin A =>
                 /\ e = 0 /\ hi + 1 = k.yields
                 /\ BookOK(d, k, A, c, a, w, x, v, lo, k.yields, e, u, 0, t)
           /\ u = 0 /\ m = 0 /\ t > 0 =>
                 /\ e = 0
                 /\ BookOK(d, k, A, c, a, w, x, v, lo, hi, t, u, m, 0)
<1>1. /\ d \in ReverseCall /\ k \in IncomingCall /\ d.credit \in Nat /\ k.credit \in Nat
      /\ a \in 0 .. 3 /\ w \in Nat /\ x \in 0 .. 1 /\ v \in 0 .. 1 /\ lo \in Nat
      /\ hi \in Nat /\ lo <= hi /\ e \in 0 .. 2 /\ u \in 0 .. 1 /\ m \in 0 .. 1
      /\ t \in 0 .. 2 /\ k.yields \in Nat
  BY BookParts
<1>2. /\ StageOK(d, k, a, w, x, v, lo, hi, e, u, m, t)
      /\ OrderOK(k, A, c, lo, hi, v, e, u, m, t)
      /\ FundsOK(d, k, a, w, lo, hi, v, u, m) /\ CallerOK(d, k, c, lo)
  BY BookParts
<1>3. Records(d, k)
  BY DEF BookOK
<1>4. PICK y, kc, ky : /\ y = d.credit /\ kc = k.credit /\ ky = k.yields
                       /\ y \in Nat /\ kc \in Nat /\ ky \in Nat
  BY <1>1
<1>5. kc + w + (hi - lo) + m <= y /\ (k.st # "gone" => kc + w + (hi - lo) + m = y)
  BY <1>2, <1>4 DEF FundsOK
<1>6. ASSUME u = 1
      PROVE  /\ v = 0 /\ lo = hi /\ e = 0
             /\ BookOK(d, k, A, c, a, w, x, 1, lo, hi, e, 0, m, t)
  <2>1. v = 0 /\ lo = hi /\ e = 0
    BY <1>2, <1>6 DEF OrderOK
  <2>2. Numbers(a, w, x, 1, lo, hi, e, 0, m, t)
    BY <1>1 DEF Numbers
  <2>3. StageOK(d, k, a, w, x, 1, lo, hi, e, 0, m, t)
    BY <1>2, <1>6 DEF StageOK, Still
  <2>4. OrderOK(k, A, c, lo, hi, 1, e, 0, m, t)
    BY <1>2, <1>6, <2>1 DEF OrderOK
  <2>5. FundsOK(d, k, a, w, lo, hi, 1, 0, m)
    <3>1. v + u = 1 + 0
      BY <1>6, <2>1
    <3> QED BY <1>2, <3>1 DEF FundsOK
  <2> QED BY <1>2, <1>3, <2>1, <2>2, <2>3, <2>4, <2>5 DEF BookOK
<1>7. ASSUME u = 0, m = 1, c \in A
      PROVE  BookOK(d, k, A, c, a, w, x, v, lo, hi, e, u, 0, t)
  <2>1. Numbers(a, w, x, v, lo, hi, e, u, 0, t)
    BY <1>1 DEF Numbers
  <2>2. StageOK(d, k, a, w, x, v, lo, hi, e, u, 0, t)
    BY <1>2, <1>7 DEF StageOK, Still
  <2>3. hi + 1 <= ky /\ k.st = "gone" /\ ~k.returned /\ ~(e > 0) /\ ~(e = 2 \/ t = 2)
    BY <1>2, <1>4, <1>7 DEF OrderOK
  <2>4. hi + 0 <= ky
    BY <1>1, <1>4, <2>3
  <2>5. OrderOK(k, A, c, lo, hi, v, e, u, 0, t)
    BY <1>2, <1>4, <1>7, <2>3, <2>4 DEF OrderOK
  <2>6. kc + w + (hi - lo) + 0 <= y
    BY <1>1, <1>4, <1>5, <1>7
  <2>7. FundsOK(d, k, a, w, lo, hi, v, u, 0)
    BY <1>2, <1>4, <2>3, <2>6 DEF FundsOK
  <2> QED BY <1>2, <1>3, <2>1, <2>2, <2>5, <2>7 DEF BookOK
<1>8. ASSUME u = 0, m = 1, c \notin A
      PROVE  /\ e = 0 /\ hi + 1 = k.yields
             /\ BookOK(d, k, A, c, a, w, x, v, lo, k.yields, e, u, 0, t)
  <2>1. hi + 1 = ky /\ e = 0
    <3>1. hi + m = ky /\ ~(e > 0)
      BY <1>2, <1>4, <1>8 DEF OrderOK
    <3> QED BY <1>1, <1>8, <3>1
  <2>2. lo <= ky /\ ky + 0 = ky /\ ky + 0 <= ky
    BY <1>1, <1>4, <2>1
  <2>3. Numbers(a, w, x, v, lo, ky, e, u, 0, t)
    BY <1>1, <1>4, <2>2 DEF Numbers
  <2>4. StageOK(d, k, a, w, x, v, lo, ky, e, u, 0, t)
    BY <1>2, <1>8 DEF StageOK, Still
  <2>5. OrderOK(k, A, c, lo, ky, v, e, u, 0, t)
    BY <1>2, <1>4, <1>8, <2>1, <2>2 DEF OrderOK
  <2>6. kc + w + (ky - lo) + 0 = kc + w + (hi - lo) + m
    BY <1>1, <1>4, <1>8, <2>1
  <2>7. FundsOK(d, k, a, w, lo, ky, v, u, 0)
    BY <1>2, <1>4, <1>5, <2>6 DEF FundsOK
  <2> QED BY <1>2, <1>3, <1>4, <2>1, <2>3, <2>4, <2>5, <2>7 DEF BookOK
<1>9. ASSUME u = 0, m = 0, t > 0
      PROVE  e = 0 /\ BookOK(d, k, A, c, a, w, x, v, lo, hi, t, u, m, 0)
  <2>1. e = 0 /\ t # 0
    <3>1. e > 0 => t = 0
      BY <1>2 DEF OrderOK
    <3> QED BY <1>1, <1>9, <3>1
  <2>2. Numbers(a, w, x, v, lo, hi, t, u, m, 0)
    BY <1>1 DEF Numbers
  <2>3. StageOK(d, k, a, w, x, v, lo, hi, t, u, m, 0)
    BY <1>2, <1>9, <2>1 DEF StageOK, Still
  <2>4. OrderOK(k, A, c, lo, hi, v, t, u, m, 0)
    BY <1>2, <1>9, <2>1 DEF OrderOK
  <2> QED BY <1>2, <1>3, <2>1, <2>2, <2>3, <2>4 DEF BookOK
<1> QED BY <1>6, <1>7, <1>8, <1>9

(* Other calls are aborted.                                                   *)
LEMMA AbortsBook ==
    ASSUME NEW d, NEW k, NEW A, NEW B, NEW c, NEW a, NEW w, NEW x, NEW v, NEW lo,
           NEW hi, NEW e, NEW u, NEW m, NEW t,
           BookOK(d, k, A, c, a, w, x, v, lo, hi, e, u, m, t), c \in A <=> c \in B
    PROVE  BookOK(d, k, B, c, a, w, x, v, lo, hi, e, u, m, t)
<1>1. OrderOK(k, A, c, lo, hi, v, e, u, m, t)
  BY DEF BookOK
<1>2. OrderOK(k, B, c, lo, hi, v, e, u, m, t)
  BY <1>1 DEF OrderOK
<1> QED BY <1>2 DEF BookOK

(* A call that was not made yet.                                              *)
LEMMA NewBook ==
    ASSUME NEW c \in ReverseId
    PROVE  BookOK(NewReverse, NewIncoming, {}, c, 0, 0, 0, 0, 0, 0, 0, 0, 0, 0)
<1>1. PICK d, k : d = NewReverse /\ k = NewIncoming
  OBVIOUS
<1>2. /\ d.st = "idle" /\ d.lent = 0 /\ d.credit = ReverseCredit /\ d.buffered = 0
      /\ d.channel = <<>> /\ d.read = 0 /\ d.caller = "waiting" /\ d.got = 0
      /\ k.st = "absent" /\ k.credit = ReverseCredit /\ k.yields = 0 /\ k.waiting = FALSE
      /\ k.returned = FALSE
  BY <1>1 DEF NewReverse, NewIncoming
<1>3. /\ 0 \in 0 .. 1 /\ ReverseCredit \in 0 .. ReverseCredit /\ 0 \in 0 .. MaxBuffered
      /\ 0 \in 0 .. MaxYields /\ <<>> \in Seq(0 .. MaxYields) /\ 0 \in 0 .. 3
      /\ 0 \in 0 .. 2 /\ 0 \in Nat
  BY ReverseConstants
<1>4. d \in ReverseCall
  BY <1>1, <1>3 DEF NewReverse, ReverseCall
<1>5. k \in IncomingCall
  BY <1>1, <1>3 DEF NewIncoming, IncomingCall
<1>6. Numbers(0, 0, 0, 0, 0, 0, 0, 0, 0, 0)
  BY <1>3 DEF Numbers
<1>7. Records(d, k)
  BY <1>2, <1>4, <1>5 DEF Records
<1>8. StageOK(d, k, 0, 0, 0, 0, 0, 0, 0, 0, 0, 0)
  BY <1>1, <1>2 DEF StageOK, Still
<1>9. OrderOK(k, {}, c, 0, 0, 0, 0, 0, 0, 0)
  BY <1>2 DEF OrderOK
<1>10. FundsOK(d, k, 0, 0, 0, 0, 0, 0, 0)
  BY <1>2, ReverseConstants DEF FundsOK, One
<1>11. CallerOK(d, k, c, 0)
  BY <1>2 DEF CallerOK
<1> QED BY <1>1, <1>6, <1>7, <1>8, <1>9, <1>10, <1>11 DEF BookOK

(* What is left of a call when the connection is gone.                        *)
Left(c, d) ==
    LET f == [d EXCEPT !.st = "done"] IN
    CASE d.st = "pending" -> Failed(c, f)
      [] d.st = "idle" -> [f EXCEPT !.caller = "cut"]
      [] OTHER -> f
Ceased(k) == [k EXCEPT !.st = "gone", !.request = FALSE, !.waiting = FALSE]

(* The connection is gone.                                                    *)
LEMMA DownBook ==
    ASSUME NEW d, NEW k, NEW A, NEW c \in ReverseId, NEW a, NEW w, NEW x, NEW v, NEW lo,
           NEW hi, NEW e, NEW u, NEW m, NEW t,
           BookOK(d, k, A, c, a, w, x, v, lo, hi, e, u, m, t),
           NEW f, f = Left(c, d), NEW g, g = Ceased(k), NEW y, y = g.yields
    PROVE  BookOK(f, g, A, c, 0, 0, 0, 0, y, y, 0, 0, 0, 0)
<1>1. /\ d \in ReverseCall /\ k \in IncomingCall /\ d.credit \in Nat /\ k.credit \in Nat
      /\ w \in Nat /\ lo \in Nat /\ hi \in Nat /\ lo <= hi /\ m \in 0 .. 1 /\ k.yields \in Nat
  BY BookParts
<1>2. /\ StageOK(d, k, a, w, x, v, lo, hi, e, u, m, t)
      /\ OrderOK(k, A, c, lo, hi, v, e, u, m, t)
      /\ FundsOK(d, k, a, w, lo, hi, v, u, m) /\ CallerOK(d, k, c, lo)
  BY BookParts
<1>3. /\ g \in IncomingCall /\ g.st = "gone" /\ g.waiting = FALSE /\ g.credit = k.credit
      /\ g.yields = k.yields /\ g.returned = k.returned
  BY <1>1 DEF Ceased, IncomingCall
<1>4. /\ y = k.yields /\ y \in Nat /\ lo <= y
  <2>1. hi + m <= k.yields
    BY <1>2 DEF OrderOK
  <2> QED BY <1>1, <1>3, <2>1
<1>5. /\ f \in ReverseCall /\ f.st = "done" /\ f.lent = d.lent /\ f.credit = d.credit
      /\ CallerOK(f, g, c, y)
  <2>1. PICK h : h = [d EXCEPT !.st = "done"]
    OBVIOUS
  <2>2. /\ h \in ReverseCall /\ h.st = "done" /\ h.lent = d.lent /\ h.credit = d.credit
        /\ h.buffered = d.buffered /\ h.channel = d.channel /\ h.read = d.read
        /\ h.got = d.got /\ h.caller = d.caller
    BY <1>1, <2>1 DEF ReverseCall
  <2>3. CASE d.st = "pending"
    <3>1. Alike(d, h)
      <4>1. d.read <= d.read
        BY <1>1, ReverseFields, ReverseConstants
      <4> QED BY <2>2, <4>1 DEF Alike
    <3>2. Goes(k, g)
      BY <1>3 DEF Goes
    <3>3. PICK r : r = FailedAs(c, h, "done")
      OBVIOUS
    <3>4. /\ r \in ReverseCall /\ r.st = "done" /\ r.lent = h.lent /\ r.credit = h.credit
          /\ CallerOK(r, g, c, y)
      BY <1>1, <1>2, <1>4, <2>2, <2>3, <3>1, <3>2, <3>3, FailedCaller
    <3>5. f = Failed(c, h)
      BY <2>1, <2>3 DEF Left
    <3>6. f.st = "done" /\ f \in ReverseCall
      <4>1. c \in ReverseStream /\ h.caller = "waiting" => Len(h.channel) <= MaxBuffered
        <5>1. PICK n : n = Len(d.channel) /\ n \in Nat
          BY <1>1, ReverseFields, LenProperties
        <5>2. n + d.read <= d.buffered
          BY <1>2, <2>3, <5>1 DEF CallerOK
        <5>3. d.read \in Nat /\ d.buffered \in 0 .. MaxBuffered
          BY <1>1, ReverseFields, ReverseConstants
        <5>4. n <= MaxBuffered
          BY <5>1, <5>2, <5>3, ReverseConstants
        <5> QED BY <2>2, <5>1, <5>4
      <4> QED BY <2>2, <3>5, <4>1, FailedRecord
    <3>7. r = f
      BY <3>3, <3>5, <3>6 DEF FailedAs, ReverseCall
    <3> QED BY <2>2, <3>4, <3>7
  <2>4. CASE d.st = "idle"
    <3>1. f = [h EXCEPT !.caller = "cut"]
      BY <2>1, <2>4 DEF Left
    <3>2. d = NewReverse
      BY <1>2, <2>4 DEF StageOK
    <3>3. /\ f \in ReverseCall /\ f.st = "done" /\ f.lent = d.lent /\ f.credit = d.credit
          /\ f.buffered = 0 /\ f.channel = <<>> /\ f.read = 0 /\ f.got = 0
          /\ f.caller = "cut"
      BY <2>2, <3>1, <3>2 DEF ReverseCall, NewReverse
    <3>4. CallerOK(f, g, c, y)
      BY <1>2, <1>3, <1>4, <3>3 DEF CallerOK
    <3> QED BY <3>3, <3>4
  <2>5. CASE d.st \in {"retired", "done"}
    <3>1. f = h
      BY <2>1, <2>5 DEF Left
    <3>2. CallerOK(h, g, c, y)
      <4>1. d.buffered <= lo => d.buffered <= y
        BY <1>1, <1>4, ReverseFields, ReverseConstants
      <4> QED BY <1>2, <1>3, <2>2, <2>5, <4>1 DEF CallerOK
    <3> QED BY <2>2, <3>1, <3>2
  <2> QED BY <1>1, <2>3, <2>4, <2>5, ReverseFields
<1>6. Numbers(0, 0, 0, 0, y, y, 0, 0, 0, 0)
  BY <1>4 DEF Numbers
<1>7. Records(f, g)
  BY <1>3, <1>5 DEF Records
<1>8. StageOK(f, g, 0, 0, 0, 0, y, y, 0, 0, 0, 0)
  BY <1>3, <1>5 DEF StageOK, Still
<1>9. OrderOK(g, A, c, y, y, 0, 0, 0, 0, 0)
  <2>1. y + 0 = y /\ y <= y
    BY <1>4
  <2>2. k.returned => c \notin A
    BY <1>2 DEF OrderOK
  <2> QED BY <1>3, <1>4, <2>1, <2>2 DEF OrderOK
<1>10. FundsOK(f, g, 0, 0, y, y, 0, 0, 0)
  <2>1. PICK dc, kc, l : /\ dc = d.credit /\ kc = k.credit /\ l = d.lent
                         /\ dc \in Nat /\ kc \in Nat /\ l \in Nat
    BY <1>1, ReverseFields
  <2>2. kc + w + (hi - lo) + m <= dc
    BY <1>2, <2>1 DEF FundsOK
  <2>3. kc + 0 + (y - y) + 0 <= dc /\ 0 + 0 + 0 <= l
    BY <1>1, <1>4, <2>1, <2>2
  <2> QED BY <1>3, <1>5, <2>1, <2>3 DEF FundsOK, One
<1> QED BY <1>5, <1>6, <1>7, <1>8, <1>9, <1>10 DEF BookOK
=============================================================================
