--------------------------- MODULE PeerCallsProofs ---------------------------
(* The safety of the client's calls for any number of calls, any limits and   *)
(* any interleaving with the reverse calls of the same connection.  Four      *)
(* invariants build on one another: the client's books, the start of a call,  *)
(* its responses and the messages of a duplex call.                           *)
EXTENDS PeerFrames, FiniteSetTheorems, SequenceTheorems, TLAPS

-----------------------------------------------------------------------------
(* The client's books.                                                        *)

(* The bounds are numbers.                                                    *)
LEMMA PeerConstants ==
    /\ Credit \in Nat /\ Credit > 0 /\ InputCredit \in Nat /\ InputCredit > 0
    /\ RingLimit \in Nat /\ RingLimit > 0 /\ MaxItems \in Nat /\ MaxItems > 0
    /\ MaxSends \in Nat /\ MaxEvents \in Nat /\ MaxResponse \in Nat /\ InputDepth \in Nat
BY PeerAssumption DEF PeerAssumption

NewClient == [st |-> "idle", end |-> "none", buffered |-> <<>>, credit |-> Credit,
              got |-> 0]
NewDuplex == [st |-> "none", credit |-> InputCredit, sends |-> 0, asked |-> 0, lost |-> 0]

(* The credit of a live call is what its buffer leaves, and a call that is    *)
(* over holds nothing.                                                        *)
ClientOK(k) ==
    /\ k \in ClientCall
    /\ Len(k.buffered) <= Credit
    /\ k.st = "live" => k.credit + Len(k.buffered) = Credit
    /\ k.st \in {"idle", "done"} => k.buffered = <<>>
    /\ k.st = "idle" => k = NewClient

(* A duplex request is open no longer than its call is live.                  *)
DuplexOK(x, k, c) ==
    /\ x \in DuplexRequest
    /\ x.sends + x.lost <= x.asked
    /\ x.st = "none" => x = NewDuplex
    /\ x.st # "none" => c \in Duplex
    /\ x.st \in {"open", "ending", "ended"} => k.st = "live"
    /\ k.st = "idle" => x.st = "none"

RingOK(r) == r \in CancelledRing /\ Len(r.storage) <= RingLimit

BooksInv ==
    /\ client \in [Call -> ClientCall] /\ duplex \in [Call -> DuplexRequest]
    /\ \A c \in Call : ClientOK(client[c]) /\ DuplexOK(duplex[c], client[c], c)
    /\ RingOK(ring)
    /\ \A c \in Call : client[c].st \in {"idle", "live"} => c \notin aborted
    /\ BudgetsExact

(* What the calls of `cl` have buffered, and who is live.                     *)
Filled(cl) == UNION {{c} \X DOMAIN cl[c].buffered : c \in Call}
Living(cl) == {c \in Call : cl[c].st = "live"}
Lives(k)   == IF k.st = "live" THEN 1 ELSE 0

(* One row of a product with an interval.                                     *)
LEMMA RowSize ==
    ASSUME NEW c, NEW n \in Nat
    PROVE  IsFiniteSet({c} \X (1 .. n)) /\ Cardinality({c} \X (1 .. n)) = n
<1>1. IsFiniteSet(1 .. n) /\ Cardinality(1 .. n) = n
  BY FS_Interval
<1>2. IsFiniteSet({c}) /\ Cardinality({c}) = 1
  BY FS_Singleton
<1>3. /\ IsFiniteSet({c} \X (1 .. n))
      /\ Cardinality({c} \X (1 .. n)) = Cardinality({c}) * Cardinality(1 .. n)
  BY <1>1, <1>2, FS_Product
<1> QED BY <1>1, <1>2, <1>3

(* Buffers are bounded by the credit, so what is buffered is finite.          *)
LEMMA FilledFacts ==
    ASSUME NEW cl, \A c \in Call : ClientOK(cl[c])
    PROVE  /\ IsFiniteSet(Filled(cl)) /\ IsFiniteSet(Living(cl))
           /\ \A c, i : <<c, i>> \in Filled(cl) <=>
                          c \in Call /\ i \in 1 .. Len(cl[c].buffered)
           /\ Filled(cl) \subseteq Call \X Nat
<1>1. \A c \in Call : /\ DOMAIN cl[c].buffered = 1 .. Len(cl[c].buffered)
                      /\ Len(cl[c].buffered) \in Nat
  BY DEF ClientOK, ClientCall
<1>2. \A e : e \in Filled(cl) <=> \E c \in Call : e \in {c} \X (1 .. Len(cl[c].buffered))
  BY <1>1 DEF Filled
<1>3. Filled(cl) \subseteq Call \X (1 .. Credit)
  <2>1. ASSUME NEW c \in Call, NEW e \in {c} \X (1 .. Len(cl[c].buffered))
        PROVE  e \in Call \X (1 .. Credit)
    BY <1>1, <2>1, PeerConstants DEF ClientOK
  <2> QED BY <1>2, <2>1
<1>4. IsFiniteSet(1 .. Credit) /\ IsFiniteSet(Call)
  BY FS_Interval, PeerAssumption DEF PeerAssumption
<1>5. IsFiniteSet(Call \X (1 .. Credit))
  BY <1>4, FS_Product
<1>6. IsFiniteSet(Filled(cl))
  BY <1>3, <1>5, FS_Subset
<1>7. IsFiniteSet(Living(cl))
  <2>1. Living(cl) \in SUBSET Call
    BY DEF Living
  <2> QED BY <1>4, <2>1, FS_Subset
<1>8. \A c, i : <<c, i>> \in Filled(cl) <=> c \in Call /\ i \in 1 .. Len(cl[c].buffered)
  BY <1>2
<1>9. Filled(cl) \subseteq Call \X Nat
  BY <1>3
<1> QED BY <1>6, <1>7, <1>8, <1>9

(* The budgets after one call has changed.                                    *)
LEMMA BudgetsAfter ==
    ASSUME BooksInv, NEW c \in Call, NEW k, ClientOK(k),
           client' = [client EXCEPT ![c] = k],
           requestBytes' = requestBytes + Lives(k) - Lives(client[c]),
           responseBytes' = responseBytes + Len(k.buffered) - Len(client[c].buffered)
    PROVE  BudgetsExact'
<1>1. PICK old, new : old = client /\ new = client'
  OBVIOUS
<1>2. /\ \A b \in Call : ClientOK(old[b])
      /\ \A b \in Call : ClientOK(new[b])
      /\ new[c] = k /\ \A b \in Call : b # c => new[b] = old[b]
  BY <1>1 DEF BooksInv
<1>3. PICK m, n : m = Len(old[c].buffered) /\ n = Len(k.buffered)
  OBVIOUS
<1>4. m \in Nat /\ n \in Nat
  BY <1>2, <1>3 DEF ClientOK, ClientCall
<1> DEFINE R == {c} \X (1 .. m)
           S == {c} \X (1 .. n)
           F == Filled(old)
           D == F \ R
<1>5. IsFiniteSet(F) /\ F \subseteq Call \X Nat
  BY <1>2, FilledFacts
<1>6. R \subseteq F
  <2>1. \A i \in 1 .. m : <<c, i>> \in F
    BY <1>2, <1>3, FilledFacts
  <2> QED BY <2>1
<1>7. Filled(new) = D \cup S
  <2>1. Filled(new) \subseteq Call \X Nat /\ D \cup S \subseteq Call \X Nat
    BY <1>2, <1>4, <1>5, FilledFacts
  <2>2. ASSUME NEW b \in Call, NEW i \in Nat
        PROVE  <<b, i>> \in Filled(new) <=> <<b, i>> \in D \cup S
    <3>1. <<b, i>> \in Filled(new) <=> i \in 1 .. Len(new[b].buffered)
      BY <1>2, FilledFacts
    <3>2. <<b, i>> \in F <=> i \in 1 .. Len(old[b].buffered)
      BY <1>2, FilledFacts
    <3>3. CASE b = c
      BY <1>2, <1>3, <3>1, <3>2, <3>3
    <3>4. CASE b # c
      BY <1>2, <3>1, <3>2, <3>4
    <3> QED BY <3>3, <3>4
  <2> HIDE DEF D, S
  <2> QED BY <2>1, <2>2
<1>8. /\ IsFiniteSet(R) /\ Cardinality(R) = m
      /\ IsFiniteSet(S) /\ Cardinality(S) = n
  BY <1>4, RowSize
<1>9. D \cap S = {}
  <2>1. \A i \in Nat : <<c, i>> \in F => i \in 1 .. m
    BY <1>2, <1>3, FilledFacts
  <2>2. \A e \in S : e \in F => e \in R
    BY <1>4, <2>1
  <2> QED BY <2>2
<1>10. /\ IsFiniteSet(D) /\ Cardinality(D) = Cardinality(F) - m
       /\ Cardinality(F) \in Nat
  <2>1. F \cap R = R
    BY <1>6
  <2> HIDE DEF F, R
  <2>2. IsFiniteSet(D) /\ Cardinality(D) = Cardinality(F) - Cardinality(F \cap R)
    BY <1>5, FS_Difference
  <2> QED BY <1>5, <1>8, <2>1, <2>2, FS_CardinalityType
<1>11. Cardinality(Filled(new)) = Cardinality(F) - m + n
  <2> HIDE DEF D, S, F
  <2>1. Cardinality(D \cup S) = Cardinality(D) + Cardinality(S) - Cardinality(D \cap S)
    BY <1>8, <1>10, FS_Union
  <2>2. Cardinality(D \cap S) = 0
    BY <1>9, FS_EmptySet
  <2>3. Cardinality(Filled(new)) = Cardinality(D) + n - 0
    BY <1>7, <1>8, <2>1, <2>2
  <2> QED BY <1>4, <1>10, <2>3
<1>12. Cardinality(Living(new)) = Cardinality(Living(old)) + Lives(k) - Lives(old[c])
  <2>1. IsFiniteSet(Living(old)) /\ Cardinality(Living(old)) \in Nat
    BY <1>2, FilledFacts, FS_CardinalityType
  <2>2. CASE k.st = "live"
    <3>1. Living(new) = Living(old) \cup {c}
      BY <1>2, <2>2 DEF Living
    <3>2. c \in Living(old) <=> old[c].st = "live"
      BY DEF Living
    <3>3. Cardinality(Living(new)) = IF c \in Living(old) THEN Cardinality(Living(old))
                                     ELSE Cardinality(Living(old)) + 1
      BY <2>1, <3>1, FS_AddElement
    <3> QED BY <2>1, <2>2, <3>2, <3>3 DEF Lives
  <2>3. CASE k.st # "live"
    <3>1. Living(new) = Living(old) \ {c}
      BY <1>2, <2>3 DEF Living
    <3>2. c \in Living(old) <=> old[c].st = "live"
      BY DEF Living
    <3>3. Cardinality(Living(new)) = IF c \in Living(old) THEN Cardinality(Living(old)) - 1
                                     ELSE Cardinality(Living(old))
      BY <2>1, <3>1, FS_RemoveElement
    <3> QED BY <2>1, <2>3, <3>2, <3>3 DEF Lives
  <2> QED BY <2>2, <2>3
<1>13. requestBytes = Cardinality(Living(old)) /\ responseBytes = Cardinality(Filled(old))
  BY <1>1 DEF BooksInv, BudgetsExact, Living, Filled
<1>14. BudgetsExact' <=> /\ requestBytes' = Cardinality(Living(new))
                         /\ responseBytes' = Cardinality(Filled(new))
  BY <1>1 DEF BudgetsExact, Living, Filled
<1> HIDE DEF R, S, F, D
<1>15. F = Filled(old)
  BY DEF F
<1>16. responseBytes' = Cardinality(Filled(new))
  <2>1. responseBytes' = responseBytes + n - m
    BY <1>1, <1>3
  <2>2. responseBytes = Cardinality(F)
    BY <1>13, <1>15
  <2>3. PICK z \in Nat : z = Cardinality(F)
    BY <1>10
  <2>4. Cardinality(Filled(new)) = z - m + n /\ responseBytes' = z + n - m
    BY <1>11, <2>1, <2>2, <2>3
  <2>5. z - m + n = z + n - m
    BY <1>4
  <2> QED BY <2>4, <2>5
<1>17. requestBytes' = Cardinality(Living(new))
  <2>1. Cardinality(Living(old)) \in Nat /\ Lives(k) \in Nat /\ Lives(old[c]) \in Nat
    BY <1>2, FilledFacts, FS_CardinalityType DEF Lives
  <2> QED BY <1>1, <1>12, <1>13, <2>1
<1> QED BY <1>14, <1>16, <1>17

(* The budgets are numbers.                                                   *)
LEMMA BudgetTypes == BooksInv => requestBytes \in Nat /\ responseBytes \in Nat
<1> SUFFICES ASSUME BooksInv PROVE requestBytes \in Nat /\ responseBytes \in Nat
  OBVIOUS
<1>1. requestBytes = Cardinality(Living(client)) /\ responseBytes = Cardinality(Filled(client))
  BY DEF BooksInv, BudgetsExact, Living, Filled
<1>2. IsFiniteSet(Living(client)) /\ IsFiniteSet(Filled(client))
  BY FilledFacts DEF BooksInv
<1> QED BY <1>1, <1>2, FS_CardinalityType

(* Call c acts, and its records become k and x.                               *)
Acts(c, k, x) ==
    /\ client' = [client EXCEPT ![c] = k]
    /\ duplex' = [duplex EXCEPT ![c] = x]
    /\ requestBytes' = requestBytes + Lives(k) - Lives(client[c])
    /\ responseBytes' = responseBytes + Len(k.buffered) - Len(client[c].buffered)
    /\ aborted' \in {aborted, aborted \cup {c}}
    /\ k.st \in {"idle", "live"} => aborted' = aborted /\ client[c].st \in {"idle", "live"}

(* The books are kept by such a step.                                         *)
LEMMA ActsKeepsBooks ==
    ASSUME BooksInv, NEW c \in Call, NEW k, NEW x, Acts(c, k, x),
           ClientOK(k), DuplexOK(x, k, c), RingOK(ring')
    PROVE  BooksInv'
<1>1. k \in ClientCall /\ x \in DuplexRequest
  BY DEF ClientOK, DuplexOK
<1>2. client' \in [Call -> ClientCall] /\ duplex' \in [Call -> DuplexRequest]
  BY <1>1 DEF BooksInv, Acts
<1>3. /\ client'[c] = k /\ duplex'[c] = x
      /\ \A b \in Call : b # c => client'[b] = client[b] /\ duplex'[b] = duplex[b]
  BY DEF BooksInv, Acts
<1>4. \A b \in Call : ClientOK(client'[b]) /\ DuplexOK(duplex'[b], client'[b], b)
  <2> SUFFICES ASSUME NEW b \in Call
               PROVE  ClientOK(client'[b]) /\ DuplexOK(duplex'[b], client'[b], b)
    OBVIOUS
  <2>1. ClientOK(client[b]) /\ DuplexOK(duplex[b], client[b], b)
    BY DEF BooksInv
  <2>2. CASE b = c
    BY <1>3, <2>2
  <2>3. CASE b # c
    BY <1>3, <2>1, <2>3
  <2> QED BY <2>2, <2>3
<1>5. \A b \in Call : client'[b].st \in {"idle", "live"} => b \notin aborted'
  BY <1>3 DEF BooksInv, Acts
<1>6. BudgetsExact'
  BY BudgetsAfter DEF Acts
<1> QED BY <1>2, <1>4, <1>5, <1>6 DEF BooksInv, RingOK

(* The ring keeps to its size.                                                *)
LEMMA RingFacts ==
    ASSUME NEW r, RingOK(r), NEW c \in Call
    PROVE  RingOK(Remembered(r, c)) /\ RingOK(Forgotten(r, c))
<1>1. /\ r \in CancelledRing /\ r.ids \in SUBSET Call /\ r.storage \in Seq(Call)
      /\ r.next \in 1 .. RingLimit /\ Len(r.storage) <= RingLimit
      /\ Len(r.storage) \in Nat /\ RingLimit \in Nat /\ RingLimit > 0
  BY PeerAssumption DEF RingOK, CancelledRing, PeerAssumption
<1>2. RingOK(Forgotten(r, c))
  BY <1>1 DEF RingOK, CancelledRing, Forgotten
<1>3. CASE c \in r.ids
  BY <1>2, <1>3 DEF Remembered
<1>4. CASE c \notin r.ids /\ Len(r.storage) < RingLimit
  <2>1. PICK new : new = Append(r.storage, c)
    OBVIOUS
  <2>2. new \in Seq(Call) /\ Len(new) = Len(r.storage) + 1
    BY <1>1, <2>1, AppendProperties
  <2>3. Remembered(r, c) = [r EXCEPT !.ids = r.ids \cup {c}, !.storage = new]
    BY <1>4, <2>1 DEF Remembered
  <2>4. PICK e : e = [r EXCEPT !.ids = r.ids \cup {c}, !.storage = new]
    OBVIOUS
  <2>5. e \in CancelledRing /\ e.storage = new
    BY <1>1, <2>2, <2>4 DEF CancelledRing
  <2> QED BY <1>1, <1>2, <1>4, <2>2, <2>3, <2>4, <2>5 DEF RingOK
<1>5. CASE c \notin r.ids /\ ~(Len(r.storage) < RingLimit)
  <2>1. PICK new : new = [r.storage EXCEPT ![r.next] = c]
    OBVIOUS
  <2>2. Len(r.storage) = RingLimit
    BY <1>1, <1>5
  <2>3. new \in Seq(Call) /\ Len(new) = RingLimit
    BY <1>1, <2>1, <2>2, ExceptSeq
  <2>4. (r.next % RingLimit) + 1 \in 1 .. RingLimit
    BY <1>1
  <2>5. Remembered(r, c) = [ids |-> (r.ids \cup {c}) \ {r.storage[r.next]},
                            storage |-> new, next |-> (r.next % RingLimit) + 1]
    BY <1>5, <2>1 DEF Remembered
  <2>6. (r.ids \cup {c}) \ {r.storage[r.next]} \in SUBSET Call
    BY <1>1
  <2> QED BY <1>1, <1>2, <2>3, <2>4, <2>5, <2>6 DEF RingOK, CancelledRing
<1> QED BY <1>2, <1>3, <1>4, <1>5

(* The record of a call that is taken.                                        *)
Taken(k, end) == [k EXCEPT !.st = "done", !.end = end, !.buffered = <<>>]

(* Its duplex request is closed.                                              *)
LEMMA TakenFacts ==
    ASSUME NEW k, NEW x, NEW c, ClientOK(k), DuplexOK(x, k, c), NEW end \in {"complete", "cut"},
           k.st # "idle"
    PROVE  /\ ClientOK(Taken(k, end)) /\ DuplexOK(Closed(x), Taken(k, end), c)
           /\ Taken(k, end).st = "done" /\ Taken(k, end).end = end
           /\ Taken(k, end).buffered = <<>> /\ Taken(k, end).got = k.got
<1>1. PICK t : t = Taken(k, end)
  OBVIOUS
<1>2. /\ t \in ClientCall /\ t.st = "done" /\ t.end = end /\ t.buffered = <<>>
      /\ t.got = k.got
  <2>1. <<>> \in Seq(1 .. MaxItems)
    BY EmptySeq
  <2> QED BY <1>1, <2>1 DEF ClientOK, ClientCall, Taken
<1>3. ClientOK(t)
  BY <1>2, PeerConstants DEF ClientOK
<1>4. PICK y : y = Closed(x)
  OBVIOUS
<1>5. /\ y \in DuplexRequest /\ y.st = (IF x.st = "none" THEN "none" ELSE "closed")
      /\ y.sends = 0 /\ y.asked = x.asked /\ y.credit = x.credit
      /\ y.lost = x.lost + x.sends
  <2>1. 0 \in 0 .. MaxSends /\ x.lost + x.sends \in 0 .. MaxSends
    BY PeerConstants DEF DuplexOK, DuplexRequest
  <2>2. CASE x.st = "none"
    BY <1>4, <2>1, <2>2 DEF DuplexOK, DuplexRequest, Closed
  <2>3. CASE x.st # "none"
    BY <1>4, <2>1, <2>3 DEF DuplexOK, DuplexRequest, Closed
  <2> QED BY <2>2, <2>3
<1>6. x.st = "none" => y = x
  <2> SUFFICES ASSUME x = NewDuplex PROVE y = x
    BY DEF DuplexOK
  <2>1. x.st = "none" /\ x.sends = 0 /\ x.lost = 0
    BY DEF NewDuplex
  <2>2. y = [st |-> y.st, credit |-> y.credit, sends |-> y.sends, asked |-> y.asked,
             lost |-> y.lost]
    BY <1>5 DEF DuplexRequest
  <2> QED BY <1>5, <2>1, <2>2 DEF NewDuplex
<1>7. DuplexOK(y, t, c)
  BY <1>2, <1>5, <1>6 DEF DuplexOK, DuplexRequest
<1> QED BY <1>1, <1>2, <1>3, <1>4, <1>7

(* take releases what the call has reserved.                                  *)
LEMMA TakeActs ==
    ASSUME BooksInv, NEW c \in Call, NEW end, Take(c, end)
    PROVE  Acts(c, Taken(client[c], end), Closed(duplex[c]))
<1>1. PICK k, x : k = client[c] /\ x = duplex[c] /\ k \in ClientCall
  BY DEF BooksInv
<1>2. PICK t : t = Taken(k, end)
  OBVIOUS
<1>3. t.st = "done" /\ t.buffered = <<>>
  BY <1>1, <1>2 DEF Taken, ClientCall
<1>4. client' = [client EXCEPT ![c] = t]
  BY <1>1, <1>2 DEF Take, Taken
<1>5. duplex' = [duplex EXCEPT ![c] = Closed(x)]
  BY <1>1 DEF Take
<1>6. requestBytes' = requestBytes + Lives(t) - Lives(k)
  <2>1. requestBytes \in Nat
    BY BudgetTypes
  <2> QED BY <1>1, <1>3, <2>1 DEF Take, Released, Lives
<1>7. responseBytes' = responseBytes + Len(t.buffered) - Len(k.buffered)
  <2>1. responseBytes \in Nat /\ Len(k.buffered) \in Nat
    BY <1>1, BudgetTypes DEF ClientCall
  <2>2. responseBytes' = responseBytes - Len(k.buffered) /\ Len(t.buffered) = 0
    BY <1>1, <1>3 DEF Take
  <2> QED BY <2>1, <2>2
<1> QED BY <1>1, <1>2, <1>3, <1>4, <1>5, <1>6, <1>7 DEF Acts, Take

(* The records of one call.                                                   *)
LEMMA CallRecords ==
    ASSUME BooksInv, NEW c \in Call
    PROVE  /\ ClientOK(client[c]) /\ DuplexOK(duplex[c], client[c], c)
           /\ client[c] \in ClientCall /\ duplex[c] \in DuplexRequest
           /\ Len(client[c].buffered) \in Nat /\ RingOK(ring)
           /\ client = [client EXCEPT ![c] = client[c]]
           /\ duplex = [duplex EXCEPT ![c] = duplex[c]]
<1>1. ClientOK(client[c]) /\ DuplexOK(duplex[c], client[c], c) /\ RingOK(ring)
  BY DEF BooksInv
<1>2. client[c] \in ClientCall /\ duplex[c] \in DuplexRequest
  BY <1>1 DEF ClientOK, DuplexOK
<1>3. Len(client[c].buffered) \in Nat
  BY <1>2 DEF ClientCall
<1>4. client = [client EXCEPT ![c] = client[c]] /\ duplex = [duplex EXCEPT ![c] = duplex[c]]
  BY DEF BooksInv
<1> QED BY <1>1, <1>2, <1>3, <1>4

(* A call that is taken leaves the books in order.                            *)
LEMMA TakeBooks ==
    ASSUME BooksInv, NEW c \in Call, NEW end \in {"complete", "cut"}, Take(c, end),
           client[c].st # "idle", RingOK(ring')
    PROVE  BooksInv'
<1>1. ClientOK(client[c]) /\ DuplexOK(duplex[c], client[c], c)
  BY CallRecords
<1>2. /\ ClientOK(Taken(client[c], end))
      /\ DuplexOK(Closed(duplex[c]), Taken(client[c], end), c)
  BY <1>1, TakenFacts
<1>3. Acts(c, Taken(client[c], end), Closed(duplex[c]))
  BY TakeActs
<1> QED BY <1>2, <1>3, ActsKeepsBooks

(* So does one that is cancelled.                                             *)
LEMMA CancelBooks ==
    ASSUME BooksInv, NEW c \in Call, NEW queue, CancelAfter(c, queue), client[c].st # "idle"
    PROVE  BooksInv'
<1>1. RingOK(ring') /\ Take(c, "cut")
  BY CallRecords, RingFacts DEF CancelAfter
<1> QED BY <1>1, TakeBooks

(* The request of a call changes, and nothing else of it.                     *)
LEMMA DuplexBooks ==
    ASSUME BooksInv, NEW c \in Call, NEW x, DuplexOK(x, client[c], c),
           duplex' = [duplex EXCEPT ![c] = x],
           UNCHANGED <<client, requestBytes, responseBytes, aborted, ring>>
    PROVE  BooksInv'
<1>1. PICK k : k = client[c] /\ ClientOK(k) /\ RingOK(ring) /\ Len(k.buffered) \in Nat
               /\ client = [client EXCEPT ![c] = k]
  BY CallRecords
<1>2. requestBytes \in Nat /\ responseBytes \in Nat /\ Lives(k) \in Nat
  BY BudgetTypes DEF Lives
<1>3. /\ requestBytes = requestBytes + Lives(k) - Lives(k)
      /\ responseBytes = responseBytes + Len(k.buffered) - Len(k.buffered)
  BY <1>1, <1>2
<1>4. k.st \in {"idle", "live"} => k.st \in {"idle", "live"}
  OBVIOUS
<1>5. Acts(c, k, x)
  BY <1>1, <1>3 DEF Acts
<1> QED BY <1>1, <1>5, ActsKeepsBooks

(* A call begins.                                                             *)
LEMMA StartBooks ==
    ASSUME BooksInv, NEW c \in Call, Start(c)
    PROVE  BooksInv'
<1>1. PICK k, x : /\ k = client[c] /\ x = duplex[c] /\ k = NewClient /\ x = NewDuplex
                  /\ duplex = [duplex EXCEPT ![c] = x] /\ RingOK(ring)
                  /\ DuplexOK(x, k, c)
  BY CallRecords DEF Start, ClientOK, DuplexOK
<1>2. PICK k2 : k2 = [k EXCEPT !.st = "live"]
  OBVIOUS
<1>3. k2 = [st |-> "live", end |-> "none", buffered |-> <<>>, credit |-> Credit, got |-> 0]
  BY <1>1, <1>2 DEF NewClient
<1>4. ClientOK(k2)
  <2>1. <<>> \in Seq(1 .. MaxItems)
    BY EmptySeq
  <2> QED BY <1>3, <2>1, PeerAssumption DEF ClientOK, ClientCall, PeerAssumption
<1>5. PICK x2 : x2 = IF c \in Duplex
                     THEN [x EXCEPT !.st = "open", !.credit = x.credit - 1] ELSE x
  OBVIOUS
<1>6. duplex' = [duplex EXCEPT ![c] = x2]
  <2>1. CASE c \in Duplex
    BY <1>1, <1>5, <2>1 DEF Start, BooksInv
  <2>2. CASE c \notin Duplex
    BY <1>1, <1>5, <2>2 DEF Start
  <2> QED BY <2>1, <2>2
<1>7. DuplexOK(x2, k2, c)
  <2>1. CASE c \in Duplex
    <3>1. /\ x \in DuplexRequest /\ x.credit = InputCredit /\ x.sends = 0 /\ x.asked = 0
          /\ x.lost = 0
      BY <1>1 DEF DuplexOK, NewDuplex
    <3>2. x.credit - 1 \in 0 .. InputCredit
      BY <3>1, PeerAssumption DEF PeerAssumption
    <3>3. /\ x2 \in DuplexRequest /\ x2.st = "open" /\ x2.sends = 0 /\ x2.asked = 0
          /\ x2.lost = 0
      BY <1>5, <2>1, <3>1, <3>2 DEF DuplexRequest
    <3> QED BY <1>3, <2>1, <3>3 DEF DuplexOK
  <2>2. CASE c \notin Duplex
    BY <1>1, <1>3, <1>5, <2>2 DEF DuplexOK, NewDuplex
  <2> QED BY <2>1, <2>2
<1>8. requestBytes' = requestBytes + Lives(k2) - Lives(k) /\ Len(k2.buffered) = Len(k.buffered)
  <2>1. Lives(k2) = 1 /\ Lives(k) = 0
    BY <1>1, <1>3 DEF Lives, NewClient
  <2> QED BY <1>1, <1>3, <2>1, BudgetTypes DEF Start, NewClient
<1>9. responseBytes' = responseBytes + Len(k2.buffered) - Len(k.buffered)
  BY <1>8, <1>1, CallRecords, BudgetTypes DEF Start
<1>10. k2.st = "live" /\ k.st = "idle"
  BY <1>1, <1>3 DEF NewClient
<1>11. client' = [client EXCEPT ![c] = k2]
  BY <1>1, <1>2 DEF Start, BooksInv
<1>12. Acts(c, k2, x2)
  BY <1>1, <1>6, <1>8, <1>9, <1>10, <1>11 DEF Acts, Start
<1> QED BY <1>1, <1>4, <1>7, <1>12, ActsKeepsBooks DEF Start

(* A call is refused.                                                         *)
LEMMA StartRefusedBooks ==
    ASSUME BooksInv, NEW c \in Call, StartRefused(c)
    PROVE  BooksInv'
<1>1. PICK k, x : /\ k = client[c] /\ x = duplex[c] /\ k = NewClient /\ DuplexOK(x, k, c)
                  /\ duplex = [duplex EXCEPT ![c] = x] /\ RingOK(ring) /\ x.st = "none"
  BY CallRecords DEF StartRefused, ClientOK, DuplexOK
<1>2. PICK k2 : k2 = [k EXCEPT !.st = "done", !.end = "cut"]
  OBVIOUS
<1>3. k2 \in ClientCall /\ k2.st = "done" /\ k2.buffered = <<>>
  <2>1. k \in ClientCall /\ k.buffered = <<>>
    <3>1. k \in ClientCall
      BY <1>1, CallRecords
    <3> QED BY <1>1, <3>1 DEF NewClient
  <2> QED BY <1>2, <2>1 DEF ClientCall
<1>4. ClientOK(k2)
  BY <1>3, PeerConstants DEF ClientOK
<1>5. DuplexOK(x, k2, c)
  BY <1>1, <1>3 DEF DuplexOK
<1>6. client' = [client EXCEPT ![c] = k2]
  BY <1>1, <1>2 DEF StartRefused, BooksInv
<1>7. Lives(k2) = 0 /\ Lives(k) = 0 /\ Len(k2.buffered) = 0 /\ Len(k.buffered) = 0
  BY <1>1, <1>3 DEF Lives, NewClient
<1>8. /\ requestBytes' = requestBytes + Lives(k2) - Lives(k)
      /\ responseBytes' = responseBytes + Len(k2.buffered) - Len(k.buffered)
  BY <1>7, BudgetTypes DEF StartRefused
<1>9. Acts(c, k2, x)
  BY <1>1, <1>3, <1>6, <1>8 DEF Acts, StartRefused, linkVars
<1> QED BY <1>1, <1>4, <1>5, <1>9, ActsKeepsBooks DEF StartRefused

(* The caller reads.                                                          *)
LEMMA ReadBooks ==
    ASSUME BooksInv, NEW c \in Call, Read(c)
    PROVE  BooksInv'
<1>1. PICK k, x : /\ k = client[c] /\ x = duplex[c] /\ ClientOK(k) /\ DuplexOK(x, k, c)
                  /\ duplex = [duplex EXCEPT ![c] = x] /\ RingOK(ring)
                  /\ k.st \in {"live", "ended"} /\ k.buffered # <<>>
  BY CallRecords DEF Read
<1>2. PICK h, t : h = Head(k.buffered) /\ t = Tail(k.buffered)
  OBVIOUS
<1>3. /\ k \in ClientCall /\ k.buffered \in Seq(1 .. MaxItems) /\ h \in 1 .. MaxItems
      /\ t \in Seq(1 .. MaxItems) /\ Len(t) = Len(k.buffered) - 1
      /\ Len(t) \in Nat /\ Len(k.buffered) \in Nat /\ Len(k.buffered) <= Credit
  <2>1. k \in ClientCall /\ k.buffered \in Seq(1 .. MaxItems) /\ Len(k.buffered) <= Credit
    BY <1>1 DEF ClientOK, ClientCall
  <2> QED BY <1>1, <1>2, <2>1, HeadTailProperties, LenProperties
<1>4. PICK r : r = [k EXCEPT !.got = h, !.buffered = t]
  OBVIOUS
<1>5. r \in ClientCall /\ r.st = k.st /\ r.buffered = t /\ r.credit = k.credit
  <2>1. h \in 0 .. MaxItems
    BY <1>3, PeerConstants
  <2> QED BY <1>3, <1>4, <2>1 DEF ClientCall
<1>6. PICK k2 : /\ client' = [client EXCEPT ![c] = k2] /\ ClientOK(k2) /\ k2.buffered = t
                /\ k2.st = "live" <=> k.st = "live"
                /\ k2.st # "idle"
  <2>1. CASE k.st = "live"
    <3>1. PICK k2 : k2 = [r EXCEPT !.credit = r.credit + 1]
      OBVIOUS
    <3>2. k.credit + Len(k.buffered) = Credit /\ k.credit \in Nat
      BY <1>1, <2>1 DEF ClientOK, ClientCall
    <3>3. k.credit + 1 \in 0 .. Credit /\ k.credit + 1 + Len(t) = Credit
      <4>1. PICK z, n, m : /\ z = k.credit /\ n = Len(k.buffered) /\ m = Len(t)
                           /\ z \in Nat /\ n \in Nat /\ m \in Nat /\ m = n - 1 /\ z + n = Credit
        BY <1>3, <3>2
      <4>2. z + 1 \in 0 .. Credit /\ z + 1 + m = Credit
        BY <4>1, PeerConstants
      <4> QED BY <4>1, <4>2
    <3>4. /\ k2 \in ClientCall /\ k2.st = "live" /\ k2.buffered = t /\ k2.credit = k.credit + 1
      BY <1>5, <2>1, <3>1, <3>3 DEF ClientCall
    <3>5. ClientOK(k2)
      <4>1. Len(t) <= Credit
        BY <1>3, PeerConstants
      <4> QED BY <3>3, <3>4, <4>1 DEF ClientOK
    <3>6. client' = [client EXCEPT ![c] = k2]
      BY <1>1, <1>2, <1>4, <2>1, <3>1 DEF Read
    <3> QED BY <2>1, <3>4, <3>5, <3>6
  <2>2. CASE k.st = "ended" /\ t = <<>>
    <3>1. PICK k2 : k2 = [r EXCEPT !.st = "done", !.end = "complete"]
      OBVIOUS
    <3>2. k2 \in ClientCall /\ k2.st = "done" /\ k2.buffered = t
      BY <1>5, <3>1 DEF ClientCall
    <3>3. ClientOK(k2)
      BY <1>3, <2>2, <3>2, PeerConstants DEF ClientOK
    <3>4. client' = [client EXCEPT ![c] = k2]
      BY <1>1, <1>2, <1>4, <1>5, <2>2, <3>1 DEF Read
    <3> QED BY <2>2, <3>2, <3>3, <3>4
  <2>3. CASE k.st = "ended" /\ t # <<>>
    <3>1. ClientOK(r)
      BY <1>3, <1>5, <2>3, PeerConstants DEF ClientOK
    <3>2. client' = [client EXCEPT ![c] = r]
      BY <1>1, <1>2, <1>4, <1>5, <2>3 DEF Read
    <3> QED BY <1>5, <2>3, <3>1, <3>2
  <2> QED BY <1>1, <2>1, <2>2, <2>3
<1>7. DuplexOK(x, k2, c)
  BY <1>1, <1>6 DEF DuplexOK
<1>8. /\ requestBytes' = requestBytes + Lives(k2) - Lives(k)
      /\ responseBytes' = responseBytes + Len(k2.buffered) - Len(k.buffered)
  <2>1. /\ requestBytes \in Nat /\ responseBytes \in Nat
        /\ requestBytes' = requestBytes /\ responseBytes' = responseBytes - 1
    BY BudgetTypes DEF Read
  <2>2. Lives(k2) = Lives(k) /\ Lives(k) \in Nat
    BY <1>6 DEF Lives
  <2>3. requestBytes' = requestBytes + Lives(k2) - Lives(k)
    BY <2>1, <2>2
  <2>4. PICK z, n, m : /\ z = responseBytes /\ n = Len(k.buffered) /\ m = Len(t)
                       /\ z \in Nat /\ n \in Nat /\ m \in Nat /\ m = n - 1
    BY <1>3, <2>1
  <2>5. z - 1 = z + m - n
    BY <2>4
  <2> QED BY <1>6, <2>1, <2>3, <2>4, <2>5
<1>9. Acts(c, k2, x)
  BY <1>1, <1>6, <1>8 DEF Acts, Read
<1> QED BY <1>1, <1>6, <1>7, <1>9, ActsKeepsBooks DEF Read

(* The caller of a duplex call sends or ends.                                 *)
LEMMA DuplexCallerBooks ==
    ASSUME BooksInv, NEW c \in Call,
           DuplexSend(c) \/ DuplexFlush(c) \/ DuplexFlushFails(c) \/ DuplexEnd(c)
    PROVE  BooksInv'
<1>1. PICK k, x : /\ k = client[c] /\ x = duplex[c] /\ ClientOK(k) /\ DuplexOK(x, k, c)
                  /\ x \in DuplexRequest /\ x.sends + x.lost <= x.asked
                  /\ x.st \in {"open", "ending"} /\ k.st = "live" /\ c \in Duplex
                  /\ x.credit \in 0 .. InputCredit /\ x.sends \in 0 .. MaxSends
                  /\ x.asked \in 0 .. MaxSends /\ x.lost \in 0 .. MaxSends
  <2>1. DuplexOK(duplex[c], client[c], c) /\ ClientOK(client[c])
    BY CallRecords
  <2>2. duplex[c].st \in {"open", "ending"}
    BY DEF DuplexSend, DuplexFlush, DuplexFlushFails, FlushTurn, DuplexEnd
  <2> QED BY <2>1, <2>2 DEF DuplexOK, DuplexRequest
<1>2. MaxSends \in Nat /\ InputCredit \in Nat
  BY PeerAssumption DEF PeerAssumption
<1>3. CASE DuplexSend(c)
  <2>1. PICK y : y = [x EXCEPT !.sends = x.sends + 1, !.asked = x.asked + 1]
    OBVIOUS
  <2>2. x.st = "open" /\ x.asked < MaxSends
    BY <1>1, <1>3 DEF DuplexSend
  <2>3. x.sends + 1 \in 0 .. MaxSends /\ x.asked + 1 \in 0 .. MaxSends
    BY <1>1, <1>2, <2>2
  <2>4. /\ y \in DuplexRequest /\ y.sends = x.sends + 1 /\ y.asked = x.asked + 1
        /\ y.st = "open" /\ y.lost = x.lost
    BY <1>1, <2>1, <2>2, <2>3 DEF DuplexRequest
  <2>5. DuplexOK(y, k, c)
    BY <1>1, <2>4 DEF DuplexOK
  <2>6. duplex' = [duplex EXCEPT ![c] = y]
    BY <1>1, <1>3, <2>1 DEF DuplexSend
  <2> QED BY <1>1, <1>3, <2>5, <2>6, DuplexBooks DEF DuplexSend, linkVars
<1>4. ASSUME NEW queue, CancelAfter(c, queue) PROVE BooksInv'
  BY <1>1, <1>4, CancelBooks
<1>5. CASE DuplexFlush(c)
  <2>1. PICK y : y = [x EXCEPT !.sends = x.sends - 1, !.credit = x.credit - 1]
    OBVIOUS
  <2>2. x.sends > 0 /\ x.credit > 0
    BY <1>1, <1>5 DEF DuplexFlush, FlushTurn
  <2>3. x.sends - 1 \in 0 .. MaxSends /\ x.credit - 1 \in 0 .. InputCredit
    BY <1>1, <1>2, <2>2
  <2>4. /\ y \in DuplexRequest /\ y.sends = x.sends - 1 /\ y.asked = x.asked /\ y.st = x.st
        /\ y.lost = x.lost
    BY <1>1, <2>1, <2>3 DEF DuplexRequest
  <2>5. DuplexOK(y, k, c)
    BY <1>1, <2>4 DEF DuplexOK
  <2>6. duplex' = [duplex EXCEPT ![c] = y]
    BY <1>1, <1>5, <2>1 DEF DuplexFlush
  <2> QED BY <1>1, <1>5, <2>5, <2>6, DuplexBooks DEF DuplexFlush
<1>6. CASE DuplexFlushFails(c)
  BY <1>4, <1>6 DEF DuplexFlushFails
<1>7. CASE DuplexEnd(c)
  <2>1. CASE CancelAfter(c, outbox)
    BY <1>4, <2>1
  <2>2. ASSUME NEW st \in {"ending", "ended"}, duplex' = [duplex EXCEPT ![c].st = st],
               UNCHANGED <<client, requestBytes, responseBytes, ring, aborted>>
        PROVE  BooksInv'
    <3>1. PICK y : y = [x EXCEPT !.st = st]
      OBVIOUS
    <3>2. /\ y \in DuplexRequest /\ y.sends = x.sends /\ y.asked = x.asked /\ y.st = st
          /\ y.lost = x.lost
      BY <1>1, <3>1 DEF DuplexRequest
    <3>3. DuplexOK(y, k, c)
      BY <1>1, <3>2 DEF DuplexOK
    <3>4. duplex' = [duplex EXCEPT ![c] = y]
      BY <1>1, <2>2, <3>1
    <3> QED BY <1>1, <2>2, <3>3, <3>4, DuplexBooks
  <2> QED BY <1>7, <2>1, <2>2 DEF DuplexEnd
<1> QED BY <1>3, <1>5, <1>6, <1>7

(* A step that changes nothing of the calls.  A reverse call that is aborted  *)
(* is none of them.                                                           *)
LEMMA OtherBooks ==
    ASSUME BooksInv, UNCHANGED <<client, requestBytes, responseBytes, duplex>>,
           RingOK(ring'), aborted' \cap Call = aborted \cap Call
    PROVE  BooksInv'
<1>1. \A c \in Call : c \in aborted' <=> c \in aborted
  OBVIOUS
<1>2. BudgetsExact'
  BY DEF BooksInv, BudgetsExact
<1> QED BY <1>1, <1>2 DEF BooksInv

(* A payload arrives.                                                         *)
LEMMA ReceivePayloadBooks ==
    ASSUME BooksInv, NEW c \in Call, ReceivePayload(c)
    PROVE  BooksInv'
<1>1. PICK n \in 1 .. MaxItems :
        /\ ~Unexpected(Counted("payload", c, n))
        /\ \/ UNCHANGED <<callVars, ring>>
           \/ client[c].st = "live" /\ CancelAfter(c, outbox)
           \/ /\ client[c].st = "live"
              /\ client' = [client EXCEPT ![c].buffered = Append(@, n), ![c].credit = @ - 1]
              /\ responseBytes' = responseBytes + 1
              /\ UNCHANGED <<requestBytes, duplex, aborted, ring>>
  BY DEF ReceivePayload, Accepts
<1>2. CASE UNCHANGED <<callVars, ring>>
  BY <1>2, OtherBooks DEF callVars, BooksInv
<1>3. CASE client[c].st = "live" /\ CancelAfter(c, outbox)
  BY <1>3, CancelBooks
<1>4. CASE /\ client[c].st = "live"
           /\ client' = [client EXCEPT ![c].buffered = Append(@, n), ![c].credit = @ - 1]
           /\ responseBytes' = responseBytes + 1
           /\ UNCHANGED <<requestBytes, duplex, aborted, ring>>
  <2>1. PICK k, x : /\ k = client[c] /\ x = duplex[c] /\ ClientOK(k) /\ DuplexOK(x, k, c)
                    /\ duplex = [duplex EXCEPT ![c] = x] /\ RingOK(ring)
                    /\ k.st = "live" /\ k \in ClientCall
    BY <1>4, CallRecords
  <2>2. k.credit # 0
    <3>1. Counted("payload", c, n).kind = "payload" /\ Counted("payload", c, n).call = c
      BY DEF Counted
    <3> QED BY <1>1, <2>1, <3>1 DEF Unexpected
  <2>3. PICK b : b = Append(k.buffered, n)
    OBVIOUS
  <2>4. /\ b \in Seq(1 .. MaxItems) /\ Len(b) = Len(k.buffered) + 1
        /\ Len(k.buffered) \in Nat /\ k.credit \in Nat /\ k.credit + Len(k.buffered) = Credit
        /\ k.credit <= Credit
    <3>1. k.buffered \in Seq(1 .. MaxItems) /\ k.credit \in 0 .. Credit
      BY <2>1 DEF ClientCall
    <3> QED BY <2>1, <2>3, <3>1, AppendProperties, LenProperties DEF ClientOK
  <2>5. PICK z, m : /\ z = k.credit - 1 /\ m = Len(k.buffered) /\ m \in Nat
                    /\ z \in 0 .. Credit /\ z + Len(b) = Credit /\ Len(b) = m + 1
    <3>1. PICK y, m : y = k.credit /\ m = Len(k.buffered) /\ y \in Nat /\ m \in Nat /\ y # 0
                      /\ y + m = Credit /\ y <= Credit /\ Len(b) = m + 1
      BY <2>2, <2>4
    <3>2. y - 1 \in 0 .. Credit /\ (y - 1) + (m + 1) = Credit
      <4>1. PICK l : l = Credit /\ l \in Nat
        BY PeerConstants
      <4>2. y - 1 \in Nat /\ y - 1 <= l
        BY <3>1, <4>1
      <4>3. (y - 1) + (m + 1) = y + m
        BY <3>1
      <4> QED BY <3>1, <4>1, <4>2, <4>3
    <3> QED BY <3>1, <3>2
  <2>6. PICK k2 : k2 = [k EXCEPT !.buffered = b, !.credit = z]
    OBVIOUS
  <2>7. k2 \in ClientCall /\ k2.st = "live" /\ k2.buffered = b /\ k2.credit = z
    BY <2>1, <2>4, <2>5, <2>6 DEF ClientCall
  <2>8. ClientOK(k2)
    <3>1. Len(b) <= Credit
      BY <2>5, PeerConstants
    <3> QED BY <2>5, <2>7, <3>1 DEF ClientOK
  <2>9. DuplexOK(x, k2, c)
    BY <2>1, <2>7 DEF DuplexOK
  <2>10. client' = [client EXCEPT ![c] = k2]
    BY <1>4, <2>1, <2>3, <2>5, <2>6
  <2>11. requestBytes' = requestBytes + Lives(k2) - Lives(k)
    BY <1>4, <2>1, <2>7, BudgetTypes DEF Lives
  <2>12. responseBytes' = responseBytes + Len(k2.buffered) - Len(k.buffered)
    <3>1. PICK w \in Nat : w = responseBytes
      BY BudgetTypes
    <3>2. w + 1 = w + (m + 1) - m
      BY <2>5, <3>1
    <3> QED BY <1>4, <2>5, <2>7, <3>1, <3>2
  <2>13. Acts(c, k2, x)
    BY <1>4, <2>1, <2>10, <2>11, <2>12 DEF Acts
  <2> QED BY <1>4, <2>1, <2>8, <2>9, <2>13, ActsKeepsBooks
<1> QED BY <1>1, <1>2, <1>3, <1>4

(* A call ends, well or not.                                                  *)
LEMMA ReceiveEndBooks ==
    ASSUME BooksInv, NEW c \in Call, ReceiveEnd(c) \/ ReceiveFailure(c)
    PROVE  BooksInv'
<1>1. RingOK(ring) /\ RingOK(Forgotten(ring, c))
  BY CallRecords, RingFacts
<1>2. CASE ring' = Forgotten(ring, c) /\ UNCHANGED callVars
  BY <1>1, <1>2, OtherBooks DEF callVars
<1>3. ASSUME NEW end \in {"complete", "cut"}, Take(c, end), client[c].st # "idle",
             UNCHANGED ring
      PROVE  BooksInv'
  BY <1>1, <1>3, TakeBooks
<1>4. CASE /\ client[c].st = "live"
           /\ client' = [client EXCEPT ![c].st = "ended"]
           /\ requestBytes' = Released(c)
           /\ aborted' = aborted \cup {c}
           /\ duplex' = [duplex EXCEPT ![c] = Closed(@)]
           /\ UNCHANGED <<responseBytes, ring>>
  <2>1. PICK k, x : /\ k = client[c] /\ x = duplex[c] /\ ClientOK(k) /\ DuplexOK(x, k, c)
                    /\ k.st = "live" /\ k \in ClientCall /\ Len(k.buffered) \in Nat
    BY <1>4, CallRecords
  <2>2. PICK k2 : k2 = [k EXCEPT !.st = "ended"]
    OBVIOUS
  <2>3. k2 \in ClientCall /\ k2.st = "ended" /\ k2.buffered = k.buffered
    BY <2>1, <2>2 DEF ClientCall
  <2>4. ClientOK(k2)
    BY <2>1, <2>3 DEF ClientOK
  <2>5. DuplexOK(Closed(x), k2, c)
    <3>1. DuplexOK(Closed(x), Taken(k, "cut"), c)
      BY <2>1, TakenFacts
    <3>2. Taken(k, "cut").st = "done"
      BY <2>1, TakenFacts
    <3> QED BY <2>3, <3>1, <3>2 DEF DuplexOK
  <2>6. requestBytes' = requestBytes + Lives(k2) - Lives(k)
    BY <1>4, <2>1, <2>3, BudgetTypes DEF Lives, Released
  <2>7. responseBytes' = responseBytes + Len(k2.buffered) - Len(k.buffered)
    BY <1>4, <2>1, <2>3, BudgetTypes
  <2>8. client' = [client EXCEPT ![c] = k2] /\ duplex' = [duplex EXCEPT ![c] = Closed(x)]
    BY <1>4, <2>1, <2>2
  <2>9. Acts(c, k2, Closed(x))
    BY <1>4, <2>1, <2>3, <2>6, <2>7, <2>8 DEF Acts
  <2> QED BY <1>1, <1>4, <2>4, <2>5, <2>9, ActsKeepsBooks
<1>5. CASE ReceiveEnd(c)
  BY <1>2, <1>3, <1>4, <1>5 DEF ReceiveEnd
<1>6. CASE ReceiveFailure(c)
  BY <1>2, <1>3, <1>6 DEF ReceiveFailure, Pending
<1> QED BY <1>5, <1>6

(* Input credit comes back.                                                   *)
LEMMA ReceiveInputCreditBooks ==
    ASSUME BooksInv, NEW c \in Call, ReceiveInputCredit(c)
    PROVE  BooksInv'
<1>1. PICK k, x : /\ k = client[c] /\ x = duplex[c] /\ DuplexOK(x, k, c)
                  /\ x \in DuplexRequest /\ RingOK(ring)
  BY CallRecords
<1>2. CASE x.st \in {"none", "closed"}
  BY <1>1, <1>2, OtherBooks DEF ReceiveInputCredit
<1>3. CASE x.st \notin {"none", "closed"}
  <2>1. x.credit # InputCredit
    <3>1. Counted("window", c, 1).kind = "window" /\ Counted("window", c, 1).call = c
      BY DEF Counted
    <3> QED BY <1>1, <1>3, <3>1 DEF ReceiveInputCredit, Accepts, Unexpected
  <2>2. x.credit + 1 \in 0 .. InputCredit
    BY <1>1, <2>1, PeerConstants DEF DuplexRequest
  <2>3. PICK y : y = [x EXCEPT !.credit = x.credit + 1]
    OBVIOUS
  <2>4. /\ y \in DuplexRequest /\ y.sends = x.sends /\ y.asked = x.asked /\ y.st = x.st
        /\ y.lost = x.lost
    BY <1>1, <2>2, <2>3 DEF DuplexRequest
  <2>5. DuplexOK(y, k, c)
    BY <1>1, <1>3, <2>4 DEF DuplexOK
  <2>6. duplex' = [duplex EXCEPT ![c] = y]
    BY <1>1, <1>3, <2>3 DEF ReceiveInputCredit
  <2> QED BY <1>1, <2>5, <2>6, DuplexBooks DEF ReceiveInputCredit
<1> QED BY <1>2, <1>3

(* The connection ends, and with it every call.                               *)
LEMMA TerminateBooks ==
    ASSUME BooksInv, NEW reason, Terminate(reason)
    PROVE  BooksInv'
<1>1. PICK old, new : old = client /\ new = client'
  OBVIOUS
<1>2. ASSUME NEW c \in Call
      PROVE  /\ ClientOK(new[c]) /\ DuplexOK(duplex'[c], new[c], c)
             /\ new[c].buffered = <<>> /\ new[c].st \notin {"live", "ended"}
             /\ new[c].st = "idle" => c \notin aborted'
  <2>1. PICK k, x : /\ k = client[c] /\ x = duplex[c] /\ ClientOK(k) /\ DuplexOK(x, k, c)
                    /\ k \in ClientCall
    BY CallRecords
  <2>2. duplex'[c] = Closed(x)
    BY <2>1 DEF Terminate
  <2>3. CASE c \in Pending
    <3>1. new[c] = Taken(k, "cut")
      BY <1>1, <2>1, <2>3 DEF Terminate, Taken
    <3>2. k.st # "idle"
      BY <2>1, <2>3 DEF Pending
    <3>3. /\ ClientOK(Taken(k, "cut")) /\ DuplexOK(Closed(x), Taken(k, "cut"), c)
          /\ Taken(k, "cut").st = "done" /\ Taken(k, "cut").buffered = <<>>
      BY <2>1, <3>2, TakenFacts
    <3> QED BY <2>2, <3>1, <3>3
  <2>4. CASE c \notin Pending
    <3>1. new[c] = k
      BY <1>1, <2>1, <2>4 DEF Terminate
    <3>2. k.st \in {"idle", "done"} /\ k.buffered = <<>>
      BY <2>1, <2>4 DEF Pending, ClientCall, ClientOK
    <3>3. k.st = "idle" => c \notin aborted'
      BY <2>1, <2>4 DEF Terminate, BooksInv
    <3>4. DuplexOK(Closed(x), k, c)
      <4>1. CASE k.st = "idle"
        <5>1. x = NewDuplex /\ x.st = "none" /\ x.sends = 0 /\ x.lost = 0 /\ x \in DuplexRequest
          BY <2>1, <4>1 DEF DuplexOK, NewDuplex
        <5>2. Closed(x) = x
          <6>1. NewDuplex.lost + NewDuplex.sends = 0 /\ NewDuplex.st = "none"
            BY DEF NewDuplex
          <6>2. Closed(NewDuplex) = [NewDuplex EXCEPT !.st = "none", !.sends = 0, !.lost = 0]
            BY <6>1 DEF Closed
          <6>3. Closed(NewDuplex) = NewDuplex
            BY <6>2 DEF NewDuplex
          <6> QED BY <5>1, <6>3
        <5> QED BY <2>1, <5>2
      <4>2. CASE k.st = "done"
        <5>1. /\ DuplexOK(Closed(x), Taken(k, "cut"), c) /\ Taken(k, "cut").st = "done"
          BY <2>1, <4>2, TakenFacts
        <5> QED BY <4>2, <5>1 DEF DuplexOK
      <4> QED BY <3>2, <4>1, <4>2
    <3> QED BY <2>1, <2>2, <3>1, <3>2, <3>3, <3>4
  <2> QED BY <2>3, <2>4
<1>3. client' \in [Call -> ClientCall] /\ duplex' \in [Call -> DuplexRequest]
  <2>1. /\ client' = [c \in Call |-> new[c]] /\ duplex' = [c \in Call |-> duplex'[c]]
    BY <1>1 DEF Terminate
  <2> QED BY <1>2, <2>1 DEF ClientOK, DuplexOK
<1>4. BudgetsExact'
  <2>1. Living(new) = {}
    BY <1>2 DEF Living
  <2>2. Filled(new) = {}
    BY <1>2 DEF Filled
  <2>3. Cardinality({}) = 0
    BY FS_EmptySet
  <2> QED BY <1>1, <2>1, <2>2, <2>3 DEF Terminate, BudgetsExact, Living, Filled
<1>5. RingOK(ring')
  BY DEF Terminate, BooksInv
<1> QED BY <1>1, <1>2, <1>3, <1>4, <1>5 DEF BooksInv

(* Nothing is called yet.                                                     *)
LEMMA InitBooks == Init => BooksInv
<1> SUFFICES ASSUME Init PROVE BooksInv
  OBVIOUS
<1>1. /\ client = [c \in Call |-> NewClient] /\ duplex = [c \in Call |-> NewDuplex]
      /\ requestBytes = 0 /\ responseBytes = 0 /\ aborted = {}
      /\ ring = [ids |-> {}, storage |-> <<>>, next |-> 1]
  BY DEF Init, LinkInit, PeerInit, PeerInitBut, NewClient, NewDuplex
<1>2. <<>> \in Seq(1 .. MaxItems) /\ <<>> \in Seq(Call) /\ Len(<<>>) = 0
  BY EmptySeq
<1>3. NewClient \in ClientCall /\ NewDuplex \in DuplexRequest
  BY <1>2, PeerConstants DEF NewClient, NewDuplex, ClientCall, DuplexRequest
<1>4. /\ NewClient.st = "idle" /\ NewClient.buffered = <<>> /\ NewDuplex.st = "none"
      /\ NewDuplex.sends = 0 /\ NewDuplex.asked = 0 /\ NewDuplex.lost = 0
  BY DEF NewClient, NewDuplex
<1>5. ASSUME NEW c \in Call PROVE ClientOK(client[c]) /\ DuplexOK(duplex[c], client[c], c)
  <2>1. client[c] = NewClient /\ duplex[c] = NewDuplex
    BY <1>1
  <2> QED BY <1>2, <1>3, <1>4, <2>1, PeerConstants DEF ClientOK, DuplexOK
<1>6. RingOK(ring)
  BY <1>1, <1>2, PeerConstants DEF RingOK, CancelledRing
<1>7. BudgetsExact
  <2>1. Living(client) = {}
    BY <1>1, <1>4 DEF Living
  <2>2. Filled(client) = {}
    BY <1>1, <1>4 DEF Filled
  <2>3. Cardinality({}) = 0
    BY FS_EmptySet
  <2> QED BY <1>1, <2>1, <2>2, <2>3 DEF BudgetsExact, Living, Filled
<1> QED BY <1>1, <1>3, <1>5, <1>6, <1>7 DEF BooksInv

(* The reverse calls abort only their own ids.                                *)
LEMMA ReverseAborts ==
    ASSUME ReverseNext
    PROVE  aborted' \cap Call = aborted \cap Call
<1>1. PICK c \in ReverseId : aborted' = aborted \/ aborted' = aborted \cup {c}
  <2>1. PICK c \in ReverseId : \/ ReverseCaller(c) \/ ReverseAnswered(c)
                              \/ IncomingReceives(c) \/ IncomingHandler(c)
    BY DEF ReverseNext
  <2>2. CASE ReverseCaller(c)
    BY <2>2 DEF ReverseCaller, ReverseStart, ReverseRefused, ReverseReceive, ReverseDrop,
       ReverseControlCredit, ReverseControlCancel, ReverseExpire, Says, linkVars
  <2>3. CASE ReverseAnswered(c)
    BY <2>3 DEF ReverseAnswered, ReversePayload, ReverseEnd, ReverseWindow, Replies
  <2>4. CASE IncomingReceives(c)
    BY <2>4 DEF IncomingReceives, IncomingStart, IncomingPayload, IncomingEnd, IncomingCancel,
       IncomingCredit, FailAfter, Cancelled
  <2>5. CASE IncomingHandler(c)
    BY <2>5 DEF IncomingHandler, HandlerYield, HandlerReturn, IncomingFail, FailAfter
  <2> QED BY <2>1, <2>2, <2>3, <2>4, <2>5
<1> QED BY <1>1, IdsAssumption DEF IdsAssumption

(* Every step keeps the books.                                                *)
LEMMA NextBooks == BooksInv /\ [Next]_vars => BooksInv'
<1> SUFFICES ASSUME BooksInv, [Next]_vars PROVE BooksInv'
  OBVIOUS
<1>1. RingOK(ring)
  BY DEF BooksInv
<1>2. ASSUME NEW c \in Call, Caller(c) PROVE BooksInv'
  <2>1. CASE Start(c)
    BY <2>1, StartBooks
  <2>2. CASE StartRefused(c)
    BY <2>2, StartRefusedBooks
  <2>3. CASE Cancel(c)
    BY <2>3, CancelBooks DEF Cancel
  <2>4. CASE Return(c)
    <3>1. ASSUME NEW queue, CancelAfter(c, queue), client[c].st = "live" PROVE BooksInv'
      BY <3>1, CancelBooks
    <3>2. ASSUME Take(c, "cut"), client[c].st = "ended", UNCHANGED ring PROVE BooksInv'
      BY <1>1, <3>2, TakeBooks
    <3> QED BY <2>4, <3>1, <3>2 DEF Return
  <2>5. CASE Read(c)
    BY <2>5, ReadBooks
  <2>6. CASE DuplexSend(c) \/ DuplexFlush(c) \/ DuplexFlushFails(c) \/ DuplexEnd(c)
    BY <2>6, DuplexCallerBooks
  <2> QED BY <1>2, <2>1, <2>2, <2>3, <2>4, <2>5, <2>6 DEF Caller
<1>3. ASSUME NEW c \in Call, ClientReceives(c) PROVE BooksInv'
  BY <1>3, ReceivePayloadBooks, ReceiveEndBooks, ReceiveInputCreditBooks DEF ClientReceives
<1>4. ASSUME DaemonKeeps PROVE BooksInv'
  BY <1>1, <1>4, OtherBooks DEF DaemonKeeps, callVars
<1>5. ASSUME NEW c \in Call, DaemonReceives(c) PROVE BooksInv'
  BY <1>4, <1>5 DEF DaemonReceives, DaemonStart, DaemonPayload, DaemonEnd, DaemonCancel,
     DaemonCredit, Answer
<1>6. ASSUME NEW c \in Call, Handler(c) PROVE BooksInv'
  BY <1>4, <1>6 DEF Handler, DaemonYield, DaemonComplete, DaemonFail, DaemonConsume, Emit
<1>12. ASSUME NEW c \in Call, DaemonOversized(c) PROVE BooksInv'
  BY <1>4, <1>12 DEF DaemonOversized, Answer
<1>7. CASE PeerNext
  BY <1>2, <1>3, <1>5, <1>6, <1>7, <1>12 DEF PeerNext
<1>8. CASE ReverseNext /\ UNCHANGED peerVars
  BY <1>1, <1>8, ReverseAborts, OtherBooks DEF peerVars
<1>9. CASE Deliver
  BY <1>1, <1>9, OtherBooks DEF Deliver, Transmit, peerVars
<1>10. CASE Ends
  BY <1>10, TerminateBooks DEF Ends, RefuseGap, RefuseFrame, RefuseReverse, Disconnect
<1>11. CASE UNCHANGED vars
  BY <1>1, <1>11, OtherBooks DEF vars, peerVars, linkVars
<1> QED BY <1>7, <1>8, <1>9, <1>10, <1>11 DEF Next

(* The books are in order in every reachable state.                           *)
LEMMA BooksKept == Spec => []BooksInv
BY InitBooks, NextBooks, PTL DEF Spec

(* The byte budgets of a connection are exact: whatever ends, cancels, fails  *)
(* or reads a call, take, markStreamEnded and restoreResponseBytes together   *)
(* release what it reserved, once.                                            *)
THEOREM BudgetsAreExact == Spec => []BudgetsExact
<1>1. BooksInv => BudgetsExact
  BY DEF BooksInv
<1> QED BY <1>1, BooksKept, PTL

-----------------------------------------------------------------------------
(* The frames under way.                                                      *)

(* The record of a call the daemon has not heard of.                          *)
NewDaemon == [st |-> "absent", credit |-> Credit, held |-> <<>>, emitted |-> 0,
              complete |-> FALSE, inputCredit |-> InputCredit, input |-> 0,
              seen |-> 0, inputOpen |-> FALSE, torn |-> FALSE]

(* DaemonCall without a bound on the messages.                                *)
DaemonRecord ==
    [st : {"absent", "receiving", "running", "gone"}, credit : 0 .. Credit,
     held : Seq(1 .. MaxItems), emitted : 0 .. MaxItems, complete : BOOLEAN,
     inputCredit : 0 .. InputCredit, input : Nat, seen : Nat,
     inputOpen : BOOLEAN, torn : BOOLEAN]

(* The reverse calls of the client, which number their payloads.              *)
IncomingOK ==
    /\ incoming \in [ReverseId -> IncomingCall]
    /\ \A r \in ReverseId : incoming[r].waiting => incoming[r].yields < MaxYields

LinkInv ==
    /\ outbox \in Seq(BatchType) /\ \A i \in DOMAIN outbox : BatchOK(outbox[i])
    /\ toDaemon \in Seq(SentType) /\ toClient \in Seq(FrameType) /\ skipped \in BOOLEAN
    /\ IncomingOK

(* Every frame of the batch is one of call a.                                 *)
Of(b, a) == b.signal \in {a, None} /\ \A j \in DOMAIN b.frames : b.frames[j].call = a

(* The queue of the client grows by batches of call a.                        *)
Sends(o, o2, a) ==
    /\ o2 \in Seq(BatchType) /\ Len(o) <= Len(o2)
    /\ \A i \in 1 .. Len(o) : o2[i] = o[i]
    /\ \A i \in Len(o) + 1 .. Len(o2) : BatchOK(o2[i]) /\ Of(o2[i], a)

(* What is under way to the client grows by frames of call a.                 *)
Answers(q, q2, a) ==
    /\ q2 \in Seq(FrameType) /\ Len(q) <= Len(q2)
    /\ \A i \in 1 .. Len(q) : q2[i] = q[i]
    /\ \A i \in Len(q) + 1 .. Len(q2) : q2[i].call = a

(* Sending nothing.                                                         *)
LEMMA SendsNothing ==
    ASSUME NEW o \in Seq(BatchType), NEW a
    PROVE  Sends(o, o, a)
BY LenProperties DEF Sends

(* One batch that fits, or finds the queue full.                            *)
LEMMA SendsOne ==
    ASSUME NEW o \in Seq(BatchType), NEW a, NEW b, BatchOK(b), Of(b, a)
    PROVE  Sends(o, Append(o, b), a) /\ Sends(o, Queued(o, b), a)
<1>1. b \in BatchType
  BY DEF BatchOK
<1>2. /\ Append(o, b) \in Seq(BatchType) /\ Len(Append(o, b)) = Len(o) + 1 /\ Len(o) \in Nat
      /\ \A i \in 1 .. Len(o) : Append(o, b)[i] = o[i]
      /\ Append(o, b)[Len(o) + 1] = b
  BY <1>1, AppendProperties, LenProperties
<1>3. Sends(o, Append(o, b), a)
  BY <1>2 DEF Sends
<1> QED BY <1>3, SendsNothing DEF Queued

(* Batches of a call after others of the same call.                         *)
LEMMA SendsMore ==
    ASSUME NEW o \in Seq(BatchType), NEW o1, NEW o2, NEW a, Sends(o, o1, a), Sends(o1, o2, a)
    PROVE  Sends(o, o2, a)
<1>1. PICK l, m, n : /\ l = Len(o) /\ m = Len(o1) /\ n = Len(o2)
                     /\ l \in Nat /\ m \in Nat /\ n \in Nat /\ l <= m /\ m <= n
  BY LenProperties DEF Sends
<1>2. \A i \in 1 .. l : i \in 1 .. m /\ o2[i] = o1[i] /\ o1[i] = o[i]
  BY <1>1 DEF Sends
<1>3. \A i \in l + 1 .. n : BatchOK(o2[i]) /\ Of(o2[i], a)
  <2> SUFFICES ASSUME NEW i \in l + 1 .. n PROVE BatchOK(o2[i]) /\ Of(o2[i], a)
    OBVIOUS
  <2>1. CASE i \in m + 1 .. n
    BY <1>1, <2>1 DEF Sends
  <2>2. CASE i \in l + 1 .. m
    <3>1. i \in 1 .. m
      BY <1>1, <2>2
    <3>2. o2[i] = o1[i] /\ BatchOK(o1[i]) /\ Of(o1[i], a)
      BY <1>1, <2>2, <3>1 DEF Sends
    <3> QED BY <3>2
  <2> QED BY <1>1, <2>1, <2>2
<1>4. l <= n /\ o2 \in Seq(BatchType)
  BY <1>1 DEF Sends
<1> QED BY <1>1, <1>2, <1>3, <1>4 DEF Sends

(* Frames of call a, and some explicit ones.                                  *)
Speaks(s, a) == s \in Seq(FrameType) /\ \A i \in 1 .. Len(s) : s[i].call = a

(* Up to three frames in a row.                                             *)
LEMMA SpeaksFacts ==
    ASSUME NEW a
    PROVE  /\ Speaks(<<>>, a)
           /\ \A f \in FrameType : f.call = a => Speaks(<<f>>, a)
           /\ \A f, g \in FrameType : f.call = a /\ g.call = a => Speaks(<<f, g>>, a)
           /\ \A f, g, h \in FrameType :
                 f.call = a /\ g.call = a /\ h.call = a => Speaks(<<f, g, h>>, a)
<1>1. Speaks(<<>>, a)
  BY DEF Speaks
<1>2. ASSUME NEW f \in FrameType, f.call = a PROVE Speaks(<<f>>, a)
  BY <1>2 DEF Speaks
<1>3. ASSUME NEW f \in FrameType, NEW g \in FrameType, f.call = a, g.call = a
      PROVE  Speaks(<<f, g>>, a)
  BY <1>3 DEF Speaks
<1>4. ASSUME NEW f \in FrameType, NEW g \in FrameType, NEW h \in FrameType,
             f.call = a, g.call = a, h.call = a
      PROVE  Speaks(<<f, g, h>>, a)
  BY <1>4 DEF Speaks
<1> QED BY <1>1, <1>2, <1>3, <1>4

(* An answer may be empty.                                                  *)
LEMMA AnswersNothing ==
    ASSUME NEW q \in Seq(FrameType), NEW a
    PROVE  Answers(q, q, a) /\ Answers(q, q \o <<>>, a)
<1>1. q \o <<>> = q
  BY ConcatEmptySeq
<1> QED BY <1>1, LenProperties DEF Answers

(* Frames of a call behind what is under way.                               *)
LEMMA AnswersFrames ==
    ASSUME NEW q \in Seq(FrameType), NEW a, NEW s, Speaks(s, a)
    PROVE  Answers(q, q \o s, a)
<1>1. PICK m, n : m = Len(q) /\ n = Len(s) /\ m \in Nat /\ n \in Nat
               /\ s \in Seq(FrameType) /\ \A i \in 1 .. n : s[i].call = a
  BY LenProperties DEF Speaks
<1>2. /\ q \o s \in Seq(FrameType) /\ Len(q \o s) = m + n
      /\ \A i \in 1 .. m + n : (q \o s)[i] = IF i <= m THEN q[i] ELSE s[i - m]
  BY <1>1, ConcatProperties
<1>3. \A i \in m + 1 .. m + n : i - m \in 1 .. n /\ i \in 1 .. m + n /\ ~(i <= m)
  BY <1>1
<1>4. \A i \in 1 .. m : i \in 1 .. m + n /\ i <= m
  BY <1>1
<1> QED BY <1>1, <1>2, <1>3, <1>4 DEF Answers

(* One frame.                                                                 *)
LEMMA FrameFacts ==
    ASSUME NEW a \in Id, NEW kind \in {"start", "payload", "end", "cancel", "window"},
           NEW n \in Nat
    PROVE  /\ Frame(kind, a) \in FrameType /\ Counted(kind, a, n) \in FrameType
           /\ Frame(kind, a).call = a /\ Counted(kind, a, n).call = a
           /\ Frame(kind, a).kind = kind /\ Counted(kind, a, n).kind = kind
           /\ Frame(kind, a).n = 0 /\ Counted(kind, a, n).n = n
BY DEF Frame, Counted, FrameType

(* A batch of one frame.                                                      *)
LEMMA SingleBatch ==
    ASSUME NEW a \in Id, NEW f \in FrameType, f.call = a, NEW s \in {a, None}
    PROVE  BatchOK(Batch(<<f>>, s)) /\ Of(Batch(<<f>>, s), a)
<1>1. PICK g : g = <<f>>
  OBVIOUS
<1>2. g \in Seq(FrameType) /\ g # <<>> /\ g[1] = f /\ DOMAIN g = 1 .. 1
  BY <1>1
<1>3. \A j \in DOMAIN g : j = 1
  BY <1>2
<1>4. PICK b : b = Batch(g, s)
  OBVIOUS
<1>5. b.frames = g /\ b.signal = s /\ b \in BatchType
  BY <1>2, <1>4 DEF Batch, BatchType
<1>6. BatchOK(b) /\ Of(b, a)
  BY <1>2, <1>3, <1>5 DEF BatchOK, Of
<1> QED BY <1>1, <1>4, <1>6

(* A frame arrives for one side, or none does.                                *)
Reads(q, q2, a)  == q2 = q \/ (q # <<>> /\ Head(q).call = a /\ q2 = Tail(q))
Arrives(p, p2, a) == p2 = p \/ (p # <<>> /\ Head(p).frame.call = a /\ p2 = Tail(p))

(* The records of the other calls.                                            *)
Others(c) ==
    \A b \in Call : b # c => /\ client'[b] = client[b] /\ duplex'[b] = duplex[b]
                             /\ daemon'[b] = daemon[b] /\ (b \in aborted' <=> b \in aborted)

(* What a step of call a leaves alone.                                        *)
StepOf(a) ==
    /\ Others(a)
    /\ Sends(outbox, outbox', a) /\ skipped' = skipped
    /\ Arrives(toDaemon, toDaemon', a)
    /\ \E q : Reads(toClient, q, a) /\ Answers(q, toClient', a)

(* The session of the daemon speaks of its own calls.                         *)
LEMMA SaysStep ==
    ASSUME LinkInv, UNCHANGED peerVars, NEW a \in Id, NEW s, Speaks(s, a), Says(s)
    PROVE  StepOf(a) /\ IncomingOK'
<1>1. Sends(outbox, outbox', a)
  BY SendsNothing DEF LinkInv, Says
<1>2. Answers(toClient, toClient', a)
  BY AnswersFrames DEF LinkInv, Says
<1> QED BY <1>1, <1>2 DEF StepOf, Others, Says, peerVars, Arrives, Reads, LinkInv, IncomingOK

(* So does what it does with a frame it has read.                           *)
LEMMA RepliesStep ==
    ASSUME LinkInv, UNCHANGED peerVars, NEW a \in Id, NEW s, Speaks(s, a), Replies(s),
           NEW f, DaemonReads(f), f.call = a
    PROVE  StepOf(a) /\ IncomingOK'
<1>1. Sends(outbox, outbox', a)
  BY SendsNothing DEF LinkInv, Replies
<1>2. Answers(toClient, toClient', a)
  BY AnswersFrames DEF LinkInv, Replies
<1>3. Arrives(toDaemon, toDaemon', a)
  BY DEF DaemonReads, Replies, Arrives
<1> QED BY <1>1, <1>2, <1>3 DEF StepOf, Others, Replies, peerVars, Reads, LinkInv, IncomingOK

(* The callers of the daemon.                                                 *)
LEMMA ReverseCallerStep ==
    ASSUME LinkInv, UNCHANGED peerVars, NEW a \in ReverseId, ReverseCaller(a)
    PROVE  StepOf(a) /\ IncomingOK'
<1>1. a \in Id
  BY DEF Id
<1>2. PICK f, g, h, w : /\ f = Frame("start", a) /\ g = Frame("payload", a)
                        /\ h = Frame("end", a) /\ w = Counted("window", a, 1)
  OBVIOUS
<1>3. PICK x : x = Frame("cancel", a)
  OBVIOUS
<1>4. /\ f \in FrameType /\ g \in FrameType /\ h \in FrameType /\ w \in FrameType
      /\ x \in FrameType
      /\ f.call = a /\ g.call = a /\ h.call = a /\ w.call = a /\ x.call = a
  BY <1>1, <1>2, <1>3, FrameFacts
<1>5. ASSUME Says(<<>>) \/ Says(<<x>>) \/ Says(<<w>>) \/ Says(<<f, g, h>>)
      PROVE  StepOf(a) /\ IncomingOK'
  <2>1. ASSUME NEW s, Speaks(s, a), Says(s)
        PROVE  StepOf(a) /\ IncomingOK'
    BY <1>1, <2>1, SaysStep
  <2> QED BY <1>1, <1>4, <1>5, <2>1, SpeaksFacts
<1>6. ASSUME UNCHANGED <<incoming, linkVars>> PROVE StepOf(a) /\ IncomingOK'
  BY <1>6, SendsNothing, AnswersNothing
     DEF StepOf, Others, linkVars, peerVars, Arrives, Reads, LinkInv, IncomingOK
<1>7. CASE ReverseStart(a) \/ ReverseRefused(a) \/ ReverseExpire(a)
  BY <1>2, <1>3, <1>5, <1>7 DEF ReverseStart, ReverseRefused, ReverseExpire, CancelFrame
<1>8. CASE ReverseReceive(a) \/ ReverseDrop(a)
  BY <1>6, <1>8 DEF ReverseReceive, ReverseDrop
<1>9. CASE ReverseControlCredit(a) \/ ReverseControlCancel(a)
  BY <1>2, <1>3, <1>5, <1>9 DEF ReverseControlCredit, ReverseControlCancel, CancelFrame
<1> QED BY <1>7, <1>8, <1>9 DEF ReverseCaller

(* What the client answers to them.                                           *)
LEMMA ReverseAnsweredStep ==
    ASSUME LinkInv, UNCHANGED peerVars, NEW a \in ReverseId, ReverseAnswered(a)
    PROVE  StepOf(a) /\ IncomingOK'
<1>1. a \in Id
  BY DEF Id
<1>2. PICK x : x = Frame("cancel", a)
  OBVIOUS
<1>3. x \in FrameType /\ x.call = a
  BY <1>1, <1>2, FrameFacts
<1>4. ASSUME NEW f, f.call = a, DaemonReads(f), Replies(<<>>) \/ Replies(<<x>>)
      PROVE  StepOf(a) /\ IncomingOK'
  <2>1. ASSUME NEW s, Speaks(s, a), Replies(s)
        PROVE  StepOf(a) /\ IncomingOK'
    BY <1>1, <1>4, <2>1, RepliesStep
  <2> QED BY <1>1, <1>3, <1>4, <2>1, SpeaksFacts
<1>5. \A n : Counted("payload", a, n).call = a /\ Counted("end", a, n).call = a
             /\ Counted("window", a, n).call = a
  BY DEF Counted
<1>6. CASE ReversePayload(a)
  BY <1>2, <1>4, <1>5, <1>6 DEF ReversePayload, Expects, CancelFrame
<1>7. CASE ReverseEnd(a)
  BY <1>4, <1>5, <1>7 DEF ReverseEnd, Expects
<1>8. CASE ReverseWindow(a)
  BY <1>4, <1>5, <1>8 DEF ReverseWindow, Expects
<1> QED BY <1>6, <1>7, <1>8 DEF ReverseAnswered

(* One reverse call of the client changes.                                    *)
LEMMA IncomingChanges ==
    ASSUME IncomingOK, NEW a \in ReverseId, NEW k \in IncomingCall,
           k.waiting => k.yields < MaxYields, incoming' = [incoming EXCEPT ![a] = k]
    PROVE  IncomingOK'
<1>1. incoming' \in [ReverseId -> IncomingCall]
  BY DEF IncomingOK
<1>2. /\ incoming'[a] = k /\ \A r \in ReverseId : r # a => incoming'[r] = incoming[r]
  BY DEF IncomingOK
<1> QED BY <1>1, <1>2 DEF IncomingOK

(* The record of one that is over.                                            *)
LEMMA GoneFacts ==
    ASSUME IncomingOK, NEW a \in ReverseId, NEW queue \in Seq(BatchType)
    PROVE  /\ Gone(a, queue) \in IncomingCall /\ ~Gone(a, queue).waiting
           /\ [Gone(a, queue) EXCEPT !.returned = TRUE] \in IncomingCall
           /\ ~[Gone(a, queue) EXCEPT !.returned = TRUE].waiting
           /\ \A e \in BOOLEAN : /\ [Gone(a, queue) EXCEPT !.early = e] \in IncomingCall
                                 /\ ~[Gone(a, queue) EXCEPT !.early = e].waiting
<1>1. PICK k : k = incoming[a] /\ k \in IncomingCall
  BY DEF IncomingOK
<1>2. PICK u \in BOOLEAN : u = (Len(queue) >= MaxBatches)
  <2>1. Len(queue) \in Nat /\ MaxBatches \in Nat
    BY LenProperties, BatchesAssumption DEF BatchesAssumption
  <2>2. (Len(queue) >= MaxBatches) \in BOOLEAN
    BY <2>1
  <2> QED BY <2>2
<1>3. PICK g : g = Gone(a, queue)
  OBVIOUS
<1>4. g = [k EXCEPT !.st = "gone", !.request = FALSE, !.waiting = FALSE, !.unsent = u]
  BY <1>1, <1>2, <1>3 DEF Gone
<1>5. g \in IncomingCall /\ g.waiting = FALSE
  BY <1>1, <1>4 DEF IncomingCall
<1>6. [g EXCEPT !.returned = TRUE] \in IncomingCall /\ ~[g EXCEPT !.returned = TRUE].waiting
  BY <1>5 DEF IncomingCall
<1>7. ASSUME NEW e \in BOOLEAN
      PROVE  [g EXCEPT !.early = e] \in IncomingCall /\ ~[g EXCEPT !.early = e].waiting
  BY <1>5 DEF IncomingCall
<1> QED BY <1>3, <1>5, <1>6, <1>7

(* A reverse call acts on the client's side: its batches are queued, the      *)
(* frame it may have read is gone.                                            *)
LEMMA IncomingActs ==
    ASSUME LinkInv, UNCHANGED peerVars, NEW a \in ReverseId,
           Sends(outbox, outbox', a), aborted' \in {aborted, aborted \cup {a}},
           skipped' = skipped, toDaemon' = toDaemon, Reads(toClient, toClient', a)
    PROVE  StepOf(a)
<1>1. toClient' \in Seq(FrameType)
  <2>1. CASE toClient' = toClient
    BY <2>1 DEF LinkInv
  <2>2. CASE toClient # <<>> /\ toClient' = Tail(toClient)
    BY <2>2, HeadTailProperties DEF LinkInv
  <2> QED BY <2>1, <2>2 DEF Reads
<1>2. Answers(toClient', toClient', a)
  BY <1>1, AnswersNothing
<1>3. PICK q : q = toClient' /\ Reads(toClient, q, a) /\ Answers(q, toClient', a)
  BY <1>2
<1> QED BY <1>3 DEF StepOf, Others, peerVars, Arrives

(* fail, and cancel.                                                          *)
LEMMA FailAfterStep ==
    ASSUME LinkInv, NEW a \in ReverseId, NEW queue, Sends(outbox, queue, a),
           FailAfter(a, queue)
    PROVE  /\ Sends(outbox, outbox', a) /\ aborted' \in {aborted, aborted \cup {a}}
           /\ IncomingOK'
<1>1. PICK f : f = Counted("end", a, 0)
  OBVIOUS
<1>2. a \in Id
  BY DEF Id
<1>3. f \in FrameType /\ f.call = a
  BY <1>1, <1>2, FrameFacts
<1>4. PICK b : b = Batch(<<f>>, None)
  OBVIOUS
<1>5. BatchOK(b) /\ Of(b, a)
  BY <1>2, <1>3, <1>4, SingleBatch
<1>6. outbox' = Queued(queue, b)
  BY <1>1, <1>4 DEF FailAfter, EndBatch
<1>7. queue \in Seq(BatchType)
  BY DEF Sends
<1>8. Sends(queue, Queued(queue, b), a)
  BY <1>5, <1>7, SendsOne
<1>9. Sends(outbox, outbox', a)
  BY <1>6, <1>8, SendsMore DEF LinkInv
<1>10. IncomingOK'
  <2>1. PICK g : g = Gone(a, queue) /\ g \in IncomingCall /\ ~g.waiting
    BY <1>7, GoneFacts DEF LinkInv
  <2> QED BY <2>1, IncomingChanges DEF FailAfter, LinkInv
<1> QED BY <1>9, <1>10 DEF FailAfter

(* What the client does with the frames of a reverse call.                    *)
LEMMA IncomingReceivesStep ==
    ASSUME LinkInv, UNCHANGED peerVars, NEW a \in ReverseId, IncomingReceives(a)
    PROVE  StepOf(a) /\ IncomingOK'
<1> DEFINE w == Counted("window", a, 1)
           bw == Batch(<<w>>, None)
<1>1. PICK k : k = incoming[a] /\ k \in IncomingCall /\ (k.waiting => k.yields < MaxYields)
  BY DEF LinkInv, IncomingOK
<1>2. a \in Id
  BY DEF Id
<1>3. Sends(outbox, Queued(outbox, bw), a)
  <2>1. w \in FrameType /\ w.call = a
    BY <1>2, FrameFacts
  <2>2. BatchOK(bw) /\ Of(bw, a)
    BY <1>2, <2>1, SingleBatch
  <2> QED BY <2>2, SendsOne DEF LinkInv
<1> HIDE DEF w
<1>4. Sends(outbox, outbox, a)
  BY SendsNothing DEF LinkInv
<1>5. /\ skipped' = skipped /\ toDaemon' = toDaemon /\ Reads(toClient, toClient', a)
  <2>1. PICK f : f.call = a /\ Hears(f)
    <3>1. \A n : Counted("window", a, n).call = a
      BY DEF Counted
    <3>2. /\ Frame("start", a).call = a /\ Frame("payload", a).call = a
          /\ Frame("end", a).call = a /\ Frame("cancel", a).call = a
      BY DEF Frame
    <3> QED BY <3>1, <3>2 DEF IncomingReceives, IncomingStart, IncomingPayload, IncomingEnd,
            IncomingCancel, IncomingCredit
  <2> QED BY <2>1 DEF Hears, ClientReads, Reads
<1>6. ASSUME NEW k2 \in IncomingCall, k2.waiting => k2.yields < MaxYields,
             incoming' = [incoming EXCEPT ![a] = k2],
             Sends(outbox, outbox', a), aborted' = aborted
      PROVE  StepOf(a) /\ IncomingOK'
  BY <1>5, <1>6, IncomingActs, IncomingChanges DEF LinkInv
<1>7. ASSUME NEW queue, Sends(outbox, queue, a), FailAfter(a, queue)
      PROVE  StepOf(a) /\ IncomingOK'
  BY <1>5, <1>7, FailAfterStep, IncomingActs
<1>8. ASSUME UNCHANGED <<incoming, outbox, aborted>> PROVE StepOf(a) /\ IncomingOK'
  BY <1>4, <1>5, <1>8, IncomingActs DEF LinkInv, IncomingOK
<1>9. CASE IncomingStart(a) \/ IncomingPayload(a)
  <2>1. PICK k2 : /\ incoming' = [incoming EXCEPT ![a] = k2]
                  /\ \/ k2 = [k EXCEPT !.st = "receiving"]
                     \/ k2 = [k EXCEPT !.request = TRUE]
                     \/ k2 = [k EXCEPT !.failure = TRUE]
    BY <1>1, <1>9 DEF IncomingStart, IncomingPayload
  <2>2. k2 \in IncomingCall /\ k2.waiting = k.waiting /\ k2.yields = k.yields
    BY <1>1, <2>1 DEF IncomingCall
  <2> QED BY <1>1, <1>4, <1>6, <1>9, <2>1, <2>2 DEF IncomingStart, IncomingPayload
<1>10. CASE IncomingEnd(a)
  <2>1. ASSUME incoming' = [incoming EXCEPT ![a].st = "running", ![a].request = FALSE],
               outbox' = Queued(outbox, bw), UNCHANGED aborted
        PROVE  StepOf(a) /\ IncomingOK'
    <3>1. PICK k2 : k2 = [k EXCEPT !.st = "running", !.request = FALSE]
      OBVIOUS
    <3>2. k2 \in IncomingCall /\ k2.waiting = k.waiting /\ k2.yields = k.yields
      BY <1>1, <3>1 DEF IncomingCall
    <3>3. incoming' = [incoming EXCEPT ![a] = k2]
      BY <1>1, <2>1, <3>1
    <3> QED BY <1>1, <1>3, <1>6, <2>1, <3>2, <3>3
  <2> QED BY <1>3, <1>4, <1>7, <1>10, <2>1 DEF IncomingEnd, w
<1>11. CASE IncomingCancel(a)
  BY <1>4, <1>7, <1>8, <1>11 DEF IncomingCancel, Cancelled
<1>12. CASE IncomingCredit(a)
  <2>1. CASE UNCHANGED <<incoming, outbox, aborted>> \/ FailAfter(a, outbox)
    BY <1>4, <1>7, <1>8, <2>1
  <2>2. CASE /\ ~k.waiting /\ a \in Serving
             /\ incoming' = [incoming EXCEPT ![a] = Credited(k)]
             /\ UNCHANGED <<outbox, aborted>>
    <3>1. PICK k2 : k2 = Credited(k)
      OBVIOUS
    <3>2. k.credit # ReverseCredit
      <4>1. w.kind = "window" /\ w.call = a
        BY DEF w, Counted
      <4>2. ~RefusedByClient(w)
        BY <1>12 DEF IncomingCredit, Hears, w
      <4> QED BY <1>1, <2>2, <4>1, <4>2 DEF RefusedByClient, Serving
    <3>3. k.credit + 1 \in 0 .. ReverseCredit
      BY <1>1, <3>2, ReverseAssumption DEF IncomingCall, ReverseAssumption
    <3>4. k2 \in IncomingCall /\ ~k2.waiting
      BY <1>1, <2>2, <3>1, <3>3 DEF Credited, IncomingCall
    <3> QED BY <1>4, <1>6, <2>2, <3>1, <3>4
  <2>3. CASE /\ k.waiting
             /\ incoming' = [incoming EXCEPT ![a] =
                               [Credited(k) EXCEPT !.waiting = FALSE, !.yields = k.yields + 1]]
             /\ outbox' = Append(outbox, Batch(<<Counted("payload", a, k.yields + 1)>>, a))
             /\ UNCHANGED aborted
    <3>1. k.yields + 1 \in 0 .. MaxYields
      BY <1>1, <2>3, ReverseAssumption DEF IncomingCall, ReverseAssumption
    <3>2. PICK k2 : k2 = [k EXCEPT !.waiting = FALSE, !.yields = k.yields + 1]
      OBVIOUS
    <3>3. k2 \in IncomingCall /\ ~k2.waiting
      BY <1>1, <3>1, <3>2 DEF IncomingCall
    <3>4. incoming' = [incoming EXCEPT ![a] = k2]
      BY <2>3, <3>2 DEF Credited
    <3>5. PICK f : f = Counted("payload", a, k.yields + 1)
      OBVIOUS
    <3>6. f \in FrameType /\ f.call = a
      BY <1>2, <3>1, <3>5, FrameFacts
    <3>7. BatchOK(Batch(<<f>>, a)) /\ Of(Batch(<<f>>, a), a)
      BY <1>2, <3>6, SingleBatch
    <3>8. Sends(outbox, outbox', a)
      BY <2>3, <3>5, <3>7, SendsOne DEF LinkInv
    <3> QED BY <1>6, <2>3, <3>3, <3>4, <3>8
  <2> QED BY <1>1, <1>12, <2>1, <2>2, <2>3 DEF IncomingCredit
<1> QED BY <1>9, <1>10, <1>11, <1>12 DEF IncomingReceives

(* What its handlers and timers do.                                           *)
LEMMA IncomingHandlerStep ==
    ASSUME LinkInv, UNCHANGED peerVars, NEW a \in ReverseId, IncomingHandler(a)
    PROVE  StepOf(a) /\ IncomingOK'
<1>1. PICK k : k = incoming[a] /\ k \in IncomingCall /\ (k.waiting => k.yields < MaxYields)
  BY DEF LinkInv, IncomingOK
<1>2. a \in Id
  BY DEF Id
<1>3. Sends(outbox, outbox, a)
  BY SendsNothing DEF LinkInv
<1>4. skipped' = skipped /\ toDaemon' = toDaemon /\ Reads(toClient, toClient', a)
  BY DEF IncomingHandler, HandlerYield, HandlerReturn, IncomingFail, Works, Reads
<1>5. ASSUME NEW k2 \in IncomingCall, k2.waiting => k2.yields < MaxYields,
             incoming' = [incoming EXCEPT ![a] = k2],
             Sends(outbox, outbox', a), aborted' \in {aborted, aborted \cup {a}}
      PROVE  StepOf(a) /\ IncomingOK'
  BY <1>4, <1>5, IncomingActs, IncomingChanges DEF LinkInv
<1>6. ASSUME NEW f \in FrameType, f.call = a, NEW signal \in {a, None}
      PROVE  /\ Sends(outbox, Queued(outbox, Batch(<<f>>, signal)), a)
             /\ Sends(outbox, Append(outbox, Batch(<<f>>, signal)), a)
  <2>1. BatchOK(Batch(<<f>>, signal)) /\ Of(Batch(<<f>>, signal), a)
    BY <1>2, <1>6, SingleBatch
  <2> QED BY <2>1, SendsOne DEF LinkInv
<1>7. CASE HandlerYield(a)
  <2>1. k.yields < MaxYields /\ k.yields \in Nat
    BY <1>1, <1>7, ReverseAssumption DEF HandlerYield, ReverseAssumption, IncomingCall
  <2>2. CASE FailAfter(a, outbox)
    BY <1>3, <1>4, <2>2, FailAfterStep, IncomingActs
  <2>3. CASE /\ incoming' = [incoming EXCEPT ![a].waiting = TRUE]
             /\ UNCHANGED <<outbox, aborted>>
    <3>1. PICK k2 : k2 = [k EXCEPT !.waiting = TRUE]
      OBVIOUS
    <3>2. k2 \in IncomingCall /\ k2.yields = k.yields
      BY <1>1, <3>1 DEF IncomingCall
    <3>3. incoming' = [incoming EXCEPT ![a] = k2]
      BY <1>1, <2>3, <3>1
    <3> QED BY <1>3, <1>5, <2>1, <2>3, <3>2, <3>3
  <2>4. CASE /\ k.credit # 0
             /\ incoming' = [incoming EXCEPT ![a].yields = k.yields + 1, ![a].credit = @ - 1]
             /\ outbox' = Append(outbox, Batch(<<Counted("payload", a, k.yields + 1)>>, a))
             /\ UNCHANGED aborted
    <3>1. k.yields + 1 \in 0 .. MaxYields /\ k.credit - 1 \in 0 .. ReverseCredit
      BY <1>1, <2>1, <2>4, ReverseAssumption DEF IncomingCall, ReverseAssumption
    <3>2. PICK k2 : k2 = [k EXCEPT !.yields = k.yields + 1, !.credit = k.credit - 1]
      OBVIOUS
    <3>3. k2 \in IncomingCall /\ k2.waiting = k.waiting
      BY <1>1, <3>1, <3>2 DEF IncomingCall
    <3>4. incoming' = [incoming EXCEPT ![a] = k2]
      BY <1>1, <2>4, <3>2
    <3>5. ~k.waiting
      BY <1>1, <1>7 DEF HandlerYield, Works
    <3>6. PICK f : f = Counted("payload", a, k.yields + 1)
      OBVIOUS
    <3>7. f \in FrameType /\ f.call = a
      BY <1>2, <3>1, <3>6, FrameFacts
    <3>8. Sends(outbox, outbox', a)
      BY <1>6, <2>4, <3>6, <3>7
    <3> QED BY <1>5, <2>4, <3>3, <3>4, <3>5, <3>8
  <2> QED BY <1>1, <1>7, <2>2, <2>3, <2>4 DEF HandlerYield
<1>8. ASSUME NEW n \in {0, 1}, outbox' = Queued(outbox, EndBatch(a, n))
      PROVE  Sends(outbox, outbox', a)
  <2>1. PICK f : f = Counted("end", a, n)
    OBVIOUS
  <2>2. f \in FrameType /\ f.call = a
    BY <1>2, <2>1, FrameFacts
  <2> QED BY <1>6, <1>8, <2>1, <2>2 DEF EndBatch
<1>9. CASE HandlerReturn(a)
  <2>1. PICK g : g = [Gone(a, outbox) EXCEPT !.returned = TRUE] /\ g \in IncomingCall /\ ~g.waiting
    BY GoneFacts DEF LinkInv
  <2>2. Sends(outbox, outbox', a)
    BY <1>8, <1>9 DEF HandlerReturn
  <2> QED BY <1>5, <1>9, <2>1, <2>2 DEF HandlerReturn
<1>10. CASE IncomingFail(a)
  <2>1. PICK e \in BOOLEAN : e = (incoming[a].st = "receiving")
    OBVIOUS
  <2>2. PICK g : g = [Gone(a, outbox) EXCEPT !.early = e] /\ g \in IncomingCall /\ ~g.waiting
    BY GoneFacts DEF LinkInv
  <2>3. Sends(outbox, outbox', a)
    BY <1>8, <1>10 DEF IncomingFail
  <2> QED BY <1>5, <1>10, <2>1, <2>2, <2>3 DEF IncomingFail
<1> QED BY <1>7, <1>9, <1>10 DEF IncomingHandler

(* A step of the reverse calls leaves the calls of the client alone.          *)
LEMMA ReverseStep ==
    ASSUME LinkInv, UNCHANGED peerVars, ReverseNext
    PROVE  IncomingOK' /\ \E a \in ReverseId : StepOf(a)
BY ReverseCallerStep, ReverseAnsweredStep, IncomingReceivesStep, IncomingHandlerStep
   DEF ReverseNext

(* The queue of the client grows by Cancel frames and credit of call a.       *)
Controls(o, o2, a) ==
    /\ Sends(o, o2, a)
    /\ \A i \in Len(o) + 1 .. Len(o2) :
          /\ o2[i].signal = None /\ Len(o2[i].frames) = 1
          /\ o2[i].frames[1].kind \in {"cancel", "window"}

(* Nothing is queued.                                                       *)
LEMMA ControlsNothing ==
    ASSUME NEW o \in Seq(BatchType), NEW a
    PROVE  Controls(o, o, a)
BY SendsNothing, LenProperties DEF Controls

(* One more Cancel frame or WindowUpdate, if it fits.                       *)
LEMMA ControlsOne ==
    ASSUME NEW o, NEW o1, NEW a \in Id, NEW f \in FrameType, f.call = a,
           f.kind \in {"cancel", "window"}, o \in Seq(BatchType), Controls(o, o1, a)
    PROVE  Controls(o, Queued(o1, Batch(<<f>>, None)), a)
<1>1. PICK b : b = Batch(<<f>>, None)
  OBVIOUS
<1>2. BatchOK(b) /\ Of(b, a) /\ b \in BatchType
  BY <1>1, SingleBatch DEF BatchOK
<1>3. b.signal = None /\ b.frames = <<f>>
  BY <1>1 DEF Batch
<1>4. Len(b.frames) = 1 /\ b.frames[1].kind \in {"cancel", "window"}
  BY <1>3
<1>5. o1 \in Seq(BatchType) /\ Sends(o, o1, a)
  BY DEF Controls, Sends
<1>6. PICK o2 : o2 = Append(o1, b)
  OBVIOUS
<1>7. Sends(o, o2, a)
  BY <1>2, <1>5, <1>6, SendsOne, SendsMore
<1>8. PICK l, m : l = Len(o) /\ m = Len(o1) /\ l \in Nat /\ m \in Nat /\ l <= m
  BY <1>5, LenProperties DEF Sends
<1>9. Len(o2) = m + 1 /\ o2[m + 1] = b /\ \A i \in 1 .. m : o2[i] = o1[i]
  BY <1>2, <1>5, <1>6, <1>8, AppendProperties
<1>10. Controls(o, o2, a)
  <2> SUFFICES ASSUME NEW i \in l + 1 .. m + 1
               PROVE  /\ o2[i].signal = None /\ Len(o2[i].frames) = 1
                      /\ o2[i].frames[1].kind \in {"cancel", "window"}
    BY <1>7, <1>8, <1>9 DEF Controls
  <2>1. CASE i = m + 1
    BY <1>3, <1>4, <1>9, <2>1
  <2>2. CASE i \in l + 1 .. m
    <3>1. o2[i] = o1[i]
      BY <1>8, <1>9, <2>2
    <3> QED BY <1>8, <2>2, <3>1 DEF Controls
  <2> QED BY <1>8, <2>1, <2>2
<1> QED BY <1>1, <1>6, <1>10 DEF Queued

(* What the client sends when it cancels call c.                              *)
LEMMA CancelSends ==
    ASSUME LinkInv, NEW c \in Call, NEW queue, Controls(outbox, queue, c),
           CancelAfter(c, queue)
    PROVE  Controls(outbox, outbox', c)
<1>1. PICK f : f = Frame("cancel", c)
  OBVIOUS
<1>2. c \in Id
  BY DEF Id
<1>3. f \in FrameType /\ f.call = c /\ f.kind = "cancel"
  BY <1>1, <1>2, FrameFacts
<1> QED BY <1>1, <1>2, <1>3, ControlsOne DEF CancelAfter, LinkInv

(* take changes one call.                                                     *)
LEMMA TakeOthers ==
    ASSUME BooksInv, NEW c \in Call, NEW end, Take(c, end), daemon' = daemon
    PROVE  Others(c)
BY DEF BooksInv, Take, Others

(* What follows a send that fails: a message, or the end.                     *)
LEMMA FollowerFacts ==
    ASSUME NEW c \in Call, NEW x, NEW b \in Follower(x, c)
    PROVE  /\ BatchOK(b) /\ Of(b, c) /\ Len(b.frames) = 1
           /\ \/ /\ b = Batch(<<Frame("payload", c)>>, c) /\ b.signal = c
                 /\ b.frames[1] = Frame("payload", c) /\ x.sends > 1 /\ x.credit > 1
              \/ /\ b = Batch(<<Frame("end", c)>>, None) /\ b.signal = None
                 /\ b.frames[1] = Frame("end", c) /\ x.sends = 1 /\ x.st = "ending"
<1>1. c \in Id
  BY DEF Id
<1>2. ASSUME NEW kind \in {"payload", "end"}, NEW signal \in {c, None},
             b = Batch(<<Frame(kind, c)>>, signal)
      PROVE  /\ BatchOK(b) /\ Of(b, c) /\ Len(b.frames) = 1 /\ b.signal = signal
             /\ b.frames[1] = Frame(kind, c)
  <2>1. Frame(kind, c) \in FrameType /\ Frame(kind, c).call = c
    BY <1>1, FrameFacts
  <2>2. BatchOK(b) /\ Of(b, c)
    BY <1>1, <1>2, <2>1, SingleBatch
  <2> QED BY <1>2, <2>2 DEF Batch
<1>3. CASE x.sends > 1 /\ x.credit > 1
  <2>1. b = Batch(<<Frame("payload", c)>>, c)
    BY <1>3 DEF Follower
  <2> QED BY <1>2, <1>3, <2>1
<1>4. CASE ~(x.sends > 1 /\ x.credit > 1)
  <2>1. x.sends = 1 /\ x.st = "ending" /\ b = Batch(<<Frame("end", c)>>, None)
    BY <1>4 DEF Follower
  <2> QED BY <1>2, <2>1
<1> QED BY <1>3, <1>4

(* It is queued before the Cancel frame.                                      *)
Fails(c, b) ==
    /\ b \in Follower(duplex[c], c) /\ CanSend
    /\ Append(outbox, b) \in Seq(BatchType) /\ Sends(outbox, Append(outbox, b), c)
    /\ Controls(Append(outbox, b), outbox', c)

LEMMA FailsSends ==
    ASSUME LinkInv, NEW c \in Call, DuplexFlushFails(c)
    PROVE  /\ \E queue : CancelAfter(c, queue)
           /\ Controls(outbox, outbox', c) \/ \E b : Fails(c, b)
<1>1. outbox \in Seq(BatchType) /\ c \in Id
  BY DEF LinkInv, Id
<1>2. CASE CancelAfter(c, outbox)
  BY <1>1, <1>2, ControlsNothing, CancelSends
<1>3. ASSUME NEW b \in Follower(duplex[c], c), CancelAfter(c, Queued(outbox, b))
      PROVE  /\ \E queue : CancelAfter(c, queue)
             /\ Controls(outbox, outbox', c) \/ \E e : Fails(c, e)
  <2>1. CASE ~CanSend
    <3>1. Queued(outbox, b) = outbox
      BY <2>1 DEF CanSend, Queued
    <3> QED BY <1>1, <1>3, <3>1, ControlsNothing, CancelSends
  <2>2. CASE CanSend
    <3>1. PICK o : o = Append(outbox, b) /\ Queued(outbox, b) = o
      BY <2>2 DEF CanSend, Queued
    <3>2. BatchOK(b) /\ Of(b, c)
      BY FollowerFacts
    <3>3. Sends(outbox, o, c)
      BY <1>1, <3>1, <3>2, SendsOne
    <3>4. o \in Seq(BatchType)
      BY <3>3 DEF Sends
    <3>5. PICK f : f = Frame("cancel", c) /\ f \in FrameType /\ f.call = c /\ f.kind = "cancel"
      BY <1>1, FrameFacts
    <3>6. Controls(o, Queued(o, Batch(<<f>>, None)), c)
      BY <1>1, <3>4, <3>5, ControlsNothing, ControlsOne
    <3>7. outbox' = Queued(o, Batch(<<f>>, None))
      BY <1>3, <3>1, <3>5 DEF CancelAfter
    <3>8. Fails(c, b)
      BY <1>3, <2>2, <3>1, <3>3, <3>4, <3>6, <3>7 DEF Fails
    <3> QED BY <1>3, <3>8
  <2> QED BY <2>1, <2>2
<1> QED BY <1>2, <1>3 DEF DuplexFlushFails

(* What callers do changes the call they made and nothing under way.          *)
LEMMA CallerStep ==
    ASSUME BooksInv, LinkInv, NEW c \in Call, Caller(c)
    PROVE  /\ Others(c) /\ UNCHANGED <<daemon, skipped, toDaemon, toClient, link>>
           /\ \/ Start(c) \/ DuplexFlush(c)
              \/ (DuplexEnd(c) /\ duplex[c].st = "ending" /\ CanSend)
              \/ (DuplexFlushFails(c) /\ \E b : Fails(c, b))
              \/ Controls(outbox, outbox', c)
<1>1. Controls(outbox, outbox, c)
  BY ControlsNothing DEF LinkInv
<1>2. c \in Id
  BY DEF Id
<1>3. ASSUME NEW n \in Nat PROVE Controls(outbox, Queued(outbox, Restored(c, n)), c)
  <2>1. PICK f : f = Counted("window", c, n)
    OBVIOUS
  <2>2. f \in FrameType /\ f.call = c /\ f.kind = "window"
    BY <1>2, <2>1, FrameFacts
  <2> QED BY <1>1, <1>2, <2>1, <2>2, ControlsOne DEF Restored, LinkInv
<1>4. ASSUME NEW queue, Controls(outbox, queue, c), CancelAfter(c, queue), daemon' = daemon
      PROVE  Others(c) /\ Controls(outbox, outbox', c)
  BY <1>4, CancelSends, TakeOthers DEF CancelAfter
<1>5. CASE Start(c)
  BY <1>5 DEF Start, Others, BooksInv
<1>6. CASE StartRefused(c)
  BY <1>1, <1>6 DEF StartRefused, Others, BooksInv, linkVars
<1>7. CASE Cancel(c)
  BY <1>1, <1>4, <1>7 DEF Cancel
<1>8. CASE Return(c)
  <2>1. Len(client[c].buffered) \in Nat
    BY CallRecords
  <2>2. CASE client[c].st = "live"
    BY <1>1, <1>3, <1>4, <1>8, <2>1, <2>2 DEF Return
  <2>3. CASE client[c].st = "ended"
    BY <1>1, <1>8, <2>3, TakeOthers DEF Return
  <2> QED BY <1>8, <2>2, <2>3 DEF Return
<1>9. CASE Read(c)
  <2>1. PICK k : client' = [client EXCEPT ![c] = k]
    BY <1>9 DEF Read
  <2>2. UNCHANGED <<duplex, daemon, skipped, aborted, toDaemon, toClient, link>>
    BY <1>9 DEF Read
  <2>3. Others(c)
    BY <2>1, <2>2 DEF Others, BooksInv
  <2>4. outbox' = outbox \/ outbox' = Queued(outbox, Restored(c, 1))
    BY <1>9 DEF Read
  <2> QED BY <1>1, <1>3, <2>2, <2>3, <2>4
<1>10. CASE DuplexSend(c)
  BY <1>1, <1>10 DEF DuplexSend, Others, BooksInv, linkVars
<1>11. CASE DuplexFlush(c)
  BY <1>11 DEF DuplexFlush, Others, BooksInv
<1>12. CASE DuplexEnd(c)
  BY <1>1, <1>4, <1>12 DEF DuplexEnd, Others, BooksInv
<1>13. CASE DuplexFlushFails(c)
  <2>1. PICK queue : CancelAfter(c, queue)
    BY <1>13, FailsSends
  <2>2. UNCHANGED <<daemon, skipped, toDaemon, toClient, link>>
    BY <1>13 DEF DuplexFlushFails
  <2>3. Others(c)
    BY <2>1, <2>2, TakeOthers DEF CancelAfter
  <2> QED BY <1>13, <2>2, <2>3, FailsSends
<1> QED BY <1>5, <1>6, <1>7, <1>8, <1>9, <1>10, <1>11, <1>12, <1>13 DEF Caller

(* So does a frame the client receives.                                       *)
LEMMA ClientReceivesStep ==
    ASSUME BooksInv, LinkInv, NEW c \in Call, ClientReceives(c)
    PROVE  /\ Others(c) /\ UNCHANGED <<daemon, skipped, toDaemon, link>>
           /\ Controls(outbox, outbox', c)
           /\ toClient # <<>> /\ Head(toClient).call = c /\ toClient' = Tail(toClient)
<1>1. Controls(outbox, outbox, c)
  BY ControlsNothing DEF LinkInv
<1>2. ASSUME NEW queue, Controls(outbox, queue, c), CancelAfter(c, queue), daemon' = daemon
      PROVE  Others(c) /\ Controls(outbox, outbox', c)
  BY <1>2, CancelSends, TakeOthers DEF CancelAfter
<1>3. /\ UNCHANGED <<daemon, skipped, toDaemon, link>>
      /\ toClient # <<>> /\ Head(toClient).call = c /\ toClient' = Tail(toClient)
  <2>1. PICK f : f.call = c /\ Accepts(f)
    <3>1. \A n : /\ Counted("window", c, n).call = c /\ Counted("payload", c, n).call = c
                 /\ Counted("end", c, n).call = c
      BY DEF Counted
    <3> QED BY <3>1 DEF ClientReceives, ReceivePayload, ReceiveEnd, ReceiveFailure,
            ReceiveInputCredit
  <2> QED BY <2>1 DEF Accepts, ClientReads
<1>4. CASE ReceivePayload(c)
  <2>1. CASE UNCHANGED <<callVars, ring, outbox>>
    BY <1>1, <1>3, <2>1 DEF callVars, Others
  <2>2. CASE CancelAfter(c, outbox)
    BY <1>1, <1>2, <1>3, <2>2
  <2>3. CASE \E n : /\ client' = [client EXCEPT ![c].buffered = Append(@, n), ![c].credit = @ - 1]
                    /\ UNCHANGED <<requestBytes, duplex, aborted, ring, outbox>>
    BY <1>1, <1>3, <2>3 DEF Others, BooksInv
  <2> QED BY <1>4, <2>1, <2>2, <2>3 DEF ReceivePayload
<1>5. CASE ReceiveEnd(c)
  <2>1. outbox' = outbox
    BY <1>5 DEF ReceiveEnd
  <2>2. CASE \E end : Take(c, end)
    BY <1>1, <1>3, <2>1, <2>2, TakeOthers
  <2>3. CASE UNCHANGED callVars
    BY <1>1, <1>3, <2>1, <2>3 DEF callVars, Others
  <2>4. CASE /\ client' = [client EXCEPT ![c].st = "ended"]
             /\ aborted' = aborted \cup {c}
             /\ duplex' = [duplex EXCEPT ![c] = Closed(@)]
    BY <1>1, <1>3, <2>1, <2>4 DEF Others, BooksInv
  <2> QED BY <1>5, <2>2, <2>3, <2>4 DEF ReceiveEnd
<1>6. CASE ReceiveFailure(c)
  <2>1. outbox' = outbox
    BY <1>6 DEF ReceiveFailure
  <2>2. CASE \E end : Take(c, end)
    BY <1>1, <1>3, <2>1, <2>2, TakeOthers
  <2>3. CASE UNCHANGED callVars
    BY <1>1, <1>3, <2>1, <2>3 DEF callVars, Others
  <2> QED BY <1>6, <2>2, <2>3 DEF ReceiveFailure
<1>7. CASE ReceiveInputCredit(c)
  BY <1>1, <1>3, <1>7 DEF ReceiveInputCredit, Others, BooksInv
<1> QED BY <1>4, <1>5, <1>6, <1>7 DEF ClientReceives

-----------------------------------------------------------------------------
(* The daemon's record of a call.                                             *)

(* The payloads of a stream that were sent.                                   *)
Handed(d) == d.emitted - Len(d.held)

(* The payloads held are the last ones the handler yielded, and the input     *)
(* credit that the client does not have is that of the messages not read.     *)
DaemonOK(d, c) ==
    /\ d \in DaemonRecord
    /\ d.st = "absent" => d = NewDaemon
    /\ d.st = "receiving" =>
          /\ d.emitted = 0 /\ ~d.complete /\ ~d.inputOpen /\ d.input = 0
          /\ d.inputCredit = InputCredit /\ (c \in Duplex => d.seen = 0)
    /\ d.st = "gone" => d.held = <<>>
    /\ c \in Unary => d.held = <<>> /\ (~d.complete => d.emitted = 0)
    /\ Len(d.held) <= d.emitted
    /\ \A i \in 1 .. Len(d.held) : d.held[i] = Handed(d) + i
    /\ d.st = "running" /\ ~d.complete => d.inputCredit + d.input = InputCredit
    /\ d.input <= d.seen

(* The daemon sends m payloads, the next ones, and at most one frame behind   *)
(* them; it ends a call well only when all that was yielded is sent, and a    *)
(* call that is gone stays so.                                                *)
Emits(d, d2, s, m, c) ==
    /\ m \in Nat /\ Len(s) \in {m, m + 1}
    /\ \A i \in 1 .. m : s[i] = Counted("payload", c, Handed(d) + i)
    /\ Len(s) = m + 1 => /\ s[m + 1].kind \in {"end", "window"}
                         /\ s[m + 1] = EndOk(c) => d2.st = "gone" /\ d2.complete
    /\ Handed(d) + m <= Handed(d2)
    /\ d2.st # "gone" \/ (Len(s) = m + 1 /\ s[m + 1] = EndOk(c)) => Handed(d2) = Handed(d) + m
    /\ d.st = "gone" => d2 = d /\ m = 0 /\ (Len(s) = 1 => s[1] # EndOk(c))

(* The record and the frames of one step of the daemon.                       *)
Moves(d, d2, s, m, c) ==
    /\ DaemonOK(d2, c) /\ Speaks(s, c) /\ Emits(d, d2, s, m, c)
    /\ d2.st = "absent" => d.st = "absent"

(* The fields of a record.                                                    *)
LEMMA DaemonFields ==
    ASSUME NEW d, NEW c, DaemonOK(d, c)
    PROVE  /\ d.st \in {"absent", "receiving", "running", "gone"}
           /\ d.credit \in 0 .. Credit /\ d.held \in Seq(1 .. MaxItems) /\ Len(d.held) \in Nat
           /\ d.emitted \in 0 .. MaxItems /\ d.complete \in BOOLEAN
           /\ d.inputCredit \in 0 .. InputCredit /\ d.input \in Nat /\ d.seen \in Nat
           /\ d.inputOpen \in BOOLEAN /\ Handed(d) \in Nat /\ d.emitted \in Nat
<1>1. /\ d.st \in {"absent", "receiving", "running", "gone"}
      /\ d.credit \in 0 .. Credit /\ d.held \in Seq(1 .. MaxItems)
      /\ d.emitted \in 0 .. MaxItems /\ d.complete \in BOOLEAN
      /\ d.inputCredit \in 0 .. InputCredit /\ d.input \in Nat /\ d.seen \in Nat
      /\ d.inputOpen \in BOOLEAN
  BY DEF DaemonOK, DaemonRecord
<1>2. Len(d.held) \in Nat /\ Len(d.held) <= d.emitted
  BY <1>1, LenProperties DEF DaemonOK
<1>3. d.emitted \in Nat
  BY <1>1, PeerConstants
<1>4. PICK m, n : m = d.emitted /\ n = Len(d.held) /\ m \in Nat /\ n \in Nat /\ n <= m
  BY <1>2, <1>3
<1>5. m - n \in Nat
  BY <1>4
<1> QED BY <1>1, <1>2, <1>3, <1>4, <1>5 DEF Handed

(* The record of a call the daemon has not heard of.                        *)
LEMMA NewDaemonOK ==
    ASSUME NEW c
    PROVE  DaemonOK(NewDaemon, c)
<1>1. <<>> \in Seq(1 .. MaxItems) /\ Len(<<>>) = 0
  BY EmptySeq
<1>2. NewDaemon \in DaemonRecord
  BY <1>1, PeerConstants DEF NewDaemon, DaemonRecord
<1>3. /\ NewDaemon.st = "absent" /\ NewDaemon.held = <<>> /\ NewDaemon.emitted = 0
      /\ NewDaemon.input = 0 /\ NewDaemon.seen = 0
  BY DEF NewDaemon
<1>4. \A i \in 1 .. Len(NewDaemon.held) : FALSE
  BY <1>1, <1>3
<1> QED BY <1>1, <1>2, <1>3, <1>4 DEF DaemonOK

(* A call that is abandoned holds no payload any more.                      *)
LEMMA AbandonedOK ==
    ASSUME NEW c, NEW d, DaemonOK(d, c)
    PROVE  /\ DaemonOK(Abandoned(d), c) /\ Abandoned(d).st = "gone"
           /\ Handed(d) <= Handed(Abandoned(d))
<1>1. PICK e : e = Abandoned(d)
  OBVIOUS
<1>2. <<>> \in Seq(1 .. MaxItems) /\ Len(<<>>) = 0
  BY EmptySeq
<1>3. /\ e \in DaemonRecord /\ e.st = "gone" /\ e.held = <<>> /\ e.input = 0
      /\ e.emitted = d.emitted /\ e.complete = d.complete /\ e.seen = d.seen
  BY <1>1, <1>2 DEF DaemonOK, DaemonRecord, Abandoned
<1>4. d.emitted \in Nat /\ Len(d.held) \in Nat /\ d.seen \in Nat
  BY DaemonFields
<1>5. \A i \in 1 .. Len(e.held) : FALSE
  BY <1>2, <1>3
<1>6. DaemonOK(e, c)
  BY <1>2, <1>3, <1>4, <1>5 DEF DaemonOK
<1>7. Handed(e) = d.emitted - 0
  BY <1>2, <1>3 DEF Handed
<1>8. PICK m, n : m = d.emitted /\ n = Len(d.held) /\ m \in Nat /\ n \in Nat
  BY <1>4
<1>9. m - n <= m - 0
  BY <1>8
<1> QED BY <1>1, <1>3, <1>6, <1>7, <1>8, <1>9 DEF Handed

(* Sending no payload and at most one frame that ends nothing well.           *)
LEMMA MovesQuietly ==
    ASSUME NEW c \in Call, NEW d, NEW d2, DaemonOK(d, c), DaemonOK(d2, c),
           NEW s, \/ s = <<>>
                  \/ \E f \in FrameType : /\ s = <<f>> /\ f.call = c
                                          /\ f.kind \in {"end", "window"} /\ f # EndOk(c),
           Handed(d) <= Handed(d2), d2.st # "gone" => Handed(d2) = Handed(d),
           d.st = "gone" => d2 = d, d2.st = "absent" => d.st = "absent"
    PROVE  Moves(d, d2, s, 0, c)
<1>1. Speaks(s, c)
  BY SpeaksFacts
<1>2. Handed(d) \in Nat /\ Handed(d2) \in Nat
  BY DaemonFields
<1>3. /\ Len(s) \in {0, 1}
      /\ Len(s) = 1 => s[1].kind \in {"end", "window"} /\ s[1] # EndOk(c)
  <2>1. CASE s = <<>>
    BY <2>1
  <2>2. ASSUME NEW f \in FrameType, s = <<f>>, f.kind \in {"end", "window"}, f # EndOk(c)
        PROVE  Len(s) = 1 /\ s[1] = f
    BY <2>2
  <2> QED BY <2>1, <2>2
<1>4. PICK l : l = Len(s) /\ l \in {0, 1}
  BY <1>3
<1>5. Emits(d, d2, s, 0, c)
  <2>1. Handed(d) + 0 = Handed(d) /\ 0 + 1 = 1 /\ \A i \in 1 .. 0 : FALSE
    BY <1>2
  <2> QED BY <1>2, <1>3, <2>1 DEF Emits
<1> QED BY <1>1, <1>5 DEF Moves

(* The call's record stays; an error may be sent.                           *)
LEMMA MovesSame ==
    ASSUME NEW c \in Call, NEW d, DaemonOK(d, c), NEW s \in {<<>>, <<EndError(c)>>}
    PROVE  Moves(d, d, s, 0, c)
<1>1. PICK f : f = EndError(c)
  OBVIOUS
<1>2. c \in Id
  BY DEF Id
<1>3. f \in FrameType /\ f.call = c /\ f.kind = "end" /\ f # EndOk(c)
  <2>1. f.n = 0 /\ EndOk(c).n = 1
    BY <1>1 DEF EndError, EndOk, Counted
  <2> QED BY <1>1, <1>2, <2>1, FrameFacts DEF EndError
<1>4. Handed(d) \in Nat
  BY DaemonFields
<1> QED BY <1>1, <1>3, <1>4, MovesQuietly

(* The call is abandoned, with an error.                                    *)
LEMMA MovesAbandoned ==
    ASSUME NEW c \in Call, NEW d, DaemonOK(d, c), d.st # "gone"
    PROVE  Moves(d, Abandoned(d), <<EndError(c)>>, 0, c)
<1>1. PICK f : f = EndError(c)
  OBVIOUS
<1>2. c \in Id
  BY DEF Id
<1>3. f \in FrameType /\ f.call = c /\ f.kind = "end" /\ f # EndOk(c)
  <2>1. f.n = 0 /\ EndOk(c).n = 1
    BY <1>1 DEF EndError, EndOk, Counted
  <2> QED BY <1>1, <1>2, <2>1, FrameFacts DEF EndError
<1>4. PICK e : e = Abandoned(d)
  OBVIOUS
<1>5. DaemonOK(e, c) /\ e.st = "gone" /\ Handed(d) <= Handed(e)
  BY <1>4, AbandonedOK
<1>6. Moves(d, e, <<f>>, 0, c)
  BY <1>3, <1>5, MovesQuietly
<1> QED BY <1>1, <1>4, <1>6

(* A step of the daemon on call c.                                            *)
Turn(c, d2, s, m) ==
    /\ daemon' = [daemon EXCEPT ![c] = d2] /\ toClient' = toClient \o s
    /\ Moves(daemon[c], d2, s, m, c)

(* What is known before it.                                                   *)
DaemonKnown(c) == daemon \in [Call -> DaemonRecord] /\ DaemonOK(daemon[c], c)

(* A record that changes in other fields than the payloads.                   *)
LEMMA InputOnly ==
    ASSUME NEW c, NEW d, DaemonOK(d, c), NEW e \in DaemonRecord,
           e.held = d.held, e.emitted = d.emitted, e.complete = d.complete,
           e.st \in {"receiving", "running"}, d.st \in {"receiving", "running"},
           e.st = "receiving" => /\ d.st = "receiving" /\ ~e.inputOpen /\ e.input = 0
                                 /\ e.inputCredit = InputCredit /\ (c \in Duplex => e.seen = 0),
           e.st = "running" /\ ~e.complete => e.inputCredit + e.input = InputCredit,
           e.input <= e.seen
    PROVE  DaemonOK(e, c) /\ Handed(e) = Handed(d)
<1>1. Handed(e) = Handed(d)
  BY DEF Handed
<1> QED BY <1>1 DEF DaemonOK

(* ProtocolCalls::start, of a call it has not heard of.                       *)
LEMMA TurnStart ==
    ASSUME NEW c \in Call, DaemonKnown(c), DaemonStart(c), daemon[c].st = "absent"
    PROVE  \E d2, s, m : Turn(c, d2, s, m)
<1>1. PICK d : d = daemon[c] /\ d = NewDaemon /\ DaemonOK(d, c) /\ d \in DaemonRecord
               /\ daemon = [daemon EXCEPT ![c] = d]
  BY DEF DaemonKnown, DaemonOK
<1>2. CASE UNCHANGED daemon /\ Answer(<<EndError(c)>>)
  <2>1. Moves(d, d, <<EndError(c)>>, 0, c)
    BY <1>1, MovesSame
  <2> QED BY <1>1, <1>2, <2>1 DEF Turn, Answer
<1>3. CASE daemon' = [daemon EXCEPT ![c].st = "receiving"] /\ Answer(<<>>)
  <2>1. PICK e : e = [d EXCEPT !.st = "receiving"]
    OBVIOUS
  <2>2. /\ e \in DaemonRecord /\ e.st = "receiving" /\ e.held = <<>> /\ e.emitted = 0
        /\ e.input = 0 /\ e.seen = 0 /\ ~e.complete /\ ~e.inputOpen
        /\ e.inputCredit = InputCredit /\ d.held = <<>> /\ d.emitted = 0 /\ d.st = "absent"
    <3>1. /\ d.st = "absent" /\ d.held = <<>> /\ d.emitted = 0 /\ d.input = 0 /\ d.seen = 0
          /\ d.complete = FALSE /\ d.inputOpen = FALSE /\ d.inputCredit = InputCredit
      BY <1>1 DEF NewDaemon
    <3>2. d \in DaemonRecord
      BY <1>1
    <3> QED BY <2>1, <3>1, <3>2 DEF DaemonRecord
  <2>3. Handed(e) = Handed(d) /\ Handed(d) \in Nat
    BY <1>1, <2>2, DaemonFields DEF Handed
  <2>4. \A i \in 1 .. Len(e.held) : FALSE
    BY <2>2
  <2>5. DaemonOK(e, c)
    <3>1. Len(e.held) = 0
      BY <2>2
    <3> QED BY <2>2, <2>4, <3>1 DEF DaemonOK
  <2>6. Moves(d, e, <<>>, 0, c)
    BY <1>1, <2>2, <2>3, <2>5, MovesQuietly
  <2>7. daemon' = [daemon EXCEPT ![c] = e]
    BY <1>1, <1>3, <2>1
  <2>8. toClient' = toClient \o <<>>
    BY <1>3 DEF Answer
  <2>9. Turn(c, e, <<>>, 0)
    BY <1>1, <2>6, <2>7, <2>8 DEF Turn
  <2> QED BY <2>9
<1> QED BY <1>2, <1>3 DEF DaemonStart

(* ProtocolCalls::receive_payload.                                            *)
LEMMA TurnPayload ==
    ASSUME NEW c \in Call, DaemonKnown(c), DaemonPayload(c)
    PROVE  \E d2, s, m : Turn(c, d2, s, m)
<1>1. PICK d : d = daemon[c] /\ DaemonOK(d, c) /\ d \in DaemonRecord
               /\ daemon = [daemon EXCEPT ![c] = d]
  BY DEF DaemonKnown
<1>2. /\ d.inputCredit \in 0 .. InputCredit /\ d.input \in Nat /\ d.seen \in Nat
      /\ d.input <= d.seen /\ Handed(d) \in Nat
  BY <1>1, DaemonFields DEF DaemonOK
<1>3. ASSUME UNCHANGED daemon, Answer(<<EndError(c)>>)
      PROVE  \E d2, s, m : Turn(c, d2, s, m)
  <2>1. Moves(d, d, <<EndError(c)>>, 0, c)
    BY <1>1, MovesSame
  <2> QED BY <1>1, <1>3, <2>1 DEF Turn, Answer
<1>4. ASSUME d.st # "gone", daemon' = [daemon EXCEPT ![c] = Abandoned(@)],
             Answer(<<EndError(c)>>)
      PROVE  \E d2, s, m : Turn(c, d2, s, m)
  <2>1. Moves(d, Abandoned(d), <<EndError(c)>>, 0, c)
    BY <1>1, <1>4, MovesAbandoned
  <2> QED BY <1>1, <1>4, <2>1 DEF Turn, Answer
<1>5. ASSUME NEW e, DaemonOK(e, c), Handed(e) = Handed(d), e.st # "absent", d.st # "gone",
             daemon' = [daemon EXCEPT ![c] = e], Answer(<<>>)
      PROVE  \E d2, s, m : Turn(c, d2, s, m)
  <2>1. Moves(d, e, <<>>, 0, c)
    BY <1>1, <1>2, <1>5, MovesQuietly
  <2> QED BY <1>1, <1>5, <2>1 DEF Turn, Answer
<1>6. CASE /\ d.st = "receiving" /\ d.seen = 0 /\ c \notin Duplex
           /\ daemon' = [daemon EXCEPT ![c].seen = 1] /\ Answer(<<>>)
  <2>1. PICK e : e = [d EXCEPT !.seen = 1]
    OBVIOUS
  <2>2. /\ e \in DaemonRecord /\ e.st = "receiving" /\ e.held = d.held /\ e.seen = 1
        /\ e.emitted = d.emitted /\ e.complete = d.complete /\ e.inputOpen = d.inputOpen
        /\ e.input = d.input /\ e.inputCredit = d.inputCredit
    BY <1>1, <1>6, <2>1 DEF DaemonRecord
  <2>3. e.input <= e.seen
    BY <1>2, <1>6, <2>2
  <2>4. DaemonOK(e, c) /\ Handed(e) = Handed(d)
    <3>1. /\ ~d.inputOpen /\ d.input = 0 /\ d.inputCredit = InputCredit
      BY <1>1, <1>6 DEF DaemonOK
    <3> QED BY <1>1, <1>6, <2>2, <2>3, <3>1, InputOnly
  <2>5. daemon' = [daemon EXCEPT ![c] = e]
    BY <1>1, <1>6, <2>1
  <2> QED BY <1>5, <1>6, <2>2, <2>4, <2>5
<1>7. CASE /\ d.st = "receiving" /\ d.seen = 0 /\ c \in Duplex
           /\ daemon' = [daemon EXCEPT ![c].st = "running", ![c].inputOpen = TRUE,
                              ![c].input = 1, ![c].seen = 1, ![c].inputCredit = @ - 1]
           /\ Answer(<<>>)
  <2>1. PICK e : e = [d EXCEPT !.st = "running", !.inputOpen = TRUE, !.input = 1, !.seen = 1,
                               !.inputCredit = d.inputCredit - 1]
    OBVIOUS
  <2>2. /\ d.inputCredit = InputCredit /\ InputCredit - 1 \in 0 .. InputCredit
        /\ (InputCredit - 1) + 1 = InputCredit
    BY <1>1, <1>7, PeerConstants DEF DaemonOK
  <2>3. /\ e \in DaemonRecord /\ e.st = "running" /\ e.held = d.held /\ e.seen = 1
        /\ e.emitted = d.emitted /\ e.complete = d.complete
        /\ e.input = 1 /\ e.inputCredit = InputCredit - 1
    BY <1>1, <2>1, <2>2 DEF DaemonRecord
  <2>4. DaemonOK(e, c) /\ Handed(e) = Handed(d)
    <3>1. e.inputCredit + e.input = InputCredit /\ e.input <= e.seen
      BY <2>2, <2>3
    <3> QED BY <1>1, <1>7, <2>3, <3>1, InputOnly
  <2>5. daemon' = [daemon EXCEPT ![c] = e]
    BY <1>1, <1>7, <2>1
  <2> QED BY <1>5, <1>7, <2>3, <2>4, <2>5
<1>8. CASE /\ d.st = "running" /\ Takes(d)
           /\ daemon' = [daemon EXCEPT ![c].input = @ + 1, ![c].seen = @ + 1,
                                       ![c].inputCredit = @ - 1]
           /\ Answer(<<>>)
  <2>1. PICK e : e = [d EXCEPT !.input = d.input + 1, !.seen = d.seen + 1,
                               !.inputCredit = d.inputCredit - 1]
    OBVIOUS
  <2>2. /\ d.inputCredit > 0 /\ ~d.complete /\ d.inputCredit + d.input = InputCredit
    BY <1>1, <1>8 DEF Takes, DaemonOK
  <2>3. PICK x, y, z : /\ x = d.inputCredit /\ y = d.input /\ z = d.seen
                       /\ x \in 0 .. InputCredit /\ y \in Nat /\ z \in Nat /\ x > 0
                       /\ x + y = InputCredit /\ y <= z
    BY <1>2, <2>2
  <2>4. /\ x - 1 \in 0 .. InputCredit /\ (x - 1) + (y + 1) = InputCredit
        /\ y + 1 \in Nat /\ z + 1 \in Nat /\ y + 1 <= z + 1
    BY <2>3, PeerConstants
  <2>5. /\ e \in DaemonRecord /\ e.st = "running" /\ e.held = d.held /\ e.seen = z + 1
        /\ e.emitted = d.emitted /\ e.complete = d.complete
        /\ e.input = y + 1 /\ e.inputCredit = x - 1
    BY <1>1, <1>8, <2>1, <2>3, <2>4 DEF DaemonRecord
  <2>6. DaemonOK(e, c) /\ Handed(e) = Handed(d)
    BY <1>1, <1>8, <2>4, <2>5, InputOnly
  <2>7. daemon' = [daemon EXCEPT ![c] = e]
    BY <1>1, <1>8, <2>1
  <2> QED BY <1>5, <1>8, <2>5, <2>6, <2>7
<1> QED BY <1>1, <1>3, <1>4, <1>6, <1>7, <1>8 DEF DaemonPayload, Active

(* ProtocolCalls::end and cancel, and what ends a call from inside.           *)
LEMMA TurnEnd ==
    ASSUME NEW c \in Call, DaemonKnown(c), DaemonEnd(c) \/ DaemonCancel(c) \/ DaemonFail(c)
    PROVE  \E d2, s, m : Turn(c, d2, s, m)
<1>1. PICK d : d = daemon[c] /\ DaemonOK(d, c) /\ d \in DaemonRecord
               /\ daemon = [daemon EXCEPT ![c] = d]
  BY DEF DaemonKnown
<1>2. /\ d.inputCredit \in 0 .. InputCredit /\ d.input \in Nat /\ d.seen \in Nat
      /\ d.input <= d.seen /\ Handed(d) \in Nat
  BY <1>1, DaemonFields DEF DaemonOK
<1>3. ASSUME NEW r \in {<<>>, <<EndError(c)>>}, UNCHANGED daemon, toClient' = toClient \o r
      PROVE  \E d2, s, m : Turn(c, d2, s, m)
  <2>1. Moves(d, d, r, 0, c)
    BY <1>1, MovesSame
  <2> QED BY <1>1, <1>3, <2>1 DEF Turn
<1>4. ASSUME d.st # "gone", daemon' = [daemon EXCEPT ![c] = Abandoned(@)],
             toClient' = toClient \o <<EndError(c)>>
      PROVE  \E d2, s, m : Turn(c, d2, s, m)
  <2>1. Moves(d, Abandoned(d), <<EndError(c)>>, 0, c)
    BY <1>1, <1>4, MovesAbandoned
  <2> QED BY <1>1, <1>4, <2>1 DEF Turn
<1>5. ASSUME NEW e, DaemonOK(e, c), Handed(e) = Handed(d), e.st # "absent", d.st # "gone",
             daemon' = [daemon EXCEPT ![c] = e], toClient' = toClient \o <<>>
      PROVE  \E d2, s, m : Turn(c, d2, s, m)
  <2>1. Moves(d, e, <<>>, 0, c)
    BY <1>1, <1>2, <1>5, MovesQuietly
  <2> QED BY <1>1, <1>5, <2>1 DEF Turn
<1>6. ASSUME d.st = "receiving", daemon' = [daemon EXCEPT ![c].st = "running"],
             toClient' = toClient \o <<>>
      PROVE  \E d2, s, m : Turn(c, d2, s, m)
  <2>1. PICK e : e = [d EXCEPT !.st = "running"]
    OBVIOUS
  <2>2. d.inputCredit = InputCredit /\ d.input = 0 /\ InputCredit + 0 = InputCredit
    BY <1>1, <1>6, PeerConstants DEF DaemonOK
  <2>3. /\ e \in DaemonRecord /\ e.st = "running" /\ e.held = d.held /\ e.seen = d.seen
        /\ e.emitted = d.emitted /\ e.complete = d.complete
        /\ e.input = d.input /\ e.inputCredit = d.inputCredit
    BY <1>1, <2>1 DEF DaemonRecord
  <2>4. DaemonOK(e, c) /\ Handed(e) = Handed(d)
    BY <1>1, <1>2, <1>6, <2>2, <2>3, InputOnly
  <2>5. daemon' = [daemon EXCEPT ![c] = e]
    BY <1>1, <1>6, <2>1
  <2> QED BY <1>5, <1>6, <2>3, <2>4, <2>5
<1>7. ASSUME d.st = "running", daemon' = [daemon EXCEPT ![c].inputOpen = FALSE],
             toClient' = toClient \o <<>>
      PROVE  \E d2, s, m : Turn(c, d2, s, m)
  <2>1. PICK e : e = [d EXCEPT !.inputOpen = FALSE]
    OBVIOUS
  <2>2. /\ e \in DaemonRecord /\ e.st = "running" /\ e.held = d.held /\ e.seen = d.seen
        /\ e.emitted = d.emitted /\ e.complete = d.complete
        /\ e.input = d.input /\ e.inputCredit = d.inputCredit
    BY <1>1, <1>7, <2>1 DEF DaemonRecord
  <2>3. e.st = "running" /\ ~e.complete => e.inputCredit + e.input = InputCredit
    BY <1>1, <1>7, <2>2 DEF DaemonOK
  <2>4. DaemonOK(e, c) /\ Handed(e) = Handed(d)
    BY <1>1, <1>2, <1>7, <2>2, <2>3, InputOnly
  <2>5. daemon' = [daemon EXCEPT ![c] = e]
    BY <1>1, <1>7, <2>1
  <2> QED BY <1>5, <1>7, <2>2, <2>4, <2>5
<1>8. CASE DaemonEnd(c)
  BY <1>1, <1>3, <1>4, <1>6, <1>7, <1>8 DEF DaemonEnd, Answer
<1>9. CASE DaemonCancel(c)
  BY <1>1, <1>3, <1>4, <1>9 DEF DaemonCancel, Answer, Active
<1>10. CASE DaemonFail(c)
  BY <1>1, <1>4, <1>10 DEF DaemonFail, Emit, Active
<1> QED BY <1>8, <1>9, <1>10

(* A handler yields a payload, completes, or reads a message.                 *)
LEMMA TurnHandler ==
    ASSUME NEW c \in Call, DaemonKnown(c), DaemonYield(c) \/ DaemonComplete(c) \/ DaemonConsume(c)
    PROVE  \E d2, s, m : Turn(c, d2, s, m)
<1>1. PICK d : d = daemon[c] /\ DaemonOK(d, c) /\ d \in DaemonRecord
               /\ daemon = [daemon EXCEPT ![c] = d]
  BY DEF DaemonKnown
<1>2. /\ d.inputCredit \in 0 .. InputCredit /\ d.input \in Nat /\ d.seen \in Nat
      /\ d.input <= d.seen /\ Handed(d) \in Nat /\ d.credit \in 0 .. Credit
      /\ d.emitted \in Nat /\ d.emitted <= MaxItems /\ Len(d.held) \in Nat
      /\ d.held \in Seq(1 .. MaxItems) /\ Len(d.held) <= d.emitted
  <2>1. d.emitted \in 0 .. MaxItems
    BY <1>1, DaemonFields
  <2>2. d.emitted <= MaxItems
    BY <2>1, PeerConstants
  <2>3. d.input <= d.seen /\ Len(d.held) <= d.emitted
    BY <1>1 DEF DaemonOK
  <2> QED BY <1>1, <2>2, <2>3, DaemonFields
<1>3. d.st = "running" /\ ~d.complete /\ d.inputCredit + d.input = InputCredit
  BY <1>1 DEF DaemonYield, DaemonComplete, DaemonConsume, DaemonOK
<1>4. c \in Id
  BY DEF Id
<1>5. ASSUME NEW d2, NEW s, NEW m, Moves(d, d2, s, m, c),
             daemon' = [daemon EXCEPT ![c] = d2], toClient' = toClient \o s
      PROVE  \E d3, s3, m3 : Turn(c, d3, s3, m3)
  <2>1. Turn(c, d2, s, m)
    BY <1>1, <1>5 DEF Turn
  <2> QED BY <2>1
<1>6. PICK ok : ok = EndOk(c)
  OBVIOUS
<1>7. ok \in FrameType /\ ok.call = c /\ ok.kind = "end"
  BY <1>4, <1>6, FrameFacts DEF EndOk
<1>8. CASE DaemonYield(c)
  <2>1. PICK n : n = d.emitted + 1
    OBVIOUS
  <2>2. d.emitted < MaxItems /\ c \notin Unary /\ n \in 0 .. MaxItems /\ n \in 1 .. MaxItems
    <3>1. d.emitted < MaxItems /\ c \notin Unary
      BY <1>1, <1>8 DEF DaemonYield
    <3>2. PICK x \in Nat : x = d.emitted
      BY <1>2
    <3> QED BY <2>1, <3>1, <3>2, PeerConstants
  <2>3. CASE d.held = <<>> /\ d.credit > 0
    <3>1. PICK e : e = [d EXCEPT !.emitted = n, !.credit = d.credit - 1]
      OBVIOUS
    <3>2. d.credit - 1 \in 0 .. Credit
      BY <1>2, <2>3, PeerConstants
    <3>3. /\ e \in DaemonRecord /\ e.st = "running" /\ e.held = d.held /\ e.seen = d.seen
          /\ e.emitted = n /\ e.complete = d.complete
          /\ e.input = d.input /\ e.inputCredit = d.inputCredit
      BY <1>1, <1>3, <2>2, <3>1, <3>2 DEF DaemonRecord
    <3>4. Len(d.held) = 0 /\ Handed(d) = d.emitted /\ Handed(e) = n
      BY <1>2, <2>1, <2>3, <3>3 DEF Handed
    <3>5. \A i \in 1 .. Len(e.held) : FALSE
      BY <3>3, <3>4
    <3>6. DaemonOK(e, c)
      BY <1>2, <1>3, <2>1, <2>2, <3>3, <3>4, <3>5 DEF DaemonOK
    <3>7. PICK f : f = Counted("payload", c, n)
      OBVIOUS
    <3>8. f \in FrameType /\ f.call = c
      BY <1>4, <2>2, <3>7, FrameFacts
    <3>9. Speaks(<<f>>, c)
      BY <3>8, SpeaksFacts
    <3>10. Emits(d, e, <<f>>, 1, c)
      <4>1. Len(<<f>>) = 1 /\ <<f>>[1] = f /\ 1 \in Nat
        OBVIOUS
      <4>2. \A i \in 1 .. 1 : i = 1
        OBVIOUS
      <4>3. Handed(d) + 1 = n /\ Handed(e) = n /\ n \in Nat /\ n <= n
        BY <1>2, <2>1, <3>4
      <4>4. 1 # 1 + 1
        OBVIOUS
      <4>5. e.st # "gone" /\ d.st # "gone"
        BY <1>3, <3>3
      <4> QED BY <3>7, <4>1, <4>2, <4>3, <4>4, <4>5 DEF Emits
    <3>11. Moves(d, e, <<f>>, 1, c)
      BY <3>3, <3>6, <3>9, <3>10 DEF Moves
    <3>12. daemon' = [daemon EXCEPT ![c] = e] /\ toClient' = toClient \o <<f>>
      <4>1. /\ daemon' = [daemon EXCEPT ![c].emitted = n, ![c].credit = @ - 1]
            /\ toClient' = toClient \o <<f>>
        BY <1>1, <1>8, <2>1, <2>3, <3>7 DEF DaemonYield, Emit
      <4>2. [daemon EXCEPT ![c].emitted = n, ![c].credit = @ - 1] = [daemon EXCEPT ![c] = e]
        BY <1>1, <3>1
      <4> QED BY <4>1, <4>2
    <3> QED BY <1>5, <3>11, <3>12
  <2>4. CASE ~(d.held = <<>> /\ d.credit > 0)
    <3>1. PICK h : h = Append(d.held, n)
      OBVIOUS
    <3>2. PICK e : e = [d EXCEPT !.emitted = n, !.held = h]
      OBVIOUS
    <3>3. PICK l : l = Len(d.held) /\ l \in Nat /\ l <= d.emitted
      BY <1>2
    <3>4. /\ h \in Seq(1 .. MaxItems) /\ Len(h) = l + 1 /\ h[l + 1] = n
          /\ \A i \in 1 .. l : h[i] = d.held[i]
      BY <1>2, <2>2, <3>1, <3>3, AppendProperties
    <3>5. /\ e \in DaemonRecord /\ e.st = "running" /\ e.held = h /\ e.seen = d.seen
          /\ e.emitted = n /\ e.complete = d.complete
          /\ e.input = d.input /\ e.inputCredit = d.inputCredit
      BY <1>1, <1>3, <2>2, <3>2, <3>4 DEF DaemonRecord
    <3>6. Handed(d) = d.emitted - l /\ Handed(e) = (d.emitted + 1) - (l + 1)
      BY <2>1, <3>3, <3>4, <3>5 DEF Handed
    <3>7. Handed(e) = Handed(d)
      BY <1>2, <3>3, <3>6
    <3>8. \A i \in 1 .. Len(e.held) : e.held[i] = Handed(e) + i
      <4> SUFFICES ASSUME NEW i \in 1 .. l + 1 PROVE h[i] = Handed(d) + i
        BY <3>4, <3>5, <3>7
      <4>1. CASE i \in 1 .. l
        BY <1>1, <3>3, <3>4, <4>1 DEF DaemonOK
      <4>2. CASE i = l + 1
        <5>1. n = (d.emitted - l) + (l + 1)
          BY <1>2, <2>1, <3>3
        <5> QED BY <3>4, <3>6, <4>2, <5>1
      <4> QED BY <3>3, <4>1, <4>2
    <3>9. Len(e.held) <= e.emitted
      BY <1>2, <2>1, <3>3, <3>4, <3>5
    <3>10. DaemonOK(e, c)
      BY <1>2, <1>3, <2>2, <3>5, <3>8, <3>9 DEF DaemonOK
    <3>11. Moves(d, e, <<>>, 0, c)
      BY <1>1, <1>2, <1>3, <3>5, <3>7, <3>10, MovesQuietly
    <3>12. daemon' = [daemon EXCEPT ![c] = e] /\ toClient' = toClient \o <<>>
      <4>1. /\ daemon' = [daemon EXCEPT ![c].emitted = n, ![c].held = Append(@, n)]
            /\ toClient' = toClient \o <<>>
        BY <1>1, <1>8, <2>1, <2>4 DEF DaemonYield, Emit
      <4>2. [daemon EXCEPT ![c].emitted = n, ![c].held = Append(@, n)] = [daemon EXCEPT ![c] = e]
        BY <1>1, <3>1, <3>2
      <4> QED BY <4>1, <4>2
    <3> QED BY <1>5, <3>11, <3>12
  <2> QED BY <2>3, <2>4
<1>9. CASE DaemonConsume(c)
  <2>1. PICK x, y, z : /\ x = d.inputCredit /\ y = d.input /\ z = d.seen
                       /\ x \in 0 .. InputCredit /\ y \in Nat /\ z \in Nat /\ y > 0
                       /\ x + y = InputCredit /\ y <= z
    BY <1>1, <1>2, <1>3, <1>9 DEF DaemonConsume
  <2>2. /\ x + 1 \in 0 .. InputCredit /\ (x + 1) + (y - 1) = InputCredit
        /\ y - 1 \in Nat /\ y - 1 <= z
    BY <2>1, PeerConstants
  <2>3. PICK e : e = [d EXCEPT !.input = y - 1, !.inputCredit = x + 1]
    OBVIOUS
  <2>4. /\ e \in DaemonRecord /\ e.st = "running" /\ e.held = d.held /\ e.seen = z
        /\ e.emitted = d.emitted /\ e.complete = d.complete
        /\ e.input = y - 1 /\ e.inputCredit = x + 1
    BY <1>1, <1>3, <2>1, <2>2, <2>3 DEF DaemonRecord
  <2>5. DaemonOK(e, c) /\ Handed(e) = Handed(d)
    BY <1>1, <1>3, <2>2, <2>4, InputOnly
  <2>6. PICK f : f = Counted("window", c, 1)
    OBVIOUS
  <2>7. f \in FrameType /\ f.call = c /\ f.kind = "window" /\ f # ok
    BY <1>4, <1>7, <2>6, FrameFacts
  <2>8. Moves(d, e, <<f>>, 0, c)
    BY <1>1, <1>2, <1>3, <1>6, <2>4, <2>5, <2>7, MovesQuietly
  <2>9. daemon' = [daemon EXCEPT ![c] = e] /\ toClient' = toClient \o <<f>>
    <3>1. /\ daemon' = [daemon EXCEPT ![c].input = @ - 1, ![c].inputCredit = @ + 1]
          /\ toClient' = toClient \o <<f>>
      BY <1>9, <2>6 DEF DaemonConsume, Emit
    <3>2. [daemon EXCEPT ![c].input = @ - 1, ![c].inputCredit = @ + 1] = [daemon EXCEPT ![c] = e]
      BY <1>1, <2>1, <2>3
    <3> QED BY <3>1, <3>2
  <2> QED BY <1>5, <2>8, <2>9
<1>10. CASE DaemonComplete(c) /\ c \in Unary
  <2>1. PICK e : e = [d EXCEPT !.st = "gone", !.complete = TRUE, !.emitted = 1]
    OBVIOUS
  <2>2. 1 \in 0 .. MaxItems /\ d.held = <<>> /\ d.emitted = 0
    BY <1>1, <1>3, <1>10, PeerConstants DEF DaemonOK
  <2>3. /\ e \in DaemonRecord /\ e.st = "gone" /\ e.held = <<>> /\ e.seen = d.seen
        /\ e.emitted = 1 /\ e.complete = TRUE /\ e.input = d.input
    BY <1>1, <2>1, <2>2 DEF DaemonRecord
  <2>4. Len(<<>>) = 0 /\ Handed(d) = 0 /\ Handed(e) = 1
    <3>1. Len(<<>>) = 0
      BY EmptySeq
    <3>2. Handed(d) = 0 - 0 /\ Handed(e) = 1 - 0
      BY <2>2, <2>3, <3>1 DEF Handed
    <3> QED BY <3>1, <3>2
  <2>5. \A i \in 1 .. Len(e.held) : FALSE
    BY <2>3, <2>4
  <2>6. DaemonOK(e, c)
    BY <1>2, <2>3, <2>4, <2>5 DEF DaemonOK
  <2>7. PICK f : f = Counted("payload", c, 1)
    OBVIOUS
  <2>8. f \in FrameType /\ f.call = c
    BY <1>4, <2>7, FrameFacts
  <2>9. Speaks(<<f, ok>>, c)
    BY <1>7, <2>8, SpeaksFacts
  <2>10. Emits(d, e, <<f, ok>>, 1, c)
    <3>1. Len(<<f, ok>>) = 1 + 1 /\ <<f, ok>>[1] = f /\ <<f, ok>>[1 + 1] = ok
      OBVIOUS
    <3>2. \A i \in 1 .. 1 : i = 1
      OBVIOUS
    <3>3. Handed(d) + 1 = 1 /\ 1 <= 1 /\ 1 \in Nat
      BY <2>4
    <3> QED BY <1>3, <1>7, <2>3, <2>4, <2>7, <3>1, <3>2, <3>3 DEF Emits
  <2>11. Moves(d, e, <<f, ok>>, 1, c)
    BY <2>3, <2>6, <2>9, <2>10 DEF Moves
  <2>12. daemon' = [daemon EXCEPT ![c] = e] /\ toClient' = toClient \o <<f, ok>>
    BY <1>1, <1>6, <1>10, <2>1, <2>7 DEF DaemonComplete, Emit
  <2> QED BY <1>5, <2>11, <2>12
<1>11. CASE DaemonComplete(c) /\ c \notin Unary /\ d.held = <<>>
  <2>1. PICK e : e = [d EXCEPT !.st = "gone", !.complete = TRUE, !.input = 0]
    OBVIOUS
  <2>2. /\ e \in DaemonRecord /\ e.st = "gone" /\ e.held = <<>> /\ e.seen = d.seen
        /\ e.emitted = d.emitted /\ e.complete = TRUE /\ e.input = 0
    BY <1>1, <1>11, <2>1 DEF DaemonRecord
  <2>3. Len(<<>>) = 0 /\ Handed(e) = Handed(d)
    BY <1>11, <2>2 DEF Handed
  <2>4. \A i \in 1 .. Len(e.held) : FALSE
    BY <2>2, <2>3
  <2>5. DaemonOK(e, c)
    BY <1>2, <1>11, <2>2, <2>3, <2>4 DEF DaemonOK
  <2>6. Speaks(<<ok>>, c)
    BY <1>7, SpeaksFacts
  <2>7. Emits(d, e, <<ok>>, 0, c)
    <3>1. Len(<<ok>>) = 0 + 1 /\ <<ok>>[0 + 1] = ok
      OBVIOUS
    <3>2. \A i \in 1 .. 0 : FALSE
      OBVIOUS
    <3>3. Handed(d) + 0 = Handed(d) /\ Handed(d) <= Handed(d)
      BY <1>2
    <3> QED BY <1>3, <1>7, <2>2, <2>3, <3>1, <3>2, <3>3 DEF Emits
  <2>8. Moves(d, e, <<ok>>, 0, c)
    BY <2>2, <2>5, <2>6, <2>7 DEF Moves
  <2>9. daemon' = [daemon EXCEPT ![c] = e] /\ toClient' = toClient \o <<ok>>
    BY <1>1, <1>6, <1>11, <2>1 DEF DaemonComplete, Emit
  <2> QED BY <1>5, <2>8, <2>9
<1>12. CASE DaemonComplete(c) /\ c \notin Unary /\ d.held # <<>>
  <2>1. PICK e : e = [d EXCEPT !.complete = TRUE, !.input = 0]
    OBVIOUS
  <2>2. /\ e \in DaemonRecord /\ e.st = "running" /\ e.held = d.held /\ e.seen = d.seen
        /\ e.emitted = d.emitted /\ e.complete = TRUE /\ e.input = 0
    BY <1>1, <1>3, <2>1 DEF DaemonRecord
  <2>3. Handed(e) = Handed(d)
    BY <2>2 DEF Handed
  <2>4. DaemonOK(e, c)
    BY <1>1, <1>2, <1>12, <2>2, <2>3 DEF DaemonOK
  <2>5. Moves(d, e, <<>>, 0, c)
    BY <1>1, <1>2, <1>3, <2>2, <2>3, <2>4, MovesQuietly
  <2>6. daemon' = [daemon EXCEPT ![c] = e] /\ toClient' = toClient \o <<>>
    BY <1>1, <1>12, <2>1 DEF DaemonComplete, Emit
  <2> QED BY <1>5, <2>5, <2>6
<1> QED BY <1>1, <1>8, <1>9, <1>10, <1>11, <1>12

(* ProtocolCalls::update_credit.                                              *)
LEMMA TurnCredit ==
    ASSUME NEW c \in Call, DaemonKnown(c), DaemonCredit(c)
    PROVE  \E d2, s, m : Turn(c, d2, s, m)
<1>1. PICK d : d = daemon[c] /\ DaemonOK(d, c) /\ d \in DaemonRecord
               /\ daemon = [daemon EXCEPT ![c] = d]
  BY DEF DaemonKnown
<1>2. c \in Id
  BY DEF Id
<1>3. ASSUME NEW d2, NEW s, NEW m, Moves(d, d2, s, m, c),
             daemon' = [daemon EXCEPT ![c] = d2], toClient' = toClient \o s
      PROVE  \E d3, s3, m3 : Turn(c, d3, s3, m3)
  <2>1. Turn(c, d2, s, m)
    BY <1>1, <1>3 DEF Turn
  <2> QED BY <2>1
<1>4. PICK n \in 1 .. Credit :
        LET fits  == IF d.credit + n < Len(d.held) THEN d.credit + n ELSE Len(d.held)
            sent  == [i \in 1 .. fits |-> Counted("payload", c, d.held[i])]
            left  == SubSeq(d.held, fits + 1, Len(d.held))
            ends  == d.complete /\ left = <<>>
        IN \/ UNCHANGED daemon /\ Answer(<<>>)
           \/ /\ c \in Active /\ daemon' = [daemon EXCEPT ![c] = Abandoned(@)]
              /\ Answer(<<EndError(c)>>)
           \/ /\ c \in Active /\ ~(d.credit + n > Credit)
              /\ daemon' = [daemon EXCEPT
                   ![c].credit = @ + n - fits, ![c].held = left,
                   ![c].st = IF ends THEN "gone" ELSE @]
              /\ Answer(sent \o IF ends THEN <<EndOk(c)>> ELSE <<>>)
  BY <1>1, ZenonT(60) DEF DaemonCredit
<1>5. PICK l, x, h : l = Len(d.held) /\ x = d.credit /\ h = d.held
  OBVIOUS
<1>6. PICK fits : fits = IF x + n < l THEN x + n ELSE l
  OBVIOUS
<1>7. PICK sent : sent = [i \in 1 .. fits |-> Counted("payload", c, h[i])]
  OBVIOUS
<1>8. PICK left : left = SubSeq(h, fits + 1, l)
  OBVIOUS
<1>9. PICK ends : ends = (d.complete /\ left = <<>>) /\ ends \in BOOLEAN
  OBVIOUS
<1>10. CASE UNCHANGED daemon /\ Answer(<<>>)
  <2>1. Moves(d, d, <<>>, 0, c)
    BY <1>1, MovesSame
  <2> QED BY <1>1, <1>3, <1>10, <2>1 DEF Answer
<1>11. CASE /\ c \in Active /\ daemon' = [daemon EXCEPT ![c] = Abandoned(@)]
            /\ Answer(<<EndError(c)>>)
  <2>1. Moves(d, Abandoned(d), <<EndError(c)>>, 0, c)
    BY <1>1, <1>11, MovesAbandoned DEF Active
  <2> QED BY <1>1, <1>3, <1>11, <2>1 DEF Answer
<1>12. CASE /\ c \in Active /\ ~(x + n > Credit)
            /\ daemon' = [daemon EXCEPT
                 ![c].credit = @ + n - fits, ![c].held = left,
                 ![c].st = IF ends THEN "gone" ELSE @]
            /\ Answer(sent \o IF ends THEN <<EndOk(c)>> ELSE <<>>)
  <2>1. /\ x \in 0 .. Credit /\ h \in Seq(1 .. MaxItems) /\ l \in Nat /\ Handed(d) \in Nat
        /\ d.emitted \in Nat /\ d.emitted \in 0 .. MaxItems /\ l <= d.emitted
        /\ d.st \in {"receiving", "running"} /\ d.complete \in BOOLEAN
    BY <1>1, <1>5, <1>12, DaemonFields DEF DaemonOK, Active
  <2>2. /\ n \in Nat /\ x \in Nat /\ fits \in 0 .. l /\ fits \in Nat
        /\ x + n - fits \in 0 .. Credit
    <3>1. n \in Nat /\ x \in Nat /\ x + n <= Credit /\ x + n \in Nat
      BY <1>12, <2>1, PeerConstants
    <3>2. CASE x + n < l
      <4>1. fits = x + n
        BY <1>6, <3>2
      <4> QED BY <2>1, <3>1, <3>2, <4>1, PeerConstants
    <3>3. CASE ~(x + n < l)
      <4>1. fits = l
        BY <1>6, <3>3
      <4> QED BY <2>1, <3>1, <3>3, <4>1, PeerConstants
    <3> QED BY <3>2, <3>3
  <2>3. \A i \in 1 .. l : h[i] = Handed(d) + i /\ h[i] \in 1 .. MaxItems
    BY <1>1, <1>5, <2>1, ElementOfSeq DEF DaemonOK
  <2>4. /\ left \in Seq(1 .. MaxItems) /\ Len(left) = l - fits
        /\ \A i \in 1 .. l - fits : left[i] = h[fits + i]
    <3>1. fits + 1 \in Int /\ l \in Int /\ \A i \in fits + 1 .. l : h[i] \in 1 .. MaxItems
      BY <2>1, <2>2, <2>3
    <3>2. /\ left \in Seq(1 .. MaxItems)
          /\ Len(left) = IF fits + 1 <= l THEN l - (fits + 1) + 1 ELSE 0
          /\ \A i \in 1 .. l - (fits + 1) + 1 : left[i] = h[(fits + 1) + i - 1]
      BY <1>8, <3>1, SubSeqProperties
    <3>3. l - (fits + 1) + 1 = l - fits /\ ~(fits + 1 <= l) => l - fits = 0
      BY <2>1, <2>2
    <3>4. Len(left) = l - fits
      BY <2>1, <2>2, <3>2
    <3>5. ASSUME NEW i \in 1 .. l - fits PROVE left[i] = h[fits + i]
      <4>1. i \in 1 .. l - (fits + 1) + 1 /\ (fits + 1) + i - 1 = fits + i
        BY <2>1, <2>2
      <4> QED BY <3>2, <4>1
    <3> QED BY <3>2, <3>4, <3>5
  <2>5. PICK e : e = [d EXCEPT !.credit = x + n - fits, !.held = left,
                               !.st = IF ends THEN "gone" ELSE d.st]
    OBVIOUS
  <2>6. /\ e \in DaemonRecord /\ e.st = (IF ends THEN "gone" ELSE d.st) /\ e.held = left
        /\ e.seen = d.seen /\ e.emitted = d.emitted /\ e.complete = d.complete
        /\ e.input = d.input /\ e.inputCredit = d.inputCredit /\ e.inputOpen = d.inputOpen
    <3>1. (IF ends THEN "gone" ELSE d.st) \in {"absent", "receiving", "running", "gone"}
      BY <1>9, <2>1
    <3> QED BY <1>1, <2>2, <2>4, <2>5, <3>1 DEF DaemonRecord
  <2>7. Handed(d) = d.emitted - l /\ Handed(e) = d.emitted - (l - fits)
    BY <1>5, <2>4, <2>6 DEF Handed
  <2>8. Handed(e) = Handed(d) + fits
    BY <2>1, <2>2, <2>7
  <2>9. \A i \in 1 .. Len(e.held) : e.held[i] = Handed(e) + i
    <3> SUFFICES ASSUME NEW i \in 1 .. l - fits PROVE left[i] = (Handed(d) + fits) + i
      BY <2>4, <2>6, <2>8
    <3>1. left[i] = h[fits + i] /\ fits + i \in 1 .. l
      BY <2>1, <2>2, <2>4
    <3>2. h[fits + i] = Handed(d) + (fits + i)
      BY <2>3, <3>1
    <3> QED BY <2>1, <2>2, <3>1, <3>2
  <2>10. DaemonOK(e, c)
    <3>1. Len(e.held) <= e.emitted
      BY <2>1, <2>2, <2>4, <2>6
    <3>2. c \in Unary => left = <<>>
      <4> SUFFICES ASSUME c \in Unary PROVE left = <<>>
        OBVIOUS
      <4>1. h = <<>>
        BY <1>1, <1>5 DEF DaemonOK
      <4>2. l = 0
        BY <1>5, <4>1
      <4>3. Len(left) = 0
        <5>1. fits = 0
          BY <2>2, <4>2
        <5>2. Len(left) = l - fits
          BY <2>4
        <5> QED BY <4>2, <5>1, <5>2
      <4> QED BY <2>4, <4>3, EmptySeq
    <3>3. /\ d.st = "receiving" =>
               /\ d.emitted = 0 /\ ~d.complete /\ ~d.inputOpen /\ d.input = 0
               /\ d.inputCredit = InputCredit /\ (c \in Duplex => d.seen = 0)
          /\ d.st = "running" /\ ~d.complete => d.inputCredit + d.input = InputCredit
          /\ d.input <= d.seen /\ (c \in Unary => (~d.complete => d.emitted = 0))
      BY <1>1 DEF DaemonOK
    <3>4. e.st = "gone" => left = <<>>
      BY <1>9, <2>1, <2>6
    <3>5. e.st # "absent" /\ (e.st # "gone" => e.st = d.st)
      BY <2>1, <2>6
    <3> QED BY <2>6, <2>9, <3>1, <3>2, <3>3, <3>4, <3>5 DEF DaemonOK
  <2>11. /\ sent \in Seq(FrameType) /\ Len(sent) = fits
         /\ \A i \in 1 .. fits : sent[i] = Counted("payload", c, Handed(d) + i)
         /\ \A i \in 1 .. fits : sent[i].call = c
    <3>1. \A i \in 1 .. fits : /\ i \in 1 .. l /\ h[i] \in Nat /\ h[i] = Handed(d) + i
      BY <2>1, <2>2, <2>3
    <3>2. \A i \in 1 .. fits : /\ Counted("payload", c, h[i]) \in FrameType
                               /\ Counted("payload", c, h[i]).call = c
      BY <1>2, <3>1, FrameFacts
    <3>3. \A i \in 1 .. fits : sent[i] = Counted("payload", c, h[i])
      BY <1>7
    <3>4. sent \in [1 .. fits -> FrameType]
      BY <1>7, <3>2
    <3>5. sent \in Seq(FrameType) /\ Len(sent) = fits
      BY <2>2, <3>4
    <3> QED BY <3>1, <3>2, <3>3, <3>5
  <2>12. PICK ok : ok = EndOk(c)
    OBVIOUS
  <2>13. ok \in FrameType /\ ok.call = c /\ ok.kind = "end"
    BY <1>2, <2>12, FrameFacts DEF EndOk
  <2>14. daemon' = [daemon EXCEPT ![c] = e]
    BY <1>1, <1>5, <1>12, <2>5
  <2>15. CASE ~ends
    <3>1. toClient' = toClient \o sent
      <4>1. sent \o <<>> = sent
        BY <2>11, ConcatEmptySeq
      <4> QED BY <1>12, <2>15, <4>1 DEF Answer
    <3>2. Speaks(sent, c)
      BY <2>11 DEF Speaks
    <3>3. Emits(d, e, sent, fits, c)
      <4>1. fits # fits + 1 /\ Handed(d) + fits <= Handed(e)
        BY <2>1, <2>2, <2>8
      <4>2. d.st # "gone"
        BY <2>1
      <4> QED BY <2>2, <2>8, <2>11, <4>1, <4>2 DEF Emits
    <3>4. Moves(d, e, sent, fits, c)
      BY <2>1, <2>6, <2>10, <2>15, <3>2, <3>3 DEF Moves
    <3> QED BY <1>3, <2>14, <3>1, <3>4
  <2>16. CASE ends
    <3>1. PICK s : s = sent \o <<ok>>
      OBVIOUS
    <3>2. <<ok>> \in Seq(FrameType) /\ Len(<<ok>>) = 1 /\ <<ok>>[1] = ok
      BY <2>13
    <3>3. /\ s \in Seq(FrameType) /\ Len(s) = fits + 1
          /\ \A i \in 1 .. fits + 1 : s[i] = IF i <= fits THEN sent[i] ELSE <<ok>>[i - fits]
      BY <2>11, <3>1, <3>2, ConcatProperties
    <3>4. s[fits + 1] = ok
      <4>1. fits + 1 \in 1 .. fits + 1 /\ ~(fits + 1 <= fits) /\ (fits + 1) - fits = 1
        BY <2>2
      <4> QED BY <3>2, <3>3, <4>1
    <3>5. \A i \in 1 .. fits : s[i] = sent[i]
      <4>1. \A i \in 1 .. fits : i \in 1 .. fits + 1 /\ i <= fits
        BY <2>2
      <4> QED BY <3>3, <4>1
    <3>6. Speaks(s, c)
      <4>1. ASSUME NEW i \in 1 .. fits + 1 PROVE s[i].call = c
        <5>1. i \in 1 .. fits \/ i = fits + 1
          BY <2>2
        <5> QED BY <2>11, <2>13, <3>4, <3>5, <5>1
      <4> QED BY <3>3, <4>1 DEF Speaks
    <3>7. Emits(d, e, s, fits, c)
      <4>1. Handed(d) + fits <= Handed(e)
        BY <2>1, <2>2, <2>8
      <4>2. d.st # "gone" /\ e.st = "gone" /\ e.complete
        BY <1>9, <2>1, <2>6, <2>16
      <4> QED BY <2>2, <2>8, <2>11, <2>12, <2>13, <3>3, <3>4, <3>5, <4>1, <4>2 DEF Emits
    <3>8. Moves(d, e, s, fits, c)
      BY <2>6, <2>10, <2>16, <3>6, <3>7 DEF Moves
    <3>9. toClient' = toClient \o s
      BY <1>12, <2>12, <2>16, <3>1 DEF Answer
    <3> QED BY <1>3, <2>14, <3>8, <3>9
  <2> QED BY <1>9, <2>15, <2>16
<1> QED BY <1>4, <1>5, <1>6, <1>7, <1>8, <1>9, <1>10, <1>11, <1>12

(* Every step of the daemon is such a turn.                                   *)
LEMMA DaemonStep ==
    ASSUME NEW c \in Call, DaemonKnown(c), DaemonStart(c) => daemon[c].st = "absent",
           DaemonReceives(c) \/ Handler(c)
    PROVE  \E d2, s, m : Turn(c, d2, s, m)
BY TurnStart, TurnPayload, TurnEnd, TurnCredit, TurnHandler DEF DaemonReceives, Handler

(* A call that an oversized payload has ended, and the frames of that step: m *)
(* payloads, the next ones, but the k-th of them is the error, and perhaps    *)
(* the end behind them.                                                       *)
TornOf(d) == [Abandoned(d) EXCEPT !.torn = TRUE]
Tears(d, s, m, k, c) ==
    /\ d.st \in {"receiving", "running"} /\ m \in Nat /\ k \in 1 .. m
    /\ Speaks(s, c) /\ Len(s) \in {m, m + 1} /\ Handed(d) + m <= d.emitted
    /\ s[k] = EndError(c)
    /\ \A i \in 1 .. m : i # k => s[i] = Counted("payload", c, Handed(d) + i)
    /\ Len(s) = m + 1 => s[m + 1] = EndOk(c) /\ d.complete
Torn(c, s, m, k) ==
    /\ daemon' = [daemon EXCEPT ![c] = TornOf(daemon[c])] /\ toClient' = toClient \o s
    /\ DaemonKeeps /\ toDaemon # <<>> /\ toDaemon' = Tail(toDaemon)
    /\ Head(toDaemon).frame.kind = "window" /\ Head(toDaemon).frame.call = c
    /\ Tears(daemon[c], s, m, k, c)

(* Its record.                                                                *)
LEMMA TornRecord ==
    ASSUME NEW d, NEW c, DaemonOK(d, c), d.st # "absent"
    PROVE  /\ DaemonOK(TornOf(d), c) /\ TornOf(d).st = "gone" /\ TornOf(d).torn
           /\ Handed(TornOf(d)) = d.emitted /\ TornOf(d).emitted = d.emitted
           /\ TornOf(d).complete = d.complete /\ TornOf(d).seen = d.seen
           /\ TornOf(d).inputOpen = d.inputOpen
<1>1. PICK a, e : a = Abandoned(d) /\ e = [a EXCEPT !.torn = TRUE] /\ e = TornOf(d)
  BY DEF TornOf
<1>2. d \in DaemonRecord /\ d.emitted \in Nat
  BY DaemonFields DEF DaemonOK
<1>3. /\ a \in DaemonRecord /\ DaemonOK(a, c) /\ a.st = "gone" /\ a.held = <<>>
  <2>1. DaemonOK(a, c) /\ a.st = "gone"
    BY <1>1, AbandonedOK
  <2> QED BY <2>1 DEF DaemonOK
<1>4. /\ a.emitted = d.emitted /\ a.complete = d.complete /\ a.seen = d.seen
      /\ a.inputOpen = d.inputOpen
  BY <1>1, <1>2 DEF Abandoned, DaemonRecord
<1>5. /\ e \in DaemonRecord /\ e.torn /\ e.st = a.st /\ e.held = a.held
      /\ e.emitted = a.emitted /\ e.complete = a.complete /\ e.seen = a.seen
      /\ e.inputOpen = a.inputOpen /\ e.input = a.input
  BY <1>1, <1>3 DEF DaemonRecord
<1>6. Handed(e) = d.emitted /\ Handed(a) = Handed(e)
  <2>1. Len(e.held) = 0
    BY <1>3, <1>5
  <2> QED BY <1>2, <1>3, <1>4, <1>5, <2>1 DEF Handed
<1>7. DaemonOK(e, c)
  BY <1>3, <1>5, <1>6 DEF DaemonOK
<1> QED BY <1>1, <1>3, <1>4, <1>5, <1>6, <1>7

LEMMA OversizedTears ==
    ASSUME NEW c \in Call, DaemonKnown(c), DaemonOversized(c)
    PROVE  \E s, m, k : Torn(c, s, m, k)
<1>1. PICK d : /\ d = daemon[c] /\ DaemonOK(d, c) /\ d.st \in {"receiving", "running"}
  BY DEF DaemonKnown, DaemonOversized, Active
<1>2. PICK n \in 1 .. Credit, m \in 1 .. Len(d.held) :
        \E k \in 1 .. m :
          LET sent == [i \in 1 .. m |-> IF i = k THEN EndError(c)
                                        ELSE Counted("payload", c, d.held[i])]
              ends == d.complete /\ m = Len(d.held)
          IN /\ DaemonReads(Counted("window", c, n))
             /\ daemon' = [daemon EXCEPT ![c] = [Abandoned(d) EXCEPT !.torn = TRUE]]
             /\ Answer(sent \o IF ends THEN <<EndOk(c)>> ELSE <<>>)
  BY <1>1 DEF DaemonOversized
<1>3. PICK k, ends, sent :
        /\ k \in 1 .. m /\ ends \in BOOLEAN
        /\ sent = [i \in 1 .. m |-> IF i = k THEN EndError(c)
                                     ELSE Counted("payload", c, d.held[i])]
        /\ ends = (d.complete /\ m = Len(d.held))
        /\ DaemonReads(Counted("window", c, n))
        /\ daemon' = [daemon EXCEPT ![c] = [Abandoned(d) EXCEPT !.torn = TRUE]]
        /\ Answer(sent \o IF ends THEN <<EndOk(c)>> ELSE <<>>)
  BY <1>2
<1>4. PICK s : s = sent \o IF ends THEN <<EndOk(c)>> ELSE <<>>
  OBVIOUS
<1>5. PICK h, l : h = d.held /\ l = Len(h) /\ l \in Nat /\ h \in Seq(1 .. MaxItems)
  BY <1>1, DaemonFields
<1>6. /\ Handed(d) \in Nat /\ d.emitted \in Nat /\ l <= d.emitted /\ d.complete \in BOOLEAN
      /\ \A i \in 1 .. l : h[i] = Handed(d) + i /\ h[i] \in 1 .. MaxItems
  BY <1>1, <1>5, DaemonFields, ElementOfSeq DEF DaemonOK
<1>7. m \in Nat /\ m <= l /\ k \in Nat /\ c \in Id
  BY <1>2, <1>3, <1>5 DEF Id
<1>8. /\ EndError(c) \in FrameType /\ EndError(c).call = c
      /\ EndOk(c) \in FrameType /\ EndOk(c).call = c
  BY <1>7, FrameFacts DEF EndError, EndOk
<1>9. ASSUME NEW i \in 1 .. m
      PROVE  /\ sent[i] \in FrameType /\ sent[i].call = c
             /\ i # k => sent[i] = Counted("payload", c, Handed(d) + i)
  <2>1. i \in 1 .. l
    BY <1>5, <1>7
  <2>3. h[i] \in Nat /\ h[i] = Handed(d) + i
    BY <1>6, <2>1, PeerConstants
  <2>2. Counted("payload", c, h[i]) \in FrameType /\ Counted("payload", c, h[i]).call = c
    BY <1>7, <2>3, FrameFacts
  <2> QED BY <1>3, <1>5, <1>8, <2>2, <2>3
<1>10. sent \in Seq(FrameType) /\ Len(sent) = m
  <2>1. sent = [i \in 1 .. m |-> sent[i]]
    BY <1>3
  <2> QED BY <1>7, <1>9, <2>1
<1>11. PICK t : t = IF ends THEN <<EndOk(c)>> ELSE <<>>
  OBVIOUS
<1>12. /\ t \in Seq(FrameType) /\ Len(t) = (IF ends THEN 1 ELSE 0)
       /\ ends => t[1] = EndOk(c)
  BY <1>8, <1>11
<1>13. /\ s \in Seq(FrameType) /\ Len(s) = m + (IF ends THEN 1 ELSE 0)
       /\ \A i \in 1 .. m : s[i] = sent[i]
       /\ ends => s[m + 1] = EndOk(c)
  <2>1. s = sent \o t
    BY <1>4, <1>11
  <2>2. /\ s \in Seq(FrameType) /\ Len(s) = Len(sent) + Len(t)
        /\ \A i \in 1 .. Len(sent) + Len(t) :
              s[i] = IF i <= Len(sent) THEN sent[i] ELSE t[i - Len(sent)]
    BY <1>10, <1>12, <2>1, ConcatProperties
  <2>3. Len(s) = m + (IF ends THEN 1 ELSE 0)
    BY <1>10, <1>12, <2>2
  <2>4. ASSUME NEW i \in 1 .. m PROVE s[i] = sent[i]
    <3>1. i \in 1 .. Len(sent) + Len(t) /\ i <= Len(sent)
      BY <1>7, <1>10, <1>12
    <3> QED BY <2>2, <3>1
  <2>5. ASSUME ends PROVE s[m + 1] = EndOk(c)
    <3>1. m + 1 \in 1 .. Len(sent) + Len(t) /\ ~(m + 1 <= Len(sent)) /\ m + 1 - Len(sent) = 1
      BY <1>7, <1>10, <1>12, <2>5
    <3> QED BY <1>12, <2>2, <2>5, <3>1
  <2> QED BY <2>2, <2>3, <2>4, <2>5
<1>14. Speaks(s, c)
  <2> SUFFICES ASSUME NEW i \in 1 .. Len(s) PROVE s[i].call = c
    BY <1>13 DEF Speaks
  <2>1. CASE i \in 1 .. m
    BY <1>9, <1>13, <2>1
  <2>2. CASE i \notin 1 .. m
    <3>1. i = m + 1 /\ ends
      BY <1>7, <1>13, <2>2
    <3> QED BY <1>8, <1>13, <3>1
  <2> QED BY <2>1, <2>2
<1>15. Handed(d) + m <= d.emitted
  <2>1. Handed(d) = d.emitted - l
    BY <1>5 DEF Handed
  <2> QED BY <1>5, <1>6, <1>7, <2>1
<1>16. Tears(d, s, m, k, c)
  <2>1. s[k] = EndError(c)
    BY <1>3, <1>13
  <2>2. Len(s) \in {m, m + 1} /\ (Len(s) = m + 1 => ends)
    BY <1>7, <1>13
  <2>3. ends => d.complete
    BY <1>3
  <2>4. d.st \in {"receiving", "running"} /\ m \in Nat /\ k \in 1 .. m
    BY <1>1, <1>3, <1>7
  <2>5. ASSUME NEW i \in 1 .. m, i # k
        PROVE  s[i] = Counted("payload", c, Handed(d) + i)
    <3>1. s[i] = sent[i]
      BY <1>13
    <3> QED BY <1>9, <2>5, <3>1
  <2>6. Len(s) = m + 1 => s[m + 1] = EndOk(c) /\ d.complete
    BY <1>13, <2>2, <2>3
  <2> QED BY <1>14, <1>15, <2>1, <2>2, <2>4, <2>5, <2>6 DEF Tears
<1>17. /\ toDaemon # <<>> /\ toDaemon' = Tail(toDaemon)
       /\ Head(toDaemon).frame.kind = "window" /\ Head(toDaemon).frame.call = c
       /\ toClient' = toClient \o s /\ DaemonKeeps
  <2>1. Counted("window", c, n).kind = "window" /\ Counted("window", c, n).call = c
    BY DEF Counted
  <2> QED BY <1>3, <1>4, <2>1 DEF DaemonReads, Answer
<1> QED BY <1>1, <1>3, <1>16, <1>17 DEF Torn, TornOf

-----------------------------------------------------------------------------
(* The start of a call.                                                       *)

IsStart(f, c) == f.kind = "start" /\ f.call = c
Begins(p, c)  == {i \in 1 .. Len(p) : IsStart(p[i].frame, c)}
Opens(o, c)   == {i \in 1 .. Len(o) : IsStart(o[i].frames[1], c)}

(* A call is started once, and the daemon has not heard of it before that.    *)
StartOK(p, o, ds, ks, c) ==
    /\ \A i, j \in Begins(p, c) : i = j
    /\ \A i, j \in Opens(o, c) : i = j
    /\ Begins(p, c) = {} \/ Opens(o, c) = {}
    /\ Begins(p, c) # {} \/ Opens(o, c) # {} => ds = "absent" /\ ks # "idle"
    /\ ks = "idle" => ds = "absent"

StartInv ==
    /\ LinkInv
    /\ daemon \in [Call -> DaemonRecord]
    /\ \A c \in Call : /\ DaemonOK(daemon[c], c)
                       /\ StartOK(toDaemon, outbox, daemon[c].st, client[c].st, c)

(* Batches that start nothing.                                                *)
LEMMA OpensSame ==
    ASSUME NEW o \in Seq(BatchType), NEW o2, NEW a, NEW c, Sends(o, o2, a),
           \A i \in Len(o) + 1 .. Len(o2) : ~IsStart(o2[i].frames[1], c)
    PROVE  Opens(o2, c) = Opens(o, c)
<1>1. PICK m, n : /\ m = Len(o) /\ n = Len(o2) /\ m \in Nat /\ n \in Nat /\ m <= n
                  /\ \A i \in 1 .. m : o2[i] = o[i]
                  /\ \A i \in m + 1 .. n : ~IsStart(o2[i].frames[1], c)
  BY LenProperties DEF Sends
<1>2. \A i \in 1 .. n : i \in 1 .. m \/ i \in m + 1 .. n
  BY <1>1
<1>3. \A i \in 1 .. m : i \in 1 .. n
  BY <1>1
<1> QED BY <1>1, <1>2, <1>3 DEF Opens

(* The batches of another call.                                             *)
LEMMA OpensOther ==
    ASSUME NEW o \in Seq(BatchType), NEW o2, NEW a, NEW c, Sends(o, o2, a), a # c
    PROVE  Opens(o2, c) = Opens(o, c)
<1>1. ASSUME NEW i \in Len(o) + 1 .. Len(o2) PROVE ~IsStart(o2[i].frames[1], c)
  <2>1. BatchOK(o2[i]) /\ Of(o2[i], a)
    BY DEF Sends
  <2>2. 1 \in DOMAIN o2[i].frames
    <3>1. o2[i].frames \in Seq(FrameType) /\ o2[i].frames # <<>>
      BY <2>1 DEF BatchOK, BatchType
    <3>2. Len(o2[i].frames) \in Nat /\ Len(o2[i].frames) # 0 /\
          DOMAIN o2[i].frames = 1 .. Len(o2[i].frames)
      BY <3>1, LenProperties, EmptySeq
    <3> QED BY <3>2
  <2> QED BY <2>1, <2>2 DEF Of, IsStart
<1> QED BY <1>1, OpensSame

(* Cancel frames and credit.                                                *)
LEMMA OpensControls ==
    ASSUME NEW o \in Seq(BatchType), NEW o2, NEW c, Controls(o, o2, c)
    PROVE  Opens(o2, c) = Opens(o, c)
<1>1. \A i \in Len(o) + 1 .. Len(o2) : ~IsStart(o2[i].frames[1], c)
  BY DEF Controls, IsStart
<1> QED BY <1>1, OpensSame DEF Controls

(* A frame arrives.                                                           *)
LEMMA BeginsTail ==
    ASSUME NEW p \in Seq(SentType), p # <<>>, NEW c
    PROVE  /\ \A i \in Begins(Tail(p), c) : i + 1 \in Begins(p, c) /\ i \in Nat /\ i > 0
           /\ IsStart(Head(p).frame, c) => 1 \in Begins(p, c)
           /\ Tail(p) \in Seq(SentType)
<1>1. PICK n : n = Len(p) /\ n \in Nat /\ n # 0
  BY LenProperties, EmptySeq
<1>2. /\ Tail(p) \in Seq(SentType) /\ Len(Tail(p)) = n - 1
      /\ \A i \in 1 .. n - 1 : Tail(p)[i] = p[i + 1]
  BY <1>1, HeadTailProperties
<1>3. \A i \in 1 .. n - 1 : i + 1 \in 1 .. n /\ i \in Nat /\ i > 0
  BY <1>1
<1>4. Head(p) = p[1] /\ 1 \in 1 .. n
  BY <1>1
<1> QED BY <1>1, <1>2, <1>3, <1>4 DEF Begins

(* The same of a batch that is gone from the queue.                           *)
LEMMA OpensTail ==
    ASSUME NEW o \in Seq(BatchType), o # <<>>, NEW c
    PROVE  /\ \A i \in Opens(Tail(o), c) : i + 1 \in Opens(o, c) /\ i \in Nat /\ i > 0
           /\ Tail(o) \in Seq(BatchType)
<1>1. PICK n : n = Len(o) /\ n \in Nat /\ n # 0
  BY LenProperties, EmptySeq
<1>2. /\ Tail(o) \in Seq(BatchType) /\ Len(Tail(o)) = n - 1
      /\ \A i \in 1 .. n - 1 : Tail(o)[i] = o[i + 1]
  BY <1>1, HeadTailProperties
<1>3. \A i \in 1 .. n - 1 : i + 1 \in 1 .. n /\ i \in Nat /\ i > 0
  BY <1>1
<1> QED BY <1>1, <1>2, <1>3 DEF Opens

(* Starts leave the queues one by one and never come back.                    *)
LEMMA StartFewer ==
    ASSUME NEW p, NEW p2, NEW o, NEW o2, NEW ds, NEW ks, NEW c,
           StartOK(p, o, ds, ks, c),
           \/ Begins(p2, c) = Begins(p, c)
           \/ \A i \in Begins(p2, c) : i + 1 \in Begins(p, c) /\ i \in Nat,
           \/ Opens(o2, c) = Opens(o, c)
           \/ \A i \in Opens(o2, c) : i + 1 \in Opens(o, c) /\ i \in Nat
    PROVE  StartOK(p2, o2, ds, ks, c)
<1>1. \A i, j \in Begins(p2, c) : i = j
  <2>1. CASE Begins(p2, c) = Begins(p, c)
    BY <2>1 DEF StartOK
  <2>2. CASE \A i \in Begins(p2, c) : i + 1 \in Begins(p, c) /\ i \in Nat
    <3> SUFFICES ASSUME NEW i \in Begins(p2, c), NEW j \in Begins(p2, c) PROVE i = j
      OBVIOUS
    <3>1. i + 1 = j + 1 /\ i \in Nat /\ j \in Nat
      BY <2>2 DEF StartOK
    <3> QED BY <3>1
  <2> QED BY <2>1, <2>2
<1>2. \A i, j \in Opens(o2, c) : i = j
  <2>1. CASE Opens(o2, c) = Opens(o, c)
    BY <2>1 DEF StartOK
  <2>2. CASE \A i \in Opens(o2, c) : i + 1 \in Opens(o, c) /\ i \in Nat
    <3> SUFFICES ASSUME NEW i \in Opens(o2, c), NEW j \in Opens(o2, c) PROVE i = j
      OBVIOUS
    <3>1. i + 1 = j + 1 /\ i \in Nat /\ j \in Nat
      BY <2>2 DEF StartOK
    <3> QED BY <3>1
  <2> QED BY <2>1, <2>2
<1>3. /\ Begins(p, c) = {} => Begins(p2, c) = {}
      /\ Opens(o, c) = {} => Opens(o2, c) = {}
  OBVIOUS
<1> QED BY <1>1, <1>2, <1>3 DEF StartOK

(* A frame or the rest of a batch is transmitted.                             *)
LEMMA TransmitFacts ==
    ASSUME LinkInv, Transmit, UNCHANGED incoming
    PROVE  LET b == Head(outbox)
               n == Len(b.frames)
               e == [frame |-> b.frames[1], gap |-> skipped]
           IN /\ LinkInv'
              /\ outbox # <<>> /\ BatchOK(b) /\ b = outbox[1] /\ n \in Nat /\ n > 0
              /\ \/ outbox' = Tail(outbox) /\ toDaemon' = toDaemon /\ b.signal \in aborted
                 \/ /\ b.signal \notin aborted
                    /\ toDaemon' = Append(toDaemon, e) /\ e \in SentType
                    /\ \/ outbox' = Tail(outbox) /\ n = 1
                       \/ /\ n > 1 /\ Len(outbox') = Len(outbox)
                          /\ outbox'[1] = Batch(Tail(b.frames), b.signal)
                          /\ Len(Tail(b.frames)) = n - 1
                          /\ \A i \in 1 .. n - 1 : Tail(b.frames)[i] = b.frames[i + 1]
                          /\ \A i \in 2 .. Len(outbox) : outbox'[i] = outbox[i]
<1>1. PICK b : b = Head(outbox)
  OBVIOUS
<1>2. outbox # <<>> /\ outbox \in Seq(BatchType) /\ toDaemon \in Seq(SentType)
  BY DEF Transmit, LinkInv
<1>3. PICK l : l = Len(outbox) /\ l \in Nat /\ l # 0
  BY <1>2, LenProperties, EmptySeq
<1>4. b = outbox[1] /\ BatchOK(b) /\ 1 \in 1 .. l
  <2>1. b = outbox[1]
    BY <1>1
  <2>2. 1 \in DOMAIN outbox /\ 1 \in 1 .. l
    BY <1>2, <1>3
  <2> QED BY <2>1, <2>2 DEF LinkInv
<1>5. PICK fs : fs = b.frames /\ fs \in Seq(FrameType) /\ fs # <<>>
  BY <1>4 DEF BatchOK, BatchType
<1>6. PICK n : n = Len(fs) /\ n \in Nat /\ n > 0 /\ DOMAIN fs = 1 .. n
  BY <1>5, LenProperties, EmptySeq
<1>7. Head(fs) = fs[1] /\ fs[1] \in FrameType
  BY <1>5, <1>6
<1>8. PICK e : e = [frame |-> fs[1], gap |-> skipped]
  OBVIOUS
<1>9. e \in SentType
  BY <1>7, <1>8 DEF SentType, LinkInv
<1>10. /\ Tail(outbox) \in Seq(BatchType) /\ Len(Tail(outbox)) = l - 1
       /\ \A i \in 1 .. l - 1 : Tail(outbox)[i] = outbox[i + 1]
       /\ \A i \in DOMAIN Tail(outbox) : BatchOK(Tail(outbox)[i])
  <2>1. /\ Tail(outbox) \in Seq(BatchType) /\ Len(Tail(outbox)) = l - 1
        /\ \A i \in 1 .. l - 1 : Tail(outbox)[i] = outbox[i + 1]
    BY <1>2, <1>3, HeadTailProperties
  <2>2. DOMAIN Tail(outbox) = 1 .. l - 1 /\ DOMAIN outbox = 1 .. l
    BY <1>2, <1>3, <2>1, LenProperties
  <2>3. \A i \in 1 .. l - 1 : i + 1 \in 1 .. l
    BY <1>3
  <2> QED BY <2>1, <2>2, <2>3 DEF LinkInv
<1>11. CASE b.signal \in aborted
  <2>1. outbox' = Tail(outbox) /\ toDaemon' = toDaemon /\ skipped' = TRUE /\ toClient' = toClient
    BY <1>1, <1>11 DEF Transmit
  <2>2. LinkInv'
    BY <1>10, <2>1 DEF LinkInv, IncomingOK
  <2> QED BY <1>1, <1>2, <1>4, <1>5, <1>6, <1>11, <2>1, <2>2
<1>12. CASE b.signal \notin aborted
  <2>1. PICK rest : rest = Tail(fs)
    OBVIOUS
  <2>2. /\ rest \in Seq(FrameType) /\ Len(rest) = n - 1
        /\ \A i \in 1 .. n - 1 : rest[i] = fs[i + 1]
    BY <1>5, <1>6, <2>1, HeadTailProperties
  <2>3. /\ toDaemon' = Append(toDaemon, e) /\ skipped' = FALSE /\ toClient' = toClient
        /\ outbox' = IF rest = <<>> THEN Tail(outbox)
                     ELSE <<Batch(rest, b.signal)>> \o Tail(outbox)
    BY <1>1, <1>5, <1>7, <1>8, <1>12, <2>1 DEF Transmit
  <2>4. toDaemon' \in Seq(SentType)
    BY <1>2, <1>9, <2>3, AppendProperties
  <2>5. CASE n = 1
    <3>1. rest = <<>>
      BY <2>2, <2>5, EmptySeq
    <3>2. LinkInv'
      BY <1>10, <2>3, <2>4, <3>1 DEF LinkInv, IncomingOK
    <3> QED BY <1>1, <1>2, <1>4, <1>5, <1>6, <1>8, <1>9, <1>12, <2>3, <2>5, <3>1, <3>2
  <2>6. CASE n > 1
    <3>1. rest # <<>>
      BY <1>6, <2>2, <2>6
    <3>2. PICK nb : nb = Batch(rest, b.signal)
      OBVIOUS
    <3>3. nb.frames = rest /\ nb.signal = b.signal /\ nb \in BatchType
      BY <1>4, <2>2, <3>2 DEF Batch, BatchType, BatchOK
    <3>4. BatchOK(nb)
      <4>1. DOMAIN rest = 1 .. n - 1
        BY <1>6, <2>2, LenProperties
      <4>2. ASSUME NEW j \in 1 .. n - 1 PROVE rest[j].kind # "start"
        <5>1. j + 1 \in 1 .. n /\ j + 1 > 1
          BY <1>6
        <5> QED BY <1>4, <1>5, <1>6, <2>2, <5>1 DEF BatchOK
      <4> QED BY <3>1, <3>3, <4>1, <4>2 DEF BatchOK
    <3>5. <<nb>> \in Seq(BatchType) /\ Len(<<nb>>) = 1 /\ <<nb>>[1] = nb
      BY <3>3
    <3>6. PICK o2 : o2 = <<nb>> \o Tail(outbox)
      OBVIOUS
    <3>7. /\ o2 \in Seq(BatchType) /\ Len(o2) = 1 + (l - 1)
          /\ \A i \in 1 .. 1 + (l - 1) : o2[i] = IF i <= 1 THEN <<nb>>[i] ELSE Tail(outbox)[i - 1]
      BY <1>10, <3>5, <3>6, ConcatProperties
    <3>8. Len(o2) = l /\ o2[1] = nb
      BY <1>3, <3>5, <3>7
    <3>9. ASSUME NEW i \in 2 .. l PROVE o2[i] = outbox[i]
      <4>1. /\ i \in 1 .. 1 + (l - 1) /\ ~(i <= 1) /\ i - 1 \in 1 .. l - 1 /\ (i - 1) + 1 = i
        BY <1>3
      <4> QED BY <1>10, <3>7, <4>1
    <3>10. \A i \in DOMAIN o2 : BatchOK(o2[i])
      <4> SUFFICES ASSUME NEW i \in 1 .. l PROVE BatchOK(o2[i])
        BY <3>7, <3>8, LenProperties
      <4>1. CASE i = 1
        BY <3>4, <3>8, <4>1
      <4>2. CASE i # 1
        <5>1. i \in 2 .. l /\ i \in DOMAIN outbox
          BY <1>2, <1>3, <4>2, LenProperties
        <5> QED BY <3>9, <5>1 DEF LinkInv
      <4> QED BY <4>1, <4>2
    <3>11. outbox' = o2
      BY <2>3, <3>1, <3>2, <3>6
    <3>12. LinkInv'
      BY <2>3, <2>4, <3>7, <3>10, <3>11 DEF LinkInv, IncomingOK
    <3> QED BY <1>1, <1>2, <1>3, <1>4, <1>5, <1>6, <1>8, <1>9, <1>12, <2>1, <2>2, <2>3, <2>6,
            <3>2, <3>8, <3>9, <3>11, <3>12
  <2>7. n = 1 \/ n > 1
    BY <1>6
  <2> QED BY <2>5, <2>6, <2>7
<1> QED BY <1>11, <1>12

(* The batch that starts a call.                                            *)
LEMMA StartSends ==
    ASSUME LinkInv, NEW c \in Call, Start(c)
    PROVE  \E b : /\ outbox' = Append(outbox, b) /\ b.signal = c /\ BatchOK(b) /\ Of(b, c)
                  /\ b.frames[1] = Frame("start", c) /\ b.frames[2] = Frame("payload", c)
                  /\ Len(b.frames) = IF c \in Duplex THEN 2 ELSE 3
                  /\ Sends(outbox, outbox', c)
<1>1. PICK f, g, h : f = Frame("start", c) /\ g = Frame("payload", c) /\ h = Frame("end", c)
  OBVIOUS
<1>2. c \in Id
  BY DEF Id
<1>3. /\ f \in FrameType /\ g \in FrameType /\ h \in FrameType
      /\ f.call = c /\ g.call = c /\ h.call = c
      /\ f.kind = "start" /\ g.kind = "payload" /\ h.kind = "end"
  BY <1>1, <1>2, FrameFacts
<1>4. PICK fs : fs = <<f, g>> \o (IF c \in Duplex THEN <<>> ELSE <<h>>)
  OBVIOUS
<1>5. /\ fs \in Seq(FrameType) /\ fs # <<>> /\ fs[1] = f /\ fs[2] = g
      /\ Len(fs) = (IF c \in Duplex THEN 2 ELSE 3)
      /\ \A j \in DOMAIN fs : fs[j].call = c /\ (j > 1 => fs[j].kind # "start")
  <2>1. CASE c \in Duplex
    <3>1. fs = <<f, g>>
      BY <1>4, <2>1
    <3> QED BY <1>3, <2>1, <3>1
  <2>2. CASE c \notin Duplex
    <3>1. PICK u, v : u = <<f, g>> /\ v = <<h>>
      OBVIOUS
    <3>2. /\ u \in Seq(FrameType) /\ v \in Seq(FrameType) /\ Len(u) = 2 /\ Len(v) = 1
          /\ u[1] = f /\ u[2] = g /\ v[1] = h
      BY <1>3, <3>1
    <3>3. fs = u \o v
      BY <1>4, <2>2, <3>1
    <3>4. /\ fs \in Seq(FrameType) /\ Len(fs) = 2 + 1
          /\ \A i \in 1 .. 2 + 1 : fs[i] = IF i <= 2 THEN u[i] ELSE v[i - 2]
      BY <3>2, <3>3, ConcatProperties
    <3>5. Len(fs) = 3 /\ fs[1] = f /\ fs[2] = g /\ fs[3] = h
      BY <3>2, <3>4
    <3>6. DOMAIN fs = 1 .. 3 /\ \A j \in 1 .. 3 : j = 1 \/ j = 2 \/ j = 3
      BY <3>4, <3>5, LenProperties
    <3>7. fs # <<>>
      <4> SUFFICES ASSUME fs = <<>> PROVE FALSE
        OBVIOUS
      <4>1. Len(fs) = 0
        OBVIOUS
      <4> QED BY <3>5, <4>1
    <3>8. ASSUME NEW j \in DOMAIN fs PROVE fs[j].call = c /\ (j > 1 => fs[j].kind # "start")
      BY <1>3, <3>5, <3>6
    <3> QED BY <2>2, <3>4, <3>5, <3>7, <3>8
  <2> QED BY <2>1, <2>2
<1>6. PICK b : b = Batch(fs, c)
  OBVIOUS
<1>7. b.frames = fs /\ b.signal = c /\ b \in BatchType
  BY <1>2, <1>5, <1>6 DEF Batch, BatchType
<1>8. BatchOK(b) /\ Of(b, c)
  BY <1>5, <1>7 DEF BatchOK, Of
<1>9. outbox' = Append(outbox, b)
  BY <1>1, <1>4, <1>6 DEF Start
<1>10. Sends(outbox, outbox', c)
  BY <1>8, <1>9, SendsOne DEF LinkInv
<1> QED BY <1>1, <1>5, <1>7, <1>8, <1>9, <1>10

(* One frame of a duplex request.                                           *)
LEMMA FlushSends ==
    ASSUME LinkInv, NEW c \in Call, NEW kind \in {"payload", "end"}, NEW signal \in {c, None},
           outbox' = Append(outbox, Batch(<<Frame(kind, c)>>, signal))
    PROVE  \E b : /\ outbox' = Append(outbox, b) /\ b.signal = signal /\ BatchOK(b) /\ Of(b, c)
                  /\ b.frames[1] = Frame(kind, c) /\ Len(b.frames) = 1
                  /\ Sends(outbox, outbox', c)
<1>1. PICK f : f = Frame(kind, c)
  OBVIOUS
<1>2. c \in Id
  BY DEF Id
<1>3. f \in FrameType /\ f.call = c
  BY <1>1, <1>2, FrameFacts
<1>4. PICK b : b = Batch(<<f>>, signal)
  OBVIOUS
<1>5. b.frames = <<f>> /\ b.signal = signal /\ BatchOK(b) /\ Of(b, c)
  BY <1>2, <1>3, <1>4, SingleBatch DEF Batch
<1>6. b.frames[1] = f /\ Len(b.frames) = 1
  BY <1>5
<1>7. Sends(outbox, outbox', c)
  BY <1>1, <1>4, <1>5, SendsOne DEF LinkInv
<1> QED BY <1>1, <1>4, <1>5, <1>6, <1>7

(* A step of one call keeps the types of the link.                            *)
LEMMA StepLink ==
    ASSUME LinkInv, NEW a, StepOf(a), IncomingOK'
    PROVE  LinkInv'
<1>1. outbox' \in Seq(BatchType) /\ \A i \in DOMAIN outbox' : BatchOK(outbox'[i])
  <2>1. PICK o, o2 : o = outbox /\ o2 = outbox'
    OBVIOUS
  <2>2. /\ o \in Seq(BatchType) /\ o2 \in Seq(BatchType) /\ Sends(o, o2, a)
        /\ \A i \in DOMAIN o : BatchOK(o[i])
    BY <2>1 DEF LinkInv, StepOf, Sends
  <2>3. PICK m, n : /\ m = Len(o) /\ n = Len(o2) /\ m \in Nat /\ n \in Nat /\ m <= n
                    /\ DOMAIN o = 1 .. m /\ DOMAIN o2 = 1 .. n
    BY <2>2, LenProperties DEF Sends
  <2>4. ASSUME NEW i \in 1 .. n PROVE BatchOK(o2[i])
    <3>1. CASE i \in 1 .. m
      BY <2>2, <2>3, <3>1 DEF Sends
    <3>2. CASE i \in m + 1 .. n
      BY <2>2, <2>3, <3>2 DEF Sends
    <3> QED BY <2>3, <3>1, <3>2
  <2> QED BY <2>1, <2>2, <2>3, <2>4
<1>2. toDaemon' \in Seq(SentType)
  <2>1. CASE toDaemon' = toDaemon
    BY <2>1 DEF LinkInv
  <2>2. CASE toDaemon # <<>> /\ toDaemon' = Tail(toDaemon)
    BY <2>2, HeadTailProperties DEF LinkInv
  <2> QED BY <2>1, <2>2 DEF StepOf, Arrives
<1>3. toClient' \in Seq(FrameType)
  BY DEF StepOf, Answers
<1> QED BY <1>1, <1>2, <1>3 DEF LinkInv, StepOf

(* Another call's start is untouched.                                         *)
LEMMA StepStart ==
    ASSUME LinkInv, NEW a, StepOf(a), NEW c \in Call, c # a, NEW ds, NEW ks,
           StartOK(toDaemon, outbox, ds, ks, c)
    PROVE  StartOK(toDaemon', outbox', ds, ks, c)
<1>1. Opens(outbox', c) = Opens(outbox, c)
  BY OpensOther DEF LinkInv, StepOf
<1>2. CASE toDaemon' = toDaemon
  BY <1>1, <1>2, StartFewer
<1>3. CASE toDaemon # <<>> /\ toDaemon' = Tail(toDaemon)
  <2>1. \A i \in Begins(toDaemon', c) : i + 1 \in Begins(toDaemon, c) /\ i \in Nat
    BY <1>3, BeginsTail DEF LinkInv
  <2> QED BY <1>1, <2>1, StartFewer
<1> QED BY <1>2, <1>3 DEF StepOf, Arrives

(* The frames and the records of a client's own step.                         *)
LEMMA CallerStepOf ==
    ASSUME BooksInv, LinkInv, NEW c \in Call, Caller(c) \/ ClientReceives(c)
    PROVE  /\ StepOf(c) /\ daemon' = daemon /\ toDaemon' = toDaemon
           /\ Start(c) \/ Opens(outbox', c) = Opens(outbox, c)
<1>1. toClient \in Seq(FrameType) /\ outbox \in Seq(BatchType)
  BY DEF LinkInv
<1>2. CASE Caller(c)
  <2>1. /\ Others(c) /\ UNCHANGED <<daemon, skipped, toDaemon, toClient, link>>
    BY <1>2, CallerStep
  <2>2. /\ Sends(outbox, outbox', c)
        /\ Start(c) \/ Opens(outbox', c) = Opens(outbox, c)
    <3>1. CASE Start(c)
      BY <3>1, StartSends
    <3>2. CASE Controls(outbox, outbox', c)
      BY <1>1, <3>2, OpensControls DEF Controls
    <3>3. ASSUME NEW kind \in {"payload", "end"}, NEW signal \in {c, None},
                 outbox' = Append(outbox, Batch(<<Frame(kind, c)>>, signal))
          PROVE  Sends(outbox, outbox', c) /\ Opens(outbox', c) = Opens(outbox, c)
      <4>1. PICK b : /\ outbox' = Append(outbox, b) /\ BatchOK(b)
                     /\ b.frames[1] = Frame(kind, c) /\ Sends(outbox, outbox', c)
        BY <3>3, FlushSends
      <4>2. PICK n : n = Len(outbox) /\ n \in Nat
        BY <1>1, LenProperties
      <4>3. Len(outbox') = n + 1 /\ outbox'[n + 1] = b
        BY <1>1, <4>1, <4>2, AppendProperties DEF BatchOK
      <4>4. b.frames[1].kind = kind
        BY <4>1 DEF Frame
      <4>5. \A i \in n + 1 .. n + 1 : i = n + 1
        BY <4>2
      <4>6. \A i \in Len(outbox) + 1 .. Len(outbox') : ~IsStart(outbox'[i].frames[1], c)
        BY <4>2, <4>3, <4>4, <4>5 DEF IsStart
      <4> QED BY <1>1, <4>1, <4>6, OpensSame
    <3>4. CASE DuplexFlush(c)
      BY <3>3, <3>4 DEF DuplexFlush
    <3>6. ASSUME NEW b, Fails(c, b)
          PROVE  Sends(outbox, outbox', c) /\ Opens(outbox', c) = Opens(outbox, c)
      <4>1. PICK o : /\ o = Append(outbox, b) /\ o \in Seq(BatchType) /\ Sends(outbox, o, c)
                     /\ Controls(o, outbox', c) /\ b \in Follower(duplex[c], c)
        BY <3>6 DEF Fails
      <4>2. BatchOK(b) /\ b.frames[1].kind # "start"
        <5>1. Frame("payload", c).kind # "start" /\ Frame("end", c).kind # "start"
          BY DEF Frame
        <5> QED BY <4>1, <5>1, FollowerFacts
      <4>3. PICK n : n = Len(outbox) /\ n \in Nat
        BY <1>1, LenProperties
      <4>4. Len(o) = n + 1 /\ o[n + 1] = b
        BY <1>1, <4>1, <4>2, <4>3, AppendProperties DEF BatchOK
      <4>5. \A i \in n + 1 .. n + 1 : i = n + 1
        BY <4>3
      <4>6. \A i \in Len(outbox) + 1 .. Len(o) : ~IsStart(o[i].frames[1], c)
        BY <4>2, <4>3, <4>4, <4>5 DEF IsStart
      <4>7. Opens(o, c) = Opens(outbox, c)
        BY <1>1, <4>1, <4>6, OpensSame
      <4>8. Opens(outbox', c) = Opens(o, c)
        BY <4>1, OpensControls
      <4>9. Sends(o, outbox', c)
        BY <4>1 DEF Controls
      <4> QED BY <1>1, <4>1, <4>7, <4>8, <4>9, SendsMore
    <3>5. CASE DuplexEnd(c) /\ duplex[c].st = "ending" /\ CanSend
      BY <3>3, <3>5 DEF DuplexEnd
    <3> QED BY <1>2, <3>1, <3>2, <3>4, <3>5, <3>6, CallerStep
  <2>3. Reads(toClient, toClient, c) /\ Answers(toClient, toClient', c)
    BY <1>1, <2>1, AnswersNothing DEF Reads
  <2> QED BY <2>1, <2>2, <2>3 DEF StepOf, Arrives
<1>3. CASE ClientReceives(c)
  <2>1. /\ Others(c) /\ UNCHANGED <<daemon, skipped, toDaemon, link>>
        /\ Controls(outbox, outbox', c)
        /\ toClient # <<>> /\ Head(toClient).call = c /\ toClient' = Tail(toClient)
    BY <1>3, ClientReceivesStep
  <2>2. Reads(toClient, toClient', c) /\ toClient' \in Seq(FrameType)
    BY <1>1, <2>1, HeadTailProperties DEF Reads
  <2>3. PICK q : q = toClient' /\ Reads(toClient, q, c) /\ Answers(q, toClient', c)
    BY <2>2, AnswersNothing
  <2>4. Sends(outbox, outbox', c) /\ Opens(outbox', c) = Opens(outbox, c)
    BY <1>1, <2>1, OpensControls DEF Controls
  <2> QED BY <2>1, <2>3, <2>4 DEF StepOf, Arrives
<1> QED BY <1>2, <1>3

(* And of a step of the daemon.                                               *)
LEMMA DaemonStepOf ==
    ASSUME BooksInv, LinkInv, NEW c \in Call, DaemonKnown(c),
           DaemonStart(c) => daemon[c].st = "absent", DaemonReceives(c) \/ Handler(c)
    PROVE  /\ StepOf(c) /\ DaemonKeeps /\ daemon' \in [Call -> DaemonRecord]
           /\ DaemonOK(daemon'[c], c)
           /\ daemon[c].st = "absent" => daemon' = daemon \/ DaemonStart(c)
<1>1. PICK d2, s, m : Turn(c, d2, s, m)
  BY DaemonStep
<1>2. DaemonOK(d2, c) /\ Speaks(s, c) /\ d2 \in DaemonRecord
  BY <1>1 DEF Turn, Moves, DaemonOK
<1>3. daemon' = [daemon EXCEPT ![c] = d2] /\ daemon \in [Call -> DaemonRecord]
  BY <1>1 DEF Turn, DaemonKnown
<1>4. DaemonKeeps
  BY DEF DaemonReceives, DaemonStart, DaemonPayload, DaemonEnd, DaemonCancel, DaemonCredit,
     Handler, DaemonYield, DaemonComplete, DaemonFail, DaemonConsume, Emit, Answer
<1>5. Answers(toClient, toClient', c)
  BY <1>1, <1>2, AnswersFrames DEF Turn, LinkInv
<1>6. Sends(outbox, outbox', c)
  BY <1>4, SendsNothing DEF DaemonKeeps, LinkInv
<1>7. Arrives(toDaemon, toDaemon', c)
  <2>1. CASE Handler(c)
    BY <2>1 DEF Handler, DaemonYield, DaemonComplete, DaemonFail, DaemonConsume, Emit, Arrives
  <2>2. CASE DaemonReceives(c)
    <3>1. PICK f : f.call = c /\ DaemonReads(f)
      <4>1. \A n : Counted("window", c, n).call = c
        BY DEF Counted
      <4>2. /\ Frame("start", c).call = c /\ Frame("payload", c).call = c
            /\ Frame("end", c).call = c /\ Frame("cancel", c).call = c
        BY DEF Frame
      <4> QED BY <2>2, <4>1, <4>2 DEF DaemonReceives, DaemonStart, DaemonPayload, DaemonEnd,
              DaemonCancel, DaemonCredit
    <3>2. toDaemon' = Tail(toDaemon)
      BY <2>2 DEF DaemonReceives, DaemonStart, DaemonPayload, DaemonEnd, DaemonCancel,
         DaemonCredit, Answer
    <3> QED BY <3>1, <3>2 DEF DaemonReads, Arrives
  <2> QED BY <2>1, <2>2
<1>8. Others(c)
  BY <1>3, <1>4 DEF Others, DaemonKeeps, callVars
<1>9. StepOf(c)
  BY <1>4, <1>5, <1>6, <1>7, <1>8 DEF StepOf, Reads, DaemonKeeps
<1>10. daemon[c].st = "absent" => daemon' = daemon \/ DaemonStart(c)
  BY DEF DaemonReceives, DaemonPayload, DaemonEnd, DaemonCancel, DaemonCredit,
     Handler, DaemonYield, DaemonComplete, DaemonFail, DaemonConsume, Active
<1> QED BY <1>2, <1>3, <1>4, <1>9, <1>10

(* The same of an oversized payload.                                          *)
LEMMA OversizedStepOf ==
    ASSUME BooksInv, LinkInv, NEW c \in Call, DaemonKnown(c), DaemonOversized(c)
    PROVE  /\ StepOf(c) /\ DaemonKeeps /\ daemon' \in [Call -> DaemonRecord]
           /\ DaemonOK(daemon'[c], c) /\ daemon[c].st # "absent"
<1>1. PICK s, m, k : Torn(c, s, m, k)
  BY OversizedTears
<1>2. PICK d : d = daemon[c] /\ DaemonOK(d, c) /\ daemon \in [Call -> DaemonRecord]
  BY DEF DaemonKnown
<1>3. Tears(d, s, m, k, c) /\ Speaks(s, c) /\ d.st # "absent"
  BY <1>1, <1>2 DEF Torn, Tears
<1>4. DaemonOK(TornOf(d), c) /\ TornOf(d) \in DaemonRecord
  BY <1>2, <1>3, TornRecord DEF DaemonOK
<1>5. daemon' = [daemon EXCEPT ![c] = TornOf(d)] /\ DaemonKeeps
  BY <1>1, <1>2 DEF Torn
<1>6. Answers(toClient, toClient', c)
  BY <1>1, <1>3, AnswersFrames DEF Torn, LinkInv
<1>7. Sends(outbox, outbox', c)
  BY <1>5, SendsNothing DEF DaemonKeeps, LinkInv
<1>8. Arrives(toDaemon, toDaemon', c)
  BY <1>1 DEF Torn, Arrives
<1>9. Others(c)
  BY <1>2, <1>5 DEF Others, DaemonKeeps, callVars
<1>10. StepOf(c)
  BY <1>5, <1>6, <1>7, <1>8, <1>9 DEF StepOf, Reads, DaemonKeeps
<1> QED BY <1>2, <1>3, <1>4, <1>5, <1>10

(* No record goes back to idle.                                               *)
LEMMA NeverIdle ==
    ASSUME BooksInv, NEW c \in Call, Caller(c) \/ ClientReceives(c),
           client'[c].st = "idle"
    PROVE  client[c].st = "idle"
<1>1. client \in [Call -> ClientCall] /\ client[c] \in ClientCall
  BY DEF BooksInv
<1>2. ASSUME NEW end, Take(c, end) PROVE FALSE
  BY <1>1, <1>2 DEF Take, ClientCall
<1>3. ASSUME NEW queue, CancelAfter(c, queue) PROVE FALSE
  BY <1>2, <1>3 DEF CancelAfter
<1>4. CASE client' = client
  BY <1>4
<1>5. CASE Start(c) \/ StartRefused(c)
  BY <1>5 DEF Start, StartRefused
<1>6. CASE Cancel(c) \/ Return(c)
  BY <1>2, <1>3, <1>6 DEF Cancel, Return
<1>7. CASE Read(c)
  <2>1. PICK k : k = client[c] /\ k \in ClientCall /\ k.st \in {"live", "ended"}
    BY <1>1, <1>7 DEF Read
  <2>2. PICK r : r = [k EXCEPT !.got = Head(k.buffered), !.buffered = Tail(k.buffered)]
    OBVIOUS
  <2>3. r.st = k.st /\ DOMAIN r = DOMAIN k
    BY <2>1, <2>2 DEF ClientCall
  <2>4. \/ client' = [client EXCEPT ![c] = [r EXCEPT !.credit = r.credit + 1]]
        \/ client' = [client EXCEPT ![c] = [r EXCEPT !.st = "done", !.end = "complete"]]
        \/ client' = [client EXCEPT ![c] = r]
    BY <1>7, <2>1, <2>2 DEF Read
  <2>5. /\ [r EXCEPT !.credit = r.credit + 1].st = r.st
        /\ [r EXCEPT !.st = "done", !.end = "complete"].st # "idle"
    <3>1. DOMAIN r = {"st", "end", "buffered", "credit", "got"}
      BY <2>1, <2>3 DEF ClientCall
    <3> QED BY <3>1
  <2> QED BY <1>1, <2>1, <2>3, <2>4, <2>5
<1>8. CASE DuplexSend(c) \/ DuplexFlush(c) \/ DuplexFlushFails(c) \/ DuplexEnd(c)
  BY <1>3, <1>4, <1>8 DEF DuplexSend, DuplexFlush, DuplexFlushFails, DuplexEnd
<1>9. CASE ReceivePayload(c)
  <2>1. CASE \E n : /\ client[c].st = "live"
                    /\ client' = [client EXCEPT ![c].buffered = Append(@, n), ![c].credit = @ - 1]
    BY <1>1, <2>1 DEF ClientCall
  <2> QED BY <1>3, <1>4, <1>9, <2>1 DEF ReceivePayload, callVars
<1>10. CASE ReceiveEnd(c)
  <2>1. CASE client' = [client EXCEPT ![c].st = "ended"]
    BY <1>1, <2>1 DEF ClientCall
  <2> QED BY <1>2, <1>4, <1>10, <2>1 DEF ReceiveEnd, callVars
<1>11. CASE ReceiveFailure(c) \/ ReceiveInputCredit(c)
  BY <1>2, <1>4, <1>11 DEF ReceiveFailure, ReceiveInputCredit, callVars
<1> QED BY <1>5, <1>6, <1>7, <1>8, <1>9, <1>10, <1>11 DEF Caller, ClientReceives

(* Nothing is started yet.                                                  *)
LEMMA InitStart == Init => StartInv
<1> SUFFICES ASSUME Init PROVE StartInv
  OBVIOUS
<1>1. /\ outbox = <<>> /\ toDaemon = <<>> /\ toClient = <<>> /\ skipped = FALSE
      /\ daemon = [c \in Call |-> NewDaemon]
      /\ client = [c \in Call |-> NewClient]
  BY DEF Init, LinkInit, PeerInit, PeerInitBut, NewDaemon, NewClient
<1>2. \A r \in ReverseId : incoming[r] \in IncomingCall /\ ~incoming[r].waiting
  BY ReverseAssumption DEF Init, ReverseInit, ReverseInitBut, IncomingCall, ReverseAssumption
<1>3. IncomingOK
  BY <1>2 DEF IncomingOK, Init, ReverseInit, ReverseInitBut
<1>4. LinkInv
  <2>1. /\ <<>> \in Seq(BatchType) /\ <<>> \in Seq(SentType) /\ <<>> \in Seq(FrameType)
        /\ \A i \in DOMAIN <<>> : FALSE
    BY EmptySeq
  <2> QED BY <1>1, <1>3, <2>1 DEF LinkInv
<1>5. ASSUME NEW c \in Call
      PROVE  /\ DaemonOK(daemon[c], c)
             /\ StartOK(toDaemon, outbox, daemon[c].st, client[c].st, c)
  <2>1. daemon[c] = NewDaemon /\ client[c] = NewClient
    BY <1>1
  <2>2. NewDaemon.st = "absent" /\ NewClient.st = "idle"
    BY DEF NewDaemon, NewClient
  <2>3. Begins(<<>>, c) = {} /\ Opens(<<>>, c) = {}
    BY DEF Begins, Opens
  <2> QED BY <1>1, <2>1, <2>2, <2>3, NewDaemonOK DEF StartOK
<1>6. daemon \in [Call -> DaemonRecord]
  BY <1>1, <1>5 DEF DaemonOK
<1> QED BY <1>4, <1>5, <1>6 DEF StartInv

(* A Start frame arrives for a call the daemon has not heard of.              *)
LEMMA StartsOnce ==
    ASSUME StartInv, NEW c \in Call
    PROVE  /\ DaemonKnown(c)
           /\ DaemonStart(c) =>
                 /\ toDaemon # <<>> /\ toDaemon' = Tail(toDaemon)
                 /\ 1 \in Begins(toDaemon, c)
                 /\ daemon[c].st = "absent" /\ client[c].st # "idle"
<1>1. DaemonKnown(c) /\ StartOK(toDaemon, outbox, daemon[c].st, client[c].st, c)
  BY DEF StartInv, DaemonKnown
<1>2. ASSUME DaemonStart(c)
      PROVE  /\ toDaemon # <<>> /\ IsStart(Head(toDaemon).frame, c)
             /\ toDaemon' = Tail(toDaemon)
  <2>1. IsStart(Frame("start", c), c)
    BY DEF IsStart, Frame
  <2> QED BY <1>2, <2>1 DEF DaemonStart, DaemonReads, Answer
<1>3. ASSUME DaemonStart(c)
      PROVE  /\ 1 \in Begins(toDaemon, c)
             /\ daemon[c].st = "absent" /\ client[c].st # "idle"
  <2>1. 1 \in Begins(toDaemon, c)
    BY <1>2, <1>3, BeginsTail DEF StartInv, LinkInv
  <2> QED BY <1>1, <2>1 DEF StartOK
<1> QED BY <1>1, <1>2, <1>3

(* A step of one call keeps the start of every call in order.               *)
LEMMA StepStarts ==
    ASSUME StartInv, NEW a, StepOf(a), IncomingOK', daemon' \in [Call -> DaemonRecord],
           a \in Call => /\ DaemonOK(daemon'[a], a)
                         /\ StartOK(toDaemon', outbox', daemon'[a].st, client'[a].st, a)
    PROVE  StartInv'
<1>1. LinkInv'
  BY StepLink DEF StartInv
<1>2. ASSUME NEW c \in Call
      PROVE  /\ DaemonOK(daemon'[c], c)
             /\ StartOK(toDaemon', outbox', daemon'[c].st, client'[c].st, c)
  <2>1. CASE c = a
    BY <2>1
  <2>2. CASE c # a
    <3>1. daemon'[c] = daemon[c] /\ client'[c] = client[c]
      BY <2>2 DEF StepOf, Others
    <3>2. DaemonOK(daemon[c], c) /\ StartOK(toDaemon, outbox, daemon[c].st, client[c].st, c)
      BY DEF StartInv
    <3>3. StartOK(toDaemon', outbox', daemon[c].st, client[c].st, c)
      BY <2>2, <3>2, StepStart DEF StartInv
    <3> QED BY <3>1, <3>2, <3>3
  <2> QED BY <2>1, <2>2
<1> QED BY <1>1, <1>2 DEF StartInv

(* And so does every step of the system.                                    *)
LEMMA NextStart == BooksInv /\ StartInv /\ [Next]_vars => StartInv'
<1> SUFFICES ASSUME BooksInv, StartInv, [Next]_vars PROVE StartInv'
  OBVIOUS
<1>1. LinkInv /\ IncomingOK /\ daemon \in [Call -> DaemonRecord]
  BY DEF StartInv, LinkInv
<1>2. \A c \in Call : /\ DaemonOK(daemon[c], c)
                      /\ StartOK(toDaemon, outbox, daemon[c].st, client[c].st, c)
  BY DEF StartInv
<1>3. ASSUME NEW c \in Call, Caller(c) \/ ClientReceives(c), UNCHANGED reverseVars
      PROVE  StartInv'
  <2>1. /\ StepOf(c) /\ daemon' = daemon /\ toDaemon' = toDaemon
        /\ Start(c) \/ Opens(outbox', c) = Opens(outbox, c)
    BY <1>1, <1>3, CallerStepOf
  <2>2. IncomingOK'
    BY <1>1, <1>3 DEF IncomingOK, reverseVars
  <2>3. StartOK(toDaemon', outbox', daemon'[c].st, client'[c].st, c)
    <3>1. client'[c].st = "idle" => client[c].st = "idle"
      BY <1>3, NeverIdle
    <3>2. StartOK(toDaemon, outbox, daemon[c].st, client[c].st, c)
      BY <1>2
    <3>3. CASE Opens(outbox', c) = Opens(outbox, c)
      BY <2>1, <3>1, <3>2, <3>3 DEF StartOK
    <3>4. CASE Start(c)
      <4>1. client[c].st = "idle" /\ client'[c].st = "live"
        BY <3>4 DEF Start, BooksInv, ClientCall
      <4>2. Begins(toDaemon, c) = {} /\ Opens(outbox, c) = {} /\ daemon[c].st = "absent"
        BY <3>2, <4>1 DEF StartOK
      <4>3. PICK b : outbox' = Append(outbox, b) /\ BatchOK(b)
        BY <1>1, <3>4, StartSends
      <4>4. PICK n : n = Len(outbox) /\ n \in Nat
        BY <1>1, LenProperties DEF LinkInv
      <4>5. Len(outbox') = n + 1 /\ \A i \in 1 .. n : outbox'[i] = outbox[i]
        BY <1>1, <4>3, <4>4, AppendProperties DEF BatchOK, LinkInv
      <4>6. \A i \in Opens(outbox', c) : i = n + 1
        <5>1. \A i \in 1 .. n + 1 : i \in 1 .. n \/ i = n + 1
          BY <4>4
        <5> QED BY <4>2, <4>4, <4>5, <5>1 DEF Opens
      <4> QED BY <2>1, <4>1, <4>2, <4>6 DEF StartOK
    <3> QED BY <2>1, <3>3, <3>4
  <2> QED BY <1>1, <1>2, <2>1, <2>2, <2>3, StepStarts
<1>4. ASSUME NEW c \in Call, DaemonReceives(c) \/ Handler(c) \/ DaemonOversized(c),
             UNCHANGED reverseVars
      PROVE  StartInv'
  <2>1. DaemonKnown(c) /\ StartOK(toDaemon, outbox, daemon[c].st, client[c].st, c)
    BY <1>1, <1>2 DEF DaemonKnown
  <2>2. toDaemon \in Seq(SentType)
    BY <1>1 DEF LinkInv
  <2>3. DaemonStart(c) => /\ toDaemon # <<>> /\ toDaemon' = Tail(toDaemon)
                          /\ 1 \in Begins(toDaemon, c)
    BY StartsOnce
  <2>4. DaemonStart(c) => daemon[c].st = "absent" /\ client[c].st # "idle"
    BY StartsOnce
  <2>5. /\ StepOf(c) /\ DaemonKeeps /\ daemon' \in [Call -> DaemonRecord]
        /\ DaemonOK(daemon'[c], c)
        /\ daemon[c].st = "absent" => daemon' = daemon \/ DaemonStart(c)
    BY <1>1, <1>4, <2>1, <2>4, DaemonStepOf, OversizedStepOf
  <2>6. IncomingOK'
    BY <1>1, <1>4 DEF IncomingOK, reverseVars
  <2>7. outbox' = outbox /\ client' = client
    BY <2>5 DEF DaemonKeeps, callVars
  <2>8. CASE DaemonStart(c)
    <3>1. Begins(toDaemon', c) = {}
      <4>1. /\ \A i \in Begins(toDaemon', c) : i + 1 \in Begins(toDaemon, c) /\ i \in Nat /\ i > 0
            /\ 1 \in Begins(toDaemon, c)
        BY <2>2, <2>3, <2>8, BeginsTail
      <4>2. \A i \in Begins(toDaemon', c) : i + 1 = 1 /\ i \in Nat /\ i > 0
        BY <2>1, <4>1 DEF StartOK
      <4>3. \A i \in Begins(toDaemon', c) : FALSE
        BY <4>2
      <4> QED BY <4>3
    <3>2. Opens(outbox', c) = {}
      <4>1. 1 \in Begins(toDaemon, c)
        BY <2>2, <2>3, <2>8, BeginsTail
      <4> QED BY <2>1, <2>7, <4>1 DEF StartOK
    <3>3. StartOK(toDaemon', outbox', daemon'[c].st, client'[c].st, c)
      BY <2>4, <2>7, <2>8, <3>1, <3>2 DEF StartOK
    <3> QED BY <2>5, <2>6, <3>3, StepStarts
  <2>9. CASE ~DaemonStart(c)
    <3>1. StartOK(toDaemon', outbox', daemon[c].st, client[c].st, c)
      <4>1. CASE toDaemon' = toDaemon
        BY <2>1, <2>7, <4>1
      <4>2. CASE toDaemon # <<>> /\ toDaemon' = Tail(toDaemon)
        <5>1. \A i \in Begins(toDaemon', c) : i + 1 \in Begins(toDaemon, c) /\ i \in Nat
          BY <2>2, <4>2, BeginsTail
        <5> QED BY <2>1, <2>7, <5>1, StartFewer
      <4> QED BY <2>5, <4>1, <4>2 DEF StepOf, Arrives
    <3>2. StartOK(toDaemon', outbox', daemon'[c].st, client'[c].st, c)
      <4>1. CASE daemon[c].st = "absent"
        BY <2>5, <2>7, <2>9, <3>1, <4>1
      <4>2. CASE daemon[c].st # "absent"
        BY <2>7, <3>1, <4>2 DEF StartOK
      <4> QED BY <4>1, <4>2
    <3> QED BY <2>5, <2>6, <3>2, StepStarts
  <2> QED BY <2>8, <2>9
<1>5. CASE PeerNext /\ UNCHANGED reverseVars
  BY <1>3, <1>4, <1>5 DEF PeerNext
<1>6. CASE ReverseNext /\ UNCHANGED peerVars
  <2>1. PICK a \in ReverseId : StepOf(a) /\ IncomingOK'
    BY <1>1, <1>6, ReverseStep
  <2>2. a \notin Call
    BY IdsAssumption DEF IdsAssumption
  <2>3. daemon' \in [Call -> DaemonRecord]
    BY <1>1, <1>6 DEF peerVars
  <2> QED BY <2>1, <2>2, <2>3, StepStarts
<1>7. CASE Deliver /\ UNCHANGED reverseVars
  <2>1. Transmit /\ UNCHANGED incoming /\ UNCHANGED <<client, daemon>>
    BY <1>7 DEF Deliver, reverseVars, peerVars
  <2>2. LinkInv'
    BY <1>1, <2>1, TransmitFacts
  <2>3. PICK b : b = Head(outbox)
    OBVIOUS
  <2>4. PICK e : e = [frame |-> b.frames[1], gap |-> skipped]
    OBVIOUS
  <2>5. PICK l : l = Len(outbox) /\ l \in Nat
    BY <1>1, LenProperties DEF LinkInv
  <2>6. /\ outbox # <<>> /\ BatchOK(b) /\ b = outbox[1]
        /\ \/ outbox' = Tail(outbox) /\ toDaemon' = toDaemon
           \/ /\ toDaemon' = Append(toDaemon, e) /\ e \in SentType
              /\ \/ outbox' = Tail(outbox)
                 \/ /\ Len(b.frames) > 1 /\ Len(outbox') = Len(outbox)
                    /\ outbox'[1].frames[1] = b.frames[2]
                    /\ \A i \in 2 .. Len(outbox) : outbox'[i] = outbox[i]
    <3>1. \A fs, g : Batch(fs, g).frames = fs
      BY DEF Batch
    <3>2. Len(b.frames) \in Nat /\ (Len(b.frames) > 1 => 1 \in 1 .. Len(b.frames) - 1)
      BY <1>1, <2>1, <2>3, TransmitFacts
    <3>3. 1 + 1 = 2
      OBVIOUS
    <3>4. PICK rest : rest = Tail(b.frames)
      OBVIOUS
    <3>5. /\ outbox # <<>> /\ BatchOK(b) /\ b = outbox[1]
          /\ \/ outbox' = Tail(outbox) /\ toDaemon' = toDaemon
             \/ /\ toDaemon' = Append(toDaemon, e) /\ e \in SentType
                /\ \/ outbox' = Tail(outbox)
                   \/ /\ Len(b.frames) > 1 /\ Len(outbox') = Len(outbox)
                      /\ outbox'[1] = Batch(rest, b.signal)
                      /\ \A i \in 1 .. Len(b.frames) - 1 : rest[i] = b.frames[i + 1]
                      /\ \A i \in 2 .. Len(outbox) : outbox'[i] = outbox[i]
      BY <1>1, <2>1, <2>3, <2>4, <3>4, TransmitFacts
    <3>6. ASSUME Len(b.frames) > 1, outbox'[1] = Batch(rest, b.signal),
                 \A i \in 1 .. Len(b.frames) - 1 : rest[i] = b.frames[i + 1]
          PROVE  outbox'[1].frames[1] = b.frames[2]
      <4>1. rest[1] = b.frames[1 + 1]
        BY <3>2, <3>6
      <4> QED BY <3>1, <3>3, <3>6, <4>1
    <3> QED BY <3>5, <3>6
  <2>7. ASSUME NEW c \in Call
        PROVE  StartOK(toDaemon', outbox', daemon'[c].st, client'[c].st, c)
    <3>1. PICK ds, ks : /\ ds = daemon[c].st /\ ks = client[c].st
                        /\ StartOK(toDaemon, outbox, ds, ks, c)
      BY <1>2
    <3>2. daemon'[c].st = ds /\ client'[c].st = ks
      BY <2>1, <3>1
    <3>3. /\ \A i \in Opens(Tail(outbox), c) : i + 1 \in Opens(outbox, c) /\ i \in Nat /\ i > 0
      BY <1>1, <2>6, OpensTail DEF LinkInv
    <3>4. CASE outbox' = Tail(outbox) /\ toDaemon' = toDaemon
      BY <3>1, <3>2, <3>3, <3>4, StartFewer
    <3>5. CASE /\ toDaemon' = Append(toDaemon, e) /\ e \in SentType
               /\ \/ outbox' = Tail(outbox)
                  \/ /\ Len(b.frames) > 1 /\ Len(outbox') = Len(outbox)
                     /\ outbox'[1].frames[1] = b.frames[2]
                     /\ \A i \in 2 .. Len(outbox) : outbox'[i] = outbox[i]
      <4>1. PICK n : n = Len(toDaemon) /\ n \in Nat
        BY <1>1, LenProperties DEF LinkInv
      <4>2. /\ Len(toDaemon') = n + 1 /\ toDaemon'[n + 1] = e
            /\ \A i \in 1 .. n : toDaemon'[i] = toDaemon[i]
        BY <1>1, <3>5, <4>1, AppendProperties DEF LinkInv
      <4>3. \A i \in 1 .. n + 1 : i \in 1 .. n \/ i = n + 1
        BY <4>1
      <4>4. \A i \in 1 .. n : i \in 1 .. n + 1
        BY <4>1
      <4>5. l # 0 /\ 1 \in 1 .. l
        BY <1>1, <2>5, <2>6, EmptySeq DEF LinkInv
      <4>6. CASE IsStart(b.frames[1], c)
        <5>1. 1 \in Opens(outbox, c)
          BY <2>5, <2>6, <4>5, <4>6 DEF Opens
        <5>2. Begins(toDaemon, c) = {} /\ ds = "absent" /\ ks # "idle"
          BY <3>1, <5>1 DEF StartOK
        <5>3. \A i \in Begins(toDaemon', c) : i = n + 1
          BY <4>1, <4>2, <4>3, <5>2 DEF Begins
        <5>4. \A i \in Opens(outbox, c) : i = 1
          BY <3>1, <5>1 DEF StartOK
        <5>5. Opens(outbox', c) = {}
          <6>1. CASE outbox' = Tail(outbox)
            <7>1. \A i \in Opens(outbox', c) : i + 1 = 1 /\ i \in Nat /\ i > 0
              BY <3>3, <5>4, <6>1
            <7>2. \A i \in Opens(outbox', c) : FALSE
              BY <7>1
            <7> QED BY <7>2
          <6>2. CASE /\ Len(b.frames) > 1 /\ Len(outbox') = Len(outbox)
                     /\ outbox'[1].frames[1] = b.frames[2]
                     /\ \A i \in 2 .. Len(outbox) : outbox'[i] = outbox[i]
            <7>1. b.frames[2].kind # "start"
              <8>1. b.frames \in Seq(FrameType)
                BY <2>6 DEF BatchOK, BatchType
              <8>2. Len(b.frames) \in Nat /\ DOMAIN b.frames = 1 .. Len(b.frames)
                BY <8>1, LenProperties
              <8>3. 2 \in DOMAIN b.frames /\ 2 > 1
                BY <6>2, <8>2
              <8> QED BY <2>6, <8>3 DEF BatchOK
            <7>2. ASSUME NEW i \in 1 .. l PROVE ~IsStart(outbox'[i].frames[1], c)
              <8>1. CASE i = 1
                BY <6>2, <7>1, <8>1 DEF IsStart
              <8>2. CASE i # 1
                <9>1. i \in 2 .. l /\ outbox'[i] = outbox[i]
                  BY <2>5, <6>2, <8>2
                <9>2. i \notin Opens(outbox, c)
                  BY <5>4, <8>2
                <9> QED BY <2>5, <9>1, <9>2 DEF Opens
              <8> QED BY <8>1, <8>2
            <7> QED BY <2>5, <6>2, <7>2 DEF Opens
          <6> QED BY <3>5, <6>1, <6>2
        <5> QED BY <3>2, <5>2, <5>3, <5>5 DEF StartOK
      <4>7. CASE ~IsStart(b.frames[1], c)
        <5>1. Begins(toDaemon', c) = Begins(toDaemon, c)
          <6>1. e.frame = b.frames[1]
            BY <2>4
          <6> QED BY <4>1, <4>2, <4>3, <4>4, <4>7, <6>1 DEF Begins
        <5>2. CASE outbox' = Tail(outbox)
          BY <3>1, <3>2, <3>3, <5>1, <5>2, StartFewer
        <5>3. CASE /\ Len(b.frames) > 1 /\ Len(outbox') = Len(outbox)
                   /\ outbox'[1].frames[1] = b.frames[2]
                   /\ \A i \in 2 .. Len(outbox) : outbox'[i] = outbox[i]
          <6>1. ~IsStart(b.frames[2], c)
            <7>1. b.frames \in Seq(FrameType)
              BY <2>6 DEF BatchOK, BatchType
            <7>2. Len(b.frames) \in Nat /\ DOMAIN b.frames = 1 .. Len(b.frames)
              BY <7>1, LenProperties
            <7>3. 2 \in DOMAIN b.frames /\ 2 > 1
              BY <5>3, <7>2
            <7> QED BY <2>6, <7>3 DEF BatchOK, IsStart
          <6>2. ASSUME NEW i \in 1 .. l
                PROVE  IsStart(outbox'[i].frames[1], c) <=> IsStart(outbox[i].frames[1], c)
            <7>1. CASE i = 1
              BY <2>6, <4>7, <5>3, <6>1, <7>1
            <7>2. CASE i # 1
              <8>1. i \in 2 .. l
                BY <2>5, <7>2
              <8> QED BY <2>5, <5>3, <8>1
            <7> QED BY <7>1, <7>2
          <6>3. Opens(outbox', c) = Opens(outbox, c)
            BY <2>5, <5>3, <6>2 DEF Opens
          <6> QED BY <3>1, <3>2, <5>1, <6>3, StartFewer
        <5> QED BY <3>5, <5>2, <5>3
      <4> QED BY <4>6, <4>7
    <3> QED BY <2>6, <3>4, <3>5
  <2> QED BY <1>1, <1>2, <2>1, <2>2, <2>7 DEF StartInv
<1>8. CASE Ends /\ ReverseDown
  <2>1. PICK reason : Terminate(reason)
    BY <1>8 DEF Ends, RefuseGap, RefuseFrame, RefuseReverse, Disconnect
  <2>2. /\ outbox' = <<>> /\ toDaemon' = <<>> /\ toClient' = <<>> /\ skipped' = FALSE
    BY <2>1 DEF Terminate, Down
  <2>3. IncomingOK'
    <3>1. ASSUME NEW r \in ReverseId
          PROVE  incoming'[r] \in IncomingCall /\ ~incoming'[r].waiting
      <4>1. PICK k : k = incoming[r] /\ k \in IncomingCall
        BY <1>1 DEF IncomingOK
      <4>2. incoming'[r] = [k EXCEPT !.st = "gone", !.request = FALSE, !.waiting = FALSE]
        BY <1>8, <4>1 DEF ReverseDown
      <4> QED BY <4>1, <4>2 DEF IncomingCall
    <3>2. incoming' = [r \in ReverseId |-> incoming'[r]]
      BY <1>8 DEF ReverseDown
    <3> QED BY <3>1, <3>2 DEF IncomingOK
  <2>4. LinkInv'
    <3>1. /\ <<>> \in Seq(BatchType) /\ <<>> \in Seq(SentType) /\ <<>> \in Seq(FrameType)
          /\ \A i \in DOMAIN <<>> : FALSE
      BY EmptySeq
    <3> QED BY <2>2, <2>3, <3>1 DEF LinkInv
  <2>5. ASSUME NEW c \in Call
        PROVE  /\ DaemonOK(daemon'[c], c)
               /\ StartOK(toDaemon', outbox', daemon'[c].st, client'[c].st, c)
    <3>1. Begins(<<>>, c) = {} /\ Opens(<<>>, c) = {}
      BY DEF Begins, Opens
    <3>2. DaemonOK(daemon[c], c) /\ StartOK(toDaemon, outbox, daemon[c].st, client[c].st, c)
      BY <1>2
    <3>3. /\ daemon'[c] \in {daemon[c], Abandoned(daemon[c])}
          /\ daemon[c].st = "absent" => daemon'[c] = daemon[c]
      BY <2>1 DEF Terminate, Active
    <3>4. DaemonOK(daemon'[c], c)
      BY <3>2, <3>3, AbandonedOK
    <3>5. client'[c].st = "idle" => client[c].st = "idle"
      <4>1. client[c] \in ClientCall
        BY DEF BooksInv
      <4>2. CASE c \in Pending
        BY <2>1, <4>1, <4>2 DEF Terminate, ClientCall
      <4>3. CASE c \notin Pending
        BY <2>1, <4>3 DEF Terminate
      <4> QED BY <4>2, <4>3
    <3> QED BY <2>2, <3>1, <3>2, <3>3, <3>4, <3>5 DEF StartOK
  <2>6. daemon' \in [Call -> DaemonRecord]
    <3>1. daemon' = [c \in Call |-> daemon'[c]]
      BY <2>1 DEF Terminate
    <3> QED BY <2>5, <3>1 DEF DaemonOK
  <2> QED BY <2>4, <2>5, <2>6 DEF StartInv
<1>9. CASE UNCHANGED vars
  BY <1>9 DEF vars, peerVars, reverseVars, linkVars, StartInv, LinkInv, IncomingOK
<1> QED BY <1>5, <1>6, <1>7, <1>8, <1>9 DEF Next

-----------------------------------------------------------------------------
(* The responses of a call.                                                   *)

IsPayload(f, c) == f.kind = "payload" /\ f.call = c
Paid(q, c)      == {i \in 1 .. Len(q) : IsPayload(q[i], c)}
Finals(q, c)    == {i \in 1 .. Len(q) : q[i] = EndOk(c)}
Faults(q, c)    == {i \in 1 .. Len(q) : q[i] = EndError(c)}

(* The frame is read before any error of the call.                            *)
Ahead(q, i, c)  == \A e \in Faults(q, c) : i < e

(* Payloads are under way in the order they were yielded, and before the end  *)
(* that says there are no more.                                               *)
QueueOK(q, d, c) ==
    /\ \A i \in Paid(q, c) : q[i].n > 0 /\ q[i].n <= Handed(d)
    /\ \A i, j \in Paid(q, c) : i < j => q[i].n < q[j].n
    /\ \A i \in Finals(q, c) : d.st = "gone" /\ d.complete /\ \A j \in Paid(q, c) : j < i

(* What a live call has received, `lo`, and what is under way to it before an *)
(* error have no hole, and nothing that was sent is missing while more may    *)
(* come.                                                                      *)
LiveOK(q, lo, d, c) ==
    /\ lo <= Handed(d)
    /\ \A i \in Paid(q, c) : Ahead(q, i, c) =>
          /\ q[i].n > lo
          /\ q[i].n = lo + 1 \/ \E j \in Paid(q, c) : j < i /\ q[i].n = q[j].n + 1
    /\ d.st # "gone" \/ (\E f \in Finals(q, c) : Ahead(q, f, c)) =>
          Handed(d) = lo \/ \E i \in Paid(q, c) : q[i].n = Handed(d)

Received(k) == k.got + Len(k.buffered)

(* What the caller has read and what waits in its buffer.                     *)
ReadOK(k, d, c) ==
    /\ \A i \in 1 .. Len(k.buffered) : k.buffered[i] = k.got + i
    /\ k.st = "ended" => /\ c \notin Unary /\ d.st = "gone" /\ d.complete
                         /\ Received(k) = d.emitted
    /\ k.end = "complete" => /\ k.st = "done" /\ d.st = "gone" /\ d.complete
                             /\ c \notin Unary => k.got = d.emitted

ResponsesOK(q, k, d, c) ==
    /\ QueueOK(q, d, c) /\ ReadOK(k, d, c)
    /\ k.st = "live" => LiveOK(q, Received(k), d, c)

ResponsesInv == \A c \in Call : ResponsesOK(toClient, client[c], daemon[c], c)

(* The indexes after the first frame is gone.                                 *)
LEMMA PaidTail ==
    ASSUME NEW q \in Seq(FrameType), q # <<>>, NEW c
    PROVE  /\ \A i \in Paid(Tail(q), c) : /\ i \in Nat /\ i + 1 \in Paid(q, c)
                                          /\ Tail(q)[i] = q[i + 1]
           /\ \A i \in Finals(Tail(q), c) : i \in Nat /\ i + 1 \in Finals(q, c)
           /\ \A i \in Paid(q, c) : /\ i \in Nat /\ q[i].n \in Nat
                                    /\ i # 1 => /\ i - 1 \in Paid(Tail(q), c)
                                                /\ Tail(q)[i - 1] = q[i]
           /\ IsPayload(Head(q), c) => 1 \in Paid(q, c) /\ q[1] = Head(q)
           /\ ~IsPayload(Head(q), c) => 1 \notin Paid(q, c)
           /\ Head(q) = EndOk(c) => 1 \in Finals(q, c)
<1>1. PICK n : n = Len(q) /\ n \in Nat /\ n # 0
  BY LenProperties, EmptySeq
<1>2. PICK t : t = Tail(q)
  OBVIOUS
<1>3. Len(t) = n - 1 /\ \A i \in 1 .. n - 1 : t[i] = q[i + 1]
  BY <1>1, <1>2, HeadTailProperties
<1>4. /\ \A i \in 1 .. n - 1 : i \in Nat /\ i + 1 \in 1 .. n
      /\ \A i \in 1 .. n : i \in Nat /\ (i # 1 => i - 1 \in 1 .. n - 1 /\ (i - 1) + 1 = i)
  BY <1>1
<1>5. Head(q) = q[1] /\ 1 \in 1 .. n
  BY <1>1
<1>6. \A i \in 1 .. n : q[i] \in FrameType
  BY <1>1, ElementOfSeq
<1>7. \A i \in 1 .. n : q[i].n \in Nat
  BY <1>6 DEF FrameType
<1>8. \A i \in Paid(t, c) : i \in Nat /\ i + 1 \in Paid(q, c) /\ t[i] = q[i + 1]
  BY <1>1, <1>3, <1>4 DEF Paid
<1>9. \A i \in Finals(t, c) : i \in Nat /\ i + 1 \in Finals(q, c)
  BY <1>1, <1>3, <1>4 DEF Finals
<1>10. \A i \in Paid(q, c) : /\ i \in Nat /\ q[i].n \in Nat
                             /\ i # 1 => i - 1 \in Paid(t, c) /\ t[i - 1] = q[i]
  BY <1>1, <1>3, <1>4, <1>7 DEF Paid
<1>11. /\ IsPayload(Head(q), c) => 1 \in Paid(q, c) /\ q[1] = Head(q)
       /\ ~IsPayload(Head(q), c) => 1 \notin Paid(q, c)
       /\ Head(q) = EndOk(c) => 1 \in Finals(q, c)
  BY <1>1, <1>5 DEF Paid, Finals
<1> QED BY <1>2, <1>8, <1>9, <1>10, <1>11

(* A frame that is no error leaves the others where they were.                *)
LEMMA AheadTail ==
    ASSUME NEW q \in Seq(FrameType), q # <<>>, NEW c, Head(q) # EndError(c)
    PROVE  /\ Ahead(q, 1, c)
           /\ \A i \in Nat : Ahead(Tail(q), i, c) => Ahead(q, i + 1, c)
<1>1. PICK n : n = Len(q) /\ n \in Nat /\ n # 0
  BY LenProperties, EmptySeq
<1>2. PICK t : t = Tail(q)
  OBVIOUS
<1>3. Len(t) = n - 1 /\ \A i \in 1 .. n - 1 : t[i] = q[i + 1]
  BY <1>1, <1>2, HeadTailProperties
<1>4. q[1] # EndError(c)
  OBVIOUS
<1>5. ASSUME NEW e \in Faults(q, c) PROVE e \in Nat /\ e > 1 /\ e - 1 \in Faults(t, c)
  <2>1. e \in 1 .. n /\ q[e] = EndError(c) /\ e # 1
    BY <1>1, <1>4 DEF Faults
  <2>2. e - 1 \in 1 .. n - 1 /\ (e - 1) + 1 = e /\ e \in Nat /\ e > 1
    BY <1>1, <2>1
  <2>3. t[e - 1] = EndError(c)
    BY <1>3, <2>1, <2>2
  <2> QED BY <1>3, <2>2, <2>3 DEF Faults
<1>6. ASSUME NEW i \in Nat, Ahead(t, i, c), NEW e \in Faults(q, c) PROVE i + 1 < e
  <2>1. i < e - 1 /\ e \in Nat
    BY <1>5, <1>6 DEF Ahead
  <2> QED BY <2>1
<1>7. Ahead(q, 1, c)
  BY <1>5 DEF Ahead
<1>8. \A i \in Nat : Ahead(t, i, c) => Ahead(q, i + 1, c)
  BY <1>6 DEF Ahead
<1> QED BY <1>2, <1>7, <1>8

(* The first frame is gone.                                                   *)
LEMMA QueueTail ==
    ASSUME NEW q \in Seq(FrameType), q # <<>>, NEW c, NEW d, QueueOK(q, d, c)
    PROVE  QueueOK(Tail(q), d, c)
<1>1. PICK t : t = Tail(q)
  OBVIOUS
<1>2. /\ \A i \in Paid(t, c) : i \in Nat /\ i + 1 \in Paid(q, c) /\ t[i] = q[i + 1]
      /\ \A i \in Finals(t, c) : i \in Nat /\ i + 1 \in Finals(q, c)
  BY <1>1, PaidTail
<1>3. ASSUME NEW i \in Paid(t, c) PROVE t[i].n > 0 /\ t[i].n <= Handed(d)
  BY <1>2 DEF QueueOK
<1>4. ASSUME NEW i \in Paid(t, c), NEW j \in Paid(t, c), i < j PROVE t[i].n < t[j].n
  <2>1. i + 1 < j + 1
    BY <1>2, <1>4
  <2> QED BY <1>2, <2>1 DEF QueueOK
<1>5. ASSUME NEW i \in Finals(t, c)
      PROVE  d.st = "gone" /\ d.complete /\ \A j \in Paid(t, c) : j < i
  <2>1. ASSUME NEW j \in Paid(t, c) PROVE j < i
    <3>1. j + 1 < i + 1 /\ i \in Nat /\ j \in Nat
      BY <1>2 DEF QueueOK
    <3> QED BY <3>1
  <2> QED BY <1>2, <2>1 DEF QueueOK
<1> QED BY <1>1, <1>3, <1>4, <1>5 DEF QueueOK

(* It was no payload of the call, and no error.                               *)
LEMMA LiveTail ==
    ASSUME NEW q \in Seq(FrameType), q # <<>>, NEW c, NEW d, NEW lo \in Nat,
           LiveOK(q, lo, d, c), ~IsPayload(Head(q), c), Head(q) # EndError(c)
    PROVE  LiveOK(Tail(q), lo, d, c)
<1>1. PICK t : t = Tail(q)
  OBVIOUS
<1>2. /\ \A i \in Paid(t, c) : i \in Nat /\ i + 1 \in Paid(q, c) /\ t[i] = q[i + 1]
      /\ \A i \in Finals(t, c) : i \in Nat /\ i + 1 \in Finals(q, c)
      /\ \A i \in Paid(q, c) : i \in Nat /\ i - 1 \in Paid(t, c) /\ t[i - 1] = q[i]
  BY <1>1, PaidTail
<1>5. \A i \in Nat : Ahead(t, i, c) => Ahead(q, i + 1, c)
  BY <1>1, AheadTail
<1>3. ASSUME NEW i \in Paid(t, c), Ahead(t, i, c)
      PROVE  /\ t[i].n > lo
             /\ t[i].n = lo + 1 \/ \E j \in Paid(t, c) : j < i /\ t[i].n = t[j].n + 1
  <2>3. Ahead(q, i + 1, c)
    BY <1>2, <1>3, <1>5
  <2>1. CASE t[i].n = lo + 1
    BY <1>2, <2>1, <2>3 DEF LiveOK
  <2>2. CASE t[i].n # lo + 1
    <3>1. PICK j \in Paid(q, c) : j < i + 1 /\ q[i + 1].n = q[j].n + 1
      BY <1>2, <2>2, <2>3 DEF LiveOK
    <3>2. j - 1 \in Paid(t, c) /\ t[j - 1] = q[j] /\ j - 1 < i
      BY <1>2, <3>1
    <3>3. t[i].n > lo
      BY <1>2, <2>3 DEF LiveOK
    <3> QED BY <1>2, <3>1, <3>2, <3>3
  <2> QED BY <2>1, <2>2
<1>4. ASSUME d.st # "gone" \/ \E f \in Finals(t, c) : Ahead(t, f, c)
      PROVE  Handed(d) = lo \/ \E i \in Paid(t, c) : t[i].n = Handed(d)
  <2>1. d.st # "gone" \/ \E f \in Finals(q, c) : Ahead(q, f, c)
    BY <1>2, <1>4, <1>5
  <2>2. Handed(d) = lo \/ \E i \in Paid(q, c) : q[i].n = Handed(d)
    BY <2>1 DEF LiveOK
  <2> QED BY <1>2, <2>2
<1> QED BY <1>1, <1>3, <1>4 DEF LiveOK

(* It was the next payload of the call.                                       *)
LEMMA LivePayload ==
    ASSUME NEW q \in Seq(FrameType), q # <<>>, NEW c, NEW d, NEW lo \in Nat,
           QueueOK(q, d, c), LiveOK(q, lo, d, c), IsPayload(Head(q), c), Handed(d) \in Nat
    PROVE  Head(q).n = lo + 1 /\ LiveOK(Tail(q), lo + 1, d, c)
<1>1. PICK t : t = Tail(q)
  OBVIOUS
<1>2. /\ \A i \in Paid(t, c) : i \in Nat /\ i + 1 \in Paid(q, c) /\ t[i] = q[i + 1]
      /\ \A i \in Finals(t, c) : i \in Nat /\ i + 1 \in Finals(q, c)
      /\ \A i \in Paid(q, c) : /\ i \in Nat /\ q[i].n \in Nat
                               /\ i # 1 => i - 1 \in Paid(t, c) /\ t[i - 1] = q[i]
      /\ 1 \in Paid(q, c) /\ q[1] = Head(q)
  BY <1>1, PaidTail
<1>3. \A i \in Paid(q, c) : ~(i < 1)
  <2>1. \A i \in Paid(q, c) : i \in 1 .. Len(q)
    BY DEF Paid
  <2>2. Len(q) \in Nat
    BY LenProperties
  <2> QED BY <2>1, <2>2
<1>8. Ahead(q, 1, c) /\ \A i \in Nat : Ahead(t, i, c) => Ahead(q, i + 1, c)
  <2>1. Head(q) # EndError(c)
    BY DEF IsPayload, EndError, Counted
  <2> QED BY <1>1, <2>1, AheadTail
<1>4. q[1].n = lo + 1
  BY <1>2, <1>3, <1>8 DEF LiveOK
<1>5. lo + 1 <= Handed(d)
  BY <1>2, <1>4 DEF QueueOK
<1>6. ASSUME NEW i \in Paid(t, c), Ahead(t, i, c)
      PROVE  /\ t[i].n > lo + 1
             /\ t[i].n = (lo + 1) + 1 \/ \E j \in Paid(t, c) : j < i /\ t[i].n = t[j].n + 1
  <2>1. /\ i \in Nat /\ i + 1 \in Paid(q, c) /\ t[i] = q[i + 1] /\ q[i + 1].n \in Nat
        /\ i # 0
    <3>1. i \in 1 .. Len(t)
      BY DEF Paid
    <3>2. Len(t) \in Nat
      BY <1>1, HeadTailProperties, LenProperties
    <3> QED BY <1>2, <3>1, <3>2
  <2>2. q[1].n < q[i + 1].n
    <3>1. 1 < i + 1
      BY <2>1
    <3> QED BY <1>2, <2>1, <3>1 DEF QueueOK
  <2>3. t[i].n > lo + 1 /\ t[i].n # lo + 1
    <3>1. PICK v \in Nat : v = t[i].n /\ lo + 1 < v
      BY <1>4, <2>1, <2>2
    <3> QED BY <3>1
  <2>7. Ahead(q, i + 1, c)
    BY <1>6, <1>8, <2>1
  <2>4. PICK j \in Paid(q, c) : j < i + 1 /\ q[i + 1].n = q[j].n + 1
    BY <2>1, <2>3, <2>7 DEF LiveOK
  <2>5. CASE j = 1
    BY <1>4, <2>1, <2>3, <2>4, <2>5
  <2>6. CASE j # 1
    <3>1. j - 1 \in Paid(t, c) /\ t[j - 1] = q[j] /\ j - 1 < i
      BY <1>2, <2>1, <2>4, <2>6
    <3> QED BY <2>1, <2>3, <2>4, <3>1
  <2> QED BY <2>5, <2>6
<1>7. ASSUME d.st # "gone" \/ \E f \in Finals(t, c) : Ahead(t, f, c)
      PROVE  Handed(d) = lo + 1 \/ \E i \in Paid(t, c) : t[i].n = Handed(d)
  <2>1. d.st # "gone" \/ \E f \in Finals(q, c) : Ahead(q, f, c)
    BY <1>2, <1>7, <1>8
  <2>2. Handed(d) = lo \/ \E i \in Paid(q, c) : q[i].n = Handed(d)
    BY <2>1 DEF LiveOK
  <2>3. PICK i \in Paid(q, c) : q[i].n = Handed(d)
    BY <1>5, <2>2
  <2>4. CASE i = 1
    BY <1>4, <2>3, <2>4
  <2>5. CASE i # 1
    BY <1>2, <2>3, <2>5
  <2> QED BY <2>4, <2>5
<1> QED BY <1>1, <1>2, <1>4, <1>5, <1>6, <1>7 DEF LiveOK

(* The frames of call c are the same in q and r.                              *)
SameOf(q, r, c) ==
    /\ Paid(r, c) = Paid(q, c)
    /\ Finals(r, c) = Finals(q, c) /\ Faults(r, c) = Faults(q, c)
    /\ \A i \in Paid(q, c) : r[i] = q[i]

(* Frames of another call follow.                                             *)
LEMMA PaidOther ==
    ASSUME NEW q \in Seq(FrameType), NEW q2, NEW a, NEW c, a # c, Answers(q, q2, a)
    PROVE  SameOf(q, q2, c)
<1>1. PICK m, n : /\ m = Len(q) /\ n = Len(q2) /\ m \in Nat /\ n \in Nat /\ m <= n
                  /\ \A i \in 1 .. m : q2[i] = q[i]
                  /\ \A i \in m + 1 .. n : q2[i].call = a
  BY LenProperties DEF Answers
<1>2. /\ \A i \in 1 .. n : i \in 1 .. m \/ i \in m + 1 .. n
      /\ \A i \in 1 .. m : i \in 1 .. n
  BY <1>1
<1>3. EndOk(c).call = c /\ EndError(c).call = c
  BY DEF EndOk, EndError, Counted
<1> QED BY <1>1, <1>2, <1>3 DEF SameOf, Paid, Finals, Faults, IsPayload

(* A step of another call.                                                    *)
LEMMA StepResponses ==
    ASSUME NEW q \in Seq(FrameType), NEW w, NEW r, NEW a, NEW c, a # c,
           Reads(q, w, a), Answers(w, r, a), NEW k, NEW d, Received(k) \in Nat,
           ResponsesOK(q, k, d, c)
    PROVE  ResponsesOK(r, k, d, c)
<1>1. /\ w \in Seq(FrameType) /\ QueueOK(w, d, c)
      /\ k.st = "live" => LiveOK(w, Received(k), d, c)
  <2>1. CASE w = q
    BY <2>1 DEF ResponsesOK
  <2>2. CASE q # <<>> /\ Head(q).call = a /\ w = Tail(q)
    <3>1. ~IsPayload(Head(q), c) /\ Head(q) # EndError(c)
      BY <2>2 DEF IsPayload, EndError, Counted
    <3> QED BY <2>2, <3>1, QueueTail, LiveTail, HeadTailProperties DEF ResponsesOK
  <2> QED BY <2>1, <2>2 DEF Reads
<1>2. SameOf(w, r, c)
  BY <1>1, PaidOther
<1>3. QueueOK(r, d, c)
  BY <1>1, <1>2 DEF QueueOK, SameOf
<1>4. k.st = "live" => LiveOK(r, Received(k), d, c)
  BY <1>1, <1>2 DEF LiveOK, SameOf, Ahead
<1> QED BY <1>3, <1>4 DEF ResponsesOK

(* m payloads, the ones after h, and perhaps an end follow L frames.          *)
Continues(q, r, s, m, h, L, c) ==
    /\ L \in Nat /\ m \in Nat
    /\ \A i \in Paid(q, c) : i \in 1 .. L /\ i \in Paid(r, c) /\ r[i] = q[i]
    /\ \A j \in 1 .. m : L + j \in Paid(r, c) /\ r[L + j].n = h + j
    /\ \A i \in Paid(r, c) : i \in Paid(q, c) \/ \E j \in 1 .. m : i = L + j
    /\ \A i \in Finals(r, c) :
          \/ i \in Finals(q, c)
          \/ i = L + (m + 1) /\ Len(s) = m + 1 /\ s[m + 1] = EndOk(c)
    /\ \A i \in Finals(q, c) : i \in 1 .. L
    /\ \A i \in Faults(q, c) : i \in Faults(r, c)

(* So do the frames of a step of the daemon.                                  *)
LEMMA PaidMore ==
    ASSUME NEW q \in Seq(FrameType), NEW c \in Call, NEW d, NEW d2, NEW s, NEW m,
           DaemonOK(d, c), Moves(d, d2, s, m, c), NEW L, L = Len(q), NEW r, r = q \o s
    PROVE  Continues(q, r, s, m, Handed(d), L, c)
<1>1. s \in Seq(FrameType) /\ m \in Nat /\ Len(s) \in {m, m + 1}
  BY DEF Moves, Speaks, Emits
<1>2. PICK n : n = Len(s) /\ n \in Nat
  BY <1>1
<1>3. L \in Nat
  BY LenProperties
<1>4. r = q \o s
  OBVIOUS
<1>5. /\ Len(r) = L + n /\ \A i \in 1 .. L : r[i] = q[i]
      /\ \A i \in L + 1 .. L + n : r[i] = s[i - L]
  BY <1>1, <1>2, <1>4, ConcatProperties
<1>6. \A j \in 1 .. n : L + j \in L + 1 .. L + n /\ (L + j) - L = j
  BY <1>2, <1>3
<1>7. \A j \in 1 .. n : r[L + j] = s[j]
  BY <1>5, <1>6
<1>8. /\ \A i \in 1 .. L : i \in 1 .. L + n
      /\ \A i \in 1 .. L + n : i \in 1 .. L \/ \E j \in 1 .. n : i = L + j
      /\ \A j \in 1 .. m : j \in 1 .. n
      /\ \A j \in 1 .. n : L + j \in 1 .. L + n /\ (j \in 1 .. m \/ (j = m + 1 /\ n = m + 1))
  <2>1. \A i \in 1 .. L + n : i \in 1 .. L \/ (i - L \in 1 .. n /\ i = L + (i - L))
    BY <1>2, <1>3
  <2>2. /\ \A i \in 1 .. L : i \in 1 .. L + n
        /\ \A j \in 1 .. n : L + j \in 1 .. L + n
    BY <1>2, <1>3
  <2>3. /\ \A j \in 1 .. m : j \in 1 .. n
        /\ \A j \in 1 .. n : j \in 1 .. m \/ (j = m + 1 /\ n = m + 1)
    BY <1>1, <1>2
  <2> QED BY <2>1, <2>2, <2>3
<1>9. \A j \in 1 .. m : IsPayload(s[j], c) /\ s[j].n = Handed(d) + j /\ s[j] # EndOk(c)
  <2>1. \A j \in 1 .. m : s[j] = Counted("payload", c, Handed(d) + j)
    BY DEF Moves, Emits
  <2>2. \A v : /\ Counted("payload", c, v).kind = "payload" /\ Counted("payload", c, v).n = v
               /\ Counted("payload", c, v).call = c
    BY DEF Counted
  <2>3. EndOk(c).kind = "end"
    BY DEF EndOk, Counted
  <2> QED BY <2>1, <2>2, <2>3 DEF IsPayload
<1>10. n = m + 1 => ~IsPayload(s[m + 1], c)
  BY <1>2 DEF Moves, Emits, IsPayload
<1>11. \A i \in Paid(q, c) : i \in 1 .. L /\ i \in Paid(r, c) /\ r[i] = q[i]
  BY <1>5, <1>8 DEF Paid
<1>12. \A j \in 1 .. m : L + j \in Paid(r, c) /\ r[L + j].n = Handed(d) + j
  BY <1>5, <1>7, <1>8, <1>9 DEF Paid
<1>13. ASSUME NEW i \in Paid(r, c) PROVE i \in Paid(q, c) \/ \E j \in 1 .. m : i = L + j
  <2>1. i \in 1 .. L + n /\ IsPayload(r[i], c)
    BY <1>5 DEF Paid
  <2>2. CASE i \in 1 .. L
    BY <1>5, <2>1, <2>2 DEF Paid
  <2>3. ASSUME NEW j \in 1 .. n, i = L + j PROVE j \in 1 .. m
    BY <1>7, <1>8, <1>10, <2>1, <2>3
  <2> QED BY <1>8, <2>1, <2>2, <2>3
<1>14. ASSUME NEW i \in Finals(r, c)
       PROVE  i \in Finals(q, c) \/ (i = L + (m + 1) /\ n = m + 1 /\ s[m + 1] = EndOk(c))
  <2>1. i \in 1 .. L + n /\ r[i] = EndOk(c)
    BY <1>5 DEF Finals
  <2>2. CASE i \in 1 .. L
    BY <1>5, <2>1, <2>2 DEF Finals
  <2>3. ASSUME NEW j \in 1 .. n, i = L + j
        PROVE  i = L + (m + 1) /\ n = m + 1 /\ s[m + 1] = EndOk(c)
    <3>1. s[j] = EndOk(c)
      BY <1>7, <2>1, <2>3
    <3>2. j \notin 1 .. m
      BY <1>9, <3>1
    <3>3. j = m + 1 /\ n = m + 1
      BY <1>8, <2>3, <3>2
    <3> QED BY <2>3, <3>1, <3>3
  <2> QED BY <1>8, <2>1, <2>2, <2>3
<1>15. \A i \in Finals(q, c) : i \in 1 .. L
  BY DEF Finals
<1>16. \A i \in Faults(q, c) : i \in Faults(r, c)
  BY <1>5, <1>8 DEF Faults
<1> QED BY <1>1, <1>2, <1>3, <1>4, <1>11, <1>12, <1>13, <1>14, <1>15, <1>16 DEF Continues

(* A step of the daemon on the call itself.                                   *)
LEMMA TurnResponses ==
    ASSUME NEW q \in Seq(FrameType), NEW c \in Call, NEW k, NEW d, NEW d2, NEW s, NEW m,
           DaemonOK(d, c), Moves(d, d2, s, m, c), Received(k) \in Nat,
           ResponsesOK(q, k, d, c)
    PROVE  ResponsesOK(q \o s, k, d2, c)
<1>1. PICK L : L = Len(q)
  OBVIOUS
<1>2. PICK r : r = q \o s
  OBVIOUS
<1>3. /\ L \in Nat /\ m \in Nat
      /\ \A i \in Paid(q, c) : i \in 1 .. L /\ i \in Paid(r, c) /\ r[i] = q[i]
      /\ \A j \in 1 .. m : L + j \in Paid(r, c) /\ r[L + j].n = Handed(d) + j
      /\ \A i \in Paid(r, c) : i \in Paid(q, c) \/ \E j \in 1 .. m : i = L + j
      /\ \A i \in Finals(r, c) :
            \/ i \in Finals(q, c)
            \/ i = L + (m + 1) /\ Len(s) = m + 1 /\ s[m + 1] = EndOk(c)
      /\ \A i \in Finals(q, c) : i \in 1 .. L
      /\ \A i : Ahead(r, i, c) => Ahead(q, i, c)
  <2>1. Continues(q, r, s, m, Handed(d), L, c)
    BY <1>1, <1>2, PaidMore
  <2> QED BY <2>1 DEF Continues, Ahead
<1>4. PICK h, h2 : h = Handed(d) /\ h2 = Handed(d2)
  OBVIOUS
<1>5. h \in Nat /\ h2 \in Nat
  BY <1>4, DaemonFields DEF Moves
<1>6. /\ h + m <= h2
      /\ d2.st # "gone" \/ (Len(s) = m + 1 /\ s[m + 1] = EndOk(c)) => h2 = h + m
      /\ Len(s) = m + 1 /\ s[m + 1] = EndOk(c) => d2.st = "gone" /\ d2.complete
      /\ d.st = "gone" => d2 = d /\ m = 0 /\ ~(Len(s) = 1 /\ s[1] = EndOk(c))
  BY <1>4 DEF Moves, Emits
<1>7. QueueOK(q, d, c) /\ ReadOK(k, d, c)
  BY DEF ResponsesOK
<1>8. \A i \in Paid(q, c) : i \in Nat /\ q[i].n \in Nat /\ q[i].n > 0 /\ q[i].n <= h
  <2>1. \A i \in 1 .. L : q[i] \in FrameType /\ i \in Nat
    BY <1>1, <1>3, ElementOfSeq
  <2>2. \A i \in 1 .. L : q[i].n \in Nat
    BY <2>1 DEF FrameType
  <2> QED BY <1>3, <1>4, <1>7, <2>1, <2>2 DEF QueueOK
<1>9. d.st = "gone" => m = 0 /\ \A i \in Finals(r, c) : i \in Finals(q, c)
  <2> SUFFICES ASSUME d.st = "gone" PROVE m = 0 /\ \A i \in Finals(r, c) : i \in Finals(q, c)
    OBVIOUS
  <2>1. m = 0 /\ ~(Len(s) = 1 /\ s[1] = EndOk(c)) /\ 0 + 1 = 1
    BY <1>6
  <2> QED BY <1>3, <2>1
<1>10. QueueOK(r, d2, c)
  <2>1. ASSUME NEW i \in Paid(r, c) PROVE r[i].n > 0 /\ r[i].n <= h2
    <3>1. CASE i \in Paid(q, c)
      <4>1. r[i].n = q[i].n /\ q[i].n \in Nat /\ q[i].n > 0 /\ q[i].n <= h
        BY <1>3, <1>8, <3>1
      <4> QED BY <1>3, <1>5, <1>6, <4>1
    <3>2. ASSUME NEW j \in 1 .. m, i = L + j PROVE r[i].n > 0 /\ r[i].n <= h2
      <4>1. r[i].n = h + j
        BY <1>3, <1>4, <3>2
      <4> QED BY <1>3, <1>5, <1>6, <4>1
    <3> QED BY <1>3, <3>1, <3>2
  <2>2. ASSUME NEW i \in Paid(r, c), NEW j \in Paid(r, c), i < j PROVE r[i].n < r[j].n
    <3>1. CASE i \in Paid(q, c) /\ j \in Paid(q, c)
      BY <1>3, <1>7, <2>2, <3>1 DEF QueueOK
    <3>2. ASSUME i \in Paid(q, c), NEW v \in 1 .. m, j = L + v PROVE r[i].n < r[j].n
      <4>1. r[j].n = h + v /\ r[i].n \in Nat /\ r[i].n <= h
        BY <1>3, <1>4, <1>8, <3>2
      <4> QED BY <1>3, <1>5, <4>1
    <3>3. ASSUME NEW u \in 1 .. m, i = L + u, j \in Paid(q, c) PROVE FALSE
      <4>1. j \in 1 .. L
        BY <1>3, <3>3
      <4> QED BY <1>3, <2>2, <3>3, <4>1
    <3>4. ASSUME NEW u \in 1 .. m, i = L + u, NEW v \in 1 .. m, j = L + v
          PROVE  r[i].n < r[j].n
      <4>1. r[i].n = h + u /\ r[j].n = h + v
        BY <1>3, <1>4, <3>4
      <4>2. u < v
        BY <1>3, <2>2, <3>4
      <4> QED BY <1>3, <1>5, <4>1, <4>2
    <3> QED BY <1>3, <3>1, <3>2, <3>3, <3>4
  <2>3. ASSUME NEW i \in Finals(r, c)
        PROVE  d2.st = "gone" /\ d2.complete /\ \A j \in Paid(r, c) : j < i
    <3>1. CASE i \in Finals(q, c)
      <4>1. d.st = "gone" /\ d.complete /\ \A j \in Paid(q, c) : j < i
        BY <1>7, <3>1 DEF QueueOK
      <4>2. d2 = d /\ m = 0 /\ \A j \in 1 .. 0 : FALSE
        BY <1>6, <4>1
      <4> QED BY <1>3, <4>1, <4>2
    <3>2. CASE i = L + (m + 1) /\ Len(s) = m + 1 /\ s[m + 1] = EndOk(c)
      <4>1. d2.st = "gone" /\ d2.complete
        BY <1>6, <3>2
      <4>2. ASSUME NEW j \in Paid(r, c) PROVE j < i
        <5>1. \A v \in 1 .. L : v < L + (m + 1)
          BY <1>3
        <5>2. \A v \in 1 .. m : L + v < L + (m + 1)
          BY <1>3
        <5> QED BY <1>3, <3>2, <5>1, <5>2
      <4> QED BY <4>1, <4>2
    <3> QED BY <1>3, <3>1, <3>2
  <2> QED BY <1>4, <2>1, <2>2, <2>3 DEF QueueOK
<1>11. ReadOK(k, d2, c)
  <2>1. CASE d.st = "gone"
    BY <1>6, <1>7, <2>1
  <2>2. CASE d.st # "gone"
    BY <1>7, <2>2 DEF ReadOK
  <2> QED BY <2>1, <2>2
<1>12. ASSUME k.st = "live" PROVE LiveOK(r, Received(k), d2, c)
  <2>1. PICK lo \in Nat : lo = Received(k)
    OBVIOUS
  <2>2. LiveOK(q, lo, d, c)
    BY <1>12, <2>1 DEF ResponsesOK
  <2>3. lo <= h
    BY <1>4, <2>2 DEF LiveOK
  <2>4. lo <= h2
    BY <1>3, <1>5, <1>6, <2>3
  <2>5. d.st # "gone" => h = lo \/ \E i \in Paid(q, c) : q[i].n = h
    BY <1>4, <2>2 DEF LiveOK
  <2>6. ASSUME NEW i \in Paid(r, c), Ahead(r, i, c)
        PROVE  /\ r[i].n > lo
               /\ r[i].n = lo + 1 \/ \E j \in Paid(r, c) : j < i /\ r[i].n = r[j].n + 1
    <3>1. CASE i \in Paid(q, c)
      <4>1. /\ q[i].n > lo
            /\ q[i].n = lo + 1 \/ \E j \in Paid(q, c) : j < i /\ q[i].n = q[j].n + 1
        BY <1>3, <2>2, <2>6, <3>1 DEF LiveOK
      <4> QED BY <1>3, <3>1, <4>1
    <3>2. ASSUME NEW j \in 1 .. m, i = L + j
          PROVE  /\ r[i].n > lo
                 /\ r[i].n = lo + 1 \/ \E v \in Paid(r, c) : v < i /\ r[i].n = r[v].n + 1
      <4>1. r[i].n = h + j /\ h + j > lo
        <5>1. r[i].n = h + j
          BY <1>3, <1>4, <3>2
        <5>2. j \in Nat /\ j > 0
          BY <1>3
        <5>3. h + j > lo
          BY <1>5, <2>3, <5>2
        <5> QED BY <5>1, <5>3
      <4>2. CASE j = 1
        <5>1. d.st # "gone"
          BY <1>9, <3>2
        <5>2. CASE h = lo
          BY <4>1, <4>2, <5>2
        <5>3. ASSUME NEW v \in Paid(q, c), q[v].n = h
              PROVE  v \in Paid(r, c) /\ v < i /\ r[i].n = r[v].n + 1
          <6>1. v \in 1 .. L /\ v \in Paid(r, c) /\ r[v].n = h
            BY <1>3, <5>3
          <6> QED BY <1>3, <3>2, <4>1, <4>2, <6>1
        <5> QED BY <2>5, <4>1, <5>1, <5>2, <5>3
      <4>3. CASE j # 1
        <5>1. j - 1 \in 1 .. m /\ h + j = (h + (j - 1)) + 1 /\ L + (j - 1) < L + j
          BY <1>3, <1>5, <4>3
        <5>2. L + (j - 1) \in Paid(r, c) /\ r[L + (j - 1)].n = h + (j - 1)
          BY <1>3, <1>4, <5>1
        <5> QED BY <3>2, <4>1, <5>1, <5>2
      <4> QED BY <4>2, <4>3
    <3> QED BY <1>3, <3>1, <3>2
  <2>7. ASSUME d2.st # "gone" \/ \E f \in Finals(r, c) : Ahead(r, f, c)
        PROVE  h2 = lo \/ \E i \in Paid(r, c) : r[i].n = h2
    <3>1. CASE d.st = "gone"
      <4>1. (\E f \in Finals(q, c) : Ahead(q, f, c)) /\ h2 = h
        BY <1>3, <1>4, <1>6, <1>9, <2>7, <3>1
      <4>2. h = lo \/ \E i \in Paid(q, c) : q[i].n = h
        BY <1>4, <2>2, <4>1 DEF LiveOK
      <4> QED BY <1>3, <4>1, <4>2
    <3>2. CASE d.st # "gone"
      <4>1. Finals(q, c) = {}
        BY <1>7, <3>2 DEF QueueOK
      <4>2. h2 = h + m
        BY <1>3, <1>6, <2>7, <4>1
      <4>3. CASE m = 0
        <5>1. h2 = h
          BY <1>5, <4>2, <4>3
        <5> QED BY <1>3, <2>5, <3>2, <5>1
      <4>4. CASE m # 0
        <5>1. m \in 1 .. m
          BY <1>3, <4>4
        <5> QED BY <1>3, <1>4, <4>2, <5>1
      <4> QED BY <4>3, <4>4
    <3> QED BY <3>1, <3>2
  <2> QED BY <1>4, <2>1, <2>4, <2>6, <2>7 DEF LiveOK
<1> QED BY <1>2, <1>10, <1>11, <1>12 DEF ResponsesOK

(* The frames of a call that an oversized payload ends.                       *)
Breaks(q, r, s, m, k, h, L, c) ==
    /\ L \in Nat /\ m \in Nat /\ k \in 1 .. m
    /\ \A i \in Paid(q, c) : i \in 1 .. L /\ i \in Paid(r, c) /\ r[i] = q[i]
    /\ \A j \in 1 .. m : j # k => L + j \in Paid(r, c) /\ r[L + j].n = h + j
    /\ \A i \in Paid(r, c) : i \in Paid(q, c) \/ \E j \in 1 .. m : j # k /\ i = L + j
    /\ \A i \in Finals(r, c) : i \in Finals(q, c) \/ (i = L + (m + 1) /\ Len(s) = m + 1)
    /\ \A i \in Faults(q, c) : i \in Faults(r, c)
    /\ L + k \in Faults(r, c)

LEMMA TearsMore ==
    ASSUME NEW q \in Seq(FrameType), NEW c \in Call, NEW d, NEW s, NEW m, NEW k,
           Tears(d, s, m, k, c), NEW L, L = Len(q), NEW r, r = q \o s
    PROVE  Breaks(q, r, s, m, k, Handed(d), L, c)
<1>1. /\ s \in Seq(FrameType) /\ m \in Nat /\ k \in 1 .. m /\ Len(s) \in {m, m + 1}
      /\ s[k] = EndError(c)
      /\ \A j \in 1 .. m : j # k => s[j] = Counted("payload", c, Handed(d) + j)
      /\ Len(s) = m + 1 => s[m + 1] = EndOk(c)
  BY DEF Tears, Speaks
<1>2. PICK n : n = Len(s) /\ n \in Nat
  BY <1>1
<1>3. L \in Nat
  BY LenProperties
<1>4. r = q \o s
  OBVIOUS
<1>5. /\ Len(r) = L + n /\ \A i \in 1 .. L : r[i] = q[i]
      /\ \A i \in L + 1 .. L + n : r[i] = s[i - L]
  BY <1>1, <1>2, <1>4, ConcatProperties
<1>6. \A j \in 1 .. n : L + j \in L + 1 .. L + n /\ (L + j) - L = j
  BY <1>2, <1>3
<1>7. \A j \in 1 .. n : r[L + j] = s[j]
  BY <1>5, <1>6
<1>8. /\ \A i \in 1 .. L : i \in 1 .. L + n
      /\ \A i \in 1 .. L + n : i \in 1 .. L \/ \E j \in 1 .. n : i = L + j
      /\ \A j \in 1 .. m : j \in 1 .. n
      /\ \A j \in 1 .. n : L + j \in 1 .. L + n /\ (j \in 1 .. m \/ (j = m + 1 /\ n = m + 1))
  <2>1. \A i \in 1 .. L + n : i \in 1 .. L \/ (i - L \in 1 .. n /\ i = L + (i - L))
    BY <1>2, <1>3
  <2>2. /\ \A i \in 1 .. L : i \in 1 .. L + n
        /\ \A j \in 1 .. n : L + j \in 1 .. L + n
    BY <1>2, <1>3
  <2>3. /\ \A j \in 1 .. m : j \in 1 .. n
        /\ \A j \in 1 .. n : j \in 1 .. m \/ (j = m + 1 /\ n = m + 1)
    BY <1>1, <1>2
  <2> QED BY <2>1, <2>2, <2>3
<1>9. /\ \A v : /\ Counted("payload", c, v).kind = "payload" /\ Counted("payload", c, v).n = v
               /\ Counted("payload", c, v).call = c
      /\ EndOk(c).kind = "end" /\ EndError(c).kind = "end" /\ EndOk(c) # EndError(c)
  BY DEF EndOk, EndError, Counted
<1>10. /\ \A j \in 1 .. m : j # k => IsPayload(s[j], c) /\ s[j].n = Handed(d) + j
       /\ ~IsPayload(s[k], c) /\ (n = m + 1 => ~IsPayload(s[m + 1], c))
       /\ \A j \in 1 .. m : s[j] # EndOk(c)
  <2>1. /\ \A j \in 1 .. m : j # k => IsPayload(s[j], c) /\ s[j].n = Handed(d) + j
        /\ \A j \in 1 .. m : j # k => s[j].kind = "payload"
    BY <1>1, <1>9 DEF IsPayload
  <2>2. ~IsPayload(s[k], c) /\ (n = m + 1 => ~IsPayload(s[m + 1], c))
    BY <1>1, <1>2, <1>9 DEF IsPayload
  <2>3. \A j \in 1 .. m : s[j] # EndOk(c)
    BY <1>1, <1>9, <2>1
  <2> QED BY <2>1, <2>2, <2>3
<1>11. \A i \in Paid(q, c) : i \in 1 .. L /\ i \in Paid(r, c) /\ r[i] = q[i]
  BY <1>5, <1>8 DEF Paid
<1>12. \A j \in 1 .. m : j # k => L + j \in Paid(r, c) /\ r[L + j].n = Handed(d) + j
  BY <1>5, <1>7, <1>8, <1>10 DEF Paid
<1>13. ASSUME NEW i \in Paid(r, c)
       PROVE  i \in Paid(q, c) \/ \E j \in 1 .. m : j # k /\ i = L + j
  <2>1. i \in 1 .. L + n /\ IsPayload(r[i], c)
    BY <1>5 DEF Paid
  <2>2. CASE i \in 1 .. L
    BY <1>5, <2>1, <2>2 DEF Paid
  <2>3. ASSUME NEW j \in 1 .. n, i = L + j PROVE j \in 1 .. m /\ j # k
    BY <1>7, <1>8, <1>10, <2>1, <2>3
  <2> QED BY <1>8, <2>1, <2>2, <2>3
<1>14. ASSUME NEW i \in Finals(r, c)
       PROVE  i \in Finals(q, c) \/ (i = L + (m + 1) /\ Len(s) = m + 1)
  <2>1. i \in 1 .. L + n /\ r[i] = EndOk(c)
    BY <1>5 DEF Finals
  <2>2. CASE i \in 1 .. L
    BY <1>5, <2>1, <2>2 DEF Finals
  <2>3. ASSUME NEW j \in 1 .. n, i = L + j PROVE i = L + (m + 1) /\ Len(s) = m + 1
    <3>1. s[j] = EndOk(c)
      BY <1>7, <2>1, <2>3
    <3>2. j \notin 1 .. m
      BY <1>10, <3>1
    <3> QED BY <1>2, <1>8, <2>3, <3>2
  <2> QED BY <1>8, <2>1, <2>2, <2>3
<1>15. \A i \in Faults(q, c) : i \in Faults(r, c)
  BY <1>5, <1>8 DEF Faults
<1>16. L + k \in Faults(r, c)
  BY <1>1, <1>5, <1>7, <1>8 DEF Faults
<1> QED BY <1>1, <1>3, <1>11, <1>12, <1>13, <1>14, <1>15, <1>16 DEF Breaks

(* Such a call has no hole before the error, and no end before it.            *)
LEMMA TearsResponses ==
    ASSUME NEW q \in Seq(FrameType), NEW c \in Call, NEW k, NEW d, NEW s, NEW m, NEW f,
           DaemonOK(d, c), Tears(d, s, m, f, c), Received(k) \in Nat,
           ResponsesOK(q, k, d, c)
    PROVE  ResponsesOK(q \o s, k, TornOf(d), c)
<1>1. PICK L, r, d2 : L = Len(q) /\ r = q \o s /\ d2 = TornOf(d)
  OBVIOUS
<1>2. /\ L \in Nat /\ m \in Nat /\ f \in 1 .. m
      /\ \A i \in Paid(q, c) : i \in 1 .. L /\ i \in Paid(r, c) /\ r[i] = q[i]
      /\ \A j \in 1 .. m : j # f => L + j \in Paid(r, c) /\ r[L + j].n = Handed(d) + j
      /\ \A i \in Paid(r, c) : i \in Paid(q, c) \/ \E j \in 1 .. m : j # f /\ i = L + j
      /\ \A i \in Finals(r, c) : i \in Finals(q, c) \/ (i = L + (m + 1) /\ Len(s) = m + 1)
      /\ L + f \in Faults(r, c)
      /\ \A i : Ahead(r, i, c) => Ahead(q, i, c)
  <2>1. Breaks(q, r, s, m, f, Handed(d), L, c)
    BY <1>1, TearsMore
  <2> QED BY <2>1 DEF Breaks, Ahead
<1>3. PICK h, h2 : h = Handed(d) /\ h2 = Handed(d2)
  OBVIOUS
<1>4. /\ h \in Nat /\ h2 \in Nat /\ h + m <= h2 /\ d2.st = "gone" /\ d.st # "gone"
      /\ Len(s) = m + 1 => d2.complete
  <2>1. h \in Nat /\ d.emitted \in Nat
    BY <1>3, DaemonFields
  <2>2. /\ h + m <= d.emitted /\ (Len(s) = m + 1 => d.complete)
        /\ d.st \in {"receiving", "running"}
    BY <1>3 DEF Tears
  <2>3. h2 = d.emitted /\ d2.st = "gone" /\ d2.complete = d.complete
    BY <1>1, <1>3, <2>2, TornRecord
  <2> QED BY <2>1, <2>2, <2>3
<1>5. QueueOK(q, d, c) /\ ReadOK(k, d, c)
  BY DEF ResponsesOK
<1>6. Finals(q, c) = {}
  BY <1>4, <1>5 DEF QueueOK
<1>7. \A i \in Paid(q, c) : i \in Nat /\ q[i].n \in Nat /\ q[i].n > 0 /\ q[i].n <= h
  <2>1. \A i \in 1 .. L : q[i] \in FrameType /\ i \in Nat
    BY <1>1, <1>2, ElementOfSeq
  <2>2. \A i \in 1 .. L : q[i].n \in Nat
    BY <2>1 DEF FrameType
  <2> QED BY <1>2, <1>3, <1>5, <2>1, <2>2 DEF QueueOK
<1>8. QueueOK(r, d2, c)
  <2>1. ASSUME NEW i \in Paid(r, c) PROVE r[i].n > 0 /\ r[i].n <= h2
    <3>1. CASE i \in Paid(q, c)
      <4>1. r[i].n = q[i].n /\ q[i].n \in Nat /\ q[i].n > 0 /\ q[i].n <= h
        BY <1>2, <1>7, <3>1
      <4> QED BY <1>2, <1>4, <4>1
    <3>2. ASSUME NEW j \in 1 .. m, j # f, i = L + j PROVE r[i].n > 0 /\ r[i].n <= h2
      <4>1. r[i].n = h + j
        BY <1>2, <1>3, <3>2
      <4> QED BY <1>2, <1>4, <4>1
    <3> QED BY <1>2, <3>1, <3>2
  <2>2. ASSUME NEW i \in Paid(r, c), NEW j \in Paid(r, c), i < j PROVE r[i].n < r[j].n
    <3>1. CASE i \in Paid(q, c) /\ j \in Paid(q, c)
      BY <1>2, <1>5, <2>2, <3>1 DEF QueueOK
    <3>2. ASSUME i \in Paid(q, c), NEW v \in 1 .. m, v # f, j = L + v PROVE r[i].n < r[j].n
      <4>1. r[j].n = h + v /\ r[i].n \in Nat /\ r[i].n <= h
        BY <1>2, <1>3, <1>7, <3>2
      <4> QED BY <1>2, <1>4, <4>1
    <3>3. ASSUME NEW u \in 1 .. m, i = L + u, j \in Paid(q, c) PROVE FALSE
      <4>1. j \in 1 .. L
        BY <1>2, <3>3
      <4> QED BY <1>2, <2>2, <3>3, <4>1
    <3>4. ASSUME NEW u \in 1 .. m, u # f, i = L + u, NEW v \in 1 .. m, v # f, j = L + v
          PROVE  r[i].n < r[j].n
      <4>1. r[i].n = h + u /\ r[j].n = h + v
        BY <1>2, <1>3, <3>4
      <4>2. u < v
        BY <1>2, <2>2, <3>4
      <4> QED BY <1>2, <1>4, <4>1, <4>2
    <3> QED BY <1>2, <3>1, <3>2, <3>3, <3>4
  <2>3. ASSUME NEW i \in Finals(r, c)
        PROVE  d2.st = "gone" /\ d2.complete /\ \A j \in Paid(r, c) : j < i
    <3>1. i = L + (m + 1) /\ Len(s) = m + 1
      BY <1>2, <1>6
    <3>2. ASSUME NEW j \in Paid(r, c) PROVE j < i
      <4>1. \A v \in 1 .. L : v < L + (m + 1)
        BY <1>2
      <4>2. \A v \in 1 .. m : L + v < L + (m + 1)
        BY <1>2
      <4> QED BY <1>2, <3>1, <4>1, <4>2
    <3> QED BY <1>4, <3>1, <3>2
  <2> QED BY <1>3, <2>1, <2>2, <2>3 DEF QueueOK
<1>9. ReadOK(k, d2, c)
  BY <1>4, <1>5 DEF ReadOK
<1>10. ASSUME k.st = "live" PROVE LiveOK(r, Received(k), d2, c)
  <2>1. PICK lo \in Nat : lo = Received(k)
    OBVIOUS
  <2>2. LiveOK(q, lo, d, c)
    BY <1>10, <2>1 DEF ResponsesOK
  <2>3. lo <= h
    BY <1>3, <2>2 DEF LiveOK
  <2>4. lo <= h2
    BY <1>2, <1>4, <2>3
  <2>5. h = lo \/ \E i \in Paid(q, c) : q[i].n = h
    BY <1>3, <1>4, <2>2 DEF LiveOK
  <2>6. ASSUME NEW i \in Paid(r, c), Ahead(r, i, c)
        PROVE  /\ r[i].n > lo
               /\ r[i].n = lo + 1 \/ \E j \in Paid(r, c) : j < i /\ r[i].n = r[j].n + 1
    <3>1. CASE i \in Paid(q, c)
      <4>1. /\ q[i].n > lo
            /\ q[i].n = lo + 1 \/ \E j \in Paid(q, c) : j < i /\ q[i].n = q[j].n + 1
        BY <1>2, <2>2, <2>6, <3>1 DEF LiveOK
      <4> QED BY <1>2, <3>1, <4>1
    <3>2. ASSUME NEW j \in 1 .. m, j # f, i = L + j
          PROVE  /\ r[i].n > lo
                 /\ r[i].n = lo + 1 \/ \E v \in Paid(r, c) : v < i /\ r[i].n = r[v].n + 1
      <4>1. r[i].n = h + j
        BY <1>2, <1>3, <3>2
      <4>2. j \in Nat /\ j > 0 /\ j < f
        <5>1. L + j < L + f
          BY <1>2, <2>6, <3>2 DEF Ahead
        <5> QED BY <1>2, <5>1
      <4>3. h + j > lo
        BY <1>4, <2>3, <4>2
      <4>4. CASE j = 1
        <5>1. CASE h = lo
          BY <4>1, <4>3, <4>4, <5>1
        <5>2. ASSUME NEW v \in Paid(q, c), q[v].n = h
              PROVE  v \in Paid(r, c) /\ v < i /\ r[i].n = r[v].n + 1
          <6>1. v \in 1 .. L /\ v \in Paid(r, c) /\ r[v].n = h
            BY <1>2, <5>2
          <6> QED BY <1>2, <3>2, <4>1, <4>4, <6>1
        <5> QED BY <2>5, <4>1, <4>3, <5>1, <5>2
      <4>5. CASE j # 1
        <5>1. /\ j - 1 \in 1 .. m /\ j - 1 # f
              /\ h + j = (h + (j - 1)) + 1 /\ L + (j - 1) < L + j
          BY <1>2, <1>4, <4>2, <4>5
        <5>2. L + (j - 1) \in Paid(r, c) /\ r[L + (j - 1)].n = h + (j - 1)
          BY <1>2, <1>3, <5>1
        <5> QED BY <3>2, <4>1, <4>3, <5>1, <5>2
      <4> QED BY <4>4, <4>5
    <3> QED BY <1>2, <3>1, <3>2
  <2>7. ASSUME NEW i \in Finals(r, c), Ahead(r, i, c) PROVE FALSE
    <3>1. i = L + (m + 1)
      BY <1>2, <1>6
    <3>2. L + (m + 1) < L + f
      BY <1>2, <2>7, <3>1 DEF Ahead
    <3> QED BY <1>2, <3>2
  <2> QED BY <1>3, <1>4, <2>1, <2>4, <2>6, <2>7 DEF LiveOK
<1> QED BY <1>1, <1>8, <1>9, <1>10 DEF ResponsesOK

(* What a call has received counts its payloads.                              *)
LEMMA ReceivedNat ==
    ASSUME BooksInv, NEW c \in Call
    PROVE  /\ Received(client[c]) \in Nat /\ client[c].got \in Nat
           /\ client[c].buffered \in Seq(1 .. MaxItems)
<1>1. /\ client[c].got \in 0 .. MaxItems /\ client[c].buffered \in Seq(1 .. MaxItems)
  BY CallRecords DEF ClientCall
<1>2. Len(client[c].buffered) \in Nat /\ client[c].got \in Nat
  BY <1>1, LenProperties, PeerConstants
<1> QED BY <1>1, <1>2 DEF Received

(* A call that is given up has nothing to read.                               *)
LEMMA CutResponses ==
    ASSUME NEW q, NEW k, NEW d, NEW c, QueueOK(q, d, c),
           k.st = "done", k.end = "cut", k.buffered = <<>>
    PROVE  ResponsesOK(q, k, d, c)
<1>1. \A i \in 1 .. Len(k.buffered) : FALSE
  OBVIOUS
<1> QED BY <1>1 DEF ResponsesOK, ReadOK

(* take as the record it leaves.                                              *)
LEMMA TakeRecord ==
    ASSUME BooksInv, NEW c \in Call, NEW end, Take(c, end)
    PROVE  /\ client'[c].st = "done" /\ client'[c].end = end /\ client'[c].buffered = <<>>
           /\ client'[c].got = client[c].got
BY DEF Take, BooksInv, ClientCall

(* The calls as the responses see them.                                       *)
LEMMA ResponseFacts ==
    ASSUME BooksInv, StartInv, ResponsesInv, NEW c \in Call
    PROVE  /\ toClient \in Seq(FrameType) /\ QueueOK(toClient, daemon[c], c)
           /\ ReadOK(client[c], daemon[c], c) /\ DaemonOK(daemon[c], c)
           /\ client[c].st = "live" => LiveOK(toClient, Received(client[c]), daemon[c], c)
BY DEF StartInv, LinkInv, ResponsesInv, ResponsesOK

(* A call that starts has received nothing, and nothing is under way to it.   *)
LEMMA StartResponses ==
    ASSUME BooksInv, StartInv, ResponsesInv, NEW c \in Call, Start(c)
    PROVE  ResponsesOK(toClient', client'[c], daemon[c], c)
<1>1. PICK q, k, d : q = toClient /\ k = client'[c] /\ d = daemon[c]
  OBVIOUS
<1>2. toClient' = q
  BY <1>1 DEF Start
<1>3. QueueOK(q, d, c) /\ q \in Seq(FrameType)
  BY <1>1, ResponseFacts
<1>4. client[c] = NewClient /\ client[c] \in ClientCall
  BY CallRecords DEF Start, ClientOK
<1>5. k.st = "live" /\ k.got = 0 /\ k.buffered = <<>> /\ k.end = "none"
  <2>1. k = [NewClient EXCEPT !.st = "live"]
    BY <1>1, <1>4 DEF Start, BooksInv
  <2> QED BY <2>1 DEF NewClient
<1>6. d = NewDaemon
  <2>1. d.st = "absent" /\ DaemonOK(d, c)
    BY <1>1 DEF StartInv, StartOK, Start
  <2> QED BY <2>1 DEF DaemonOK
<1>7. Handed(d) = 0 /\ d.st = "absent"
  <2>1. d.emitted = 0 /\ d.held = <<>> /\ d.st = "absent"
    BY <1>6 DEF NewDaemon
  <2>2. Len(d.held) = 0
    BY <2>1
  <2>3. Handed(d) = 0 - 0
    BY <2>1, <2>2 DEF Handed
  <2> QED BY <2>1, <2>3
<1>8. Paid(q, c) = {}
  <2> SUFFICES ASSUME NEW i \in Paid(q, c) PROVE FALSE
    OBVIOUS
  <2>1. i \in 1 .. Len(q)
    BY DEF Paid
  <2>2. q[i] \in FrameType
    BY <1>3, <2>1, ElementOfSeq
  <2>3. q[i].n \in Nat
    BY <2>2 DEF FrameType
  <2>4. q[i].n > 0 /\ q[i].n <= 0
    BY <1>3, <1>7 DEF QueueOK
  <2> QED BY <2>3, <2>4
<1>9. Received(k) = 0 /\ \A i \in 1 .. Len(k.buffered) : FALSE
  BY <1>5 DEF Received
<1>10. ReadOK(k, d, c)
  BY <1>5, <1>9 DEF ReadOK
<1>11. LiveOK(q, 0, d, c)
  BY <1>7, <1>8 DEF LiveOK
<1> QED BY <1>1, <1>2, <1>3, <1>9, <1>10, <1>11 DEF ResponsesOK

(* A caller that reads moves a payload from what waits to what was read; the  *)
(* last one of a stream that has ended completes it.                          *)
LEMMA ReadResponses ==
    ASSUME BooksInv, StartInv, ResponsesInv, NEW c \in Call, Read(c)
    PROVE  ResponsesOK(toClient', client'[c], daemon[c], c)
<1>1. PICK q, k, d : q = toClient /\ k = client[c] /\ d = daemon[c]
  OBVIOUS
<1>2. toClient' = q /\ c \notin Unary /\ k.st \in {"live", "ended"} /\ k.buffered # <<>>
  BY <1>1 DEF Read
<1>3. /\ QueueOK(q, d, c) /\ ReadOK(k, d, c)
      /\ k.st = "live" => LiveOK(q, Received(k), d, c)
  BY <1>1, ResponseFacts
<1>4. k \in ClientCall /\ k.got \in Nat /\ k.buffered \in Seq(1 .. MaxItems)
  BY <1>1, CallRecords, ReceivedNat
<1>5. PICK h, t, n, g : /\ h = Head(k.buffered) /\ t = Tail(k.buffered)
                        /\ n = Len(k.buffered) /\ g = k.got
  OBVIOUS
<1>6. /\ n \in Nat /\ n # 0 /\ g \in Nat /\ Len(t) = n - 1 /\ h = k.buffered[1]
      /\ \A i \in 1 .. n - 1 : t[i] = k.buffered[i + 1]
  <2>1. n \in Nat /\ n # 0
    BY <1>2, <1>4, <1>5, LenProperties, EmptySeq
  <2>2. Len(t) = n - 1 /\ \A i \in 1 .. n - 1 : t[i] = k.buffered[i + 1]
    BY <1>2, <1>4, <1>5, HeadTailProperties
  <2> QED BY <1>4, <1>5, <2>1, <2>2
<1>7. h = g + 1 /\ \A i \in 1 .. Len(t) : t[i] = h + i
  <2>1. \A i \in 1 .. n : k.buffered[i] = g + i
    BY <1>3, <1>5 DEF ReadOK
  <2>2. 1 \in 1 .. n /\ \A i \in 1 .. n - 1 : i + 1 \in 1 .. n /\ g + (i + 1) = (g + 1) + i
    BY <1>6
  <2> QED BY <1>6, <2>1, <2>2
<1>8. h + Len(t) = Received(k) /\ (t = <<>> => h = Received(k))
  <2>1. Received(k) = g + n
    BY <1>5 DEF Received
  <2>2. t = <<>> => Len(t) = 0
    OBVIOUS
  <2> QED BY <1>6, <1>7, <2>1, <2>2
<1>9. PICK r : r = [k EXCEPT !.got = h, !.buffered = t]
  OBVIOUS
<1>10. /\ r.st = k.st /\ r.end = k.end /\ r.buffered = t /\ r.got = h
       /\ DOMAIN r = {"st", "end", "buffered", "credit", "got"}
  BY <1>4, <1>9 DEF ClientCall
<1>11. k.end # "complete"
  BY <1>2, <1>3 DEF ReadOK
<1>12. CASE k.st = "live"
  <2>1. PICK k2 : k2 = [r EXCEPT !.credit = r.credit + 1]
    OBVIOUS
  <2>2. k2.st = "live" /\ k2.end # "complete" /\ k2.buffered = t /\ k2.got = h
    BY <1>10, <1>11, <1>12, <2>1
  <2>3. client'[c] = k2
    BY <1>1, <1>5, <1>9, <1>12, <2>1 DEF Read, BooksInv
  <2>4. Received(k2) = Received(k)
    BY <1>8, <2>2 DEF Received
  <2>5. ReadOK(k2, d, c)
    BY <1>7, <2>2 DEF ReadOK
  <2> QED BY <1>1, <1>2, <1>3, <1>12, <2>3, <2>4, <2>5 DEF ResponsesOK
<1>13. CASE k.st = "ended" /\ t = <<>>
  <2>1. PICK k2 : k2 = [r EXCEPT !.st = "done", !.end = "complete"]
    OBVIOUS
  <2>2. k2.st = "done" /\ k2.buffered = t /\ k2.got = h
    BY <1>10, <2>1
  <2>3. client'[c] = k2
    BY <1>1, <1>5, <1>9, <1>10, <1>13, <2>1 DEF Read, BooksInv
  <2>4. ReadOK(k2, d, c)
    BY <1>3, <1>7, <1>8, <1>13, <2>2 DEF ReadOK
  <2> QED BY <1>1, <1>2, <1>3, <2>2, <2>3, <2>4 DEF ResponsesOK
<1>14. CASE k.st = "ended" /\ t # <<>>
  <2>1. client'[c] = r
    BY <1>1, <1>5, <1>9, <1>10, <1>14 DEF Read, BooksInv
  <2>2. Received(r) = Received(k)
    BY <1>8, <1>10 DEF Received
  <2>3. ReadOK(r, d, c)
    BY <1>3, <1>7, <1>10, <1>11, <1>14, <2>2 DEF ReadOK
  <2> QED BY <1>1, <1>2, <1>3, <1>10, <1>14, <2>1, <2>3 DEF ResponsesOK
<1> QED BY <1>2, <1>12, <1>13, <1>14

(* A call that is cancelled.                                                  *)
LEMMA CancelResponses ==
    ASSUME BooksInv, NEW c \in Call, NEW q, NEW d, QueueOK(q, d, c),
           Take(c, "cut") \/ \E queue : CancelAfter(c, queue)
    PROVE  ResponsesOK(q, client'[c], d, c)
<1>1. Take(c, "cut")
  BY DEF CancelAfter
<1>2. client'[c].st = "done" /\ client'[c].end = "cut" /\ client'[c].buffered = <<>>
  BY <1>1, TakeRecord
<1> QED BY <1>2, CutResponses

(* What callers do.                                                           *)
LEMMA CallerResponses ==
    ASSUME BooksInv, StartInv, ResponsesInv, NEW c \in Call, Caller(c)
    PROVE  ResponsesOK(toClient', client'[c], daemon[c], c)
<1>1. QueueOK(toClient, daemon[c], c) /\ ResponsesOK(toClient, client[c], daemon[c], c)
  BY ResponseFacts DEF ResponsesInv
<1>2. toClient' = toClient
  BY CallerStep DEF StartInv
<1>3. CASE Start(c) \/ Read(c)
  BY <1>3, StartResponses, ReadResponses
<1>4. CASE StartRefused(c)
  <2>1. client[c] = NewClient
    BY <1>4, CallRecords DEF StartRefused, ClientOK
  <2>2. client'[c] = [NewClient EXCEPT !.st = "done", !.end = "cut"]
    BY <1>4, <2>1 DEF StartRefused, BooksInv
  <2>3. client'[c].st = "done" /\ client'[c].end = "cut" /\ client'[c].buffered = <<>>
    BY <2>2 DEF NewClient
  <2> QED BY <1>1, <1>2, <2>3, CutResponses
<1>5. CASE Take(c, "cut") \/ \E queue : CancelAfter(c, queue)
  BY <1>1, <1>2, <1>5, CancelResponses
<1>6. CASE client' = client
  BY <1>1, <1>2, <1>6
<1>7. CASE Cancel(c) \/ Return(c)
  BY <1>5, <1>7 DEF Cancel, Return
<1>8. CASE DuplexSend(c) \/ DuplexFlush(c) \/ DuplexFlushFails(c) \/ DuplexEnd(c)
  BY <1>5, <1>6, <1>8 DEF DuplexSend, DuplexFlush, DuplexFlushFails, DuplexEnd
<1> QED BY <1>3, <1>4, <1>7, <1>8 DEF Caller

(* A payload that arrives is the next one.                                    *)
LEMMA PayloadResponses ==
    ASSUME BooksInv, StartInv, ResponsesInv, NEW c \in Call, ReceivePayload(c)
    PROVE  ResponsesOK(toClient', client'[c], daemon[c], c)
<1>1. PICK q, k, d : q = toClient /\ k = client[c] /\ d = daemon[c]
  OBVIOUS
<1>2. /\ q \in Seq(FrameType) /\ QueueOK(q, d, c) /\ ReadOK(k, d, c) /\ DaemonOK(d, c)
      /\ k.st = "live" => LiveOK(q, Received(k), d, c)
  BY <1>1, ResponseFacts
<1>3. PICK n \in 1 .. MaxItems :
        /\ Accepts(Counted("payload", c, n))
        /\ \/ client[c].st = "done" /\ client' = client
           \/ CancelAfter(c, outbox)
           \/ /\ client[c].st = "live"
              /\ client' = [client EXCEPT ![c].buffered = Append(@, n), ![c].credit = @ - 1]
  BY DEF ReceivePayload, callVars
<1>4. /\ q # <<>> /\ Head(q) = Counted("payload", c, n) /\ toClient' = Tail(q)
  BY <1>1, <1>3 DEF Accepts, ClientReads
<1>5. QueueOK(Tail(q), d, c)
  BY <1>2, <1>4, QueueTail
<1>6. CASE client[c].st = "done" /\ client' = client
  BY <1>1, <1>2, <1>4, <1>5, <1>6 DEF ResponsesOK
<1>7. CASE CancelAfter(c, outbox)
  BY <1>1, <1>4, <1>5, <1>7, CancelResponses
<1>8. CASE /\ client[c].st = "live"
           /\ client' = [client EXCEPT ![c].buffered = Append(@, n), ![c].credit = @ - 1]
  <2>1. k \in ClientCall /\ Received(k) \in Nat /\ k.got \in Nat
    BY <1>1, CallRecords, ReceivedNat
  <2>2. PICK lo, g, m : lo = Received(k) /\ g = k.got /\ m = Len(k.buffered)
    OBVIOUS
  <2>3. lo = g + m /\ lo \in Nat /\ g \in Nat /\ m \in Nat
    <3>1. k.buffered \in Seq(1 .. MaxItems)
      BY <2>1 DEF ClientCall
    <3> QED BY <2>1, <2>2, <3>1, LenProperties DEF Received
  <2>4. IsPayload(Head(q), c) /\ Head(q).n = n
    BY <1>4 DEF IsPayload, Counted
  <2>5. n = lo + 1 /\ LiveOK(Tail(q), lo + 1, d, c)
    <3>1. Handed(d) \in Nat
      BY <1>2, DaemonFields
    <3>2. LiveOK(q, lo, d, c)
      BY <1>1, <1>2, <1>8, <2>2
    <3> QED BY <1>2, <1>4, <2>3, <2>4, <3>1, <3>2, LivePayload
  <2>6. PICK k2 : k2 = client'[c]
    OBVIOUS
  <2>7. /\ k2.st = "live" /\ k2.end = k.end /\ k2.got = g /\ k2.buffered = Append(k.buffered, n)
    BY <1>1, <1>8, <2>1, <2>2, <2>6 DEF BooksInv, ClientCall
  <2>8. /\ Len(k2.buffered) = m + 1 /\ k2.buffered[m + 1] = n
        /\ \A i \in 1 .. m : k2.buffered[i] = k.buffered[i]
    <3>1. k.buffered \in Seq(1 .. MaxItems)
      BY <2>1 DEF ClientCall
    <3> QED BY <2>2, <2>7, <3>1, AppendProperties
  <2>9. Received(k2) = lo + 1
    BY <2>3, <2>7, <2>8 DEF Received
  <2>10. \A i \in 1 .. Len(k2.buffered) : k2.buffered[i] = k2.got + i
    <3>1. \A i \in 1 .. m : k.buffered[i] = g + i
      BY <1>2, <2>2 DEF ReadOK
    <3>2. \A i \in 1 .. m + 1 : i \in 1 .. m \/ i = m + 1
      BY <2>3
    <3>3. n = g + (m + 1)
      BY <2>3, <2>5
    <3> QED BY <2>7, <2>8, <3>1, <3>2, <3>3
  <2>11. ReadOK(k2, d, c)
    <3>1. k.end # "complete"
      BY <1>1, <1>2, <1>8 DEF ReadOK
    <3> QED BY <2>7, <2>10, <3>1 DEF ReadOK
  <2> QED BY <1>1, <1>4, <1>5, <2>5, <2>6, <2>9, <2>11 DEF ResponsesOK
<1> QED BY <1>3, <1>6, <1>7, <1>8

(* The end of a call that went well arrives behind its last payload.          *)
LEMMA EndResponses ==
    ASSUME BooksInv, StartInv, ResponsesInv, NEW c \in Call, ReceiveEnd(c)
    PROVE  ResponsesOK(toClient', client'[c], daemon[c], c)
<1>1. PICK q, k, d : q = toClient /\ k = client[c] /\ d = daemon[c]
  OBVIOUS
<1>2. /\ q \in Seq(FrameType) /\ QueueOK(q, d, c) /\ ReadOK(k, d, c) /\ DaemonOK(d, c)
      /\ k.st = "live" => LiveOK(q, Received(k), d, c)
  BY <1>1, ResponseFacts
<1>3. /\ q # <<>> /\ Head(q) = EndOk(c) /\ toClient' = Tail(q)
  BY <1>1 DEF ReceiveEnd, Accepts, ClientReads, EndOk
<1>4. QueueOK(Tail(q), d, c)
  BY <1>2, <1>3, QueueTail
<1>5. Paid(q, c) = {} /\ Finals(q, c) # {} /\ d.st = "gone" /\ d.complete
  <2>1. 1 \in Finals(q, c) /\ \A i \in Paid(q, c) : i \in Nat
    BY <1>2, <1>3, PaidTail
  <2>2. \A i \in Paid(q, c) : i \in 1 .. Len(q)
    BY DEF Paid
  <2>3. Len(q) \in Nat
    BY <1>2, LenProperties
  <2>4. \A i \in 1 .. Len(q) : ~(i < 1)
    BY <2>3
  <2>5. \A i \in Paid(q, c) : i < 1
    BY <1>2, <2>1 DEF QueueOK
  <2>6. Paid(q, c) = {}
    BY <2>2, <2>4, <2>5
  <2> QED BY <1>2, <2>1, <2>6 DEF QueueOK
<1>6. k.st = "live" => Received(k) = d.emitted
  <2> SUFFICES ASSUME k.st = "live" PROVE Received(k) = d.emitted
    OBVIOUS
  <2>4. 1 \in Finals(q, c) /\ Ahead(q, 1, c)
    <3>1. Head(q) # EndError(c)
      BY <1>3 DEF EndOk, EndError, Counted
    <3> QED BY <1>2, <1>3, <3>1, PaidTail, AheadTail
  <2>1. Handed(d) = Received(k)
    BY <1>2, <1>5, <2>4 DEF LiveOK
  <2>2. d.held = <<>> /\ d.emitted \in Nat
    BY <1>2, <1>5, DaemonFields DEF DaemonOK
  <2>3. Handed(d) = d.emitted - 0
    BY <2>2 DEF Handed
  <2> QED BY <2>1, <2>2, <2>3
<1>7. ASSUME NEW end, Take(c, end), k.st = "live",
             end = "complete" /\ c \notin Unary => k.buffered = <<>>
      PROVE  ResponsesOK(toClient', client'[c], d, c)
  <2>1. PICK k2 : k2 = client'[c]
    OBVIOUS
  <2>2. k2.st = "done" /\ k2.end = end /\ k2.buffered = <<>> /\ k2.got = k.got
    BY <1>1, <1>7, <2>1, TakeRecord
  <2>3. \A i \in 1 .. Len(k2.buffered) : FALSE
    BY <2>2
  <2>4. k.buffered = <<>> => k.got = Received(k)
    <3>1. k.got \in Nat
      BY <1>1, ReceivedNat
    <3> QED BY <3>1 DEF Received
  <2>5. ReadOK(k2, d, c)
    BY <1>5, <1>6, <1>7, <2>2, <2>3, <2>4 DEF ReadOK
  <2> QED BY <1>3, <1>4, <2>1, <2>2, <2>5 DEF ResponsesOK
<1>8. CASE client' = client /\ k.st = "done"
  BY <1>1, <1>2, <1>3, <1>4, <1>8 DEF ResponsesOK
<1>9. CASE c \in Unary /\ k.st = "live" /\ \E end : Take(c, end)
  BY <1>1, <1>7, <1>9
<1>10. CASE c \notin Unary /\ k.st = "live" /\ Drained(c) /\ Take(c, "complete")
  BY <1>1, <1>7, <1>10 DEF Drained
<1>11. CASE c \notin Unary /\ k.st = "live" /\ client' = [client EXCEPT ![c].st = "ended"]
  <2>1. PICK k2 : k2 = client'[c]
    OBVIOUS
  <2>2. k2.st = "ended" /\ k2.end = k.end /\ k2.buffered = k.buffered /\ k2.got = k.got
    BY <1>1, <1>11, <2>1 DEF BooksInv, ClientCall
  <2>3. Received(k2) = d.emitted
    BY <1>6, <1>11, <2>2 DEF Received
  <2>4. k.end # "complete"
    BY <1>2, <1>11 DEF ReadOK
  <2>5. ReadOK(k2, d, c)
    BY <1>2, <1>5, <1>11, <2>2, <2>3, <2>4 DEF ReadOK
  <2> QED BY <1>1, <1>3, <1>4, <2>1, <2>2, <2>5 DEF ResponsesOK
<1> QED BY <1>1, <1>8, <1>9, <1>10, <1>11 DEF ReceiveEnd, callVars

(* An error and credit change nothing of what was received.                   *)
LEMMA OtherResponses ==
    ASSUME BooksInv, StartInv, ResponsesInv, NEW c \in Call,
           ReceiveFailure(c) \/ ReceiveInputCredit(c)
    PROVE  ResponsesOK(toClient', client'[c], daemon[c], c)
<1>1. PICK q, k, d : q = toClient /\ k = client[c] /\ d = daemon[c]
  OBVIOUS
<1>2. /\ q \in Seq(FrameType) /\ QueueOK(q, d, c) /\ ReadOK(k, d, c)
      /\ k.st = "live" => LiveOK(q, Received(k), d, c)
  BY <1>1, ResponseFacts
<1>3. /\ q # <<>> /\ Head(q).kind # "payload" /\ toClient' = Tail(q)
  BY <1>1 DEF ReceiveFailure, ReceiveInputCredit, Accepts, ClientReads, Counted
<1>4. QueueOK(Tail(q), d, c)
  BY <1>2, <1>3, QueueTail
<1>5. ASSUME ReceiveInputCredit(c), k.st = "live"
      PROVE  LiveOK(Tail(q), Received(k), d, c)
  <2>1. Received(k) \in Nat
    BY <1>1, ReceivedNat
  <2>2. ~IsPayload(Head(q), c) /\ Head(q) # EndError(c)
    BY <1>1, <1>5 DEF ReceiveInputCredit, Accepts, ClientReads, IsPayload, EndError, Counted
  <2> QED BY <1>2, <1>3, <1>5, <2>1, <2>2, LiveTail
<1>6. CASE client' = client /\ (ReceiveInputCredit(c) \/ k.st # "live")
  BY <1>1, <1>2, <1>3, <1>4, <1>5, <1>6 DEF ResponsesOK
<1>7. CASE Take(c, "cut")
  BY <1>1, <1>3, <1>4, <1>7, CancelResponses
<1>8. CASE ReceiveFailure(c)
  BY <1>1, <1>6, <1>7, <1>8 DEF ReceiveFailure, Pending, callVars
<1>9. CASE ReceiveInputCredit(c)
  BY <1>6, <1>9 DEF ReceiveInputCredit
<1> QED BY <1>8, <1>9

(* Nothing was sent.                                                          *)
LEMMA InitResponses == Init => ResponsesInv
<1> SUFFICES ASSUME Init, NEW c \in Call
             PROVE  ResponsesOK(toClient, client[c], daemon[c], c)
  BY DEF ResponsesInv
<1>1. toClient = <<>> /\ client[c] = NewClient
  BY DEF Init, LinkInit, PeerInit, PeerInitBut, NewClient
<1>2. Paid(<<>>, c) = {} /\ Finals(<<>>, c) = {}
  BY DEF Paid, Finals
<1>3. QueueOK(<<>>, daemon[c], c)
  BY <1>2 DEF QueueOK
<1>4. NewClient.st = "idle" /\ NewClient.end = "none" /\ NewClient.buffered = <<>>
  BY DEF NewClient
<1>5. \A i \in 1 .. Len(NewClient.buffered) : FALSE
  BY <1>4
<1> QED BY <1>1, <1>3, <1>4, <1>5 DEF ResponsesOK, ReadOK

(* A step of one call, and the same for the others.                           *)
LEMMA StepsResponses ==
    ASSUME BooksInv, StartInv, ResponsesInv, NEW a, StepOf(a),
           a \in Call => ResponsesOK(toClient', client'[a], daemon'[a], a)
    PROVE  ResponsesInv'
<1> SUFFICES ASSUME NEW c \in Call
             PROVE  ResponsesOK(toClient', client'[c], daemon'[c], c)
  BY DEF ResponsesInv
<1>1. CASE c = a
  BY <1>1
<1>2. CASE c # a
  <2>1. client'[c] = client[c] /\ daemon'[c] = daemon[c]
    BY <1>2 DEF StepOf, Others
  <2>2. PICK w : Reads(toClient, w, a) /\ Answers(w, toClient', a)
    BY DEF StepOf
  <2>3. PICK q, r, k, d : q = toClient /\ r = toClient' /\ k = client[c] /\ d = daemon[c]
    OBVIOUS
  <2>4. q \in Seq(FrameType) /\ Received(k) \in Nat /\ ResponsesOK(q, k, d, c)
    BY <2>3, ResponseFacts, ReceivedNat DEF ResponsesInv
  <2>5. ResponsesOK(r, k, d, c)
    BY <1>2, <2>2, <2>3, <2>4, StepResponses
  <2> QED BY <2>1, <2>3, <2>5
<1> QED BY <1>1, <1>2

(* A connection that ends takes every frame and every pending call with it.   *)
LEMMA TerminateResponses ==
    ASSUME BooksInv, StartInv, ResponsesInv, NEW reason, Terminate(reason)
    PROVE  ResponsesInv'
<1> SUFFICES ASSUME NEW c \in Call
             PROVE  ResponsesOK(toClient', client'[c], daemon'[c], c)
  BY DEF ResponsesInv
<1>1. PICK k, d, d2 : k = client[c] /\ d = daemon[c] /\ d2 = daemon'[c]
  OBVIOUS
<1>2. toClient' = <<>> /\ Paid(<<>>, c) = {} /\ Finals(<<>>, c) = {}
  <2>1. Paid(<<>>, c) = {} /\ Finals(<<>>, c) = {}
    BY DEF Paid, Finals
  <2> QED BY <2>1 DEF Terminate, Down
<1>3. QueueOK(<<>>, d2, c)
  BY <1>2 DEF QueueOK
<1>4. CASE c \in Pending
  <2>1. client'[c] = [k EXCEPT !.st = "done", !.end = "cut", !.buffered = <<>>]
    BY <1>1, <1>4 DEF Terminate
  <2>2. k \in ClientCall
    BY <1>1, CallRecords
  <2>3. client'[c].st = "done" /\ client'[c].end = "cut" /\ client'[c].buffered = <<>>
    BY <2>1, <2>2 DEF ClientCall
  <2> QED BY <1>1, <1>2, <1>3, <2>3, CutResponses
<1>5. CASE c \notin Pending
  <2>1. client'[c] = k /\ k.st \notin {"live", "ended"}
    BY <1>1, <1>5 DEF Terminate, Pending
  <2>2. ReadOK(k, d, c)
    BY <1>1, ResponseFacts
  <2>3. d.st = "gone" => d2 = d
    BY <1>1 DEF Terminate, Active
  <2>4. ReadOK(k, d2, c)
    BY <2>1, <2>2, <2>3 DEF ReadOK
  <2> QED BY <1>1, <1>2, <1>3, <2>1, <2>4 DEF ResponsesOK
<1> QED BY <1>4, <1>5

(* Every step keeps the responses of every call in order.                     *)
LEMMA NextResponses ==
    BooksInv /\ StartInv /\ ResponsesInv /\ [Next]_vars => ResponsesInv'
<1> SUFFICES ASSUME BooksInv, StartInv, ResponsesInv, [Next]_vars PROVE ResponsesInv'
  OBVIOUS
<1>1. LinkInv
  BY DEF StartInv
<1>2. ASSUME NEW c \in Call, Caller(c) \/ ClientReceives(c) PROVE ResponsesInv'
  <2>1. StepOf(c) /\ daemon' = daemon
    BY <1>1, <1>2, CallerStepOf
  <2>2. ResponsesOK(toClient', client'[c], daemon[c], c)
    BY <1>2, CallerResponses, PayloadResponses, EndResponses, OtherResponses
       DEF ClientReceives
  <2> QED BY <2>1, <2>2, StepsResponses
<1>3. ASSUME NEW c \in Call, DaemonReceives(c) \/ Handler(c) PROVE ResponsesInv'
  <2>1. DaemonKnown(c) /\ (DaemonStart(c) => daemon[c].st = "absent")
    BY StartsOnce DEF StartInv, DaemonKnown
  <2>2. StepOf(c) /\ DaemonKeeps
    BY <1>1, <1>3, <2>1, DaemonStepOf
  <2>3. PICK d2, s, m : Turn(c, d2, s, m)
    BY <1>3, <2>1, DaemonStep
  <2>4. PICK q, k, d : q = toClient /\ k = client[c] /\ d = daemon[c]
    OBVIOUS
  <2>5. /\ q \in Seq(FrameType) /\ Received(k) \in Nat /\ ResponsesOK(q, k, d, c)
        /\ DaemonOK(d, c)
    BY <2>4, ResponseFacts, ReceivedNat DEF ResponsesInv
  <2>6. toClient' = q \o s /\ daemon'[c] = d2 /\ Moves(d, d2, s, m, c) /\ client'[c] = k
    BY <2>1, <2>2, <2>3, <2>4 DEF Turn, DaemonKnown, DaemonKeeps, callVars
  <2>7. ResponsesOK(q \o s, k, d2, c)
    BY <2>5, <2>6, TurnResponses
  <2> QED BY <2>2, <2>6, <2>7, StepsResponses
<1>9. ASSUME NEW c \in Call, DaemonOversized(c) PROVE ResponsesInv'
  <2>1. DaemonKnown(c)
    BY DEF StartInv, DaemonKnown
  <2>2. StepOf(c) /\ DaemonKeeps
    BY <1>1, <1>9, <2>1, OversizedStepOf
  <2>3. PICK s, m, f : Torn(c, s, m, f)
    BY <1>9, <2>1, OversizedTears
  <2>4. PICK q, k, d : q = toClient /\ k = client[c] /\ d = daemon[c]
    OBVIOUS
  <2>5. /\ q \in Seq(FrameType) /\ Received(k) \in Nat /\ ResponsesOK(q, k, d, c)
        /\ DaemonOK(d, c)
    BY <2>4, ResponseFacts, ReceivedNat DEF ResponsesInv
  <2>6. toClient' = q \o s /\ daemon'[c] = TornOf(d) /\ Tears(d, s, m, f, c) /\ client'[c] = k
    BY <2>1, <2>2, <2>3, <2>4 DEF Torn, DaemonKnown, DaemonKeeps, callVars
  <2>7. ResponsesOK(q \o s, k, TornOf(d), c)
    BY <2>5, <2>6, TearsResponses
  <2> QED BY <2>2, <2>6, <2>7, StepsResponses
<1>4. CASE PeerNext
  BY <1>2, <1>3, <1>4, <1>9 DEF PeerNext
<1>5. CASE ReverseNext /\ UNCHANGED peerVars
  <2>1. PICK a \in ReverseId : StepOf(a)
    BY <1>1, <1>5, ReverseStep
  <2>2. a \notin Call
    BY IdsAssumption DEF IdsAssumption
  <2> QED BY <2>1, <2>2, StepsResponses
<1>6. CASE Deliver
  BY <1>6 DEF Deliver, Transmit, peerVars, ResponsesInv
<1>7. CASE Ends
  BY <1>7, TerminateResponses DEF Ends, RefuseGap, RefuseFrame, RefuseReverse, Disconnect
<1>8. CASE UNCHANGED vars
  BY <1>8 DEF vars, peerVars, linkVars, ResponsesInv
<1> QED BY <1>4, <1>5, <1>6, <1>7, <1>8 DEF Next

(* The starts and the responses are in order in every reachable state.        *)
LEMMA ResponsesKept == Spec => [](BooksInv /\ StartInv /\ ResponsesInv)
BY InitBooks, NextBooks, InitStart, NextStart, InitResponses, NextResponses, PTL DEF Spec

(* A caller whose call completed was given every payload the handler yielded, *)
(* whatever was cancelled, refused or ended on the same connection meanwhile, *)
(* and what waits in a buffer continues what was read without a hole.         *)
THEOREM CompleteIsAll == Spec => []CompleteMeansAll
<1>1. BooksInv /\ ResponsesInv => CompleteMeansAll
  <2> SUFFICES ASSUME BooksInv, ResponsesInv, NEW c \in Call
               PROVE  /\ client[c].end = "complete" =>
                           /\ daemon[c].complete
                           /\ c \notin Unary => client[c].got = daemon[c].emitted
                      /\ \A i \in DOMAIN client[c].buffered :
                            client[c].buffered[i] = client[c].got + i
    BY DEF CompleteMeansAll
  <2>1. ReadOK(client[c], daemon[c], c)
    BY DEF ResponsesInv, ResponsesOK
  <2>2. DOMAIN client[c].buffered = 1 .. Len(client[c].buffered)
    BY ReceivedNat, LenProperties
  <2> QED BY <2>1, <2>2 DEF ReadOK
<1> QED BY <1>1, ResponsesKept, PTL

-----------------------------------------------------------------------------
(* The messages of a duplex call.                                             *)

IsEnd(f, c) == f.kind = "end" /\ f.call = c

(* The frames of call c under way to the daemon, by kind; and, in the queue,  *)
(* the batches bound to its signal and the ends of its requests.              *)
Marks(p, kind, c) == {i \in 1 .. Len(p) : p[i].frame.kind = kind /\ p[i].frame.call = c}
Waiting(o, c)     == {i \in 1 .. Len(o) : o[i].signal = c}
EndsOut(o, c)     == {i \in 1 .. Len(o) : IsEnd(o[i].frames[1], c)}

(* A batch with the signal of a duplex call ends with its one message; its    *)
(* other batches are one frame each, and no message.                          *)
Shape(b, c) ==
    /\ b.signal = c =>
          /\ \A j \in 1 .. Len(b.frames) : b.frames[j].call = c
          /\ \/ Len(b.frames) = 1 /\ b.frames[1].kind = "payload"
             \/ /\ Len(b.frames) = 2
                /\ b.frames[1].kind = "start" /\ b.frames[2].kind = "payload"
    /\ b.signal # c =>
          \A j \in 1 .. Len(b.frames) : b.frames[j].call = c =>
              Len(b.frames) = 1 /\ b.frames[j].kind \in {"cancel", "window", "end"}

(* n messages of c are under way to the daemon, none of them behind an end:   *)
(* f[i] of them are among the first i frames.                                 *)
Weight(f, c) == IF IsPayload(f, c) THEN 1 ELSE 0
Tallies(f, p, c, n) ==
    /\ f \in [0 .. Len(p) -> Nat] /\ f[0] = 0 /\ f[Len(p)] = n
    /\ \A i, j \in 0 .. Len(p) : i <= j => f[i] <= f[j]
    /\ \A i \in 1 .. Len(p) : /\ f[i] = f[i - 1] + Weight(p[i].frame, c)
                              /\ IsEnd(p[i].frame, c) => f[i] = n
Tally(p, c, n) == \E f : Tallies(f, p, c, n)

Waits(o, c) == IF Waiting(o, c) = {} THEN 0 ELSE 1
Begun(k)    == IF k.st = "idle" THEN 0 ELSE 1

(* The daemon has taken the end of the input.                                 *)
Shut(d) == d.st = "running" /\ ~d.inputOpen

Ending(p, o, c) == Marks(p, "end", c) # {} \/ EndsOut(o, c) # {}

(* The daemon may still take what is sent to the call.                        *)
Alive(p, o, d, c) ==
    \/ d.st \in {"receiving", "running"}
    \/ d.st = "absent" /\ (Marks(p, "start", c) # {} \/ Opens(o, c) # {})

(* No message is counted twice, and while the call is heard and its request   *)
(* is not given up, none is lost.                                             *)
Balance(n, p, o, x, k, d, c) ==
    LET sum == d.seen + n + Waits(o, c) + x.sends
    IN /\ sum <= x.asked + Begun(k)
       /\ Alive(p, o, d, c) /\ (x.st \in {"open", "ending", "ended"} \/ Ending(p, o, c)) =>
             sum + x.lost = x.asked + 1

(* The start of a call travels before its messages.                           *)
InOrder(p, c) == \A i \in Marks(p, "start", c), j \in Marks(p, "payload", c) : i < j

MessagesOK(p, o, x, k, d, c) ==
    /\ \A i \in 1 .. Len(o) : Shape(o[i], c)
    /\ \A i, j \in Waiting(o, c) : i = j
    /\ InOrder(p, c)
    /\ Opens(o, c) # {} => Marks(p, "payload", c) = {}
    /\ Ending(p, o, c) \/ Shut(d) =>
          x.st \in {"ended", "closed"} /\ x.sends = 0 /\ Waiting(o, c) = {}
    /\ Shut(d) => d.seen + x.lost = x.asked + 1
    /\ d.st = "running" => d.seen > 0
    /\ \E n \in Nat : Tally(p, c, n) /\ Balance(n, p, o, x, k, d, c)

(* A request that is no stream is one message.                                *)
RequestOK(d) == ~d.inputOpen /\ d.seen <= 1

MessagesInv ==
    /\ \A c \in Duplex : MessagesOK(toDaemon, outbox, duplex[c], client[c], daemon[c], c)
    /\ \A c \in Call \ Duplex : RequestOK(daemon[c])

(* A frame leaves the queue of the daemon, or joins it.                       *)
LEMMA MarksTail ==
    ASSUME NEW p \in Seq(SentType), p # <<>>, NEW kind, NEW c
    PROVE  /\ \A i \in Marks(Tail(p), kind, c) : /\ i \in Nat /\ i > 0
                                                 /\ i + 1 \in Marks(p, kind, c)
           /\ \A i \in Marks(p, kind, c) : /\ i \in Nat /\ i > 0
                                           /\ i = 1 \/ i - 1 \in Marks(Tail(p), kind, c)
           /\ 1 \in Marks(p, kind, c) <=> Head(p).frame.kind = kind /\ Head(p).frame.call = c
<1>1. PICK n : n = Len(p) /\ n \in Nat /\ n # 0
  BY LenProperties, EmptySeq
<1> PICK t : t = Tail(p)
  OBVIOUS
<1>2. Len(t) = n - 1 /\ \A i \in 1 .. n - 1 : t[i] = p[i + 1]
  BY <1>1, HeadTailProperties
<1>3. /\ \A i \in 1 .. n - 1 : i \in Nat /\ i > 0 /\ i + 1 \in 1 .. n
      /\ \A i \in 1 .. n : /\ i \in Nat /\ i > 0
                           /\ i = 1 \/ (i - 1 \in 1 .. n - 1 /\ (i - 1) + 1 = i)
  BY <1>1
<1>4. Head(p) = p[1] /\ 1 \in 1 .. n
  BY <1>1
<1>5. \A i \in Marks(t, kind, c) : i \in Nat /\ i > 0 /\ i + 1 \in Marks(p, kind, c)
  BY <1>1, <1>2, <1>3 DEF Marks
<1>6. \A i \in Marks(p, kind, c) : /\ i \in Nat /\ i > 0
                                   /\ i = 1 \/ i - 1 \in Marks(t, kind, c)
  BY <1>1, <1>2, <1>3 DEF Marks
<1>7. 1 \in Marks(p, kind, c) <=> Head(p).frame.kind = kind /\ Head(p).frame.call = c
  BY <1>1, <1>4 DEF Marks
<1> QED BY <1>1, <1>5, <1>6, <1>7

(* The same of a frame that is transmitted.                                   *)
LEMMA MarksAppend ==
    ASSUME NEW p \in Seq(SentType), NEW e \in SentType, NEW kind, NEW c
    PROVE  /\ \A i \in Marks(p, kind, c) : i \in 1 .. Len(p) /\ i \in Marks(Append(p, e), kind, c)
           /\ \A i \in Marks(Append(p, e), kind, c) :
                 \/ i \in Marks(p, kind, c)
                 \/ i = Len(p) + 1 /\ e.frame.kind = kind /\ e.frame.call = c
           /\ Len(p) \in Nat
<1>1. PICK n, r : n = Len(p) /\ n \in Nat /\ r = Append(p, e)
  BY LenProperties
<1>2. Len(r) = n + 1 /\ r[n + 1] = e /\ \A i \in 1 .. n : r[i] = p[i]
  BY <1>1, AppendProperties
<1>3. /\ \A i \in 1 .. n + 1 : i \in 1 .. n \/ i = n + 1
      /\ \A i \in 1 .. n : i \in 1 .. n + 1
  BY <1>1
<1>4. \A i \in Marks(p, kind, c) : i \in 1 .. n /\ i \in Marks(r, kind, c)
  BY <1>1, <1>2, <1>3 DEF Marks
<1>5. \A i \in Marks(r, kind, c) :
        i \in Marks(p, kind, c) \/ (i = n + 1 /\ e.frame.kind = kind /\ e.frame.call = c)
  BY <1>1, <1>2, <1>3 DEF Marks
<1> QED BY <1>1, <1>4, <1>5

(* No frame, no message.                                                      *)
LEMMA TallyEmpty ==
    ASSUME NEW c
    PROVE  Tally(<<>>, c, 0)
<1>1. PICK f : f = [i \in 0 .. 0 |-> 0]
  OBVIOUS
<1>2. Len(<<>>) = 0 /\ \A i \in 1 .. 0 : FALSE
  OBVIOUS
<1>3. f \in [0 .. 0 -> Nat] /\ \A i \in 0 .. 0 : i = 0 /\ f[i] = 0
  BY <1>1
<1>4. Tallies(f, <<>>, c, 0)
  BY <1>2, <1>3 DEF Tallies
<1> QED BY <1>4 DEF Tally

(* A frame is transmitted.  No message is, once an end was.                   *)
LEMMA TallyAppend ==
    ASSUME NEW p \in Seq(SentType), NEW e \in SentType, NEW c, NEW n \in Nat, Tally(p, c, n),
           IsPayload(e.frame, c) => Marks(p, "end", c) = {}
    PROVE  Tally(Append(p, e), c, n + Weight(e.frame, c))
<1>1. PICK f : Tallies(f, p, c, n)
  BY DEF Tally
<1>2. PICK l, r, w : l = Len(p) /\ l \in Nat /\ r = Append(p, e) /\ w = Weight(e.frame, c)
  BY LenProperties
<1>3. Len(r) = l + 1 /\ r[l + 1] = e /\ \A i \in 1 .. l : r[i] = p[i]
  BY <1>2, AppendProperties
<1>4. w \in {0, 1}
  BY <1>2 DEF Weight
<1>5. PICK g : g = [i \in 0 .. l + 1 |-> IF i \in 0 .. l THEN f[i] ELSE n + w]
  OBVIOUS
<1>6. /\ f \in [0 .. l -> Nat] /\ f[0] = 0 /\ f[l] = n
      /\ \A i, j \in 0 .. l : i <= j => f[i] <= f[j]
      /\ \A i \in 1 .. l : f[i] = f[i - 1] + Weight(p[i].frame, c)
      /\ \A i \in 1 .. l : IsEnd(p[i].frame, c) => f[i] = n
  BY <1>1, <1>2 DEF Tallies
<1>7. /\ \A i \in 0 .. l + 1 : i \in 0 .. l \/ i = l + 1
      /\ \A i \in 0 .. l : i \in 0 .. l + 1
      /\ \A i \in 1 .. l : i \in 0 .. l /\ i - 1 \in 0 .. l
      /\ \A i \in 1 .. l + 1 : i \in 1 .. l \/ i = l + 1
      /\ l + 1 \in 0 .. l + 1 /\ l + 1 \notin 0 .. l /\ (l + 1) - 1 = l
      /\ l \in 0 .. l /\ 0 \in 0 .. l
      /\ n + w \in Nat
  BY <1>2, <1>4
<1>8. \A i \in 0 .. l : g[i] = f[i]
  BY <1>5, <1>7
<1>9. g[l + 1] = n + w
  BY <1>5, <1>7
<1>10. g \in [0 .. l + 1 -> Nat]
  BY <1>5, <1>6, <1>7
<1>11. ASSUME NEW i \in 0 .. l + 1, NEW j \in 0 .. l + 1, i <= j PROVE g[i] <= g[j]
  <2>1. CASE i \in 0 .. l /\ j \in 0 .. l
    BY <1>6, <1>8, <1>11, <2>1
  <2>2. CASE i \in 0 .. l /\ j = l + 1
    <3>1. f[i] <= f[l] /\ f[i] \in Nat
      BY <1>2, <1>6, <1>7, <2>2
    <3> QED BY <1>4, <1>6, <1>8, <1>9, <2>2, <3>1
  <2>3. CASE i = l + 1
    <3>1. j = l + 1
      BY <1>2, <1>7, <1>11, <2>3
    <3> QED BY <1>7, <1>9, <2>3, <3>1
  <2> QED BY <1>7, <2>1, <2>2, <2>3
<1>12. ASSUME NEW i \in 1 .. l + 1 PROVE g[i] = g[i - 1] + Weight(r[i].frame, c)
  <2>1. CASE i \in 1 .. l
    BY <1>3, <1>6, <1>7, <1>8, <2>1
  <2>2. CASE i = l + 1
    BY <1>2, <1>3, <1>6, <1>7, <1>8, <1>9, <2>2
  <2> QED BY <1>7, <2>1, <2>2
<1>13. ASSUME NEW i \in 1 .. l + 1, IsEnd(r[i].frame, c) PROVE g[i] = n + w
  <2>1. CASE i \in 1 .. l
    <3>1. i \in Marks(p, "end", c)
      BY <1>2, <1>3, <1>13, <2>1 DEF Marks, IsEnd
    <3>2. w = 0
      BY <1>2, <3>1 DEF Weight
    <3>3. n + w = n
      BY <3>2
    <3>4. g[i] = n
      BY <1>3, <1>6, <1>7, <1>8, <1>13, <2>1
    <3> QED BY <3>3, <3>4
  <2>2. CASE i = l + 1
    BY <1>9, <2>2
  <2> QED BY <1>7, <2>1, <2>2
<1>14. g[0] = 0
  BY <1>6, <1>7, <1>8
<1>15. Tallies(g, r, c, n + w)
  BY <1>3, <1>9, <1>10, <1>11, <1>12, <1>13, <1>14 DEF Tallies
<1> QED BY <1>2, <1>15 DEF Tally

(* The first frame arrives; an end arrives behind every message.              *)
LEMMA TallyTail ==
    ASSUME NEW p \in Seq(SentType), p # <<>>, NEW c, NEW n \in Nat, Tally(p, c, n)
    PROVE  /\ \E m \in Nat : n = m + Weight(Head(p).frame, c) /\ Tally(Tail(p), c, m)
           /\ IsEnd(Head(p).frame, c) => n = 0
<1>1. PICK f : Tallies(f, p, c, n)
  BY DEF Tally
<1>2. PICK l : l = Len(p) /\ l \in Nat /\ l # 0
  BY LenProperties, EmptySeq
<1>20. PICK t, w : t = Tail(p) /\ w = Weight(Head(p).frame, c)
  OBVIOUS
<1>3. Len(t) = l - 1 /\ (\A i \in 1 .. l - 1 : t[i] = p[i + 1]) /\ Head(p) = p[1]
  BY <1>2, <1>20, HeadTailProperties
<1>4. w \in {0, 1} /\ w \in Nat
  BY <1>20 DEF Weight
<1>5. /\ f \in [0 .. l -> Nat] /\ f[0] = 0 /\ f[l] = n
      /\ \A i, j \in 0 .. l : i <= j => f[i] <= f[j]
      /\ \A i \in 1 .. l : f[i] = f[i - 1] + Weight(p[i].frame, c)
      /\ \A i \in 1 .. l : IsEnd(p[i].frame, c) => f[i] = n
  BY <1>1, <1>2 DEF Tallies
<1>6. /\ 1 \in 1 .. l /\ 1 \in 0 .. l /\ 1 - 1 = 0 /\ (l - 1) + 1 = l
      /\ l \in 0 .. l /\ l - 1 \in 0 .. l - 1
      /\ \A i \in 0 .. l - 1 : i + 1 \in 0 .. l /\ 1 <= i + 1
      /\ \A i \in 1 .. l - 1 : i \in 0 .. l - 1 /\ i - 1 \in 0 .. l - 1 /\ i + 1 \in 1 .. l
                                /\ (i + 1) - 1 = i /\ (i - 1) + 1 = i
      /\ 0 \in 0 .. l - 1 /\ 0 + 1 = 1
  BY <1>2
<1>7. f[1] = w
  BY <1>2, <1>20, <1>3, <1>4, <1>5, <1>6
<1>8. \A i \in 0 .. l - 1 : f[i + 1] \in Nat /\ w <= f[i + 1]
  BY <1>5, <1>6, <1>7
<1>9. PICK g : g = [i \in 0 .. l - 1 |-> f[i + 1] - w]
  OBVIOUS
<1>10. \A i \in 0 .. l - 1 : g[i] \in Nat /\ f[i + 1] = g[i] + w
  BY <1>4, <1>8, <1>9
<1>11. g \in [0 .. l - 1 -> Nat]
  BY <1>9, <1>10
<1>12. PICK m : m = g[l - 1]
  OBVIOUS
<1>13. m \in Nat /\ n = m + w
  BY <1>5, <1>6, <1>10, <1>12
<1>14. g[0] = 0
  <2>1. f[0 + 1] = g[0] + w /\ g[0] \in Nat
    BY <1>6, <1>10
  <2> QED BY <1>4, <1>7, <2>1
<1>15. ASSUME NEW i \in 0 .. l - 1, NEW j \in 0 .. l - 1, i <= j PROVE g[i] <= g[j]
  <2>1. i + 1 <= j + 1
    BY <1>2, <1>15
  <2>2. f[i + 1] <= f[j + 1]
    BY <1>5, <1>6, <2>1
  <2>3. g[i] \in Nat /\ g[j] \in Nat /\ g[i] + w <= g[j] + w
    BY <1>10, <2>2
  <2> QED BY <1>4, <2>3
<1>16. ASSUME NEW i \in 1 .. l - 1 PROVE g[i] = g[i - 1] + Weight(t[i].frame, c)
  <2>1. f[i + 1] = f[(i + 1) - 1] + Weight(p[i + 1].frame, c)
    BY <1>5, <1>6
  <2>2. PICK v : v = Weight(t[i].frame, c) /\ v \in Nat
    BY DEF Weight
  <2>3. f[i + 1] = g[i] + w /\ f[(i - 1) + 1] = g[i - 1] + w /\ g[i] \in Nat /\ g[i - 1] \in Nat
    BY <1>6, <1>10
  <2>4. f[i + 1] = f[i] + v
    BY <1>3, <1>6, <2>1, <2>2
  <2>5. g[i] + w = (g[i - 1] + w) + v
    BY <1>6, <2>3, <2>4
  <2>6. \A x, y, v0, w0 \in Nat : x + w0 = (y + w0) + v0 => x = y + v0
    OBVIOUS
  <2>7. PICK x, y : x = g[i] /\ y = g[i - 1]
    OBVIOUS
  <2>8. x \in Nat /\ y \in Nat /\ x + w = (y + w) + v
    BY <2>3, <2>5, <2>7
  <2>9. x = y + v
    BY <1>4, <2>2, <2>6, <2>8
  <2> QED BY <2>2, <2>7, <2>9
<1>17. ASSUME NEW i \in 1 .. l - 1, IsEnd(t[i].frame, c) PROVE g[i] = m
  <2>1. f[i + 1] = n
    BY <1>3, <1>5, <1>6, <1>17
  <2>2. g[i] + w = m + w /\ g[i] \in Nat
    BY <1>6, <1>10, <1>13, <2>1
  <2> QED BY <1>4, <1>13, <2>2
<1>18. Tallies(g, t, c, m)
  BY <1>3, <1>11, <1>12, <1>14, <1>15, <1>16, <1>17 DEF Tallies
<1>19. IsEnd(Head(p).frame, c) => n = 0
  <2> SUFFICES ASSUME IsEnd(Head(p).frame, c) PROVE n = 0
    OBVIOUS
  <2>1. w = 0
    BY <1>20 DEF Weight, IsPayload, IsEnd
  <2> QED BY <1>3, <1>5, <1>6, <1>7, <2>1
<1> QED BY <1>20, <1>13, <1>18, <1>19 DEF Tally

(* Nothing under way, no frame of a message.                                  *)
LEMMA TallyNothing ==
    ASSUME NEW p \in Seq(SentType), NEW c, Tally(p, c, 0)
    PROVE  Marks(p, "payload", c) = {}
<1> SUFFICES ASSUME NEW i \in Marks(p, "payload", c) PROVE FALSE
  OBVIOUS
<1>1. PICK f : Tallies(f, p, c, 0)
  BY DEF Tally
<1>2. PICK l : l = Len(p) /\ l \in Nat
  BY LenProperties
<1>3. i \in 1 .. l /\ IsPayload(p[i].frame, c)
  BY <1>2 DEF Marks, IsPayload
<1>4. i \in 0 .. l /\ i - 1 \in 0 .. l /\ l \in 0 .. l /\ i <= l
  BY <1>2, <1>3
<1>5. f[i] <= 0 /\ f[i] \in Nat /\ f[i - 1] \in Nat
  BY <1>1, <1>2, <1>4 DEF Tallies
<1>6. f[i] = f[i - 1] + 1
  BY <1>1, <1>2, <1>3 DEF Tallies, Weight
<1> QED BY <1>5, <1>6

(* What is queued changes nothing of call c that matters here.                *)
SameOut(o, o2, c) ==
    /\ \A i \in 1 .. Len(o2) : Shape(o2[i], c)
    /\ (\A i, j \in Waiting(o, c) : i = j) => \A i, j \in Waiting(o2, c) : i = j
    /\ Waiting(o2, c) = {} <=> Waiting(o, c) = {}
    /\ EndsOut(o2, c) = {} <=> EndsOut(o, c) = {}
    /\ Opens(o2, c) = {} <=> Opens(o, c) = {}

(* Batches that are neither bound to the call nor start or end it.            *)
LEMMA OutGrows ==
    ASSUME NEW o \in Seq(BatchType), NEW o2, NEW a, NEW c, Sends(o, o2, a),
           \A i \in 1 .. Len(o) : Shape(o[i], c),
           \A i \in Len(o) + 1 .. Len(o2) :
              /\ o2[i].signal # c /\ Shape(o2[i], c)
              /\ ~IsEnd(o2[i].frames[1], c) /\ ~IsStart(o2[i].frames[1], c)
    PROVE  SameOut(o, o2, c)
<1>1. PICK l, m : l = Len(o) /\ m = Len(o2)
  OBVIOUS
<1>2. o2 \in Seq(BatchType) /\ l <= m /\ \A i \in 1 .. l : o2[i] = o[i]
  BY <1>1 DEF Sends
<1>3. l \in Nat /\ m \in Nat
  BY <1>1, <1>2, LenProperties
<1>4. /\ \A i \in 1 .. m : i \in 1 .. l \/ i \in l + 1 .. m
      /\ \A i \in 1 .. l : i \in 1 .. m
  BY <1>2, <1>3
<1>5. \A i \in 1 .. m : Shape(o2[i], c)
  BY <1>1, <1>2, <1>4
<1>6. Waiting(o2, c) = Waiting(o, c)
  BY <1>1, <1>2, <1>4 DEF Waiting
<1>7. EndsOut(o2, c) = EndsOut(o, c)
  BY <1>1, <1>2, <1>4 DEF EndsOut
<1>8. Opens(o2, c) = Opens(o, c)
  BY <1>1, <1>2, <1>4 DEF Opens
<1> QED BY <1>1, <1>5, <1>6, <1>7, <1>8 DEF SameOut

(* The frames of a batch.                                                     *)
LEMMA BatchFrames ==
    ASSUME NEW b, BatchOK(b)
    PROVE  /\ b.frames \in Seq(FrameType) /\ Len(b.frames) \in Nat /\ Len(b.frames) > 0
           /\ DOMAIN b.frames = 1 .. Len(b.frames)
           /\ 1 \in 1 .. Len(b.frames)
<1>1. PICK s : s = b.frames
  OBVIOUS
<1>2. s \in Seq(FrameType) /\ s # <<>>
  BY <1>1 DEF BatchOK, BatchType
<1>3. PICK n : n = Len(s)
  OBVIOUS
<1>4. n \in Nat /\ n # 0 /\ DOMAIN s = 1 .. n
  BY <1>2, <1>3, LenProperties, EmptySeq
<1>5. n > 0 /\ 1 \in 1 .. n
  BY <1>4
<1> QED BY <1>1, <1>2, <1>3, <1>4, <1>5

(* The batches of another call.                                               *)
LEMMA OutOther ==
    ASSUME NEW o \in Seq(BatchType), NEW o2, NEW a, NEW c, Sends(o, o2, a), a # c, c # None,
           \A i \in 1 .. Len(o) : Shape(o[i], c)
    PROVE  SameOut(o, o2, c)
<1>1. ASSUME NEW i \in Len(o) + 1 .. Len(o2)
      PROVE  /\ o2[i].signal # c /\ Shape(o2[i], c)
             /\ ~IsEnd(o2[i].frames[1], c) /\ ~IsStart(o2[i].frames[1], c)
  <2>1. PICK b : b = o2[i]
    OBVIOUS
  <2>2. BatchOK(b) /\ Of(b, a)
    BY <2>1 DEF Sends
  <2>3. DOMAIN b.frames = 1 .. Len(b.frames) /\ 1 \in 1 .. Len(b.frames)
    BY <2>2, BatchFrames
  <2>4. b.signal # c /\ \A j \in 1 .. Len(b.frames) : b.frames[j].call # c
    BY <2>2, <2>3 DEF Of
  <2>5. Shape(b, c)
    BY <2>4 DEF Shape
  <2> QED BY <2>1, <2>3, <2>4, <2>5 DEF IsEnd, IsStart
<1> QED BY <1>1, OutGrows

(* Cancel frames and credit of the call.                                      *)
LEMMA OutControls ==
    ASSUME NEW o \in Seq(BatchType), NEW o2, NEW c, Controls(o, o2, c), c # None,
           \A i \in 1 .. Len(o) : Shape(o[i], c)
    PROVE  SameOut(o, o2, c)
<1>1. ASSUME NEW i \in Len(o) + 1 .. Len(o2)
      PROVE  /\ o2[i].signal # c /\ Shape(o2[i], c)
             /\ ~IsEnd(o2[i].frames[1], c) /\ ~IsStart(o2[i].frames[1], c)
  <2>1. PICK b : b = o2[i]
    OBVIOUS
  <2>2. b.signal = None /\ Len(b.frames) = 1 /\ b.frames[1].kind \in {"cancel", "window"}
    BY <2>1 DEF Controls
  <2>3. \A j \in 1 .. 1 : j = 1
    OBVIOUS
  <2>4. Shape(b, c)
    BY <2>2, <2>3 DEF Shape
  <2> QED BY <2>1, <2>2, <2>4 DEF IsEnd, IsStart
<1>2. Sends(o, o2, c)
  BY DEF Controls
<1> QED BY <1>1, <1>2, OutGrows

(* One more batch.                                                            *)
LEMMA OutAppend ==
    ASSUME NEW o \in Seq(BatchType), NEW b \in BatchType, NEW c,
           (\A i \in 1 .. Len(o) : Shape(o[i], c)), Shape(b, c)
    PROVE  LET r == Append(o, b)
           IN /\ \A i \in 1 .. Len(r) : Shape(r[i], c)
              /\ b.signal # c => Waiting(r, c) = Waiting(o, c)
              /\ b.signal = c /\ Waiting(o, c) = {} =>
                    Waiting(r, c) # {} /\ \A i, j \in Waiting(r, c) : i = j
              /\ IsEnd(b.frames[1], c) => EndsOut(r, c) # {}
              /\ ~IsEnd(b.frames[1], c) => EndsOut(r, c) = EndsOut(o, c)
              /\ IsStart(b.frames[1], c) => Opens(r, c) # {}
              /\ ~IsStart(b.frames[1], c) => Opens(r, c) = Opens(o, c)
<1>1. PICK l, r : l = Len(o) /\ r = Append(o, b)
  OBVIOUS
<1>2. l \in Nat
  BY <1>1, LenProperties
<1>3. Len(r) = l + 1 /\ r[l + 1] = b /\ \A i \in 1 .. l : r[i] = o[i]
  BY <1>1, AppendProperties
<1>4. /\ \A i \in 1 .. l + 1 : i \in 1 .. l \/ i = l + 1
      /\ \A i \in 1 .. l : i \in 1 .. l + 1
      /\ l + 1 \in 1 .. l + 1
  BY <1>2
<1>5. \A i \in 1 .. Len(r) : Shape(r[i], c)
  BY <1>1, <1>3, <1>4
<1>6. b.signal # c => Waiting(r, c) = Waiting(o, c)
  BY <1>1, <1>3, <1>4 DEF Waiting
<1>7. b.signal = c /\ Waiting(o, c) = {} =>
          Waiting(r, c) # {} /\ \A i, j \in Waiting(r, c) : i = j
  <2> SUFFICES ASSUME b.signal = c, Waiting(o, c) = {}
               PROVE  Waiting(r, c) # {} /\ \A i, j \in Waiting(r, c) : i = j
    OBVIOUS
  <2>1. l + 1 \in Waiting(r, c)
    BY <1>3, <1>4 DEF Waiting
  <2>2. \A i \in Waiting(r, c) : i = l + 1
    BY <1>1, <1>3, <1>4 DEF Waiting
  <2> QED BY <2>1, <2>2
<1>8. /\ IsEnd(b.frames[1], c) => EndsOut(r, c) # {}
      /\ ~IsEnd(b.frames[1], c) => EndsOut(r, c) = EndsOut(o, c)
  <2>1. IsEnd(b.frames[1], c) => l + 1 \in EndsOut(r, c)
    BY <1>3, <1>4 DEF EndsOut
  <2>2. ~IsEnd(b.frames[1], c) => EndsOut(r, c) = EndsOut(o, c)
    BY <1>1, <1>3, <1>4 DEF EndsOut
  <2> QED BY <2>1, <2>2
<1>9. /\ IsStart(b.frames[1], c) => Opens(r, c) # {}
      /\ ~IsStart(b.frames[1], c) => Opens(r, c) = Opens(o, c)
  <2>1. IsStart(b.frames[1], c) => l + 1 \in Opens(r, c)
    BY <1>3, <1>4 DEF Opens
  <2>2. ~IsStart(b.frames[1], c) => Opens(r, c) = Opens(o, c)
    BY <1>1, <1>3, <1>4 DEF Opens
  <2> QED BY <2>1, <2>2
<1> QED BY <1>1, <1>5, <1>6, <1>7, <1>8, <1>9

(* What is under way changes nothing of call c that matters here.             *)
Spoken == {"start", "payload", "end"}
SameIn(p, p2, c) ==
    /\ \A kind \in Spoken : Marks(p2, kind, c) = {} <=> Marks(p, kind, c) = {}
    /\ InOrder(p, c) => InOrder(p2, c)
    /\ \A n \in Nat : Tally(p, c, n) => Tally(p2, c, n)

(* What is left is in order.                                                  *)
LEMMA OrderTail ==
    ASSUME NEW p \in Seq(SentType), p # <<>>, NEW c, InOrder(p, c)
    PROVE  InOrder(Tail(p), c)
<1> SUFFICES ASSUME NEW i \in Marks(Tail(p), "start", c), NEW j \in Marks(Tail(p), "payload", c)
             PROVE  i < j
  BY DEF InOrder
<1>1. i \in Nat /\ i + 1 \in Marks(p, "start", c)
  BY MarksTail
<1>2. j \in Nat /\ j + 1 \in Marks(p, "payload", c)
  BY MarksTail
<1>3. i + 1 < j + 1
  BY <1>1, <1>2 DEF InOrder
<1> QED BY <1>1, <1>2, <1>3

(* A frame that is not of the given kind leaves the others.                   *)
LEMMA MarksSkip ==
    ASSUME NEW p \in Seq(SentType), p # <<>>, NEW kind, NEW c,
           Head(p).frame.kind # kind \/ Head(p).frame.call # c
    PROVE  Marks(Tail(p), kind, c) = {} <=> Marks(p, kind, c) = {}
<1>1. 1 \notin Marks(p, kind, c)
  BY MarksTail
<1>2. \A i \in Marks(p, kind, c) : i - 1 \in Marks(Tail(p), kind, c)
  BY <1>1, MarksTail
<1>3. \A i \in Marks(Tail(p), kind, c) : i + 1 \in Marks(p, kind, c)
  BY MarksTail
<1> QED BY <1>2, <1>3

(* A frame of another call arrives, or one that only cancels or gives credit. *)
LEMMA InTail ==
    ASSUME NEW p \in Seq(SentType), p # <<>>, NEW c,
           Head(p).frame.kind \notin Spoken \/ Head(p).frame.call # c
    PROVE  SameIn(p, Tail(p), c)
<1>1. \A kind \in Spoken : Marks(Tail(p), kind, c) = {} <=> Marks(p, kind, c) = {}
  BY MarksSkip
<1>2. InOrder(p, c) => InOrder(Tail(p), c)
  BY OrderTail
<1>3. ASSUME NEW n \in Nat, Tally(p, c, n) PROVE Tally(Tail(p), c, n)
  <2>1. PICK m \in Nat : n = m + Weight(Head(p).frame, c) /\ Tally(Tail(p), c, m)
    BY <1>3, TallyTail
  <2>2. Weight(Head(p).frame, c) = 0
    BY DEF Weight, IsPayload, Spoken
  <2>3. n = m
    BY <2>1, <2>2
  <2> QED BY <2>1, <2>3
<1> QED BY <1>1, <1>2, <1>3 DEF SameIn

(* Such a frame is transmitted.                                               *)
LEMMA InAppend ==
    ASSUME NEW p \in Seq(SentType), NEW e \in SentType, NEW c,
           e.frame.kind \notin Spoken \/ e.frame.call # c
    PROVE  SameIn(p, Append(p, e), c)
<1>1. ASSUME NEW kind \in Spoken PROVE Marks(Append(p, e), kind, c) = Marks(p, kind, c)
  <2>1. \A i \in Marks(p, kind, c) : i \in Marks(Append(p, e), kind, c)
    BY MarksAppend
  <2>2. \A i \in Marks(Append(p, e), kind, c) :
            i \in Marks(p, kind, c) \/ (e.frame.kind = kind /\ e.frame.call = c)
    BY MarksAppend
  <2>3. \A i \in Marks(Append(p, e), kind, c) : i \in Marks(p, kind, c)
    BY <2>2
  <2> QED BY <2>1, <2>3
<1>2. "start" \in Spoken /\ "payload" \in Spoken
  BY DEF Spoken
<1>3. InOrder(p, c) => InOrder(Append(p, e), c)
  BY <1>1, <1>2 DEF InOrder
<1>4. ASSUME NEW n \in Nat, Tally(p, c, n) PROVE Tally(Append(p, e), c, n)
  <2>1. ~IsPayload(e.frame, c)
    BY DEF IsPayload, Spoken
  <2>2. Weight(e.frame, c) = 0
    BY <2>1 DEF Weight
  <2>3. Tally(Append(p, e), c, n + Weight(e.frame, c))
    BY <1>4, <2>1, TallyAppend
  <2>4. n + 0 = n
    OBVIOUS
  <2> QED BY <2>2, <2>3, <2>4
<1> QED BY <1>1, <1>3, <1>4 DEF SameIn

(* Nothing of the call changed.                                               *)
LEMMA KeepsMessages ==
    ASSUME NEW p, NEW p2, NEW o, NEW o2, NEW x, NEW k, NEW d, NEW c,
           MessagesOK(p, o, x, k, d, c), SameIn(p, p2, c), SameOut(o, o2, c)
    PROVE  MessagesOK(p2, o2, x, k, d, c)
<1>1. /\ Marks(p2, "start", c) = {} <=> Marks(p, "start", c) = {}
      /\ Marks(p2, "payload", c) = {} <=> Marks(p, "payload", c) = {}
      /\ Marks(p2, "end", c) = {} <=> Marks(p, "end", c) = {}
      /\ InOrder(p, c) => InOrder(p2, c)
  BY DEF SameIn, Spoken
<1>2. /\ Waiting(o2, c) = {} <=> Waiting(o, c) = {}
      /\ Opens(o2, c) = {} <=> Opens(o, c) = {}
      /\ EndsOut(o2, c) = {} <=> EndsOut(o, c) = {}
      /\ \A i \in 1 .. Len(o2) : Shape(o2[i], c)
      /\ \A i, j \in Waiting(o2, c) : i = j
  BY DEF SameOut, MessagesOK
<1>3. /\ Ending(p2, o2, c) <=> Ending(p, o, c)
      /\ Alive(p2, o2, d, c) <=> Alive(p, o, d, c)
  BY <1>1, <1>2 DEF Ending, Alive
<1>4. PICK n \in Nat : Tally(p, c, n) /\ Balance(n, p, o, x, k, d, c)
  BY DEF MessagesOK
<1>5. Tally(p2, c, n)
  BY <1>4 DEF SameIn
<1>6. Balance(n, p2, o2, x, k, d, c)
  BY <1>2, <1>3, <1>4 DEF Balance, Waits
<1>7. /\ \A i, j \in Waiting(o2, c) : i = j
      /\ InOrder(p2, c)
      /\ Opens(o2, c) # {} => Marks(p2, "payload", c) = {}
      /\ Ending(p2, o2, c) \/ Shut(d) =>
            x.st \in {"ended", "closed"} /\ x.sends = 0 /\ Waiting(o2, c) = {}
      /\ Shut(d) => d.seen + x.lost = x.asked + 1
      /\ d.st = "running" => d.seen > 0
  BY <1>1, <1>2, <1>3 DEF MessagesOK
<1> QED BY <1>2, <1>5, <1>6, <1>7 DEF MessagesOK

(* A step of another call.                                                    *)
LEMMA StepMessages ==
    ASSUME LinkInv, NEW a, StepOf(a), NEW c \in Duplex, c # a, NEW x, NEW k, NEW d,
           MessagesOK(toDaemon, outbox, x, k, d, c)
    PROVE  MessagesOK(toDaemon', outbox', x, k, d, c)
<1>1. outbox \in Seq(BatchType) /\ toDaemon \in Seq(SentType)
  BY DEF LinkInv
<1>2. c # None
  BY PeerAssumption DEF PeerAssumption, Call
<1>3. SameOut(outbox, outbox', c)
  BY <1>1, <1>2, OutOther DEF StepOf, MessagesOK
<1>4. SameIn(toDaemon, toDaemon', c)
  <2>1. CASE toDaemon' = toDaemon
    BY <2>1 DEF SameIn
  <2>2. CASE toDaemon # <<>> /\ Head(toDaemon).frame.call = a /\ toDaemon' = Tail(toDaemon)
    BY <1>1, <2>2, InTail
  <2> QED BY <2>1, <2>2 DEF StepOf, Arrives
<1> QED BY <1>3, <1>4, KeepsMessages

(* The records of a call, as far as its messages go.                          *)
RecordsOK(x, d) ==
    /\ x.sends \in Nat /\ x.asked \in Nat /\ d.seen \in Nat
    /\ x.lost \in Nat /\ x.lost <= x.asked
    /\ d.st \in {"absent", "receiving", "running", "gone"}

LEMMA MessageRecords ==
    ASSUME NEW x, NEW k, NEW d, NEW c, DuplexOK(x, k, c), DaemonOK(d, c)
    PROVE  RecordsOK(x, d)
<1>1. x \in DuplexRequest /\ d \in DaemonRecord /\ x.sends + x.lost <= x.asked
  BY DEF DuplexOK, DaemonOK
<1>2. PICK e, l, z : e = x.sends /\ l = x.lost /\ z = x.asked
  OBVIOUS
<1>3. e \in Nat /\ l \in Nat /\ z \in Nat /\ d.seen \in Nat
  BY <1>1, <1>2, PeerConstants DEF DuplexRequest, DaemonRecord
<1>4. l <= z
  <2>1. e + l <= z
    BY <1>1, <1>2
  <2> QED BY <1>3, <2>1
<1>5. d.st \in {"absent", "receiving", "running", "gone"}
  BY <1>1 DEF DaemonRecord
<1> QED BY <1>2, <1>3, <1>4, <1>5 DEF RecordsOK

(* The parts of the invariant.                                                *)
LEMMA MessageParts ==
    ASSUME NEW p, NEW o, NEW x, NEW k, NEW d, NEW c, MessagesOK(p, o, x, k, d, c)
    PROVE  /\ \A i \in 1 .. Len(o) : Shape(o[i], c)
           /\ \A i, j \in Waiting(o, c) : i = j
           /\ InOrder(p, c)
           /\ Opens(o, c) # {} => Marks(p, "payload", c) = {}
           /\ Ending(p, o, c) \/ Shut(d) =>
                 x.st \in {"ended", "closed"} /\ x.sends = 0 /\ Waiting(o, c) = {}
           /\ Shut(d) => d.seen + x.lost = x.asked + 1
           /\ d.st = "running" => d.seen > 0
BY DEF MessagesOK

(* The daemon does something else, or gives the call up.                      *)
LEMMA QuietMessages ==
    ASSUME NEW p, NEW o, NEW x, NEW k, NEW d, NEW d2, NEW c, MessagesOK(p, o, x, k, d, c),
           d2.seen = d.seen, d2.inputOpen = d.inputOpen, d2.st = d.st \/ d2.st = "gone"
    PROVE  MessagesOK(p, o, x, k, d2, c)
<1>1. PICK n \in Nat : Tally(p, c, n) /\ Balance(n, p, o, x, k, d, c)
  BY DEF MessagesOK
<1>2. /\ Shut(d2) => Shut(d)
      /\ Alive(p, o, d2, c) => Alive(p, o, d, c)
  BY DEF Shut, Alive
<1>3. Balance(n, p, o, x, k, d2, c)
  BY <1>1, <1>2 DEF Balance
<1> QED BY <1>1, <1>2, <1>3 DEF MessagesOK

(* The start of the call arrives: it is accepted, or refused.                 *)
LEMMA HearsStart ==
    ASSUME NEW p \in Seq(SentType), p # <<>>, NEW o, NEW x, NEW k, NEW d, NEW d2, NEW c,
           MessagesOK(p, o, x, k, d, c), StartOK(p, o, d.st, k.st, c),
           IsStart(Head(p).frame, c), d2.seen = d.seen,
           d2.st = "receiving" \/ d2 = d
    PROVE  MessagesOK(Tail(p), o, x, k, d2, c)
<1>1. PICK n \in Nat : Tally(p, c, n) /\ Balance(n, p, o, x, k, d, c)
  BY DEF MessagesOK
<1>2. PICK t : t = Tail(p)
  OBVIOUS
<1>3. 1 \in Marks(p, "start", c)
  BY MarksTail DEF IsStart
<1>4. 1 \in Begins(p, c)
  BY BeginsTail
<1>5. Opens(o, c) = {} /\ d.st = "absent"
  BY <1>4 DEF StartOK
<1>6. Marks(t, "start", c) = {}
  <2>1. Marks(p, "start", c) = Begins(p, c)
    BY DEF Marks, Begins, IsStart
  <2>2. \A i \in Marks(p, "start", c) : i = 1
    BY <1>4, <2>1 DEF StartOK
  <2>3. \A i \in Marks(t, "start", c) : i \in Nat /\ i > 0 /\ i + 1 \in Marks(p, "start", c)
    BY <1>2, MarksTail
  <2>4. \A i \in Marks(t, "start", c) : i \in Nat /\ i > 0 /\ i + 1 = 1
    BY <2>2, <2>3
  <2>5. \A i \in Marks(t, "start", c) : FALSE
    BY <2>4
  <2> QED BY <2>5
<1>7. Marks(t, "end", c) = {} <=> Marks(p, "end", c) = {}
  BY <1>2, MarksSkip DEF IsStart
<1>8. Ending(t, o, c) <=> Ending(p, o, c)
  BY <1>7 DEF Ending
<1>9. Alive(p, o, d, c) /\ ~Shut(d) /\ ~Shut(d2) /\ d2.st # "running"
  BY <1>3, <1>5 DEF Alive, Shut
<1>10. Tally(t, c, n)
  <2>1. PICK m \in Nat : n = m + Weight(Head(p).frame, c) /\ Tally(t, c, m)
    BY <1>1, <1>2, TallyTail
  <2>2. Weight(Head(p).frame, c) = 0
    BY DEF Weight, IsPayload, IsStart
  <2>3. n = m
    BY <2>1, <2>2
  <2> QED BY <2>1, <2>3
<1>11. Balance(n, t, o, x, k, d2, c)
  BY <1>1, <1>8, <1>9 DEF Balance
<1>12. InOrder(t, c)
  BY <1>6 DEF InOrder
<1> QED BY <1>1, <1>2, <1>5, <1>8, <1>9, <1>10, <1>11, <1>12 DEF MessagesOK

(* A message arrives and is taken.                                            *)
LEMMA HearsMessage ==
    ASSUME NEW p \in Seq(SentType), p # <<>>, NEW o, NEW x, NEW k, NEW d, NEW d2, NEW c,
           MessagesOK(p, o, x, k, d, c), RecordsOK(x, d), IsPayload(Head(p).frame, c),
           d.st \in {"receiving", "running"}, d2.st = "running", d2.inputOpen,
           d2.seen = d.seen + 1
    PROVE  MessagesOK(Tail(p), o, x, k, d2, c)
<1>1. PICK n \in Nat : Tally(p, c, n) /\ Balance(n, p, o, x, k, d, c)
  BY DEF MessagesOK
<1>2. PICK t : t = Tail(p)
  OBVIOUS
<1>3. PICK m \in Nat : n = m + 1 /\ Tally(t, c, m)
  BY <1>1, <1>2, TallyTail DEF Weight
<1>4. 1 \in Marks(p, "payload", c)
  BY MarksTail DEF IsPayload
<1>5. Opens(o, c) = {} /\ InOrder(t, c)
  BY <1>2, <1>4, OrderTail DEF MessagesOK
<1>6. Marks(t, "end", c) = {} <=> Marks(p, "end", c) = {}
  BY <1>2, MarksSkip DEF IsPayload
<1>7. Ending(t, o, c) <=> Ending(p, o, c)
  BY <1>6 DEF Ending
<1>8. Alive(p, o, d, c) /\ ~Shut(d2)
  BY DEF Alive, Shut
<1>9. PICK s, w, g : s = d.seen /\ w = Waits(o, c) /\ g = Begun(k)
  OBVIOUS
<1>10. s \in Nat /\ w \in Nat /\ g \in Nat /\ x.sends \in Nat /\ x.asked \in Nat
  BY <1>9 DEF RecordsOK, Waits, Begun
<1>11. PICK y, z, l : y = x.sends /\ z = x.asked /\ l = x.lost
  OBVIOUS
<1>12. s + n + w + y = (s + 1) + m + w + y
  BY <1>3, <1>10, <1>11
<1>13. Balance(m, t, o, x, k, d2, c)
  BY <1>1, <1>7, <1>8, <1>9, <1>11, <1>12 DEF Balance
<1>14. d2.seen > 0
  BY <1>9, <1>10
<1> QED BY <1>2, <1>3, <1>5, <1>7, <1>8, <1>13, <1>14 DEF MessagesOK

(* A message arrives for a call that is not there, or ends it.                *)
LEMMA HearsNothing ==
    ASSUME NEW p \in Seq(SentType), p # <<>>, NEW o, NEW x, NEW k, NEW d, NEW d2, NEW c,
           MessagesOK(p, o, x, k, d, c), RecordsOK(x, d), IsPayload(Head(p).frame, c),
           d2.st = "gone" \/ (d2.st = "absent" /\ d.st = "absent"), d2.seen = d.seen
    PROVE  MessagesOK(Tail(p), o, x, k, d2, c)
<1>1. PICK n \in Nat : Tally(p, c, n) /\ Balance(n, p, o, x, k, d, c)
  BY DEF MessagesOK
<1>2. PICK t : t = Tail(p)
  OBVIOUS
<1>3. PICK m \in Nat : n = m + 1 /\ Tally(t, c, m)
  BY <1>1, <1>2, TallyTail DEF Weight
<1>4. 1 \in Marks(p, "payload", c)
  BY MarksTail DEF IsPayload
<1>5. Opens(o, c) = {} /\ InOrder(t, c)
  BY <1>2, <1>4, OrderTail DEF MessagesOK
<1>6. Marks(t, "end", c) = {} <=> Marks(p, "end", c) = {}
  BY <1>2, MarksSkip DEF IsPayload
<1>7. Ending(t, o, c) <=> Ending(p, o, c)
  BY <1>6 DEF Ending
<1>8. Marks(t, "start", c) = {}
  <2>1. \A i \in Marks(t, "start", c) : i \in Nat /\ i > 0 /\ i + 1 \in Marks(p, "start", c)
    BY <1>2, MarksTail
  <2>2. \A i \in Marks(t, "start", c) : i \in Nat /\ i > 0 /\ i + 1 < 1
    BY <1>4, <2>1 DEF MessagesOK, InOrder
  <2>3. \A i \in Marks(t, "start", c) : FALSE
    BY <2>2
  <2> QED BY <2>3
<1>9. ~Alive(t, o, d2, c) /\ ~Shut(d2)
  BY <1>5, <1>8 DEF Alive, Shut
<1>10. PICK s, w, g : s = d.seen /\ w = Waits(o, c) /\ g = Begun(k)
  OBVIOUS
<1>11. PICK y, z : y = x.sends /\ z = x.asked
  OBVIOUS
<1>12. s \in Nat /\ w \in Nat /\ g \in Nat /\ y \in Nat /\ z \in Nat
  BY <1>10, <1>11 DEF RecordsOK, Waits, Begun
<1>13. s + n + w + y <= z + g
  BY <1>1, <1>10, <1>11 DEF Balance
<1>14. s + m + w + y <= z + g
  BY <1>3, <1>12, <1>13
<1>15. Balance(m, t, o, x, k, d2, c)
  BY <1>9, <1>10, <1>11, <1>14 DEF Balance
<1>16. d2.st # "running"
  OBVIOUS
<1> QED BY <1>2, <1>3, <1>5, <1>7, <1>9, <1>15, <1>16 DEF MessagesOK

(* The end arrives, behind every message.                                     *)
LEMMA HearsEnd ==
    ASSUME NEW p \in Seq(SentType), p # <<>>, NEW o, NEW x, NEW k, NEW d, NEW d2, NEW c,
           MessagesOK(p, o, x, k, d, c), RecordsOK(x, d), IsEnd(Head(p).frame, c),
           d2.seen = d.seen, d.st = "receiving" => d.seen = 0,
           \/ d.st = "receiving"
           \/ d.st = "running" /\ d2.st = "running" /\ ~d2.inputOpen
           \/ d2.st = "gone"
           \/ d2 = d /\ d.st = "absent"
    PROVE  MessagesOK(Tail(p), o, x, k, d2, c)
<1>1. PICK n \in Nat : Tally(p, c, n) /\ Balance(n, p, o, x, k, d, c)
  BY DEF MessagesOK
<1>2. PICK t : t = Tail(p)
  OBVIOUS
<1>3. n = 0 /\ Tally(t, c, 0)
  <2>1. n = 0
    BY <1>1, TallyTail
  <2>2. PICK m \in Nat : n = m + Weight(Head(p).frame, c) /\ Tally(t, c, m)
    BY <1>1, <1>2, TallyTail
  <2>3. Weight(Head(p).frame, c) = 0
    BY DEF Weight, IsPayload, IsEnd
  <2>4. m = 0
    BY <2>1, <2>2, <2>3
  <2> QED BY <2>1, <2>2, <2>4
<1>4. 1 \in Marks(p, "end", c)
  BY MarksTail DEF IsEnd
<1>5. Ending(p, o, c)
  BY <1>4 DEF Ending
<1>6. x.st \in {"ended", "closed"} /\ x.sends = 0 /\ Waiting(o, c) = {}
  BY <1>5 DEF MessagesOK
<1>7. /\ Marks(t, "start", c) = {} <=> Marks(p, "start", c) = {}
      /\ Marks(t, "payload", c) = {} <=> Marks(p, "payload", c) = {}
      /\ InOrder(t, c)
  BY <1>2, MarksSkip, OrderTail DEF IsEnd, MessagesOK
<1>8. PICK s, z, g, l : s = d.seen /\ z = x.asked /\ g = Begun(k) /\ l = x.lost
  OBVIOUS
<1>9. s \in Nat /\ z \in Nat /\ g \in Nat /\ l \in Nat /\ l <= z
  BY <1>8 DEF RecordsOK, Begun
<1>10. s <= z + g /\ (Alive(p, o, d, c) => s + l = z + 1)
  <2>1. s + 0 + 0 + 0 <= z + g /\ (Alive(p, o, d, c) => s + 0 + 0 + 0 + l = z + 1)
    BY <1>1, <1>3, <1>5, <1>6, <1>8 DEF Balance, Waits
  <2> QED BY <1>9, <2>1
<1>11. d.st # "receiving"
  <2> SUFFICES ASSUME d.st = "receiving" PROVE FALSE
    OBVIOUS
  <2>1. s = 0 /\ s + l = z + 1
    BY <1>8, <1>10 DEF Alive
  <2> QED BY <1>9, <2>1
<1>12. /\ Alive(t, o, d2, c) => Alive(p, o, d, c)
       /\ Shut(d2) => s + l = z + 1
       /\ d2.st = "running" => d.st = "running"
  BY <1>7, <1>10, <1>11 DEF Alive, Shut
<1>13. Balance(0, t, o, x, k, d2, c)
  <2>1. s + 0 + 0 + 0 <= z + g /\ (Alive(t, o, d2, c) => s + 0 + 0 + 0 + l = z + 1)
    BY <1>9, <1>10, <1>12
  <2> QED BY <1>6, <1>8, <2>1 DEF Balance, Waits
<1>14. d2.st = "running" => d2.seen > 0
  BY <1>12 DEF MessagesOK
<1>15. Shut(d2) => d2.seen + x.lost = x.asked + 1
  BY <1>8, <1>12
<1> QED BY <1>2, <1>3, <1>6, <1>7, <1>13, <1>14, <1>15, MessageParts DEF MessagesOK

(* The daemon's record keeps its messages, or is abandoned.                   *)
QuietMove(d, d2) ==
    /\ d2.seen = d.seen /\ d2.inputOpen = d.inputOpen
    /\ d2.st = d.st \/ d2.st = "gone"

(* A call that is given up keeps its count.                                   *)
LEMMA AbandonedQuiet ==
    ASSUME NEW d \in DaemonRecord
    PROVE  QuietMove(d, Abandoned(d)) /\ Abandoned(d).st = "gone" /\ QuietMove(d, d)
BY DEF QuietMove, Abandoned, DaemonRecord

(* What handlers and timers do, a Cancel frame and credit.                    *)
LEMMA QuietSteps ==
    ASSUME NEW c \in Call, daemon \in [Call -> DaemonRecord],
           Handler(c) \/ DaemonCancel(c) \/ DaemonCredit(c)
    PROVE  QuietMove(daemon[c], daemon'[c])
<1>1. PICK d : d = daemon[c] /\ d \in DaemonRecord
  OBVIOUS
<1>2. QuietMove(d, Abandoned(d)) /\ QuietMove(d, d)
  BY <1>1, AbandonedQuiet
<1>3. CASE daemon' = daemon
  BY <1>1, <1>2, <1>3
<1>4. CASE daemon' = [daemon EXCEPT ![c] = Abandoned(@)]
  BY <1>1, <1>2, <1>4
<1>5. CASE DaemonYield(c)
  <2>1. \/ daemon' = [daemon EXCEPT ![c].emitted = d.emitted + 1, ![c].credit = @ - 1]
        \/ daemon' = [daemon EXCEPT ![c].emitted = d.emitted + 1,
                                    ![c].held = Append(@, d.emitted + 1)]
    BY <1>1, <1>5 DEF DaemonYield
  <2> QED BY <1>1, <2>1 DEF QuietMove, DaemonRecord
<1>6. CASE DaemonComplete(c)
  BY <1>1, <1>6 DEF DaemonComplete, QuietMove, DaemonRecord
<1>7. CASE DaemonConsume(c)
  BY <1>1, <1>7 DEF DaemonConsume, QuietMove, DaemonRecord
<1>8. CASE DaemonFail(c) \/ DaemonCancel(c)
  BY <1>3, <1>4, <1>8 DEF DaemonFail, DaemonCancel
<1>9. CASE DaemonCredit(c)
  <2>1. ASSUME NEW cr, NEW h, NEW st, st = "gone" \/ st = d.st,
               daemon' = [daemon EXCEPT ![c].credit = cr, ![c].held = h, ![c].st = st]
        PROVE  QuietMove(daemon[c], daemon'[c])
    BY <1>1, <2>1 DEF QuietMove, DaemonRecord
  <2>2. \/ daemon' = daemon
        \/ daemon' = [daemon EXCEPT ![c] = Abandoned(@)]
        \/ \E cr, h, st : /\ st = "gone" \/ st = d.st
                          /\ daemon' = [daemon EXCEPT ![c].credit = cr, ![c].held = h, ![c].st = st]
    BY <1>1, <1>9 DEF DaemonCredit
  <2> QED BY <1>3, <1>4, <2>1, <2>2
<1> QED BY <1>5, <1>6, <1>7, <1>8, <1>9 DEF Handler

(* What the daemon does with a message.                                       *)
LEMMA PayloadMove ==
    ASSUME NEW c \in Call, c \in Duplex, daemon \in [Call -> DaemonRecord],
           DaemonPayload(c), daemon[c].st = "running" => daemon[c].seen > 0
    PROVE  LET d == daemon[c]
               d2 == daemon'[c]
           IN \/ /\ d.st \in {"receiving", "running"}
                 /\ d2.st = "running" /\ d2.inputOpen /\ d2.seen = d.seen + 1
              \/ /\ d2.st = "gone" \/ (d2.st = "absent" /\ d.st = "absent")
                 /\ d2.seen = d.seen
<1>1. PICK d : d = daemon[c] /\ d \in DaemonRecord
  OBVIOUS
<1>2. QuietMove(d, Abandoned(d)) /\ Abandoned(d).st = "gone"
  BY <1>1, AbandonedQuiet
<1>3. d.st \in {"absent", "receiving", "running", "gone"} /\ d.seen \in Nat
  BY <1>1 DEF DaemonRecord
<1>4. CASE /\ d.st = "receiving" /\ d.seen = 0
           /\ daemon' = [daemon EXCEPT ![c].st = "running", ![c].inputOpen = TRUE,
                           ![c].input = 1, ![c].seen = 1, ![c].inputCredit = @ - 1]
  <2>1. daemon'[c].st = "running" /\ daemon'[c].inputOpen /\ daemon'[c].seen = 1
    BY <1>1, <1>4 DEF DaemonRecord
  <2>2. 1 = 0 + 1
    OBVIOUS
  <2> QED BY <1>1, <1>4, <2>1, <2>2
<1>5. CASE /\ d.st = "running" /\ d.inputOpen
           /\ daemon' = [daemon EXCEPT ![c].input = @ + 1, ![c].seen = @ + 1,
                                       ![c].inputCredit = @ - 1]
  <2>1. daemon'[c].st = "running" /\ daemon'[c].inputOpen /\ daemon'[c].seen = d.seen + 1
    BY <1>1, <1>5 DEF DaemonRecord
  <2> QED BY <1>1, <1>5, <2>1
<1>6. CASE daemon' = [daemon EXCEPT ![c] = Abandoned(@)]
  BY <1>1, <1>2, <1>6 DEF QuietMove
<1>7. CASE daemon' = daemon /\ d.st \in {"absent", "gone"}
  BY <1>1, <1>7
<1>8. /\ c \in Active <=> d.st \in {"receiving", "running"}
      /\ d.seen = 0 \/ d.seen > 0
  BY <1>1, <1>3 DEF Active
<1>9. d.st = "running" => d.seen > 0
  BY <1>1
<1>10. /\ Takes(d) => d.inputOpen
       /\ \/ /\ d.st = "receiving" /\ d.seen = 0
             /\ daemon' = [daemon EXCEPT ![c].st = "running", ![c].inputOpen = TRUE,
                           ![c].input = 1, ![c].seen = 1, ![c].inputCredit = @ - 1]
          \/ /\ d.st = "running" /\ Takes(d)
             /\ daemon' = [daemon EXCEPT ![c].input = @ + 1, ![c].seen = @ + 1,
                                         ![c].inputCredit = @ - 1]
          \/ daemon' = [daemon EXCEPT ![c] = Abandoned(@)]
          \/ daemon' = daemon /\ d.st \in {"absent", "gone"}
  <2>1. Takes(d) => d.inputOpen
    BY DEF Takes
  <2> QED BY <1>1, <1>3, <1>8, <1>9, <2>1 DEF DaemonPayload
<1> QED BY <1>4, <1>5, <1>6, <1>7, <1>10

(* And with an end.                                                           *)
LEMMA EndMove ==
    ASSUME NEW c \in Call, daemon \in [Call -> DaemonRecord], DaemonEnd(c)
    PROVE  LET d == daemon[c]
               d2 == daemon'[c]
           IN /\ d2.seen = d.seen /\ (d2.inputOpen => d.inputOpen)
              /\ \/ d.st = "receiving"
                 \/ d.st = "running" /\ d2.st = "running" /\ ~d2.inputOpen
                 \/ d2.st = "gone"
                 \/ d2 = d /\ d.st = "absent"
<1>1. PICK d : d = daemon[c] /\ d \in DaemonRecord
  OBVIOUS
<1>2. QuietMove(d, Abandoned(d)) /\ Abandoned(d).st = "gone"
  BY <1>1, AbandonedQuiet
<1>3. d.st \in {"absent", "receiving", "running", "gone"} /\ d.inputOpen \in BOOLEAN
  BY <1>1 DEF DaemonRecord
<1>4. CASE d.st = "receiving" /\ daemon' = [daemon EXCEPT ![c].st = "running"]
  BY <1>1, <1>4 DEF DaemonRecord
<1>5. CASE d.st = "running" /\ daemon' = [daemon EXCEPT ![c].inputOpen = FALSE]
  BY <1>1, <1>5 DEF DaemonRecord
<1>6. CASE daemon' = [daemon EXCEPT ![c] = Abandoned(@)]
  BY <1>1, <1>2, <1>6 DEF QuietMove
<1>7. CASE daemon' = daemon /\ d.st \in {"absent", "gone"}
  BY <1>1, <1>7
<1>8. \/ d.st = "receiving" /\ daemon' = [daemon EXCEPT ![c].st = "running"]
      \/ d.st = "running" /\ daemon' = [daemon EXCEPT ![c].inputOpen = FALSE]
      \/ daemon' = [daemon EXCEPT ![c] = Abandoned(@)]
      \/ daemon' = daemon /\ d.st \in {"absent", "gone"}
  BY <1>1, <1>3 DEF DaemonEnd
<1> QED BY <1>4, <1>5, <1>6, <1>7, <1>8

(* A step of the daemon.                                                      *)
LEMMA DaemonMessages ==
    ASSUME BooksInv, StartInv, MessagesInv, NEW c \in Call, DaemonReceives(c) \/ Handler(c)
    PROVE  /\ c \in Duplex =>
                 MessagesOK(toDaemon', outbox, duplex[c], client[c], daemon'[c], c)
           /\ c \notin Duplex => RequestOK(daemon'[c])
<1>1. daemon \in [Call -> DaemonRecord] /\ toDaemon \in Seq(SentType) /\ DaemonOK(daemon[c], c)
  BY DEF StartInv, LinkInv
<1>2. StartOK(toDaemon, outbox, daemon[c].st, client[c].st, c)
  BY DEF StartInv
<1>3. PICK d, d2 : d = daemon[c] /\ d2 = daemon'[c]
  OBVIOUS
<1>4. d \in DaemonRecord
  BY <1>1, <1>3
<1>5. PICK x, k : x = duplex[c] /\ k = client[c]
  OBVIOUS
<1>6. RecordsOK(x, d)
  BY <1>1, <1>3, <1>5, CallRecords, MessageRecords
<1>7. c \in Duplex => MessagesOK(toDaemon, outbox, x, k, d, c)
  BY <1>3, <1>5 DEF MessagesInv
<1>8. c \notin Duplex => RequestOK(d)
  BY <1>3 DEF MessagesInv
<1>9. CASE Handler(c)
  <2>1. QuietMove(d, d2)
    BY <1>1, <1>3, <1>9, QuietSteps
  <2>2. toDaemon' = toDaemon
    BY <1>9 DEF Handler, DaemonYield, DaemonComplete, DaemonFail, DaemonConsume, Emit
  <2>3. c \in Duplex => MessagesOK(toDaemon, outbox, x, k, d2, c)
    BY <1>7, <2>1, QuietMessages DEF QuietMove
  <2>4. c \notin Duplex => RequestOK(d2)
    BY <1>8, <2>1 DEF RequestOK, QuietMove
  <2> QED BY <1>3, <1>5, <2>2, <2>3, <2>4
<1>10. ASSUME DaemonReceives(c)
       PROVE  toDaemon # <<>> /\ toDaemon' = Tail(toDaemon)
  BY <1>10 DEF DaemonReceives, DaemonStart, DaemonPayload, DaemonEnd, DaemonCancel,
     DaemonCredit, DaemonReads, Answer
<1>11. CASE DaemonCancel(c) \/ DaemonCredit(c)
  <2>1. QuietMove(d, d2)
    BY <1>1, <1>3, <1>11, QuietSteps
  <2>2. Head(toDaemon).frame.kind \notin Spoken
    <3>1. Frame("cancel", c).kind = "cancel" /\ \A n : Counted("window", c, n).kind = "window"
      BY DEF Frame, Counted
    <3>2. Head(toDaemon).frame.kind \in {"cancel", "window"}
      BY <1>11, <3>1 DEF DaemonCancel, DaemonCredit, DaemonReads
    <3> QED BY <3>2 DEF Spoken
  <2>3. toDaemon # <<>> /\ toDaemon' = Tail(toDaemon)
    BY <1>10, <1>11 DEF DaemonReceives
  <2>4. SameIn(toDaemon, toDaemon', c)
    BY <1>1, <2>2, <2>3, InTail
  <2>5. c \in Duplex => SameOut(outbox, outbox, c)
    BY <1>7 DEF SameOut, MessagesOK
  <2>6. c \in Duplex => MessagesOK(toDaemon', outbox, x, k, d, c)
    BY <1>7, <2>4, <2>5, KeepsMessages
  <2>7. c \in Duplex => MessagesOK(toDaemon', outbox, x, k, d2, c)
    BY <2>1, <2>6, QuietMessages DEF QuietMove
  <2>8. c \notin Duplex => RequestOK(d2)
    BY <1>8, <2>1 DEF RequestOK, QuietMove
  <2> QED BY <1>3, <1>5, <2>7, <2>8
<1>12. CASE DaemonStart(c)
  <2>1. toDaemon # <<>> /\ toDaemon' = Tail(toDaemon)
    BY <1>10, <1>12 DEF DaemonReceives
  <2>2. IsStart(Head(toDaemon).frame, c)
    <3>1. IsStart(Frame("start", c), c)
      BY DEF IsStart, Frame
    <3> QED BY <1>12, <3>1 DEF DaemonStart, DaemonReads
  <2>3. d2.seen = d.seen /\ d2.inputOpen = d.inputOpen /\ (d2.st = "receiving" \/ d2 = d)
    <3>1. daemon' = daemon \/ daemon' = [daemon EXCEPT ![c].st = "receiving"]
      BY <1>12 DEF DaemonStart
    <3> QED BY <1>1, <1>3, <1>4, <3>1 DEF DaemonRecord
  <2>4. c \in Duplex => MessagesOK(Tail(toDaemon), outbox, x, k, d2, c)
    <3> SUFFICES ASSUME c \in Duplex PROVE MessagesOK(Tail(toDaemon), outbox, x, k, d2, c)
      OBVIOUS
    <3>1. StartOK(toDaemon, outbox, d.st, k.st, c)
      BY <1>2, <1>3, <1>5
    <3> QED BY <1>1, <1>7, <2>1, <2>2, <2>3, <3>1, HearsStart
  <2>5. c \notin Duplex => RequestOK(d2)
    BY <1>8, <2>3 DEF RequestOK
  <2> QED BY <1>3, <1>5, <2>1, <2>4, <2>5
<1>13. CASE DaemonPayload(c)
  <2>1. toDaemon # <<>> /\ toDaemon' = Tail(toDaemon)
    BY <1>10, <1>13 DEF DaemonReceives
  <2>2. IsPayload(Head(toDaemon).frame, c)
    <3>1. IsPayload(Frame("payload", c), c)
      BY DEF IsPayload, Frame
    <3> QED BY <1>13, <3>1 DEF DaemonPayload, DaemonReads
  <2>3. CASE c \in Duplex
    <3>1. MessagesOK(toDaemon, outbox, x, k, d, c)
      BY <1>7, <2>3
    <3>2. \/ /\ d.st \in {"receiving", "running"}
             /\ d2.st = "running" /\ d2.inputOpen /\ d2.seen = d.seen + 1
          \/ /\ d2.st = "gone" \/ (d2.st = "absent" /\ d.st = "absent")
             /\ d2.seen = d.seen
      <4>1. d.st = "running" => d.seen > 0
        BY <3>1, MessageParts
      <4> QED BY <1>1, <1>3, <1>13, <2>3, <4>1, PayloadMove
    <3>3. MessagesOK(Tail(toDaemon), outbox, x, k, d2, c)
      <4>1. CASE /\ d.st \in {"receiving", "running"}
                 /\ d2.st = "running" /\ d2.inputOpen /\ d2.seen = d.seen + 1
        BY <1>1, <1>6, <2>1, <2>2, <3>1, <4>1, HearsMessage
      <4>2. CASE /\ d2.st = "gone" \/ (d2.st = "absent" /\ d.st = "absent")
                 /\ d2.seen = d.seen
        BY <1>1, <1>6, <2>1, <2>2, <3>1, <4>2, HearsNothing
      <4> QED BY <3>2, <4>1, <4>2
    <3> QED BY <1>3, <1>5, <2>1, <2>3, <3>3
  <2>4. CASE c \notin Duplex
    <3>1. RequestOK(d) /\ d.inputOpen \in BOOLEAN /\ d.seen \in Nat
      BY <1>4, <1>8, <2>4 DEF DaemonRecord
    <3>2. QuietMove(d, Abandoned(d))
      BY <1>4, AbandonedQuiet
    <3>3. ~Takes(d)
      BY <3>1 DEF Takes, RequestOK
    <3>4. \/ daemon' = daemon
          \/ daemon' = [daemon EXCEPT ![c] = Abandoned(@)]
          \/ daemon' = [daemon EXCEPT ![c].seen = 1]
      BY <1>3, <1>13, <2>4, <3>3 DEF DaemonPayload
    <3>5. RequestOK(d2)
      <4>1. CASE daemon' = daemon
        BY <1>3, <3>1, <4>1
      <4>2. CASE daemon' = [daemon EXCEPT ![c] = Abandoned(@)]
        <5>1. d2 = Abandoned(d)
          BY <1>1, <1>3, <4>2
        <5> QED BY <3>1, <3>2, <5>1 DEF RequestOK, QuietMove
      <4>3. CASE daemon' = [daemon EXCEPT ![c].seen = 1]
        <5>1. d2.seen = 1 /\ d2.inputOpen = d.inputOpen
          BY <1>1, <1>3, <1>4, <4>3 DEF DaemonRecord
        <5> QED BY <3>1, <5>1 DEF RequestOK
      <4> QED BY <3>4, <4>1, <4>2, <4>3
    <3> QED BY <1>3, <2>4, <3>5
  <2> QED BY <2>3, <2>4
<1>14. CASE DaemonEnd(c)
  <2>1. toDaemon # <<>> /\ toDaemon' = Tail(toDaemon)
    BY <1>10, <1>14 DEF DaemonReceives
  <2>2. IsEnd(Head(toDaemon).frame, c)
    <3>1. IsEnd(Frame("end", c), c)
      BY DEF IsEnd, Frame
    <3> QED BY <1>14, <3>1 DEF DaemonEnd, DaemonReads
  <2>3. /\ d2.seen = d.seen /\ (d2.inputOpen => d.inputOpen)
        /\ \/ d.st = "receiving"
           \/ d.st = "running" /\ d2.st = "running" /\ ~d2.inputOpen
           \/ d2.st = "gone"
           \/ d2 = d /\ d.st = "absent"
    BY <1>1, <1>3, <1>14, EndMove
  <2>4. c \in Duplex => MessagesOK(Tail(toDaemon), outbox, x, k, d2, c)
    <3> SUFFICES ASSUME c \in Duplex PROVE MessagesOK(Tail(toDaemon), outbox, x, k, d2, c)
      OBVIOUS
    <3>1. d.st = "receiving" => d.seen = 0
      BY <1>1, <1>3 DEF DaemonOK
    <3> QED BY <1>1, <1>6, <1>7, <2>1, <2>2, <2>3, <3>1, HearsEnd
  <2>5. c \notin Duplex => RequestOK(d2)
    BY <1>8, <2>3 DEF RequestOK
  <2> QED BY <1>3, <1>5, <2>1, <2>4, <2>5
<1> QED BY <1>9, <1>11, <1>12, <1>13, <1>14 DEF DaemonReceives

(* The request and the client's record keep what counts.                      *)
LEMMA SameMessages ==
    ASSUME NEW p, NEW o, NEW x, NEW x2, NEW k, NEW k2, NEW d, NEW c,
           MessagesOK(p, o, x, k, d, c), RecordsOK(x, d), k2.st = "idle" => k.st = "idle",
           x2.st = x.st, x2.sends = x.sends, x2.asked = x.asked, x2.lost = x.lost
    PROVE  MessagesOK(p, o, x2, k2, d, c)
<1>1. PICK n \in Nat : Tally(p, c, n) /\ Balance(n, p, o, x, k, d, c)
  BY DEF MessagesOK
<1>2. PICK s : s = d.seen + n + Waits(o, c) + x.sends
  OBVIOUS
<1>3. s \in Nat /\ x.asked \in Nat
  BY <1>2 DEF RecordsOK, Waits
<1>4. PICK z : z = x.asked
  OBVIOUS
<1>5. s <= z + Begun(k)
  BY <1>1, <1>2, <1>4 DEF Balance
<1>6. s <= z + Begun(k2)
  BY <1>3, <1>4, <1>5 DEF Begun
<1>7. Balance(n, p, o, x2, k2, d, c)
  BY <1>1, <1>2, <1>4, <1>6 DEF Balance
<1> QED BY <1>1, <1>7 DEF MessagesOK

(* The request is closed.                                                     *)
LEMMA ClosedMessages ==
    ASSUME NEW p, NEW o, NEW x \in DuplexRequest, NEW k, NEW k2, NEW d, NEW c,
           MessagesOK(p, o, x, k, d, c), RecordsOK(x, d), k2.st # "idle"
    PROVE  MessagesOK(p, o, Closed(x), k2, d, c)
<1>1. PICK n \in Nat : Tally(p, c, n) /\ Balance(n, p, o, x, k, d, c)
  BY DEF MessagesOK
<1>2. PICK y : y = Closed(x)
  OBVIOUS
<1>3. y.st \in {"none", "closed"} /\ (x.st # "none" => y.st = "closed")
      /\ y.sends = 0 /\ y.asked = x.asked /\ y.lost = x.lost + x.sends
  BY <1>2 DEF Closed, DuplexRequest
<1>4. PICK t, z, e, l : t = d.seen + n + Waits(o, c) /\ z = x.asked /\ e = x.sends /\ l = x.lost
  OBVIOUS
<1>5. t \in Nat /\ z \in Nat /\ e \in Nat /\ l \in Nat
  BY <1>4 DEF RecordsOK, Waits
<1>6. /\ t + e <= z + Begun(k)
      /\ Alive(p, o, d, c) /\ Ending(p, o, c) => t + e + l = z + 1
  BY <1>1, <1>4 DEF Balance
<1>7. Ending(p, o, c) \/ Shut(d) => x.st \in {"ended", "closed"} /\ e = 0
  BY <1>4 DEF MessagesOK
<1>8. /\ t + 0 <= z + Begun(k2)
      /\ Ending(p, o, c) \/ Shut(d) => l + e = l
  BY <1>5, <1>6, <1>7 DEF Begun
<1>9. Balance(n, p, o, y, k2, d, c)
  BY <1>3, <1>4, <1>6, <1>7, <1>8 DEF Balance
<1>10. Ending(p, o, c) \/ Shut(d) => y.st = "closed" /\ y.sends = 0 /\ Waiting(o, c) = {}
  BY <1>3, <1>7 DEF MessagesOK
<1>11. Shut(d) => d.seen + y.lost = y.asked + 1
  BY <1>3, <1>4, <1>8, MessageParts
<1> QED BY <1>1, <1>2, <1>9, <1>10, <1>11, MessageParts DEF MessagesOK

(* A message is accepted, behind the others; or no more of them are.          *)
LEMMA SendMessages ==
    ASSUME NEW p, NEW o, NEW x, NEW x2, NEW k, NEW d, NEW c,
           MessagesOK(p, o, x, k, d, c), RecordsOK(x, d), x.st \in {"open", "ending"},
           x2.lost = x.lost,
           \/ x2.st = x.st /\ x2.sends = x.sends + 1 /\ x2.asked = x.asked + 1
           \/ x2.st = "ending" /\ x2.sends = x.sends /\ x2.asked = x.asked
    PROVE  MessagesOK(p, o, x2, k, d, c)
<1>1. PICK n \in Nat : Tally(p, c, n) /\ Balance(n, p, o, x, k, d, c)
  BY DEF MessagesOK
<1>2. ~Ending(p, o, c) /\ ~Shut(d)
  BY DEF MessagesOK
<1>3. PICK t, z, e, g, l : /\ t = d.seen + n + Waits(o, c) /\ z = x.asked /\ e = x.sends
                           /\ g = Begun(k) /\ l = x.lost
  OBVIOUS
<1>4. t \in Nat /\ z \in Nat /\ e \in Nat /\ g \in Nat /\ l \in Nat
  BY <1>3 DEF RecordsOK, Waits, Begun
<1>5. /\ t + e <= z + g
      /\ Alive(p, o, d, c) => t + e + l = z + 1
  BY <1>1, <1>3 DEF Balance
<1>6. CASE x2.st = x.st /\ x2.sends = x.sends + 1 /\ x2.asked = x.asked + 1
  <2>1. /\ t + (e + 1) <= (z + 1) + g
        /\ Alive(p, o, d, c) => t + (e + 1) + l = (z + 1) + 1
    BY <1>4, <1>5
  <2>2. Balance(n, p, o, x2, k, d, c)
    BY <1>3, <1>6, <2>1 DEF Balance
  <2> QED BY <1>1, <1>2, <2>2, MessageParts DEF MessagesOK
<1>7. CASE x2.st = "ending" /\ x2.sends = x.sends /\ x2.asked = x.asked
  <2>1. Balance(n, p, o, x2, k, d, c)
    BY <1>3, <1>5, <1>7 DEF Balance
  <2> QED BY <1>1, <1>2, <2>1, MessageParts DEF MessagesOK
<1> QED BY <1>6, <1>7

(* A message is queued.                                                       *)
LEMMA FlushMessages ==
    ASSUME NEW p, NEW o \in Seq(BatchType), NEW b, NEW x, NEW x2, NEW k, NEW d, NEW c,
           MessagesOK(p, o, x, k, d, c), RecordsOK(x, d), x.st \in {"open", "ending"},
           x.sends > 0, x2.st = x.st, x2.sends = x.sends - 1, x2.asked = x.asked,
           x2.lost = x.lost,
           BatchOK(b), b.signal = c, Len(b.frames) = 1, IsPayload(b.frames[1], c),
           Waiting(o, c) = {}
    PROVE  MessagesOK(p, Append(o, b), x2, k, d, c)
<1>1. PICK n \in Nat : Tally(p, c, n) /\ Balance(n, p, o, x, k, d, c)
  BY DEF MessagesOK
<1>2. ~Ending(p, o, c) /\ ~Shut(d)
  BY DEF MessagesOK
<1>3. PICK r : r = Append(o, b)
  OBVIOUS
<1>4. Shape(b, c)
  <2>1. \A j \in 1 .. 1 : j = 1
    OBVIOUS
  <2> QED BY <2>1 DEF Shape, IsPayload
<1>5. /\ \A i \in 1 .. Len(r) : Shape(r[i], c)
      /\ Waiting(r, c) # {} /\ (\A i, j \in Waiting(r, c) : i = j)
      /\ EndsOut(r, c) = EndsOut(o, c) /\ Opens(r, c) = Opens(o, c)
  <2>1. ~IsEnd(b.frames[1], c) /\ ~IsStart(b.frames[1], c)
    BY DEF IsEnd, IsStart, IsPayload
  <2>2. b \in BatchType
    BY DEF BatchOK
  <2> QED BY <1>3, <1>4, <2>1, <2>2, OutAppend, MessageParts
<1>6. ~Ending(p, r, c) /\ (Alive(p, r, d, c) <=> Alive(p, o, d, c))
  BY <1>2, <1>5 DEF Ending, Alive
<1>7. PICK t, z, e, g, l : /\ t = d.seen + n /\ z = x.asked /\ e = x.sends
                           /\ g = Begun(k) /\ l = x.lost
  OBVIOUS
<1>8. t \in Nat /\ z \in Nat /\ e \in Nat /\ g \in Nat /\ l \in Nat /\ e > 0
  BY <1>7 DEF RecordsOK, Begun
<1>9. /\ t + 0 + e <= z + g
      /\ Alive(p, o, d, c) => t + 0 + e + l = z + 1
  BY <1>1, <1>7 DEF Balance, Waits
<1>10. /\ t + 1 + (e - 1) <= z + g
       /\ Alive(p, o, d, c) => t + 1 + (e - 1) + l = z + 1
  BY <1>8, <1>9
<1>11. Balance(n, p, r, x2, k, d, c)
  BY <1>5, <1>6, <1>7, <1>10 DEF Balance, Waits
<1> QED BY <1>1, <1>2, <1>3, <1>5, <1>6, <1>11, MessageParts DEF MessagesOK

(* The end is queued, behind every message.                                   *)
LEMMA EndMessages ==
    ASSUME NEW p, NEW o \in Seq(BatchType), NEW b, NEW x, NEW x2, NEW k, NEW d, NEW c,
           MessagesOK(p, o, x, k, d, c), x.st = "ending", x.sends = 0,
           x2.st = "ended", x2.sends = x.sends, x2.asked = x.asked, x2.lost = x.lost,
           BatchOK(b), b.signal # c, Len(b.frames) = 1, IsEnd(b.frames[1], c),
           Waiting(o, c) = {}
    PROVE  MessagesOK(p, Append(o, b), x2, k, d, c)
<1>1. PICK n \in Nat : Tally(p, c, n) /\ Balance(n, p, o, x, k, d, c)
  BY DEF MessagesOK
<1>2. ~Shut(d)
  BY DEF MessagesOK
<1>3. PICK r : r = Append(o, b)
  OBVIOUS
<1>4. Shape(b, c)
  <2>1. \A j \in 1 .. 1 : j = 1
    OBVIOUS
  <2> QED BY <2>1 DEF Shape, IsEnd
<1>5. /\ \A i \in 1 .. Len(r) : Shape(r[i], c)
      /\ Waiting(r, c) = {} /\ Opens(r, c) = Opens(o, c)
  <2>1. ~IsStart(b.frames[1], c)
    BY DEF IsEnd, IsStart
  <2>2. b \in BatchType
    BY DEF BatchOK
  <2> QED BY <1>3, <1>4, <2>1, <2>2, OutAppend, MessageParts
<1>6. Alive(p, r, d, c) <=> Alive(p, o, d, c)
  BY <1>5 DEF Alive
<1>7. Balance(n, p, r, x2, k, d, c)
  BY <1>1, <1>5, <1>6 DEF Balance, Waits
<1> QED BY <1>1, <1>2, <1>3, <1>5, <1>7, MessageParts DEF MessagesOK

(* A send fails and closes the request; a message that waited behind it is    *)
(* queued before that, or an end that did.                                    *)
LEMMA FailMessages ==
    ASSUME NEW p, NEW o \in Seq(BatchType), NEW b, NEW x \in DuplexRequest, NEW k, NEW k2,
           NEW d, NEW c, c # None,
           MessagesOK(p, o, x, k, d, c), RecordsOK(x, d), x.st \in {"open", "ending"},
           k2.st # "idle", BatchOK(b), Len(b.frames) = 1, Waiting(o, c) = {},
           \/ b.signal = c /\ IsPayload(b.frames[1], c) /\ x.sends > 1
           \/ b.signal = None /\ IsEnd(b.frames[1], c) /\ x.sends = 1 /\ x.st = "ending"
    PROVE  MessagesOK(p, Append(o, b), Closed(x), k2, d, c)
<1>1. PICK n \in Nat : Tally(p, c, n) /\ Balance(n, p, o, x, k, d, c)
  BY DEF MessagesOK
<1>2. ~Ending(p, o, c) /\ ~Shut(d)
  BY DEF MessagesOK
<1>3. PICK r, y : r = Append(o, b) /\ y = Closed(x)
  OBVIOUS
<1>4. y.st = "closed" /\ y.sends = 0 /\ y.asked = x.asked /\ y.lost = x.lost + x.sends
  BY <1>3 DEF Closed, DuplexRequest
<1>5. b \in BatchType /\ \A j \in 1 .. 1 : j = 1
  BY DEF BatchOK
<1>6. PICK t, z, e, g, l : /\ t = d.seen + n /\ z = x.asked /\ e = x.sends
                           /\ g = Begun(k) /\ l = x.lost
  OBVIOUS
<1>7. t \in Nat /\ z \in Nat /\ e \in Nat /\ g \in {0, 1} /\ l \in Nat
  BY <1>6 DEF RecordsOK, Begun
<1>8. /\ t + 0 + e <= z + g
      /\ Alive(p, o, d, c) => t + 0 + e + l = z + 1
  BY <1>1, <1>6 DEF Balance, Waits
<1>9. Begun(k2) = 1
  BY DEF Begun
<1>10. CASE b.signal = c /\ IsPayload(b.frames[1], c) /\ x.sends > 1
  <2>1. Shape(b, c)
    BY <1>5, <1>10 DEF Shape, IsPayload
  <2>2. ~IsEnd(b.frames[1], c) /\ ~IsStart(b.frames[1], c)
    BY <1>10 DEF IsEnd, IsStart, IsPayload
  <2>3. /\ \A i \in 1 .. Len(r) : Shape(r[i], c)
        /\ Waiting(r, c) # {} /\ (\A i, j \in Waiting(r, c) : i = j)
        /\ EndsOut(r, c) = EndsOut(o, c) /\ Opens(r, c) = Opens(o, c)
    BY <1>3, <1>5, <1>10, <2>1, <2>2, OutAppend, MessageParts
  <2>4. ~Ending(p, r, c)
    BY <1>2, <2>3 DEF Ending
  <2>5. e > 1
    BY <1>6, <1>10
  <2>6. t + 1 + 0 <= z + 1
    BY <1>7, <1>8, <2>5
  <2>7. Balance(n, p, r, y, k2, d, c)
    BY <1>4, <1>6, <1>9, <2>3, <2>4, <2>6 DEF Balance, Waits
  <2> QED BY <1>1, <1>2, <1>3, <2>3, <2>4, <2>7, MessageParts DEF MessagesOK
<1>11. CASE b.signal = None /\ IsEnd(b.frames[1], c) /\ x.sends = 1
  <2>1. Shape(b, c)
    BY <1>5, <1>11 DEF Shape, IsEnd
  <2>2. ~IsStart(b.frames[1], c)
    BY <1>11 DEF IsEnd, IsStart
  <2>3. /\ \A i \in 1 .. Len(r) : Shape(r[i], c)
        /\ Waiting(r, c) = {} /\ Opens(r, c) = Opens(o, c)
    BY <1>3, <1>5, <1>11, <2>1, <2>2, OutAppend, MessageParts
  <2>4. Alive(p, r, d, c) <=> Alive(p, o, d, c)
    BY <2>3 DEF Alive
  <2>5. e = 1
    BY <1>6, <1>11
  <2>6. /\ t + 0 + 0 <= z + 1
        /\ Alive(p, o, d, c) => t + 0 + 0 + (l + e) = z + 1
    BY <1>7, <1>8, <2>5
  <2>7. Balance(n, p, r, y, k2, d, c)
    BY <1>4, <1>6, <1>9, <2>3, <2>4, <2>6 DEF Balance, Waits
  <2> QED BY <1>1, <1>2, <1>3, <1>4, <2>3, <2>7, MessageParts DEF MessagesOK
<1> QED BY <1>10, <1>11

(* The call starts, with its first message.                                   *)
LEMMA StartMessages ==
    ASSUME NEW p \in Seq(SentType), NEW o \in Seq(BatchType), NEW b, NEW x, NEW x2, NEW k, NEW k2,
           NEW d, NEW c,
           MessagesOK(p, o, x, k, d, c), RecordsOK(x, d), k.st = "idle", k2.st # "idle",
           x = NewDuplex, d.st = "absent",
           x2.st = "open", x2.sends = 0, x2.asked = 0, x2.lost = 0,
           BatchOK(b), b.signal = c, Of(b, c), Len(b.frames) = 2, IsStart(b.frames[1], c),
           IsPayload(b.frames[2], c)
    PROVE  MessagesOK(p, Append(o, b), x2, k2, d, c)
<1>1. PICK n \in Nat : Tally(p, c, n) /\ Balance(n, p, o, x, k, d, c)
  BY DEF MessagesOK
<1>2. x.st = "none" /\ x.sends = 0 /\ x.asked = 0
  BY DEF NewDuplex
<1>3. ~Ending(p, o, c) /\ ~Shut(d)
  BY <1>2 DEF MessagesOK
<1>4. PICK s, w : s = d.seen /\ w = Waits(o, c)
  OBVIOUS
<1>5. s \in Nat /\ w \in Nat
  BY <1>4 DEF RecordsOK, Waits
<1>6. s + n + w + 0 <= 0 + 0
  BY <1>1, <1>2, <1>4 DEF Balance, Begun
<1>7. s = 0 /\ n = 0 /\ w = 0
  BY <1>5, <1>6
<1>8. Waiting(o, c) = {}
  BY <1>4, <1>7 DEF Waits
<1>9. Marks(p, "payload", c) = {}
  BY <1>1, <1>7, TallyNothing
<1>10. PICK r : r = Append(o, b)
  OBVIOUS
<1>11. Shape(b, c)
  <2>1. \A j \in 1 .. 2 : b.frames[j].call = c
    BY BatchFrames DEF Of
  <2> QED BY <2>1 DEF Shape, IsStart, IsPayload
<1>12. /\ \A i \in 1 .. Len(r) : Shape(r[i], c)
       /\ Waiting(r, c) # {} /\ (\A i, j \in Waiting(r, c) : i = j)
       /\ EndsOut(r, c) = EndsOut(o, c)
  <2>1. ~IsEnd(b.frames[1], c)
    BY DEF IsEnd, IsStart
  <2>2. b \in BatchType
    BY DEF BatchOK
  <2> QED BY <1>8, <1>10, <1>11, <2>1, <2>2, OutAppend, MessageParts
<1>13. ~Ending(p, r, c)
  BY <1>3, <1>12 DEF Ending
<1>14. Balance(n, p, r, x2, k2, d, c)
  <2>1. 0 + 0 + 1 + 0 <= 0 + 1 /\ 0 + 0 + 1 + 0 + 0 = 0 + 1
    OBVIOUS
  <2> QED BY <1>4, <1>7, <1>12, <2>1 DEF Balance, Waits, Begun
<1>15. d.st # "running"
  OBVIOUS
<1> QED BY <1>1, <1>3, <1>9, <1>10, <1>12, <1>13, <1>14, <1>15, MessageParts DEF MessagesOK

(* The request of a call after a step of its client.                          *)
LEMMA RequestAfter ==
    ASSUME BooksInv, NEW c \in Call, Caller(c) \/ ClientReceives(c)
    PROVE  \/ Start(c) \/ DuplexSend(c) \/ DuplexFlush(c)
           \/ DuplexEnd(c) /\ duplex[c].st = "ending" /\ CanSend
           \/ DuplexEnd(c) /\ duplex[c].st = "open"
           \/ duplex'[c] = Closed(duplex[c]) /\ client'[c].st # "idle"
           \/ /\ duplex'[c].st = duplex[c].st /\ duplex'[c].sends = duplex[c].sends
              /\ duplex'[c].asked = duplex[c].asked /\ duplex'[c].lost = duplex[c].lost
<1>1. duplex \in [Call -> DuplexRequest] /\ duplex[c] \in DuplexRequest
  BY DEF BooksInv
<1>2. ASSUME NEW end, Take(c, end)
      PROVE  duplex'[c] = Closed(duplex[c]) /\ client'[c].st # "idle"
  <2>1. client'[c].st = "done"
    BY <1>2, TakeRecord
  <2> QED BY <1>1, <1>2, <2>1 DEF Take
<1>3. ASSUME NEW queue, CancelAfter(c, queue)
      PROVE  duplex'[c] = Closed(duplex[c]) /\ client'[c].st # "idle"
  BY <1>2, <1>3 DEF CancelAfter
<1>4. CASE duplex' = duplex
  BY <1>4
<1>5. CASE StartRefused(c) \/ Read(c)
  BY <1>4, <1>5 DEF StartRefused, Read
<1>6. CASE Cancel(c) \/ Return(c)
  BY <1>2, <1>3, <1>6 DEF Cancel, Return
<1>7. CASE DuplexFlush(c) \/ DuplexFlushFails(c) \/ DuplexEnd(c)
  BY <1>3, <1>7 DEF DuplexFlushFails, DuplexEnd
<1>8. CASE ReceivePayload(c)
  BY <1>3, <1>4, <1>8 DEF ReceivePayload, callVars
<1>9. CASE ReceiveEnd(c)
  <2>1. CASE /\ client' = [client EXCEPT ![c].st = "ended"]
             /\ duplex' = [duplex EXCEPT ![c] = Closed(@)]
    <3>1. client'[c].st = "ended"
      BY <2>1 DEF BooksInv, ClientCall
    <3> QED BY <1>1, <2>1, <3>1
  <2> QED BY <1>2, <1>4, <1>9, <2>1 DEF ReceiveEnd, callVars
<1>10. CASE ReceiveFailure(c)
  BY <1>2, <1>4, <1>10 DEF ReceiveFailure, callVars
<1>11. CASE ReceiveInputCredit(c)
  <2>1. duplex' = duplex \/ duplex' = [duplex EXCEPT ![c].credit = @ + 1]
    BY <1>11 DEF ReceiveInputCredit
  <2> QED BY <1>1, <2>1 DEF DuplexRequest
<1> QED BY <1>5, <1>6, <1>7, <1>8, <1>9, <1>10, <1>11 DEF Caller, ClientReceives

(* A step of the client.                                                      *)
LEMMA ClientMessages ==
    ASSUME BooksInv, StartInv, MessagesInv, NEW c \in Duplex, Caller(c) \/ ClientReceives(c)
    PROVE  MessagesOK(toDaemon, outbox', duplex'[c], client'[c], daemon[c], c)
<1>1. c \in Call /\ c # None
  BY PeerAssumption DEF PeerAssumption, Call
<1>2. LinkInv /\ outbox \in Seq(BatchType) /\ toDaemon \in Seq(SentType)
  BY DEF StartInv, LinkInv
<1>3. PICK x, k, d : x = duplex[c] /\ k = client[c] /\ d = daemon[c]
  OBVIOUS
<1>4. PICK x2, k2 : x2 = duplex'[c] /\ k2 = client'[c]
  OBVIOUS
<1>5. MessagesOK(toDaemon, outbox, x, k, d, c)
  BY <1>3 DEF MessagesInv
<1>6. x \in DuplexRequest /\ DuplexOK(x, k, c) /\ DaemonOK(d, c)
  BY <1>1, <1>3, CallRecords DEF StartInv
<1>7. RecordsOK(x, d)
  BY <1>6, MessageRecords
<1>8. duplex \in [Call -> DuplexRequest]
  BY DEF BooksInv
<1>9. \A i \in 1 .. Len(outbox) : Shape(outbox[i], c)
  BY <1>5, MessageParts
<1>10. CASE Start(c)
  <2>1. PICK b : /\ outbox' = Append(outbox, b) /\ b.signal = c /\ BatchOK(b) /\ Of(b, c)
                 /\ b.frames[1] = Frame("start", c) /\ b.frames[2] = Frame("payload", c)
                 /\ Len(b.frames) = 2
    BY <1>1, <1>2, <1>10, StartSends
  <2>2. IsStart(b.frames[1], c) /\ IsPayload(b.frames[2], c)
    BY <2>1 DEF IsStart, IsPayload, Frame
  <2>3. k.st = "idle" /\ k2.st = "live"
    BY <1>1, <1>3, <1>4, <1>10 DEF Start, BooksInv, ClientCall
  <2>4. x = NewDuplex
    BY <1>6, <2>3 DEF DuplexOK
  <2>5. d.st = "absent"
    <3>1. StartOK(toDaemon, outbox, d.st, k.st, c)
      BY <1>1, <1>3 DEF StartInv
    <3> QED BY <2>3, <3>1 DEF StartOK
  <2>6. x2.st = "open" /\ x2.sends = 0 /\ x2.asked = 0 /\ x2.lost = 0
    <3>1. duplex' = [duplex EXCEPT ![c].st = "open", ![c].credit = @ - 1]
      BY <1>10 DEF Start
    <3>2. x2.st = "open" /\ x2.sends = x.sends /\ x2.asked = x.asked /\ x2.lost = x.lost
      BY <1>1, <1>3, <1>4, <1>6, <1>8, <3>1 DEF DuplexRequest
    <3> QED BY <2>4, <3>2 DEF NewDuplex
  <2>7. MessagesOK(toDaemon, Append(outbox, b), x2, k2, d, c)
    BY <1>2, <1>5, <1>7, <2>1, <2>2, <2>3, <2>4, <2>5, <2>6, StartMessages
  <2> QED BY <1>3, <1>4, <2>1, <2>7
<1>11. CASE DuplexFlush(c)
  <2>1. /\ duplex' = [duplex EXCEPT ![c].sends = @ - 1, ![c].credit = @ - 1]
        /\ outbox' = Append(outbox, Batch(<<Frame("payload", c)>>, c))
        /\ client' = client /\ x.st \in {"open", "ending"} /\ x.sends > 0 /\ Quiet(c)
    BY <1>3, <1>11 DEF DuplexFlush, FlushTurn
  <2>2. PICK b : /\ outbox' = Append(outbox, b) /\ b.signal = c /\ BatchOK(b)
                 /\ b.frames[1] = Frame("payload", c) /\ Len(b.frames) = 1
    BY <1>1, <1>2, <2>1, FlushSends
  <2>3. IsPayload(b.frames[1], c)
    BY <2>2 DEF IsPayload, Frame
  <2>4. x2.st = x.st /\ x2.sends = x.sends - 1 /\ x2.asked = x.asked /\ x2.lost = x.lost
    BY <1>1, <1>3, <1>4, <1>6, <1>8, <2>1 DEF DuplexRequest
  <2>5. Waiting(outbox, c) = {}
    <3>1. DOMAIN outbox = 1 .. Len(outbox)
      BY <1>2, LenProperties
    <3> QED BY <2>1, <3>1 DEF Quiet, Waiting
  <2>6. MessagesOK(toDaemon, Append(outbox, b), x2, k, d, c)
    BY <1>2, <1>5, <1>7, <2>1, <2>2, <2>3, <2>4, <2>5, FlushMessages
  <2> QED BY <1>3, <1>4, <2>1, <2>2, <2>6
<1>12. CASE DuplexEnd(c) /\ duplex[c].st = "ending" /\ CanSend
  <2>1. /\ duplex' = [duplex EXCEPT ![c].st = "ended"]
        /\ outbox' = Append(outbox, Batch(<<Frame("end", c)>>, None))
        /\ client' = client /\ x.st = "ending" /\ x.sends = 0 /\ Quiet(c)
    BY <1>3, <1>12 DEF DuplexEnd, TailDone
  <2>2. PICK b : /\ outbox' = Append(outbox, b) /\ b.signal = None /\ BatchOK(b)
                 /\ b.frames[1] = Frame("end", c) /\ Len(b.frames) = 1
    BY <1>1, <1>2, <2>1, FlushSends
  <2>3. IsEnd(b.frames[1], c) /\ b.signal # c
    BY <1>1, <2>2 DEF IsEnd, Frame
  <2>4. x2.st = "ended" /\ x2.sends = x.sends /\ x2.asked = x.asked /\ x2.lost = x.lost
    BY <1>1, <1>3, <1>4, <1>6, <1>8, <2>1 DEF DuplexRequest
  <2>5. Waiting(outbox, c) = {}
    <3>1. DOMAIN outbox = 1 .. Len(outbox)
      BY <1>2, LenProperties
    <3> QED BY <2>1, <3>1 DEF Quiet, Waiting
  <2>6. MessagesOK(toDaemon, Append(outbox, b), x2, k, d, c)
    BY <1>2, <1>5, <2>1, <2>2, <2>3, <2>4, <2>5, EndMessages
  <2> QED BY <1>3, <1>4, <2>1, <2>2, <2>6
<1>13. CASE DuplexSend(c) \/ (DuplexEnd(c) /\ duplex[c].st = "open")
  <2>1. /\ client' = client /\ outbox' = outbox /\ x.st = "open"
        /\ \/ duplex' = [duplex EXCEPT ![c].sends = @ + 1, ![c].asked = @ + 1]
           \/ duplex' = [duplex EXCEPT ![c].st = "ending"]
    BY <1>3, <1>13 DEF DuplexSend, DuplexEnd, linkVars
  <2>2. /\ \/ x2.st = x.st /\ x2.sends = x.sends + 1 /\ x2.asked = x.asked + 1
           \/ x2.st = "ending" /\ x2.sends = x.sends /\ x2.asked = x.asked
        /\ x2.lost = x.lost
    BY <1>1, <1>3, <1>4, <1>6, <1>8, <2>1 DEF DuplexRequest
  <2>3. MessagesOK(toDaemon, outbox, x2, k, d, c)
    BY <1>5, <1>7, <2>1, <2>2, SendMessages
  <2> QED BY <1>3, <1>4, <2>1, <2>3
<1>14. CASE Controls(outbox, outbox', c)
  <2>1. SameOut(outbox, outbox', c)
    BY <1>1, <1>2, <1>9, <1>14, OutControls
  <2>2. SameIn(toDaemon, toDaemon, c)
    BY DEF SameIn
  <2>3. MessagesOK(toDaemon, outbox', x, k, d, c)
    BY <1>5, <2>1, <2>2, KeepsMessages
  <2>4. CASE x2 = Closed(x) /\ k2.st # "idle"
    <3>1. MessagesOK(toDaemon, outbox', x2, k2, d, c)
      BY <1>6, <1>7, <2>3, <2>4, ClosedMessages
    <3> QED BY <1>3, <1>4, <3>1
  <2>5. CASE x2.st = x.st /\ x2.sends = x.sends /\ x2.asked = x.asked /\ x2.lost = x.lost
    <3>1. k2.st = "idle" => k.st = "idle"
      BY <1>1, <1>3, <1>4, NeverIdle
    <3>2. MessagesOK(toDaemon, outbox', x2, k2, d, c)
      BY <1>7, <2>3, <2>5, <3>1, SameMessages
    <3> QED BY <1>3, <1>4, <3>2
  <2> QED BY <1>1, <1>3, <1>4, <1>10, <1>11, <1>12, <1>13, <2>4, <2>5, RequestAfter
<1>15. ASSUME DuplexFlushFails(c), NEW b, Fails(c, b)
       PROVE  MessagesOK(toDaemon, outbox', duplex'[c], client'[c], daemon[c], c)
  <2>1. PICK queue : CancelAfter(c, queue)
    BY <1>1, <1>2, <1>15, FailsSends
  <2>2. x2 = Closed(x)
    BY <1>1, <1>3, <1>4, <1>8, <2>1 DEF CancelAfter, Take
  <2>3. k2.st # "idle"
    <3>1. Take(c, "cut")
      BY <2>1 DEF CancelAfter
    <3>2. client'[c].st = "done"
      BY <1>1, <3>1, TakeRecord
    <3> QED BY <1>4, <3>2
  <2>4. /\ b \in Follower(x, c) /\ Append(outbox, b) \in Seq(BatchType)
        /\ Controls(Append(outbox, b), outbox', c)
    BY <1>3, <1>15 DEF Fails
  <2>5. x.st \in {"open", "ending"} /\ Waiting(outbox, c) = {}
    <3>1. DOMAIN outbox = 1 .. Len(outbox)
      BY <1>2, LenProperties
    <3> QED BY <1>3, <1>15, <3>1 DEF DuplexFlushFails, FlushTurn, Quiet, Waiting
  <2>6. /\ BatchOK(b) /\ Len(b.frames) = 1
        /\ \/ b.signal = c /\ b.frames[1] = Frame("payload", c) /\ x.sends > 1
           \/ /\ b.signal = None /\ b.frames[1] = Frame("end", c)
              /\ x.sends = 1 /\ x.st = "ending"
    BY <1>1, <2>4, FollowerFacts
  <2>7. IsPayload(Frame("payload", c), c) /\ IsEnd(Frame("end", c), c)
    BY DEF IsPayload, IsEnd, Frame
  <2>8. \/ b.signal = c /\ IsPayload(b.frames[1], c) /\ x.sends > 1
        \/ b.signal = None /\ IsEnd(b.frames[1], c) /\ x.sends = 1 /\ x.st = "ending"
    BY <2>6, <2>7
  <2>9. MessagesOK(toDaemon, Append(outbox, b), x2, k2, d, c)
    BY <1>1, <1>2, <1>5, <1>6, <1>7, <2>2, <2>3, <2>5, <2>6, <2>8, FailMessages
  <2>10. PICK o2 : o2 = Append(outbox, b)
    OBVIOUS
  <2>11. \A i \in 1 .. Len(o2) : Shape(o2[i], c)
    BY <2>9, <2>10, MessageParts
  <2>12. SameOut(o2, outbox', c)
    BY <1>1, <2>4, <2>10, <2>11, OutControls
  <2>13. SameIn(toDaemon, toDaemon, c)
    BY DEF SameIn
  <2>14. MessagesOK(toDaemon, outbox', x2, k2, d, c)
    BY <2>9, <2>10, <2>12, <2>13, KeepsMessages
  <2> QED BY <1>3, <1>4, <2>14
<1>16. \/ Start(c) \/ DuplexFlush(c)
       \/ (DuplexEnd(c) /\ duplex[c].st = "ending" /\ CanSend)
       \/ (DuplexFlushFails(c) /\ \E b : Fails(c, b))
       \/ Controls(outbox, outbox', c)
  BY <1>1, <1>2, CallerStep, ClientReceivesStep
<1> QED BY <1>10, <1>11, <1>12, <1>14, <1>15, <1>16

(* Batch b leaves the front of the queue.                                     *)
Leaves(o, t, b, c) ==
    /\ \A i \in 1 .. Len(t) : Shape(t[i], c)
    /\ \A i, j \in Waiting(t, c) : i = j
    /\ b.signal # c => (Waiting(t, c) = {} <=> Waiting(o, c) = {})
    /\ b.signal = c => Waiting(o, c) # {} /\ Waiting(t, c) = {}
    /\ EndsOut(t, c) # {} => EndsOut(o, c) # {}
    /\ ~IsEnd(b.frames[1], c) => (EndsOut(t, c) = {} <=> EndsOut(o, c) = {})
    /\ IsEnd(b.frames[1], c) => EndsOut(o, c) # {}
    /\ Opens(t, c) # {} => Opens(o, c) # {}
    /\ ~IsStart(b.frames[1], c) => (Opens(t, c) = {} <=> Opens(o, c) = {})

(* The first batch leaves the queue.                                          *)
LEMMA OutTail ==
    ASSUME NEW o \in Seq(BatchType), o # <<>>, NEW c, NEW b, b = o[1], NEW t, t = Tail(o),
           \A i \in 1 .. Len(o) : Shape(o[i], c),
           \A i, j \in Waiting(o, c) : i = j
    PROVE  Leaves(o, t, b, c)
<1>1. PICK n : n = Len(o)
  OBVIOUS
<1>2. n \in Nat /\ n # 0
  BY <1>1, LenProperties, EmptySeq
<1>3. Len(t) = n - 1 /\ \A i \in 1 .. n - 1 : t[i] = o[i + 1]
  BY <1>1, HeadTailProperties
<1>4. /\ \A i \in 1 .. n - 1 : i \in Nat /\ i > 0 /\ i + 1 \in 1 .. n
      /\ \A i \in 1 .. n : i = 1 \/ (i - 1 \in 1 .. n - 1 /\ (i - 1) + 1 = i)
      /\ 1 \in 1 .. n
  BY <1>2
<1>5. \A i \in 1 .. Len(t) : Shape(t[i], c)
  BY <1>1, <1>3, <1>4
<1>6. /\ \A i \in Waiting(t, c) : i \in Nat /\ i > 0 /\ i + 1 \in Waiting(o, c)
      /\ \A i \in Waiting(o, c) : i = 1 \/ i - 1 \in Waiting(t, c)
      /\ 1 \in Waiting(o, c) <=> b.signal = c
  BY <1>1, <1>3, <1>4 DEF Waiting
<1>7. \A i, j \in Waiting(t, c) : i = j
  <2>1. \A i, j \in Waiting(t, c) : i \in Nat /\ j \in Nat /\ i + 1 = j + 1
    BY <1>6
  <2> QED BY <2>1
<1>8. b.signal # c => (Waiting(t, c) = {} <=> Waiting(o, c) = {})
  BY <1>6
<1>9. b.signal = c => Waiting(o, c) # {} /\ Waiting(t, c) = {}
  <2> SUFFICES ASSUME b.signal = c PROVE Waiting(o, c) # {} /\ Waiting(t, c) = {}
    OBVIOUS
  <2>1. 1 \in Waiting(o, c)
    BY <1>6
  <2>2. \A i \in Waiting(t, c) : i \in Nat /\ i > 0 /\ i + 1 = 1
    BY <1>6, <2>1
  <2>3. \A i \in Waiting(t, c) : FALSE
    BY <2>2
  <2> QED BY <2>1, <2>3
<1>10. /\ \A i \in EndsOut(t, c) : i + 1 \in EndsOut(o, c)
       /\ \A i \in EndsOut(o, c) : i = 1 \/ i - 1 \in EndsOut(t, c)
       /\ 1 \in EndsOut(o, c) <=> IsEnd(b.frames[1], c)
  BY <1>1, <1>3, <1>4 DEF EndsOut
<1>11. /\ \A i \in Opens(t, c) : i + 1 \in Opens(o, c)
       /\ \A i \in Opens(o, c) : i = 1 \/ i - 1 \in Opens(t, c)
       /\ 1 \in Opens(o, c) <=> IsStart(b.frames[1], c)
  BY <1>1, <1>3, <1>4 DEF Opens
<1>12. /\ EndsOut(t, c) # {} => EndsOut(o, c) # {}
       /\ ~IsEnd(b.frames[1], c) => (EndsOut(t, c) = {} <=> EndsOut(o, c) = {})
       /\ IsEnd(b.frames[1], c) => EndsOut(o, c) # {}
  BY <1>10
<1>13. /\ Opens(t, c) # {} => Opens(o, c) # {}
       /\ ~IsStart(b.frames[1], c) => (Opens(t, c) = {} <=> Opens(o, c) = {})
  BY <1>11
<1> QED BY <1>5, <1>7, <1>8, <1>9, <1>12, <1>13 DEF Leaves

(* Batch b2 is what is left of batch b, at the front of the queue.            *)
Shortens(o, o2, b, b2, c) ==
    /\ \A i \in 1 .. Len(o2) : Shape(o2[i], c)
    /\ Waiting(o2, c) = Waiting(o, c)
    /\ ~IsEnd(b.frames[1], c) /\ ~IsEnd(b2.frames[1], c) => EndsOut(o2, c) = EndsOut(o, c)
    /\ ~IsStart(b.frames[1], c) /\ ~IsStart(b2.frames[1], c) => Opens(o2, c) = Opens(o, c)
    /\ 1 \in 1 .. Len(o)
    /\ \A i \in Opens(o2, c) : i = 1 \/ i \in Opens(o, c)
    /\ 1 \in Opens(o2, c) => IsStart(b2.frames[1], c)

(* The first frame of a batch leaves it.                                      *)
LEMMA OutSplit ==
    ASSUME NEW o \in Seq(BatchType), o # <<>>, NEW c, NEW o2, NEW b, b = o[1], NEW b2, b2 = o2[1],
           Len(o2) = Len(o), \A i \in 2 .. Len(o) : o2[i] = o[i],
           b2.signal = b.signal, Shape(b2, c),
           \A i \in 1 .. Len(o) : Shape(o[i], c)
    PROVE  Shortens(o, o2, b, b2, c)
<1>1. PICK n : n = Len(o)
  OBVIOUS
<1>2. n \in Nat /\ n # 0
  BY <1>1, LenProperties, EmptySeq
<1>3. 1 \in 1 .. n /\ \A i \in 1 .. n : i = 1 \/ i \in 2 .. n
  BY <1>2
<1>4. \A i \in 1 .. n : i = 1 \/ o2[i] = o[i]
  BY <1>1, <1>3
<1>5. \A i \in 1 .. n : Shape(o2[i], c)
  BY <1>1, <1>4
<1>6. Waiting(o2, c) = Waiting(o, c)
  <2>1. \A i \in 1 .. n : o2[i].signal = o[i].signal
    BY <1>4
  <2> QED BY <1>1, <2>1 DEF Waiting
<1>7. ~IsEnd(b.frames[1], c) /\ ~IsEnd(b2.frames[1], c) => EndsOut(o2, c) = EndsOut(o, c)
  BY <1>1, <1>4 DEF EndsOut
<1>8. ~IsStart(b.frames[1], c) /\ ~IsStart(b2.frames[1], c) => Opens(o2, c) = Opens(o, c)
  BY <1>1, <1>4 DEF Opens
<1>9. /\ \A i \in Opens(o2, c) : i = 1 \/ i \in Opens(o, c)
      /\ 1 \in Opens(o2, c) => IsStart(b2.frames[1], c)
  BY <1>1, <1>3, <1>4 DEF Opens
<1> QED BY <1>1, <1>3, <1>5, <1>6, <1>7, <1>8, <1>9 DEF Shortens

(* The start of a duplex call is bound to its signal.                         *)
LEMMA OpensWaits ==
    ASSUME NEW o, NEW c, \A i \in 1 .. Len(o) : Shape(o[i], c) /\ BatchOK(o[i])
    PROVE  Opens(o, c) \subseteq Waiting(o, c)
<1> SUFFICES ASSUME NEW i \in Opens(o, c) PROVE i \in Waiting(o, c)
  OBVIOUS
<1>1. i \in 1 .. Len(o) /\ IsStart(o[i].frames[1], c)
  BY DEF Opens
<1>2. 1 \in 1 .. Len(o[i].frames) /\ Shape(o[i], c)
  BY <1>1, BatchFrames
<1>3. o[i].signal = c
  BY <1>1, <1>2 DEF Shape, IsStart
<1> QED BY <1>1, <1>3 DEF Waiting

(* A batch of an aborted call is dropped.                                     *)
LEMMA DropMessages ==
    ASSUME NEW p, NEW o \in Seq(BatchType), o # <<>>, NEW x, NEW k, NEW d, NEW c,
           MessagesOK(p, o, x, k, d, c), RecordsOK(x, d), NEW b, b = o[1],
           b.signal = c => x.st \notin {"open", "ending", "ended"}
    PROVE  MessagesOK(p, Tail(o), x, k, d, c)
<1>1. PICK n \in Nat : Tally(p, c, n) /\ Balance(n, p, o, x, k, d, c)
  BY DEF MessagesOK
<1>2. PICK t : t = Tail(o)
  OBVIOUS
<1>3. /\ \A i \in 1 .. Len(t) : Shape(t[i], c)
      /\ \A i, j \in Waiting(t, c) : i = j
      /\ b.signal # c => (Waiting(t, c) = {} <=> Waiting(o, c) = {})
      /\ b.signal = c => Waiting(o, c) # {} /\ Waiting(t, c) = {}
      /\ EndsOut(t, c) # {} => EndsOut(o, c) # {}
      /\ Opens(t, c) # {} => Opens(o, c) # {}
  <2>1. /\ \A i \in 1 .. Len(o) : Shape(o[i], c)
        /\ \A i, j \in Waiting(o, c) : i = j
    BY MessageParts
  <2>2. Leaves(o, t, b, c)
    BY <1>2, <2>1, OutTail
  <2> QED BY <2>2 DEF Leaves
<1>4. /\ Ending(p, t, c) => Ending(p, o, c)
      /\ Alive(p, t, d, c) => Alive(p, o, d, c)
  BY <1>3 DEF Ending, Alive
<1>5. CASE b.signal # c
  <2>1. Waits(t, c) = Waits(o, c)
    BY <1>3, <1>5 DEF Waits
  <2>2. Balance(n, p, t, x, k, d, c)
    BY <1>1, <1>4, <2>1 DEF Balance
  <2> QED BY <1>1, <1>2, <1>3, <1>4, <1>5, <2>2, MessageParts DEF MessagesOK
<1>6. CASE b.signal = c
  <2>1. ~Ending(p, o, c) /\ ~Shut(d)
    BY <1>3, <1>6, MessageParts
  <2>2. PICK s, z, g, y : s = d.seen /\ z = x.asked /\ g = Begun(k) /\ y = x.sends
    OBVIOUS
  <2>3. s \in Nat /\ z \in Nat /\ g \in Nat /\ y \in Nat
    BY <2>2 DEF RecordsOK, Begun
  <2>4. s + n + 1 + y <= z + g
    BY <1>1, <1>3, <1>6, <2>2 DEF Balance, Waits
  <2>5. s + n + 0 + y <= z + g
    BY <2>3, <2>4
  <2>6. Balance(n, p, t, x, k, d, c)
    BY <1>3, <1>4, <1>6, <2>1, <2>2, <2>5 DEF Balance, Waits
  <2> QED BY <1>1, <1>2, <1>3, <1>4, <2>1, <2>6, MessageParts DEF MessagesOK
<1> QED BY <1>5, <1>6

(* A batch is transmitted to its end.                                         *)
LEMMA PassMessages ==
    ASSUME NEW p \in Seq(SentType), NEW o \in Seq(BatchType), o # <<>>,
           NEW x, NEW k, NEW d, NEW c, MessagesOK(p, o, x, k, d, c), RecordsOK(x, d),
           (\A i \in 1 .. Len(o) : BatchOK(o[i])),
           NEW b, b = o[1], Len(b.frames) = 1, NEW e \in SentType, e.frame = b.frames[1]
    PROVE  MessagesOK(Append(p, e), Tail(o), x, k, d, c)
<1>1. PICK n \in Nat : Tally(p, c, n) /\ Balance(n, p, o, x, k, d, c)
  BY DEF MessagesOK
<1>2. PICK t, q, f : t = Tail(o) /\ q = Append(p, e) /\ f = b.frames[1]
  OBVIOUS
<1>3. /\ \A i \in 1 .. Len(o) : Shape(o[i], c)
      /\ \A i, j \in Waiting(o, c) : i = j
  BY MessageParts
<1>4. 1 \in 1 .. Len(o) /\ 1 \in 1 .. 1
  <2>1. PICK l : l = Len(o)
    OBVIOUS
  <2>2. l \in Nat /\ l # 0
    BY <2>1, LenProperties, EmptySeq
  <2>3. 1 \in 1 .. l
    BY <2>2
  <2> QED BY <2>1, <2>3
<1>5. Leaves(o, t, b, c)
  BY <1>2, <1>3, OutTail
<1>6. /\ b.signal = c => IsPayload(f, c)
      /\ b.signal # c => f.call # c \/ f.kind \in {"cancel", "window", "end"}
  <2>1. Shape(b, c)
    BY <1>3, <1>4
  <2> QED BY <1>2, <1>4, <2>1 DEF Shape, IsPayload
<1>7. CASE f.kind \notin Spoken \/ f.call # c
  <2>1. b.signal # c /\ ~IsEnd(f, c) /\ ~IsStart(f, c)
    BY <1>6, <1>7 DEF IsPayload, IsEnd, IsStart, Spoken
  <2>2. SameOut(o, t, c)
    BY <1>2, <1>5, <2>1 DEF SameOut, Leaves
  <2>3. SameIn(p, q, c)
    BY <1>2, <1>7, InAppend
  <2> QED BY <1>2, <2>2, <2>3, KeepsMessages
<1>8. CASE b.signal = c
  <2>1. IsPayload(f, c) /\ ~IsEnd(f, c) /\ ~IsStart(f, c)
    BY <1>6, <1>8 DEF IsPayload, IsEnd, IsStart
  <2>2. /\ \A i \in 1 .. Len(t) : Shape(t[i], c)
        /\ Waiting(o, c) # {} /\ Waiting(t, c) = {}
        /\ EndsOut(t, c) = {} <=> EndsOut(o, c) = {}
        /\ Opens(t, c) = {} <=> Opens(o, c) = {}
    BY <1>2, <1>5, <1>8, <2>1 DEF Leaves
  <2>3. ~Ending(p, o, c) /\ ~Shut(d)
    BY <2>2, MessageParts
  <2>4. Opens(t, c) = {}
    <3>1. Opens(o, c) \subseteq Waiting(o, c)
      BY <1>3, OpensWaits
    <3>2. 1 \in Waiting(o, c)
      BY <1>4, <1>8 DEF Waiting
    <3>3. \A i \in Opens(o, c) : i = 1
      BY <1>3, <3>1, <3>2
    <3>4. 1 \notin Opens(o, c)
      BY <1>2, <2>1 DEF Opens
    <3> QED BY <2>2, <3>3, <3>4
  <2>5. Marks(p, "end", c) = {}
    BY <2>3 DEF Ending
  <2>6. /\ Marks(q, "end", c) = {}
        /\ Marks(q, "start", c) = {} <=> Marks(p, "start", c) = {}
    <3>1. /\ \A i \in Marks(q, "end", c) : i \in Marks(p, "end", c) \/ f.kind = "end"
      BY <1>2, MarksAppend
    <3>2. /\ \A i \in Marks(q, "start", c) : i \in Marks(p, "start", c) \/ f.kind = "start"
          /\ \A i \in Marks(p, "start", c) : i \in Marks(q, "start", c)
      BY <1>2, MarksAppend
    <3> QED BY <2>1, <2>5, <3>1, <3>2 DEF IsPayload
  <2>7. InOrder(q, c)
    <3> SUFFICES ASSUME NEW i \in Marks(q, "start", c), NEW j \in Marks(q, "payload", c)
                 PROVE  i < j
      BY DEF InOrder
    <3>1. i \in Marks(p, "start", c)
      BY <1>2, <2>1, MarksAppend DEF IsPayload
    <3>2. i \in 1 .. Len(p) /\ Len(p) \in Nat
      BY <3>1, MarksAppend
    <3>3. j \in Marks(p, "payload", c) \/ j = Len(p) + 1
      BY <1>2, MarksAppend
    <3>4. CASE j \in Marks(p, "payload", c)
      BY <3>1, <3>4, MessageParts DEF InOrder
    <3>5. CASE j = Len(p) + 1
      BY <3>2, <3>5
    <3> QED BY <3>3, <3>4, <3>5
  <2>8. Tally(q, c, n + 1)
    <3>1. Tally(Append(p, e), c, n + Weight(e.frame, c))
      BY <1>1, <2>5, TallyAppend
    <3>2. Weight(e.frame, c) = 1
      BY <1>2, <2>1 DEF Weight
    <3> QED BY <1>2, <3>1, <3>2
  <2>9. ~Ending(q, t, c) /\ (Alive(q, t, d, c) <=> Alive(p, o, d, c))
    BY <2>2, <2>3, <2>6 DEF Ending, Alive
  <2>10. PICK s, z, g, y, l : /\ s = d.seen /\ z = x.asked /\ g = Begun(k)
                              /\ y = x.sends /\ l = x.lost
    OBVIOUS
  <2>11. s \in Nat /\ z \in Nat /\ g \in Nat /\ y \in Nat
    BY <2>10 DEF RecordsOK, Begun
  <2>12. s + n + 1 + y = s + (n + 1) + 0 + y /\ n + 1 \in Nat
    BY <2>11
  <2>13. /\ s + n + 1 + y <= z + g
         /\ Alive(p, o, d, c) /\ x.st \in {"open", "ending", "ended"} => s + n + 1 + y + l = z + 1
    BY <1>1, <2>2, <2>10 DEF Balance, Waits
  <2>14. Balance(n + 1, q, t, x, k, d, c)
    BY <2>2, <2>9, <2>10, <2>12, <2>13 DEF Balance, Waits
  <2>15. \A i, j \in Waiting(t, c) : i = j
    BY <2>2
  <2> QED BY <1>2, <2>2, <2>3, <2>4, <2>7, <2>8, <2>9, <2>12, <2>14, <2>15, MessageParts
          DEF MessagesOK
<1>9. CASE b.signal # c /\ IsEnd(f, c)
  <2>1. ~IsStart(f, c) /\ ~IsPayload(f, c)
    BY <1>9 DEF IsPayload, IsEnd, IsStart
  <2>2. /\ \A i \in 1 .. Len(t) : Shape(t[i], c)
        /\ \A i, j \in Waiting(t, c) : i = j
        /\ Waiting(t, c) = {} <=> Waiting(o, c) = {}
        /\ EndsOut(o, c) # {}
        /\ Opens(t, c) = {} <=> Opens(o, c) = {}
    BY <1>2, <1>5, <1>9, <2>1 DEF Leaves
  <2>3. Ending(p, o, c)
    BY <2>2 DEF Ending
  <2>4. /\ Marks(q, "start", c) = Marks(p, "start", c)
        /\ Marks(q, "payload", c) = Marks(p, "payload", c)
    <3>1. /\ \A i \in Marks(q, "start", c) : i \in Marks(p, "start", c) \/ f.kind = "start"
          /\ \A i \in Marks(p, "start", c) : i \in Marks(q, "start", c)
      BY <1>2, MarksAppend
    <3>2. /\ \A i \in Marks(q, "payload", c) : i \in Marks(p, "payload", c) \/ f.kind = "payload"
          /\ \A i \in Marks(p, "payload", c) : i \in Marks(q, "payload", c)
      BY <1>2, MarksAppend
    <3> QED BY <1>9, <3>1, <3>2 DEF IsEnd
  <2>5. InOrder(q, c)
    BY <2>4, MessageParts DEF InOrder
  <2>6. Tally(q, c, n)
    <3>1. Tally(Append(p, e), c, n + Weight(e.frame, c))
      BY <1>1, <1>2, <2>1, TallyAppend
    <3>2. Weight(e.frame, c) = 0
      BY <1>2, <2>1 DEF Weight
    <3>3. n + 0 = n
      OBVIOUS
    <3> QED BY <1>2, <3>1, <3>2, <3>3
  <2>7. Waits(t, c) = Waits(o, c) /\ (Alive(q, t, d, c) <=> Alive(p, o, d, c))
    BY <2>2, <2>4 DEF Waits, Alive
  <2>8. Balance(n, q, t, x, k, d, c)
    BY <1>1, <2>3, <2>7 DEF Balance
  <2> QED BY <1>1, <1>2, <2>2, <2>3, <2>4, <2>5, <2>6, <2>8, MessageParts DEF MessagesOK
<1> QED BY <1>6, <1>7, <1>8, <1>9 DEF IsEnd, Spoken

(* A frame that others follow is transmitted.                                 *)
LEMMA SplitMessages ==
    ASSUME NEW p \in Seq(SentType), NEW o \in Seq(BatchType), o # <<>>,
           NEW x, NEW k, NEW d, NEW c, MessagesOK(p, o, x, k, d, c),
           (\A i \in 1 .. Len(o) : BatchOK(o[i])),
           NEW b, b = o[1], Len(b.frames) > 1, NEW e \in SentType, e.frame = b.frames[1],
           NEW o2, Len(o2) = Len(o), \A i \in 2 .. Len(o) : o2[i] = o[i],
           NEW b2, b2 = o2[1], b2.signal = b.signal, Len(b2.frames) = Len(b.frames) - 1,
           \A i \in 1 .. Len(b.frames) - 1 : b2.frames[i] = b.frames[i + 1]
    PROVE  MessagesOK(Append(p, e), o2, x, k, d, c)
<1>1. PICK n \in Nat : Tally(p, c, n) /\ Balance(n, p, o, x, k, d, c)
  BY DEF MessagesOK
<1>2. PICK q, f : q = Append(p, e) /\ f = b.frames[1]
  OBVIOUS
<1>3. /\ \A i \in 1 .. Len(o) : Shape(o[i], c)
      /\ \A i, j \in Waiting(o, c) : i = j
  BY MessageParts
<1>4. 1 \in 1 .. Len(o)
  <2>1. PICK l : l = Len(o)
    OBVIOUS
  <2>2. l \in Nat /\ l # 0
    BY <2>1, LenProperties, EmptySeq
  <2>3. 1 \in 1 .. l
    BY <2>2
  <2> QED BY <2>1, <2>3
<1>5. Shape(b, c) /\ Len(b.frames) \in Nat
  BY <1>3, <1>4, BatchFrames
<1>6. PICK m : m = Len(b.frames) /\ m \in Nat /\ m > 1
  BY <1>5
<1>7. /\ 1 \in 1 .. m /\ m # 1 /\ 1 \in 1 .. m - 1 /\ 1 + 1 = 2 /\ 2 \in 1 .. m
      /\ \A i \in 1 .. m - 1 : i + 1 \in 1 .. m
  BY <1>6
<1>8. CASE b.signal # c
  <2>1. \A j \in 1 .. m : b.frames[j].call # c
    BY <1>5, <1>6, <1>7, <1>8 DEF Shape
  <2>2. ASSUME NEW j \in 1 .. m - 1 PROVE b2.frames[j].call # c
    <3>1. b2.frames[j] = b.frames[j + 1]
      BY <1>6
    <3>2. j + 1 \in 1 .. m
      BY <1>7
    <3> QED BY <2>1, <3>1, <3>2
  <2>3. Shape(b2, c)
    BY <1>6, <1>8, <2>2 DEF Shape
  <2>4. /\ ~IsEnd(b.frames[1], c) /\ ~IsEnd(b2.frames[1], c)
        /\ ~IsStart(b.frames[1], c) /\ ~IsStart(b2.frames[1], c)
    BY <1>7, <2>1, <2>2 DEF IsEnd, IsStart
  <2>5. Shortens(o, o2, b, b2, c)
    BY <1>3, <2>3, OutSplit
  <2>6. SameOut(o, o2, c)
    BY <2>4, <2>5 DEF SameOut, Shortens
  <2>7. SameIn(p, q, c)
    BY <1>2, <1>7, <2>1, InAppend
  <2> QED BY <1>2, <2>6, <2>7, KeepsMessages
<1>9. CASE b.signal = c
  <2>1. m = 2 /\ IsStart(f, c) /\ IsPayload(b.frames[2], c)
    BY <1>2, <1>5, <1>6, <1>7, <1>9 DEF Shape, IsStart, IsPayload
  <2>2. Len(b2.frames) = 1 /\ IsPayload(b2.frames[1], c)
    BY <1>6, <1>7, <2>1
  <2>3. Shape(b2, c)
    <3>1. \A j \in 1 .. 1 : j = 1
      OBVIOUS
    <3> QED BY <1>9, <2>2, <3>1 DEF Shape, IsPayload
  <2>4. Shortens(o, o2, b, b2, c)
    BY <1>3, <2>3, OutSplit
  <2>5. /\ \A i \in 1 .. Len(o2) : Shape(o2[i], c)
        /\ Waiting(o2, c) = Waiting(o, c) /\ EndsOut(o2, c) = EndsOut(o, c)
        /\ \A i \in Opens(o2, c) : i = 1 \/ i \in Opens(o, c)
        /\ 1 \notin Opens(o2, c)
    BY <1>2, <2>1, <2>2, <2>4 DEF Shortens, IsEnd, IsStart, IsPayload
  <2>6. 1 \in Waiting(o, c) /\ 1 \in Opens(o, c)
    BY <1>2, <1>4, <1>9, <2>1 DEF Waiting, Opens
  <2>7. Opens(o2, c) = {}
    <3>1. Opens(o, c) \subseteq Waiting(o, c)
      BY <1>3, OpensWaits
    <3>2. \A i \in Opens(o, c) : i = 1
      BY <1>3, <2>6, <3>1
    <3> QED BY <2>5, <3>2
  <2>8. ~Ending(p, o, c) /\ ~Shut(d) /\ Marks(p, "payload", c) = {}
    BY <2>6, MessageParts
  <2>9. /\ Marks(q, "end", c) = {} /\ Marks(q, "payload", c) = {}
        /\ Marks(q, "start", c) # {}
    <3>1. Marks(p, "end", c) = {}
      BY <2>8 DEF Ending
    <3>2. /\ \A i \in Marks(q, "end", c) : i \in Marks(p, "end", c) \/ f.kind = "end"
      BY <1>2, MarksAppend
    <3>3. /\ \A i \in Marks(q, "payload", c) : i \in Marks(p, "payload", c) \/ f.kind = "payload"
      BY <1>2, MarksAppend
    <3>4. PICK l : l = Len(p) /\ l \in Nat
      BY LenProperties
    <3>5. Len(q) = l + 1 /\ q[l + 1] = e
      BY <1>2, <3>4, AppendProperties
    <3>6. l + 1 \in 1 .. l + 1
      BY <3>4
    <3>7. l + 1 \in Marks(q, "start", c)
      BY <1>2, <2>1, <3>5, <3>6 DEF Marks, IsStart
    <3> QED BY <2>1, <2>8, <3>1, <3>2, <3>3, <3>7 DEF IsStart
  <2>10. Tally(q, c, n)
    <3>1. ~IsPayload(e.frame, c)
      BY <1>2, <2>1 DEF IsPayload, IsStart
    <3>2. Tally(Append(p, e), c, n + Weight(e.frame, c))
      BY <1>1, <3>1, TallyAppend
    <3>3. Weight(e.frame, c) = 0
      BY <3>1 DEF Weight
    <3>4. n + 0 = n
      OBVIOUS
    <3> QED BY <1>2, <3>2, <3>3, <3>4
  <2>11. ~Ending(q, o2, c) /\ (Alive(q, o2, d, c) => Alive(p, o, d, c))
    BY <2>5, <2>6, <2>8, <2>9 DEF Ending, Alive
  <2>12. Balance(n, q, o2, x, k, d, c)
    BY <1>1, <2>5, <2>8, <2>11 DEF Balance, Waits
  <2>13. InOrder(q, c)
    BY <2>9 DEF InOrder
  <2>14. \A i, j \in Waiting(o2, c) : i = j
    BY <1>3, <2>5
  <2> QED BY <1>1, <1>2, <2>5, <2>7, <2>8, <2>10, <2>11, <2>12, <2>13, <2>14, MessageParts
          DEF MessagesOK
<1> QED BY <1>8, <1>9

(* A frame is transmitted, or a batch dropped.                                *)
LEMMA TransmitMessages ==
    ASSUME BooksInv, StartInv, MessagesInv, Transmit, UNCHANGED incoming, NEW c \in Duplex
    PROVE  MessagesOK(toDaemon', outbox', duplex[c], client[c], daemon[c], c)
<1>1. c \in Call
  BY DEF Call
<1>2. LinkInv /\ outbox \in Seq(BatchType) /\ toDaemon \in Seq(SentType)
  BY DEF StartInv, LinkInv
<1>3. PICK x, k, d : x = duplex[c] /\ k = client[c] /\ d = daemon[c]
  OBVIOUS
<1>4. MessagesOK(toDaemon, outbox, x, k, d, c)
  BY <1>3 DEF MessagesInv
<1>5. x \in DuplexRequest /\ DuplexOK(x, k, c) /\ DaemonOK(d, c)
  BY <1>1, <1>3, CallRecords DEF StartInv
<1>6. RecordsOK(x, d)
  BY <1>5, MessageRecords
<1>7. \A i \in 1 .. Len(outbox) : BatchOK(outbox[i])
  BY <1>2, LenProperties DEF LinkInv
<1>8. PICK b : b = Head(outbox)
  OBVIOUS
<1>9. PICK e, rest : e = [frame |-> b.frames[1], gap |-> skipped] /\ rest = Tail(b.frames)
  OBVIOUS
<1>10. /\ outbox # <<>> /\ b = outbox[1]
       /\ \/ outbox' = Tail(outbox) /\ toDaemon' = toDaemon /\ b.signal \in aborted
          \/ /\ toDaemon' = Append(toDaemon, e) /\ e \in SentType
             /\ \/ outbox' = Tail(outbox) /\ Len(b.frames) = 1
                \/ /\ Len(b.frames) > 1 /\ Len(outbox') = Len(outbox)
                   /\ outbox'[1] = Batch(rest, b.signal)
                   /\ Len(rest) = Len(b.frames) - 1
                   /\ \A i \in 1 .. Len(b.frames) - 1 : rest[i] = b.frames[i + 1]
                   /\ \A i \in 2 .. Len(outbox) : outbox'[i] = outbox[i]
  BY <1>2, <1>8, <1>9, TransmitFacts
<1>11. e.frame = b.frames[1]
  BY <1>9
<1>12. CASE outbox' = Tail(outbox) /\ toDaemon' = toDaemon /\ b.signal \in aborted
  <2>1. b.signal = c => x.st \notin {"open", "ending", "ended"}
    BY <1>1, <1>3, <1>5, <1>12 DEF BooksInv, DuplexOK
  <2>2. MessagesOK(toDaemon, Tail(outbox), x, k, d, c)
    BY <1>2, <1>4, <1>6, <1>10, <2>1, DropMessages
  <2> QED BY <1>3, <1>12, <2>2
<1>13. CASE /\ toDaemon' = Append(toDaemon, e) /\ e \in SentType
            /\ outbox' = Tail(outbox) /\ Len(b.frames) = 1
  <2>1. MessagesOK(Append(toDaemon, e), Tail(outbox), x, k, d, c)
    BY <1>2, <1>4, <1>6, <1>7, <1>10, <1>11, <1>13, PassMessages
  <2> QED BY <1>3, <1>13, <2>1
<1>14. CASE /\ toDaemon' = Append(toDaemon, e) /\ e \in SentType
            /\ Len(b.frames) > 1 /\ Len(outbox') = Len(outbox)
            /\ outbox'[1] = Batch(rest, b.signal)
            /\ Len(rest) = Len(b.frames) - 1
            /\ \A i \in 1 .. Len(b.frames) - 1 : rest[i] = b.frames[i + 1]
            /\ \A i \in 2 .. Len(outbox) : outbox'[i] = outbox[i]
  <2>1. PICK b2, o2 : b2 = Batch(rest, b.signal) /\ o2 = outbox'
    OBVIOUS
  <2>2. b2.frames = rest /\ b2.signal = b.signal
    BY <2>1 DEF Batch
  <2>3. /\ b2 = o2[1] /\ Len(o2) = Len(outbox) /\ Len(b2.frames) = Len(b.frames) - 1
        /\ \A i \in 1 .. Len(b.frames) - 1 : b2.frames[i] = b.frames[i + 1]
        /\ \A i \in 2 .. Len(outbox) : o2[i] = outbox[i]
    BY <1>14, <2>1, <2>2
  <2>4. MessagesOK(Append(toDaemon, e), o2, x, k, d, c)
    <3>1. outbox # <<>> /\ b = outbox[1]
      BY <1>10
    <3>2. e \in SentType /\ Len(b.frames) > 1
      BY <1>14
    <3> QED BY <1>2, <1>4, <1>7, <1>11, <2>2, <2>3, <3>1, <3>2, SplitMessages
  <2> QED BY <1>3, <1>14, <2>1, <2>4
<1> QED BY <1>10, <1>12, <1>13, <1>14

(* Nothing is under way.                                                      *)
LEMMA NothingMessages ==
    ASSUME NEW x, NEW k, NEW d, NEW c, RecordsOK(x, d), d.st \in {"absent", "gone"},
           d.seen + x.sends <= x.asked + Begun(k)
    PROVE  MessagesOK(<<>>, <<>>, x, k, d, c)
<1>1. /\ \A kind : Marks(<<>>, kind, c) = {}
      /\ Waiting(<<>>, c) = {} /\ EndsOut(<<>>, c) = {} /\ Opens(<<>>, c) = {}
  BY DEF Marks, Waiting, EndsOut, Opens
<1>2. ~Ending(<<>>, <<>>, c) /\ ~Shut(d) /\ ~Alive(<<>>, <<>>, d, c) /\ InOrder(<<>>, c)
  BY <1>1 DEF Ending, Shut, Alive, InOrder
<1>3. PICK s, y, z, g : s = d.seen /\ y = x.sends /\ z = x.asked /\ g = Begun(k)
  OBVIOUS
<1>4. s \in Nat /\ y \in Nat /\ z \in Nat /\ g \in Nat /\ s + y <= z + g
  BY <1>3 DEF RecordsOK, Begun
<1>5. s + 0 + 0 + y <= z + g
  BY <1>4
<1>6. Balance(0, <<>>, <<>>, x, k, d, c)
  BY <1>1, <1>2, <1>3, <1>5 DEF Balance, Waits
<1>7. Tally(<<>>, c, 0)
  BY TallyEmpty
<1>8. \A i \in 1 .. Len(<<>>) : FALSE
  OBVIOUS
<1> QED BY <1>1, <1>2, <1>6, <1>7, <1>8 DEF MessagesOK

(* Initially.                                                                 *)
LEMMA InitMessages == Init => MessagesInv
<1> SUFFICES ASSUME Init PROVE MessagesInv
  OBVIOUS
<1>1. ASSUME NEW c \in Call PROVE /\ duplex[c] = NewDuplex /\ client[c] = NewClient
                                  /\ daemon[c] = NewDaemon
  BY DEF Init, PeerInit, PeerInitBut, NewDaemon, NewClient, NewDuplex
<1>2. /\ NewDaemon.st = "absent" /\ NewDaemon.seen = 0 /\ ~NewDaemon.inputOpen
      /\ NewDuplex.sends = 0 /\ NewDuplex.asked = 0 /\ NewDuplex.lost = 0
      /\ Begun(NewClient) = 0
  BY DEF NewDaemon, NewDuplex, NewClient, Begun
<1>3. outbox = <<>> /\ toDaemon = <<>>
  BY DEF Init, LinkInit
<1>4. ASSUME NEW c \in Duplex
      PROVE  MessagesOK(toDaemon, outbox, duplex[c], client[c], daemon[c], c)
  <2>1. RecordsOK(NewDuplex, NewDaemon)
    BY <1>2 DEF RecordsOK
  <2>2. 0 + 0 <= 0 + 0
    OBVIOUS
  <2>3. MessagesOK(<<>>, <<>>, NewDuplex, NewClient, NewDaemon, c)
    BY <1>2, <2>1, <2>2, NothingMessages
  <2> QED BY <1>1, <1>3, <2>3 DEF Call
<1>5. \A c \in Call \ Duplex : RequestOK(daemon[c])
  BY <1>1, <1>2 DEF RequestOK
<1> QED BY <1>4, <1>5 DEF MessagesInv

(* The connection ends.                                                       *)
LEMMA TerminateMessages ==
    ASSUME BooksInv, StartInv, MessagesInv, NEW reason, Terminate(reason)
    PROVE  MessagesInv'
<1>1. outbox' = <<>> /\ toDaemon' = <<>>
  BY DEF Terminate, Down
<1>2. ASSUME NEW c \in Call
      PROVE  /\ daemon'[c].seen = daemon[c].seen /\ daemon'[c].inputOpen = daemon[c].inputOpen
             /\ daemon'[c].st \in {"absent", "gone"}
  <2>1. PICK d : d = daemon[c] /\ d \in DaemonRecord
    BY DEF StartInv
  <2>2. QuietMove(d, Abandoned(d)) /\ Abandoned(d).st = "gone"
    BY <2>1, AbandonedQuiet
  <2>3. CASE c \in Active
    BY <2>1, <2>2, <2>3 DEF Terminate, QuietMove
  <2>4. CASE c \notin Active
    BY <2>1, <2>4 DEF Terminate, Active, DaemonRecord
  <2> QED BY <2>3, <2>4
<1>3. ASSUME NEW c \in Duplex
      PROVE  MessagesOK(toDaemon', outbox', duplex'[c], client'[c], daemon'[c], c)
  <2>1. c \in Call
    BY DEF Call
  <2>2. PICK x, k, d : x = duplex[c] /\ k = client[c] /\ d = daemon[c]
    OBVIOUS
  <2>3. PICK x2, k2, d2 : x2 = duplex'[c] /\ k2 = client'[c] /\ d2 = daemon'[c]
    OBVIOUS
  <2>4. x \in DuplexRequest /\ DuplexOK(x, k, c) /\ DaemonOK(d, c)
    BY <2>1, <2>2, CallRecords DEF StartInv
  <2>5. RecordsOK(x, d) /\ x.sends + x.lost <= x.asked
    BY <2>4, MessageRecords DEF DuplexOK
  <2>6. x2.sends = 0 /\ x2.asked = x.asked /\ x2.lost = x.lost + x.sends
    BY <2>1, <2>2, <2>3, <2>4 DEF Terminate, Closed, DuplexRequest
  <2>7. k2.st = "idle" => k.st = "idle"
    <3>1. client[c] \in ClientCall
      BY <2>1 DEF BooksInv
    <3>2. CASE c \in Pending
      BY <2>1, <2>2, <2>3, <3>1, <3>2 DEF Terminate, ClientCall
    <3>3. CASE c \notin Pending
      BY <2>1, <2>2, <2>3, <3>3 DEF Terminate
    <3> QED BY <3>2, <3>3
  <2>8. PICK n \in Nat : Balance(n, toDaemon, outbox, x, k, d, c)
    BY <2>2 DEF MessagesInv, MessagesOK
  <2>9. PICK s, y, z, w, l : /\ s = d.seen /\ y = x.sends /\ z = x.asked
                             /\ w = Waits(outbox, c) /\ l = x.lost
    OBVIOUS
  <2>10. s \in Nat /\ y \in Nat /\ z \in Nat /\ w \in Nat /\ l \in Nat
    BY <2>5, <2>9 DEF RecordsOK, Waits
  <2>11. s + n + w + y <= z + Begun(k)
    BY <2>8, <2>9 DEF Balance
  <2>12. s + 0 <= z + Begun(k2)
    BY <2>7, <2>10, <2>11 DEF Begun
  <2>13. d2.seen = s /\ d2.st \in {"absent", "gone"}
    BY <1>2, <2>1, <2>2, <2>3, <2>9
  <2>14. RecordsOK(x2, d2)
    <3>1. y + l <= z
      BY <2>5, <2>9
    <3>2. l + y \in Nat /\ l + y <= z
      BY <2>10, <3>1
    <3> QED BY <2>6, <2>9, <2>10, <2>13, <3>2 DEF RecordsOK
  <2>15. MessagesOK(<<>>, <<>>, x2, k2, d2, c)
    BY <2>6, <2>9, <2>12, <2>13, <2>14, NothingMessages
  <2> QED BY <1>1, <2>3, <2>15
<1>4. \A c \in Call \ Duplex : RequestOK(daemon'[c])
  BY <1>2 DEF MessagesInv, RequestOK
<1> QED BY <1>3, <1>4 DEF MessagesInv

(* A step of one call.                                                        *)
LEMMA StepsMessages ==
    ASSUME StartInv, MessagesInv, NEW a, StepOf(a),
           a \in Duplex => MessagesOK(toDaemon', outbox', duplex'[a], client'[a], daemon'[a], a),
           a \in Call \ Duplex => RequestOK(daemon'[a])
    PROVE  MessagesInv'
<1>1. LinkInv
  BY DEF StartInv
<1>2. \A c \in Call : c # a => /\ client'[c] = client[c] /\ duplex'[c] = duplex[c]
                               /\ daemon'[c] = daemon[c]
  BY DEF StepOf, Others
<1>3. ASSUME NEW c \in Duplex, c # a
      PROVE  MessagesOK(toDaemon', outbox', duplex'[c], client'[c], daemon'[c], c)
  <2>1. MessagesOK(toDaemon, outbox, duplex[c], client[c], daemon[c], c)
    BY DEF MessagesInv
  <2>2. MessagesOK(toDaemon', outbox', duplex[c], client[c], daemon[c], c)
    BY <1>1, <1>3, <2>1, StepMessages
  <2> QED BY <1>2, <1>3, <2>2 DEF Call
<1>4. \A c \in Call \ Duplex : RequestOK(daemon'[c])
  BY <1>2 DEF MessagesInv
<1> QED BY <1>3, <1>4 DEF MessagesInv

(* Every step of the system keeps the messages in order.                      *)
LEMMA NextMessages ==
    BooksInv /\ StartInv /\ MessagesInv /\ [Next]_vars => MessagesInv'
<1> SUFFICES ASSUME BooksInv, StartInv, MessagesInv, [Next]_vars PROVE MessagesInv'
  OBVIOUS
<1>1. LinkInv
  BY DEF StartInv
<1>2. ASSUME NEW c \in Call, Caller(c) \/ ClientReceives(c) PROVE MessagesInv'
  <2>1. StepOf(c) /\ daemon' = daemon /\ toDaemon' = toDaemon
    BY <1>1, <1>2, CallerStepOf
  <2>2. c \in Duplex => MessagesOK(toDaemon', outbox', duplex'[c], client'[c], daemon'[c], c)
    BY <1>2, <2>1, ClientMessages
  <2>3. c \in Call \ Duplex => RequestOK(daemon'[c])
    BY <2>1 DEF MessagesInv
  <2> QED BY <2>1, <2>2, <2>3, StepsMessages
<1>3. ASSUME NEW c \in Call, DaemonReceives(c) \/ Handler(c) PROVE MessagesInv'
  <2>1. DaemonKnown(c) /\ (DaemonStart(c) => daemon[c].st = "absent")
    BY StartsOnce
  <2>2. StepOf(c) /\ DaemonKeeps
    BY <1>1, <1>3, <2>1, DaemonStepOf
  <2>3. duplex' = duplex /\ client' = client /\ outbox' = outbox
    BY <2>2 DEF DaemonKeeps, callVars
  <2>4. /\ c \in Duplex =>
              MessagesOK(toDaemon', outbox, duplex[c], client[c], daemon'[c], c)
        /\ c \notin Duplex => RequestOK(daemon'[c])
    BY <1>3, DaemonMessages
  <2>5. c \in Duplex => MessagesOK(toDaemon', outbox', duplex'[c], client'[c], daemon'[c], c)
    BY <2>3, <2>4
  <2> QED BY <2>2, <2>4, <2>5, StepsMessages
<1>9. ASSUME NEW c \in Call, DaemonOversized(c) PROVE MessagesInv'
  <2>1. DaemonKnown(c)
    BY StartsOnce
  <2>2. PICK s, m, i : Torn(c, s, m, i)
    BY <1>9, <2>1, OversizedTears
  <2>3. StepOf(c) /\ DaemonKeeps /\ daemon[c].st # "absent"
    BY <1>1, <1>9, <2>1, OversizedStepOf
  <2>4. duplex' = duplex /\ client' = client /\ outbox' = outbox
    BY <2>3 DEF DaemonKeeps, callVars
  <2>5. PICK d, d2 : d = daemon[c] /\ d2 = daemon'[c]
    OBVIOUS
  <2>6. d2 = TornOf(d) /\ DaemonOK(d, c)
    BY <2>1, <2>2, <2>5 DEF Torn, DaemonKnown
  <2>7. d2.seen = d.seen /\ d2.inputOpen = d.inputOpen /\ d2.st = "gone"
    BY <2>3, <2>5, <2>6, TornRecord
  <2>8. c \notin Duplex => RequestOK(d2)
    BY <2>5, <2>7 DEF RequestOK, MessagesInv
  <2>9. ASSUME c \in Duplex
        PROVE  MessagesOK(toDaemon', outbox', duplex'[c], client'[c], daemon'[c], c)
    <3>1. MessagesOK(toDaemon, outbox, duplex[c], client[c], d, c)
      BY <2>5, <2>9 DEF MessagesInv
    <3>2. SameIn(toDaemon, toDaemon', c)
      <4>1. toDaemon \in Seq(SentType) /\ toDaemon # <<>> /\ toDaemon' = Tail(toDaemon)
        BY <1>1, <2>2 DEF Torn, LinkInv
      <4>2. Head(toDaemon).frame.kind \notin Spoken
        BY <2>2 DEF Torn, Spoken
      <4> QED BY <4>1, <4>2, InTail
    <3>3. SameOut(outbox, outbox', c)
      BY <2>4, <3>1, MessageParts DEF SameOut
    <3>4. MessagesOK(toDaemon', outbox', duplex[c], client[c], d, c)
      BY <3>1, <3>2, <3>3, KeepsMessages
    <3>5. MessagesOK(toDaemon', outbox', duplex[c], client[c], d2, c)
      BY <2>7, <3>4, QuietMessages
    <3> QED BY <2>4, <2>5, <3>5
  <2> QED BY <2>3, <2>5, <2>8, <2>9, StepsMessages
<1>4. CASE PeerNext
  BY <1>2, <1>3, <1>4, <1>9 DEF PeerNext
<1>5. CASE ReverseNext /\ UNCHANGED peerVars
  <2>1. PICK a \in ReverseId : StepOf(a)
    BY <1>1, <1>5, ReverseStep
  <2>2. a \notin Call /\ a \notin Duplex
    BY IdsAssumption DEF IdsAssumption, Call
  <2> QED BY <2>1, <2>2, StepsMessages
<1>6. CASE Deliver /\ UNCHANGED reverseVars
  <2>1. Transmit /\ UNCHANGED incoming /\ UNCHANGED <<client, duplex, daemon>>
    BY <1>6 DEF Deliver, reverseVars, peerVars
  <2>2. ASSUME NEW c \in Duplex
        PROVE  MessagesOK(toDaemon', outbox', duplex'[c], client'[c], daemon'[c], c)
    BY <2>1, TransmitMessages
  <2>3. \A c \in Call \ Duplex : RequestOK(daemon'[c])
    BY <2>1 DEF MessagesInv
  <2> QED BY <2>2, <2>3 DEF MessagesInv
<1>7. CASE Ends
  BY <1>7, TerminateMessages DEF Ends, RefuseGap, RefuseFrame, RefuseReverse, Disconnect
<1>8. CASE UNCHANGED vars
  BY <1>8 DEF vars, peerVars, linkVars, MessagesInv
<1> QED BY <1>4, <1>5, <1>6, <1>7, <1>8 DEF Next

(* The messages are in order in every reachable state.                        *)
LEMMA MessagesKept == Spec => [](BooksInv /\ StartInv /\ MessagesInv)
BY InitBooks, NextBooks, InitStart, NextStart, InitMessages, NextMessages, PTL DEF Spec

(* The daemon takes the end of a duplex request for what it is: while its     *)
(* handler runs and its input is closed, every message the caller sent before *)
(* the end was received but those whose send was rejected, although a         *)
(* cancelled call drops its batches from the queue, although the end is not   *)
(* bound to the call's signal, and although an end that waits goes out behind *)
(* a send that failed, before the call is cancelled.                          *)
THEOREM InputEndIsAll == Spec => []InputEndMeansAll
<1>1. MessagesInv => InputEndMeansAll
  BY DEF MessagesInv, MessagesOK, Shut, InputEndMeansAll
<1> QED BY <1>1, MessagesKept, PTL

(* Every variable of the client's calls and of the daemon's keeps its type:   *)
(* no credit passes its limit or falls below zero, and the daemon counts no   *)
(* message that was not sent.                                                 *)
THEOREM PeerTypes == Spec => []PeerTypeOK
<1>1. BooksInv /\ StartInv /\ MessagesInv => PeerTypeOK
  <2> SUFFICES ASSUME BooksInv, StartInv, MessagesInv PROVE PeerTypeOK
    OBVIOUS
  <2>1. /\ client \in [Call -> ClientCall] /\ duplex \in [Call -> DuplexRequest]
        /\ ring \in CancelledRing /\ requestBytes \in Nat /\ responseBytes \in Nat
    BY BudgetTypes DEF BooksInv, RingOK
  <2>2. ASSUME NEW c \in Call PROVE daemon[c] \in DaemonCall
    <3>1. PICK d, x, k : d = daemon[c] /\ x = duplex[c] /\ k = client[c]
      OBVIOUS
    <3>2. d \in DaemonRecord /\ x \in DuplexRequest
      BY <2>1, <3>1 DEF StartInv
    <3>3. d.input \in Nat /\ d.seen \in Nat /\ d.input <= d.seen
      BY <3>1, <3>2 DEF StartInv, DaemonOK, DaemonRecord
    <3>4. d.seen <= MaxSends + 1
      <4>1. CASE c \in Duplex
        <5>1. PICK n \in Nat : Balance(n, toDaemon, outbox, x, k, d, c)
          BY <3>1, <4>1 DEF MessagesInv, MessagesOK
        <5>2. PICK s, y, z, w, g : /\ s = d.seen /\ y = x.sends /\ z = x.asked
                                   /\ w = Waits(outbox, c) /\ g = Begun(k)
          OBVIOUS
        <5>3. s + n + w + y <= z + g
          BY <5>1, <5>2 DEF Balance
        <5>4. /\ s \in Nat /\ y \in Nat /\ z \in Nat /\ z <= MaxSends
              /\ w \in Nat /\ g \in {0, 1}
          BY <3>2, <3>3, <5>2, PeerConstants DEF DuplexRequest, Waits, Begun
        <5>5. s <= MaxSends + 1
          BY <5>3, <5>4, PeerConstants
        <5> QED BY <5>2, <5>5
      <4>2. CASE c \notin Duplex
        <5>1. d.seen <= 1
          BY <3>1, <4>2 DEF MessagesInv, RequestOK
        <5> QED BY <3>3, <5>1, PeerConstants
      <4> QED BY <4>1, <4>2
    <3>5. d.input \in 0 .. MaxSends + 1 /\ d.seen \in 0 .. MaxSends + 1
      BY <3>3, <3>4, PeerConstants
    <3>6. d \in DaemonCall
      BY <3>2, <3>5 DEF DaemonRecord, DaemonCall
    <3> QED BY <3>1, <3>6
  <2>3. daemon \in [Call -> DaemonCall]
    BY <2>2 DEF StartInv
  <2> QED BY <2>1, <2>3 DEF PeerTypeOK
<1> QED BY <1>1, MessagesKept, PTL
=============================================================================
