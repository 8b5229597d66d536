--------------------------- MODULE DeltaJournalProofs ---------------------------
(***************************************************************************)
(* For every number of deltas, sizes, blocks and bounds: the journal keeps *)
(* the order of its deltas, no caller sleeps through its wake-up, and a    *)
(* scope's last flush is its durable boundary.                             *)
(***************************************************************************)
EXTENDS DeltaJournal, SequenceTheorems, WellFoundedInduction, TLAPS

(* The last delta of a queue that follows on n. *)
Reach(q, n) == IF q = <<>> THEN n ELSE Last(q).last

(* The last delta the journal has taken. *)
Taken == Reach(pending, Reach(inFlight, written))

---------------------------------------------------------------------------------
(* Chains: FollowFrom and Reach on the first k cells of a queue, where the *)
(* provers need no fact about sequences.                                   *)

Chain(q, k, n) ==
    \A i \in 1 .. k : /\ q[i].first = (IF i = 1 THEN n ELSE q[i - 1].last) + 1
                      /\ q[i].first <= q[i].last

End(q, k, n) == IF k = 0 THEN n ELSE q[k].last

LEMMA ChainPrefix ==
    ASSUME NEW q, NEW r, NEW n \in Nat, NEW k \in Nat, NEW j \in 0 .. k,
           Chain(q, k, n), \A i \in 1 .. j : r[i] = q[i]
    PROVE  Chain(r, j, n) /\ End(r, j, n) = End(q, j, n)
<1>1. ASSUME NEW i \in 1 .. j
      PROVE  /\ r[i].first = (IF i = 1 THEN n ELSE r[i - 1].last) + 1
             /\ r[i].first <= r[i].last
  <2>1. i \in 1 .. k /\ (i # 1 => i - 1 \in 1 .. j)
    OBVIOUS
  <2>2. r[i] = q[i] /\ (i # 1 => r[i - 1] = q[i - 1])
    BY <2>1
  <2>3. q[i].first = (IF i = 1 THEN n ELSE q[i - 1].last) + 1 /\ q[i].first <= q[i].last
    BY <2>1 DEF Chain
  <2> QED BY <2>2, <2>3
<1>2. j # 0 => r[j] = q[j]
  OBVIOUS
<1> QED BY <1>1, <1>2 DEF Chain, End

LEMMA ChainStep ==
    ASSUME NEW q, NEW n \in Nat, NEW k \in Nat, Chain(q, k, n),
           q[k + 1].first = End(q, k, n) + 1, q[k + 1].first <= q[k + 1].last
    PROVE  Chain(q, k + 1, n) /\ End(q, k + 1, n) = q[k + 1].last
<1>1. ASSUME NEW i \in 1 .. k + 1
      PROVE  /\ q[i].first = (IF i = 1 THEN n ELSE q[i - 1].last) + 1
             /\ q[i].first <= q[i].last
  <2>1. CASE i \in 1 .. k
    BY <2>1 DEF Chain
  <2>2. CASE i = k + 1
    <3>1. (i = 1 <=> k = 0) /\ i - 1 = k
      BY <2>2
    <3> QED BY <2>2, <3>1 DEF End
  <2> QED BY <2>1, <2>2
<1> QED BY <1>1 DEF Chain, End

SameStart(r, q, k) == \A i \in 1 .. k : r[i] = q[i]

LEMMA ChainDropsLast ==
    ASSUME NEW q, NEW n \in Nat, NEW k \in Nat, Chain(q, k + 1, n)
    PROVE  /\ q[k + 1].first = End(q, k, n) + 1 /\ q[k + 1].first <= q[k + 1].last
           /\ \A r : SameStart(r, q, k) => Chain(r, k, n) /\ End(r, k, n) = End(q, k, n)
<1>1. k + 1 \in Nat /\ k \in 0 .. k + 1 /\ k + 1 \in 1 .. k + 1 /\ (k + 1) - 1 = k
      /\ (k + 1 = 1 <=> k = 0)
  OBVIOUS
<1>2. q[k + 1].first = End(q, k, n) + 1 /\ q[k + 1].first <= q[k + 1].last
  BY <1>1 DEF Chain, End
<1>3. ASSUME NEW r, SameStart(r, q, k)
      PROVE  Chain(r, k, n) /\ End(r, k, n) = End(q, k, n)
  BY <1>1, <1>3, ChainPrefix DEF SameStart
<1> QED BY <1>2, <1>3

LEMMA ChainSuffix ==
    ASSUME NEW q, NEW r, NEW n \in Nat, NEW k \in Nat, NEW j \in 1 .. k,
           Chain(q, k, n), \A i \in 1 .. k - j : r[i] = q[i + j]
    PROVE  Chain(r, k - j, q[j].last) /\ End(r, k - j, q[j].last) = End(q, k, n)
<1>1. ASSUME NEW i \in 1 .. k - j
      PROVE  /\ r[i].first = (IF i = 1 THEN q[j].last ELSE r[i - 1].last) + 1
             /\ r[i].first <= r[i].last
  <2>1. /\ i + j \in 1 .. k /\ i + j # 1
        /\ i # 1 => i - 1 \in 1 .. k - j
        /\ i # 1 => (i - 1) + j = (i + j) - 1
        /\ i = 1 => (i + j) - 1 = j
    OBVIOUS
  <2>2. r[i] = q[i + j] /\ (i # 1 => r[i - 1] = q[(i + j) - 1])
    <3>1. i # 1 => r[i - 1] = q[(i - 1) + j]
      BY <2>1
    <3> QED BY <2>1, <3>1
  <2>3. q[i + j].first = q[(i + j) - 1].last + 1 /\ q[i + j].first <= q[i + j].last
    BY <2>1 DEF Chain
  <2> QED BY <2>1, <2>2, <2>3
<1>2. k # j => k - j \in 1 .. k - j /\ (k - j) + j = k
  OBVIOUS
<1>3. k # j => r[k - j] = q[k]
  BY <1>2
<1> QED BY <1>1, <1>3 DEF Chain, End

LEMMA ChainConcat ==
    ASSUME NEW p, NEW q, NEW s, NEW n \in Nat, NEW k \in Nat, NEW m \in Nat,
           Chain(p, k, n), Chain(q, m, End(p, k, n)),
           \A i \in 1 .. k : s[i] = p[i], \A i \in 1 .. m : s[k + i] = q[i]
    PROVE  Chain(s, k + m, n)
<1> SUFFICES ASSUME NEW i \in 1 .. k + m
             PROVE  /\ s[i].first = (IF i = 1 THEN n ELSE s[i - 1].last) + 1
                    /\ s[i].first <= s[i].last
  BY DEF Chain
<1>1. CASE i <= k
  <2>1. i \in 1 .. k /\ (i # 1 => i - 1 \in 1 .. k)
    BY <1>1
  <2>2. p[i].first = (IF i = 1 THEN n ELSE p[i - 1].last) + 1 /\ p[i].first <= p[i].last
    BY <2>1 DEF Chain
  <2> QED BY <2>1, <2>2
<1>2. CASE i > k
  <2> DEFINE j == i - k
  <2>1. /\ j \in 1 .. m /\ i = k + j
        /\ j # 1 => j - 1 \in 1 .. m /\ i - 1 = k + (j - 1) /\ i # 1
        /\ j = 1 => i - 1 = k /\ (i = 1 <=> k = 0) /\ (k # 0 => k \in 1 .. k)
    BY <1>2
  <2>2. q[j].first = (IF j = 1 THEN End(p, k, n) ELSE q[j - 1].last) + 1 /\ q[j].first <= q[j].last
    BY <2>1 DEF Chain
  <2>3. s[i] = q[j]
    BY <2>1
  <2>4. j # 1 => s[i - 1] = q[j - 1]
    BY <2>1
  <2>5. j = 1 => End(p, k, n) = (IF i = 1 THEN n ELSE s[i - 1].last)
    BY <2>1 DEF End
  <2> QED BY <2>1, <2>2, <2>3, <2>4, <2>5
<1> QED BY <1>1, <1>2

---------------------------------------------------------------------------------
(* Queues. *)

LEMMA FollowsIsChain ==
    ASSUME NEW n, NEW S, NEW q \in Seq(S)
    PROVE  /\ FollowFrom(q, n) <=> Chain(q, Len(q), n)
           /\ Reach(q, n) = End(q, Len(q), n)
<1>1. DOMAIN q = 1 .. Len(q) /\ (q = <<>> <=> Len(q) = 0)
  OBVIOUS
<1> QED BY <1>1 DEF FollowFrom, Chain, Reach, End, Last

LEMMA AppendFollows ==
    ASSUME NEW n \in Nat, NEW q \in Seq(Events), FollowFrom(q, n),
           NEW e \in Events, e.first = Reach(q, n) + 1, e.first <= e.last
    PROVE  /\ FollowFrom(Append(q, e), n)
           /\ Reach(Append(q, e), n) = e.last
           /\ Append(q, e) \in Seq(Events) /\ Append(q, e) # <<>>
<1> DEFINE r == Append(q, e)
<1>1. PICK k \in Nat : k = Len(q)
  OBVIOUS
<1>2. /\ r \in Seq(Events) /\ Len(r) = k + 1 /\ r[k + 1] = e
      /\ \A i \in 1 .. k : r[i] = q[i]
  BY <1>1
<1>3. r # <<>>
  OBVIOUS
<1> HIDE DEF r
<1>4. Chain(q, k, n) /\ End(q, k, n) = Reach(q, n)
  BY <1>1, FollowsIsChain
<1>5. Chain(r, k, n) /\ End(r, k, n) = End(q, k, n)
  <2>1. k \in 0 .. k
    BY <1>1
  <2> QED BY <1>2, <1>4, <2>1, ChainPrefix
<1>6. Chain(r, k + 1, n) /\ End(r, k + 1, n) = e.last
  BY <1>2, <1>4, <1>5, ChainStep
<1>7. FollowFrom(r, n) /\ Reach(r, n) = e.last
  BY <1>2, <1>6, FollowsIsChain
<1> QED BY <1>2, <1>3, <1>7 DEF r

LEMMA EventNumbers ==
    ASSUME NEW e \in Events
    PROVE  e.first \in Int /\ e.last \in Int
BY DEF Events

LEMMA MergedIsEvent ==
    ASSUME NEW l \in Events, NEW e \in Events
    PROVE  /\ Merged(l, e) \in Events
           /\ Merged(l, e).first = l.first /\ Merged(l, e).last = e.last
<1>1. l.size + e.size \in Nat \ {0}
  BY DEF Events
<1> QED BY <1>1 DEF Events, Merged

LEMMA MergeFollows ==
    ASSUME NEW n \in Nat, NEW q \in Seq(Events), FollowFrom(q, n), q # <<>>,
           NEW e \in Events, e.first = Reach(q, n) + 1, e.first <= e.last
    PROVE  LET m == Append(Front(q), Merged(Last(q), e))
           IN  /\ FollowFrom(m, n) /\ Reach(m, n) = e.last
               /\ m \in Seq(Events) /\ m # <<>>
<1>1. PICK k \in Nat : k + 1 = Len(q)
  <2>1. PICK m \in Nat : m = Len(q) /\ m # 0
    BY EmptySeq
  <2>2. m - 1 \in Nat /\ (m - 1) + 1 = m
    BY <2>1
  <2> QED BY <2>1, <2>2
<1> DEFINE f == SubSeq(q, 1, k)
           l == q[k + 1]
           x == [l EXCEPT !.last = e.last, !.size = @ + e.size]
<1>2. l \in Events
  <2>1. k + 1 \in 1 .. k + 1
    BY <1>1
  <2> QED BY <1>1, <2>1, ElementOfSeq
<1>3. /\ f \in Seq(Events) /\ Len(f) = k
      /\ \A i \in 1 .. k : f[i] = q[i]
  <2>1. k \in 1 .. Len(q) \/ k = 0
    BY <1>1
  <2> QED BY <2>1, <1>1
<1>4. x \in Events /\ x.first = l.first /\ x.last = e.last
  BY <1>2, MergedIsEvent DEF Merged
<1> HIDE DEF f, x
<1>5. Chain(q, k + 1, n) /\ Reach(q, n) = l.last
  BY <1>1, FollowsIsChain DEF End
<1>6. l.first = End(q, k, n) + 1 /\ l.first <= l.last
  BY <1>5, ChainDropsLast
<1>7. Chain(f, k, n) /\ End(f, k, n) = End(q, k, n)
  <2>1. SameStart(f, q, k) /\ k \in Nat /\ Chain(q, k + 1, n)
    BY <1>1, <1>3, <1>5 DEF SameStart
  <2> QED BY <2>1, ChainDropsLast
<1>8. FollowFrom(f, n) /\ Reach(f, n) = End(q, k, n)
  BY <1>3, <1>7, FollowsIsChain
<1>9. x.first <= x.last
  <2>1. l.first \in Int /\ l.last \in Int
    BY <1>2, EventNumbers
  <2>2. e.first \in Int /\ e.last \in Int
    BY EventNumbers
  <2> QED BY <1>4, <1>5, <1>6, <2>1, <2>2
<1>10. /\ FollowFrom(Append(f, x), n) /\ Reach(Append(f, x), n) = e.last
       /\ Append(f, x) \in Seq(Events) /\ Append(f, x) # <<>>
  BY <1>3, <1>4, <1>6, <1>8, <1>9, AppendFollows
<1>11. Front(q) = f /\ Last(q) = l
  <2>1. Len(q) - 1 = k
    BY <1>1
  <2> QED BY <1>1, <2>1 DEF f, Front, Last
<1>12. Merged(Last(q), e) = x
  BY <1>11 DEF x, Merged
<1> QED BY <1>10, <1>11, <1>12

LEMMA SplitFollows ==
    ASSUME NEW n \in Nat, NEW q \in Seq(Events), FollowFrom(q, n), q # <<>>,
           NEW j \in 1 .. Len(q)
    PROVE  LET b == SubSeq(q, 1, j)
               r == SubSeq(q, j + 1, Len(q))
           IN  /\ b \in Seq(Events) /\ b # <<>> /\ Len(b) = j /\ r \in Seq(Events)
               /\ FollowFrom(b, n) /\ FollowFrom(r, Reach(b, n))
               /\ Reach(r, Reach(b, n)) = Reach(q, n)
<1> DEFINE b == SubSeq(q, 1, j)
           r == SubSeq(q, j + 1, Len(q))
<1>1. PICK k \in Nat : k = Len(q)
  OBVIOUS
<1>2. j \in 1 .. k /\ j \in Nat /\ j \in 0 .. k
  BY <1>1
<1>3. b \in Seq(Events) /\ Len(b) = j /\ \A i \in 1 .. j : b[i] = q[i]
  BY <1>1, <1>2
<1>4. r \in Seq(Events) /\ Len(r) = k - j /\ \A i \in 1 .. k - j : r[i] = q[i + j]
  <2>1. \A i \in j + 1 .. k : q[i] \in Events
    BY <1>1, <1>2, ElementOfSeq
  <2>2. /\ SubSeq(q, j + 1, k) \in Seq(Events)
        /\ Len(SubSeq(q, j + 1, k)) = IF j + 1 <= k THEN k - (j + 1) + 1 ELSE 0
        /\ \A i \in 1 .. k - (j + 1) + 1 : SubSeq(q, j + 1, k)[i] = q[(j + 1) + i - 1]
    <3>1. j + 1 \in Int /\ k \in Int
      BY <1>2
    <3> QED BY <2>1, <3>1, SubSeqProperties, SMTT(40)
  <2>3. k - (j + 1) + 1 = k - j /\ (~(j + 1 <= k) => k - j = 0)
        /\ \A i \in 1 .. k - j : (j + 1) + i - 1 = i + j
    BY <1>2
  <2> QED BY <1>1, <2>2, <2>3
<1>5. b # <<>>
  BY <1>2, <1>3
<1> HIDE DEF b, r
<1>6. Chain(q, k, n) /\ Reach(q, n) = End(q, k, n)
  BY <1>1, FollowsIsChain
<1>7. Chain(b, j, n) /\ End(b, j, n) = q[j].last
  <2>1. Chain(b, j, n) /\ End(b, j, n) = End(q, j, n)
    BY <1>2, <1>3, <1>6, ChainPrefix
  <2> QED BY <1>2, <2>1 DEF End
<1>8. FollowFrom(b, n) /\ Reach(b, n) = q[j].last
  BY <1>3, <1>7, FollowsIsChain
<1>9. Chain(r, k - j, q[j].last) /\ End(r, k - j, q[j].last) = End(q, k, n)
  BY <1>2, <1>4, <1>6, ChainSuffix
<1>10. FollowFrom(r, q[j].last) /\ Reach(r, q[j].last) = Reach(q, n)
  BY <1>4, <1>6, <1>9, FollowsIsChain
<1>11. /\ b \in Seq(Events) /\ b # <<>> /\ Len(b) = j /\ r \in Seq(Events)
       /\ FollowFrom(b, n) /\ FollowFrom(r, Reach(b, n))
       /\ Reach(r, Reach(b, n)) = Reach(q, n)
  BY <1>3, <1>4, <1>5, <1>8, <1>10
<1> QED BY <1>11 DEF b, r

LEMMA ConcatFollows ==
    ASSUME NEW n \in Nat, NEW p \in Seq(Events), NEW q \in Seq(Events),
           FollowFrom(p, n), FollowFrom(q, Reach(p, n))
    PROVE  FollowFrom(p \o q, n)
<1> DEFINE s == p \o q
<1>1. PICK k \in Nat, m \in Nat : k = Len(p) /\ m = Len(q)
  OBVIOUS
<1>2. /\ s \in Seq(Events) /\ Len(s) = k + m
      /\ \A i \in 1 .. k : s[i] = p[i]
      /\ \A i \in 1 .. m : s[k + i] = q[i]
  <2>1. /\ s \in Seq(Events) /\ Len(s) = k + m
        /\ \A i \in 1 .. k + m : s[i] = IF i <= k THEN p[i] ELSE q[i - k]
    BY <1>1, ConcatProperties
  <2>2. \A i \in 1 .. k : i \in 1 .. k + m /\ i <= k
    BY <1>1
  <2>3. \A i \in 1 .. m : k + i \in 1 .. k + m /\ ~(k + i <= k) /\ (k + i) - k = i
    BY <1>1
  <2> QED BY <2>1, <2>2, <2>3
<1> HIDE DEF s
<1>3. Chain(p, k, n) /\ Chain(q, m, End(p, k, n))
  BY <1>1, FollowsIsChain
<1>4. Chain(s, k + m, n)
  BY <1>1, <1>2, <1>3, ChainConcat
<1>5. FollowFrom(s, n)
  BY <1>2, <1>4, FollowsIsChain
<1> QED BY <1>5 DEF s

LEMMA LastIsEvent ==
    ASSUME NEW q \in Seq(Events), q # <<>>
    PROVE  Last(q) \in Events /\ Last(q).last \in Nat /\ Last(q).last \in 0 .. MaxDeltas
<1>1. Last(q) \in Events
  BY EmptySeq, ElementOfSeq DEF Last
<1> QED BY <1>1, JournalConstants DEF Events

LEMMA ReachIsNat ==
    ASSUME NEW q \in Seq(Events), NEW n \in Nat
    PROVE  Reach(q, n) \in Nat
BY LastIsEvent DEF Reach

LEMMA FrontAndLast ==
    ASSUME NEW q \in Seq(Events), q # <<>>
    PROVE  Front(q) \in Seq(Events) /\ q = Append(Front(q), Last(q))
<1>1. PICK m \in Nat : m = Len(q) /\ m # 0
  BY EmptySeq
<1>2. PICK k \in Nat : k + 1 = m
  <2>1. m - 1 \in Nat /\ (m - 1) + 1 = m
    BY <1>1
  <2> QED BY <2>1
<1>3. m - 1 = k
  BY <1>1, <1>2
<1> DEFINE f == SubSeq(q, 1, k)
<1>4. f \in Seq(Events) /\ Len(f) = k /\ \A i \in 1 .. k : f[i] = q[i]
  <2>1. k \in 1 .. Len(q) \/ k = 0
    BY <1>1, <1>2
  <2> QED BY <2>1, <1>1
<1>5. Front(q) = f /\ Last(q) = q[k + 1]
  BY <1>1, <1>2, <1>3 DEF Front, Last
<1> HIDE DEF f
<1>6. q[k + 1] \in Events
  BY <1>1, <1>2, <1>5, EmptySeq, LastIsEvent
<1> DEFINE r == Append(f, q[k + 1])
<1>7. r \in Seq(Events) /\ Len(r) = k + 1 /\ r[k + 1] = q[k + 1] /\ \A i \in 1 .. k : r[i] = q[i]
  BY <1>4, <1>6
<1> HIDE DEF r
<1>8. \A i \in 1 .. k + 1 : i \in 1 .. k \/ i = k + 1
  BY <1>2
<1>9. Len(r) = Len(q) /\ \A i \in 1 .. Len(r) : r[i] = q[i]
  BY <1>1, <1>2, <1>7, <1>8
<1>10. r = q
  BY <1>7, <1>9, SeqEqual
<1> QED BY <1>4, <1>5, <1>10 DEF r

---------------------------------------------------------------------------------
(* Bytes: BatchBytes adds the estimates of its events.                     *)

LEMMA Induction ==
    ASSUME NEW D, 0 \in D, \A k \in Nat : k \in D => k + 1 \in D
    PROVE  \A k \in Nat : k \in D
<1> SUFFICES ASSUME Nat \ D # {} PROVE FALSE
  OBVIOUS
<1> DEFINE Below == {p \in Nat \X Nat : p[1] < p[2]}
<1>1. IsWellFoundedOn(Below, Nat)
  <2>1. Below = OpToRel(<, Nat)
    BY DEF OpToRel
  <2> QED BY <2>1, NatLessThanWellFounded
<1> HIDE DEF Below
<1>2. PICK n \in Nat \ D : \A m \in Nat \ D : <<m, n>> \notin Below
  <2>1. Nat \ D \subseteq Nat
    OBVIOUS
  <2> QED BY <1>1, <2>1, WFMin
<1>3. n # 0 /\ n - 1 \in Nat /\ (n - 1) + 1 = n
  BY <1>2
<1>4. n - 1 \notin D
  BY <1>2, <1>3
<1>5. <<n - 1, n>> \in Below
  BY <1>2, <1>3 DEF Below
<1> QED BY <1>2, <1>3, <1>4, <1>5

(* t[i] is the bytes of the first i events of q. *)
Totals(t, q, k) ==
    /\ \A i \in 0 .. k : t[i] \in Nat
    /\ t[0] = 0
    /\ \A i \in 1 .. k : t[i] = t[i - 1] + EstimateBytes(q[i]) /\ EstimateBytes(q[i]) \in Nat

LEMMA EstimateIsNat ==
    ASSUME NEW e \in Events
    PROVE  EstimateBytes(e) \in Nat /\ EstimateBytes(e) > 0
BY JournalConstants DEF EstimateBytes, Events

(* The equation of BatchBytes's totals. *)
TotalsEquation(t, q, k) ==
    t = [i \in 0 .. k |-> IF i = 0 THEN 0 ELSE t[i - 1] + EstimateBytes(q[i])]

Estimated(q, k) == \A i \in 1 .. k : EstimateBytes(q[i]) \in Nat

(* The first m cells of r are those of q after its first k. *)
SameCells(r, m, q, k) == \A i \in 1 .. m : r[i] = q[k + i]

(* A sum as a predicate, from which the provers instantiate the lemmas.    *)
Plus(n, k, m) == n = k + m

LEMMA TotalsExist ==
    ASSUME NEW q, NEW k \in Nat, Estimated(q, k)
    PROVE  \E t : TotalsEquation(t, q, k)
<1> DEFINE Of(t, j) == t = [i \in 0 .. j |-> IF i = 0 THEN 0 ELSE t[i - 1] + EstimateBytes(q[i])]
           Has(j) == \E t : Of(t, j) /\ \A i \in 0 .. j : t[i] \in Nat
           D == {j \in Nat : j <= k => Has(j)}
<1>1. 0 \in D
  <2> DEFINE t == [i \in 0 .. 0 |-> 0]
  <2>1. Of(t, 0) /\ \A i \in 0 .. 0 : t[i] \in Nat
    OBVIOUS
  <2> QED BY <2>1
<1>2. ASSUME NEW j \in Nat, j \in D, j + 1 <= k PROVE Has(j + 1)
  <2>1. PICK t : Of(t, j) /\ \A i \in 0 .. j : t[i] \in Nat
    BY <1>2
  <2> DEFINE u == [i \in 0 .. j + 1 |-> IF i = j + 1 THEN t[j] + EstimateBytes(q[j + 1]) ELSE t[i]]
  <2>2. \A i \in 0 .. j : u[i] = t[i]
    OBVIOUS
  <2>3. u[j + 1] = u[(j + 1) - 1] + EstimateBytes(q[j + 1]) /\ u[j + 1] \in Nat
    <3>1. EstimateBytes(q[j + 1]) \in Nat /\ t[j] \in Nat /\ (j + 1) - 1 = j /\ j \in 0 .. j
      BY <1>2, <2>1 DEF Estimated
    <3> QED BY <2>2, <3>1
  <2>4. \A i \in 0 .. j + 1 : u[i] = IF i = 0 THEN 0 ELSE u[i - 1] + EstimateBytes(q[i])
    <3> TAKE i \in 0 .. j + 1
    <3>1. CASE i = j + 1
      BY <2>3, <3>1
    <3>2. CASE i # j + 1
      <4>1. i \in 0 .. j /\ (i # 0 => i - 1 \in 0 .. j)
        BY <3>2
      <4>2. t[i] = IF i = 0 THEN 0 ELSE t[i - 1] + EstimateBytes(q[i])
        BY <2>1, <4>1
      <4> QED BY <2>2, <4>1, <4>2
    <3> QED BY <3>1, <3>2
  <2>5. \A i \in 0 .. j + 1 : u[i] \in Nat
    <3> TAKE i \in 0 .. j + 1
    <3>1. i \in 0 .. j \/ i = j + 1
      OBVIOUS
    <3> QED BY <2>1, <2>2, <2>3, <3>1
  <2>6. DOMAIN u = 0 .. j + 1 /\ u = [i \in 0 .. j + 1 |-> u[i]]
    OBVIOUS
  <2> HIDE DEF u
  <2>7. u = [i \in 0 .. j + 1 |-> IF i = 0 THEN 0 ELSE u[i - 1] + EstimateBytes(q[i])]
    BY <2>4, <2>6
  <2> QED BY <2>5, <2>7
<1>3. \A j \in Nat : j \in D => j + 1 \in D
  <2> TAKE j \in Nat
  <2> HAVE j \in D
  <2>1. j + 1 <= k => Has(j + 1)
    BY <1>2
  <2> HIDE DEF Has
  <2> QED BY <2>1
<1> HIDE DEF D
<1>4. k \in D
  BY <1>1, <1>3, Induction
<1>5. PICK t : Of(t, k) /\ \A i \in 0 .. k : t[i] \in Nat
  BY <1>4 DEF D
<1> QED BY <1>5 DEF TotalsEquation

(* The sum over a queue and the sum over what continues it. *)
LEMMA TotalsShift ==
    ASSUME NEW q, NEW r, NEW t, NEW u, NEW k \in Nat, NEW m \in Nat,
           NEW n \in Nat, Plus(n, k, m),
           Totals(t, q, n), Totals(u, r, m), SameCells(r, m, q, k)
    PROVE  t[n] = t[k] + u[m] /\ t[k] \in Nat /\ u[m] \in Nat
<1> DEFINE D == {i \in Nat : i <= m => t[k + i] = t[k] + u[i]}
<1> USE DEF Plus
<1>1. t[k] \in Nat /\ u[m] \in Nat
  <2>1. k \in 0 .. n /\ m \in 0 .. m
    OBVIOUS
  <2> QED BY <2>1 DEF Totals
<1>2. 0 \in D
  <2>1. k + 0 = k
    OBVIOUS
  <2> QED BY <1>1, <2>1 DEF Totals
<1>3. ASSUME NEW i \in Nat, i \in D, i + 1 <= m PROVE t[k + (i + 1)] = t[k] + u[i + 1]
  <2>1. /\ k + (i + 1) \in 1 .. n /\ (k + (i + 1)) - 1 = k + i /\ k + i \in 0 .. n
        /\ i + 1 \in 1 .. m /\ (i + 1) - 1 = i /\ i \in 0 .. m /\ i + 1 \in 0 .. m
    BY <1>3
  <2>2. t[k + (i + 1)] = t[k + i] + EstimateBytes(q[k + (i + 1)])
    BY <2>1 DEF Totals
  <2>3. u[i + 1] = u[i] + EstimateBytes(r[i + 1])
    BY <2>1 DEF Totals
  <2>4. r[i + 1] = q[k + (i + 1)]
    BY <2>1 DEF SameCells
  <2>5. t[k + i] = t[k] + u[i]
    BY <1>3
  <2>6. u[i] \in Nat
    BY <2>1 DEF Totals
  <2>7. u[i + 1] \in Nat
    BY <2>1 DEF Totals
  <2> DEFINE x == EstimateBytes(q[k + (i + 1)])
  <2>8. u[i + 1] = u[i] + x /\ t[k + (i + 1)] = t[k] + u[i] + x
    BY <2>2, <2>3, <2>4, <2>5
  <2>9. x \in Nat
    BY <2>1 DEF Totals
  <2> HIDE DEF x
  <2> QED BY <1>1, <2>6, <2>8, <2>9
<1>4. \A i \in Nat : i \in D => i + 1 \in D
  BY <1>3
<1> HIDE DEF D
<1>5. m \in D
  BY <1>2, <1>4, Induction
<1> QED BY <1>1, <1>5 DEF D

LEMMA TotalsAgree ==
    ASSUME NEW q, NEW r, NEW t, NEW u, NEW n \in Nat, NEW k \in 0 .. n,
           Totals(t, q, n), Totals(u, r, k), SameCells(r, k, q, 0)
    PROVE  t[k] = u[k] /\ u[k] \in Nat
<1>1. Totals(t, q, k)
  <2>1. \A i \in 0 .. k : i \in 0 .. n
    OBVIOUS
  <2>2. \A i \in 1 .. k : i \in 1 .. n
    OBVIOUS
  <2> QED BY <2>1, <2>2 DEF Totals
<1>2. t[k] = t[0] + u[k] /\ u[k] \in Nat
  <2>1. k \in Nat /\ 0 \in Nat /\ Plus(k, 0, k)
    BY DEF Plus
  <2> QED BY <1>1, <2>1, TotalsShift
<1> QED BY <1>2 DEF Totals

LEMMA TotalsStep ==
    ASSUME NEW q, NEW r, NEW t, NEW u, NEW k \in Nat, NEW n \in Nat, Plus(n, k, 1),
           Totals(t, q, n), Totals(u, r, k), SameCells(r, k, q, 0)
    PROVE  t[k] = u[k] /\ u[k] \in Nat /\ t[n] = t[k] + EstimateBytes(q[n])
<1> USE DEF Plus
<1>1. n \in 1 .. n /\ n - 1 = k /\ k \in 0 .. n
  OBVIOUS
<1>2. t[k] = u[k] /\ u[k] \in Nat
  BY <1>1, TotalsAgree
<1>3. t[n] = t[n - 1] + EstimateBytes(q[n])
  BY <1>1 DEF Totals
<1> QED BY <1>1, <1>2, <1>3

LEMMA EquationIsTotals ==
    ASSUME NEW q, NEW k \in Nat, Estimated(q, k), NEW t, TotalsEquation(t, q, k)
    PROVE  Totals(t, q, k)
<1> DEFINE D == {i \in Nat : i <= k => t[i] \in Nat}
<1>1. t[0] = 0
  BY DEF TotalsEquation
<1>2. ASSUME NEW i \in 1 .. k PROVE t[i] = t[i - 1] + EstimateBytes(q[i])
  <2>1. i \in 0 .. k /\ i # 0
    OBVIOUS
  <2> QED BY <2>1 DEF TotalsEquation
<1>3. 0 \in D
  BY <1>1
<1>4. ASSUME NEW i \in Nat, i \in D, i + 1 <= k PROVE t[i + 1] \in Nat
  <2>1. i + 1 \in 1 .. k /\ (i + 1) - 1 = i /\ t[i] \in Nat
    BY <1>4
  <2>2. t[i + 1] = t[i] + EstimateBytes(q[i + 1]) /\ EstimateBytes(q[i + 1]) \in Nat
    BY <1>2, <2>1 DEF Estimated
  <2> QED BY <2>1, <2>2
<1>5. \A i \in Nat : i \in D => i + 1 \in D
  BY <1>4
<1> HIDE DEF D
<1>6. \A i \in Nat : i \in D
  BY <1>3, <1>5, Induction
<1>7. \A i \in 0 .. k : t[i] \in Nat
  BY <1>6 DEF D
<1> QED BY <1>1, <1>2, <1>7 DEF Totals, Estimated

LEMMA BytesTotals ==
    ASSUME NEW q \in Seq(Events)
    PROVE  \E t : Totals(t, q, Len(q)) /\ BatchBytes(q) = t[Len(q)]
<1>1. PICK k \in Nat : k = Len(q)
  OBVIOUS
<1>2. Estimated(q, k) /\ k \in Nat
  BY <1>1, ElementOfSeq, EstimateIsNat DEF Estimated
<1>3. \E t : TotalsEquation(t, q, k)
  BY <1>2, TotalsExist
<1> DEFINE t == CHOOSE t : TotalsEquation(t, q, k)
<1>4. TotalsEquation(t, q, k)
  BY <1>3
<1>5. BatchBytes(q) = t[k]
  BY <1>1 DEF BatchBytes, TotalsEquation
<1> HIDE DEF t
<1>6. Totals(t, q, k)
  BY <1>2, <1>4, EquationIsTotals
<1> QED BY <1>1, <1>5, <1>6

LEMMA BytesOfConcat ==
    ASSUME NEW q \in Seq(Events), NEW p \in Seq(Events), NEW r \in Seq(Events),
           Len(q) = Len(p) + Len(r),
           SameCells(p, Len(p), q, 0), SameCells(r, Len(r), q, Len(p))
    PROVE  /\ BatchBytes(q) = BatchBytes(p) + BatchBytes(r)
           /\ BatchBytes(p) \in Nat /\ BatchBytes(r) \in Nat
<1>1. PICK k \in Nat, m \in Nat : k = Len(p) /\ m = Len(r)
  OBVIOUS
<1>2. PICK n \in Nat : n = Len(q)
  OBVIOUS
<1>8. Plus(n, k, m) /\ k \in 0 .. n /\ k \in Nat /\ m \in Nat /\ n \in Nat
  BY <1>1, <1>2 DEF Plus
<1>9. PICK t : Totals(t, q, n) /\ BatchBytes(q) = t[n]
  BY <1>2, BytesTotals
<1>3. PICK s : Totals(s, p, k) /\ BatchBytes(p) = s[k]
  BY <1>1, BytesTotals
<1>4. PICK u : Totals(u, r, m) /\ BatchBytes(r) = u[m]
  BY <1>1, BytesTotals
<1>10. SameCells(r, m, q, k)
  BY <1>1
<1>5. t[n] = t[k] + u[m] /\ t[k] \in Nat /\ u[m] \in Nat
  BY <1>4, <1>8, <1>9, <1>10, TotalsShift
<1>6. SameCells(p, k, q, 0)
  BY <1>1
<1>7. t[k] = s[k]
  BY <1>3, <1>6, <1>8, <1>9, TotalsAgree
<1> QED BY <1>9, <1>3, <1>4, <1>5, <1>7

LEMMA BytesOfEmpty == BatchBytes(<<>>) = 0
<1>1. <<>> \in Seq(Events) /\ Len(<<>>) = 0
  OBVIOUS
<1>2. PICK t : Totals(t, <<>>, 0) /\ BatchBytes(<<>>) = t[0]
  BY <1>1, BytesTotals
<1> QED BY <1>2 DEF Totals

LEMMA BytesOfAppend ==
    ASSUME NEW q \in Seq(Events), NEW e \in Events
    PROVE  /\ BatchBytes(Append(q, e)) = BatchBytes(q) + EstimateBytes(e)
           /\ BatchBytes(q) \in Nat /\ EstimateBytes(e) \in Nat
<1> DEFINE r == Append(q, e)
<1>1. PICK k \in Nat : k = Len(q)
  OBVIOUS
<1>6. PICK n \in Nat : n = k + 1
  BY <1>1
<1>7. Plus(n, k, 1) /\ k \in Nat /\ n \in Nat
  BY <1>1, <1>6 DEF Plus
<1>2. r \in Seq(Events) /\ Len(r) = n /\ r[n] = e /\ SameCells(q, k, r, 0)
  <2>1. r \in Seq(Events) /\ Len(r) = n /\ r[n] = e /\ \A i \in 1 .. k : q[i] = r[i] /\ 0 + i = i
    BY <1>1, <1>6
  <2> QED BY <2>1 DEF SameCells
<1> HIDE DEF r
<1>3. PICK t : Totals(t, r, n) /\ BatchBytes(r) = t[n]
  BY <1>2, BytesTotals
<1>4. PICK s : Totals(s, q, k) /\ BatchBytes(q) = s[k]
  BY <1>1, BytesTotals
<1>5. t[k] = s[k] /\ s[k] \in Nat /\ t[n] = t[k] + EstimateBytes(r[n])
  BY <1>2, <1>3, <1>4, <1>7, TotalsStep
<1> QED BY <1>2, <1>3, <1>4, <1>5, EstimateIsNat DEF r

LEMMA BytesOfMerge ==
    ASSUME NEW q \in Seq(Events), q # <<>>, NEW e \in Events
    PROVE  /\ BatchBytes(Append(Front(q), Merged(Last(q), e)))
                  = BatchBytes(q) + (EstimateBytes(Merged(Last(q), e)) - EstimateBytes(Last(q)))
           /\ BatchBytes(q) \in Nat
           /\ EstimateBytes(Merged(Last(q), e)) \in Nat /\ EstimateBytes(Last(q)) \in Nat
<1>1. Last(q) \in Events /\ Merged(Last(q), e) \in Events
  BY LastIsEvent, MergedIsEvent
<1>2. Front(q) \in Seq(Events) /\ q = Append(Front(q), Last(q))
  BY FrontAndLast
<1>3. /\ BatchBytes(q) = BatchBytes(Front(q)) + EstimateBytes(Last(q))
      /\ BatchBytes(Front(q)) \in Nat /\ EstimateBytes(Last(q)) \in Nat
  BY <1>1, <1>2, BytesOfAppend
<1>4. /\ BatchBytes(Append(Front(q), Merged(Last(q), e)))
            = BatchBytes(Front(q)) + EstimateBytes(Merged(Last(q), e))
      /\ EstimateBytes(Merged(Last(q), e)) \in Nat
  BY <1>1, <1>2, BytesOfAppend
<1> DEFINE a == BatchBytes(Front(q))
           b == EstimateBytes(Last(q))
           c == EstimateBytes(Merged(Last(q), e))
<1> HIDE DEF a, b, c
<1>5. a \in Nat /\ b \in Nat /\ c \in Nat /\ BatchBytes(q) = a + b
      /\ BatchBytes(Append(Front(q), Merged(Last(q), e))) = a + c
  BY <1>3, <1>4 DEF a, b, c
<1>6. a + c = (a + b) + (c - b) /\ a + b \in Nat
  BY <1>5
<1> QED BY <1>5, <1>6 DEF b, c

LEMMA BytesOfSome ==
    ASSUME NEW q \in Seq(Events), q # <<>>
    PROVE  BatchBytes(q) > 0
<1>1. Last(q) \in Events /\ Front(q) \in Seq(Events) /\ q = Append(Front(q), Last(q))
  BY LastIsEvent, FrontAndLast
<1>2. /\ BatchBytes(q) = BatchBytes(Front(q)) + EstimateBytes(Last(q))
      /\ BatchBytes(Front(q)) \in Nat
  BY <1>1, BytesOfAppend
<1>3. EstimateBytes(Last(q)) \in Nat /\ EstimateBytes(Last(q)) > 0
  BY <1>1, EstimateIsNat
<1> DEFINE a == BatchBytes(Front(q))
           b == EstimateBytes(Last(q))
<1> HIDE DEF a, b
<1>4. a \in Nat /\ b \in Nat /\ b > 0 /\ BatchBytes(q) = a + b
  BY <1>2, <1>3 DEF a, b
<1> QED BY <1>4

LEMMA BytesAreNat ==
    ASSUME NEW q \in Seq(Events)
    PROVE  BatchBytes(q) \in Nat
<1>1. PICK k \in Nat : k = Len(q)
  OBVIOUS
<1>2. PICK t : Totals(t, q, k) /\ BatchBytes(q) = t[k]
  BY <1>1, BytesTotals
<1>3. k \in 0 .. k
  BY <1>1
<1> QED BY <1>2, <1>3 DEF Totals

---------------------------------------------------------------------------------
(* The inductive invariant. *)

Types ==
    /\ scope \in Scopes
    /\ pending \in Seq(Events) /\ inFlight \in Seq(Events) /\ offered \in Seq(Events)
    /\ writing \in BOOLEAN /\ sealed \in BOOLEAN /\ failed \in BOOLEAN
    /\ capacityWaiters \subseteq Callers /\ drainWaiters \subseteq Callers
    /\ made \in 0 .. MaxDeltas /\ written \in 0 .. MaxDeltas
    /\ caller \in OwnerStates /\ drain \in DrainStates

(* A write is under way exactly while it has events, and as long as any    *)
(* are queued.                                                             *)
WriteUnderWay ==
    /\ writing <=> inFlight # <<>>
    /\ pending # <<>> => writing

(* What is being written follows what is journaled, and the queue follows  *)
(* what is being written.                                                  *)
Follows ==
    ~failed => /\ FollowFrom(inFlight, written)
               /\ FollowFrom(pending, Reach(inFlight, written))

(* Until a tool call's output is dropped, the journal has taken all its    *)
(* producer made, but for the delta the stream loop is pushing.            *)
AllTaken ==
    ~failed /\ (sealed => scope = "model_request")
        => Taken = IF caller = "pushing" THEN made - 1 ELSE made

(* The delta the stream loop waits with is the last it made. *)
OfferIsLast ==
    caller = "pushing" => /\ scope = "model_request" /\ made > 0
                          /\ \E b \in Blocks, s \in Sizes : offered[1] = Delta(made, b, s)

(* A model request seals once its stream is over, and never in a drain.    *)
SealedLate ==
    /\ scope = "model_request" => drain = "idle"
    /\ scope = "model_request" /\ sealed => caller \in {"flushing", "flushed", "threw"}
    /\ caller \in {"flushing", "flushed", "threw"} => sealed
    /\ caller = "flushed" => Drained /\ ~failed

(* The counts are those of the events, and a large delta is alone.         *)
Counted ==
    /\ pendingBytes = BatchBytes(pending)
    /\ inFlightBytes = BatchBytes(inFlight)

LargeIsAlone ==
    Unjournaled > MaxBytes =>
        /\ pending = <<>>
        /\ \E b \in Blocks, s \in Sizes, n \in 1 .. MaxDeltas : inFlight = <<Delta(n, b, s)>>

IInv ==
    /\ Types /\ WriteUnderWay /\ Counted /\ LargeIsAlone /\ Follows /\ AllTaken /\ OfferIsLast /\ SealedLate
    /\ WaitersAreWoken

---------------------------------------------------------------------------------
(* What the queue's own steps keep. *)

LEMMA SplitCells ==
    ASSUME NEW q \in Seq(Events), NEW j \in 1 .. Len(q)
    PROVE  LET b == SubSeq(q, 1, j)
               r == SubSeq(q, j + 1, Len(q))
           IN  /\ Len(q) = Len(b) + Len(r)
               /\ SameCells(b, Len(b), q, 0) /\ SameCells(r, Len(r), q, Len(b))
<1>1. PICK k \in Nat : k = Len(q)
  OBVIOUS
<1>2. j \in 1 .. k /\ j \in Nat
  BY <1>1
<1> DEFINE b == SubSeq(q, 1, j)
           r == SubSeq(q, j + 1, k)
<1>3. Len(b) = j /\ \A i \in 1 .. j : b[i] = q[i] /\ 0 + i = i
  BY <1>1, <1>2
<1>4. Len(r) = k - j /\ \A i \in 1 .. k - j : r[i] = q[j + i]
  <2>1. \A i \in j + 1 .. k : q[i] \in Events
    BY <1>1, <1>2, ElementOfSeq
  <2>2. /\ Len(r) = IF j + 1 <= k THEN k - (j + 1) + 1 ELSE 0
        /\ \A i \in 1 .. k - (j + 1) + 1 : r[i] = q[(j + 1) + i - 1]
    BY <1>1, <1>2, <2>1, SubSeqProperties
  <2>3. k - (j + 1) + 1 = k - j /\ (~(j + 1 <= k) => k - j = 0)
        /\ \A i \in 1 .. k - j : (j + 1) + i - 1 = j + i
    BY <1>2
  <2> QED BY <2>2, <2>3
<1> HIDE DEF b, r
<1>5. k = Len(b) + Len(r)
  BY <1>1, <1>2, <1>3, <1>4
<1>6. SameCells(b, Len(b), q, 0) /\ SameCells(r, Len(r), q, Len(b))
  BY <1>3, <1>4 DEF SameCells
<1> QED BY <1>1, <1>5, <1>6 DEF b, r

LEMMA TakeBatchFollows ==
    ASSUME NEW n \in Nat, NEW q \in Seq(Events), q # <<>>, FollowFrom(q, n),
           NEW bytes, bytes = BatchBytes(q), TakeBatch(q, bytes)
    PROVE  /\ inFlight' \in Seq(Events) /\ inFlight' # <<>> /\ pending' \in Seq(Events)
           /\ writing' = TRUE
           /\ FollowFrom(inFlight', n) /\ FollowFrom(pending', Reach(inFlight', n))
           /\ Reach(pending', Reach(inFlight', n)) = Reach(q, n)
           /\ inFlightBytes' = BatchBytes(inFlight') /\ pendingBytes' = BatchBytes(pending')
           /\ bytes = inFlightBytes' + pendingBytes'
           /\ Len(q) = 1 => inFlight' = q /\ pending' = <<>>
<1>1. PICK m \in Nat : m = Len(q) /\ m # 0
  BY EmptySeq
<1>2. PICK j \in 1 .. m : j = IF m < MaxBatch THEN m ELSE MaxBatch
  BY <1>1, JournalConstants
<1> DEFINE r == SubSeq(q, j + 1, Len(q))
<1>3. Batch(q) = SubSeq(q, 1, j)
  BY <1>1, <1>2 DEF Batch
<1>4. /\ Batch(q) \in Seq(Events) /\ Batch(q) # <<>> /\ Len(Batch(q)) = j
      /\ r \in Seq(Events)
      /\ FollowFrom(Batch(q), n) /\ FollowFrom(r, Reach(Batch(q), n))
      /\ Reach(r, Reach(Batch(q), n)) = Reach(q, n)
  <2>1. j \in 1 .. Len(q)
    BY <1>1, <1>2
  <2> QED BY <1>3, <2>1, SplitFollows
<1>5. /\ Len(q) = Len(Batch(q)) + Len(r)
      /\ SameCells(Batch(q), Len(Batch(q)), q, 0) /\ SameCells(r, Len(r), q, Len(Batch(q)))
  <2>1. j \in 1 .. Len(q)
    BY <1>1, <1>2
  <2> QED BY <1>3, <1>4, <2>1, SplitCells
<1>6. /\ BatchBytes(q) = BatchBytes(Batch(q)) + BatchBytes(r)
      /\ BatchBytes(Batch(q)) \in Nat /\ BatchBytes(r) \in Nat
  BY <1>4, <1>5, BytesOfConcat
<1>7. Len(q) = 1 => Batch(q) = q /\ r = <<>>
  <2> SUFFICES ASSUME Len(q) = 1 PROVE Batch(q) = q /\ r = <<>>
    OBVIOUS
  <2>1. m = 1 /\ j = 1
    BY <1>1, <1>2
  <2>2. Len(r) = 0
    BY <1>4, <1>5, <2>1
  <2>3. r = <<>>
    BY <1>4, <2>2, EmptySeq
  <2>4. Batch(q) = q
    BY <1>1, <1>3, <2>1, SubSeqFull
  <2> QED BY <2>3, <2>4
<1>8. /\ inFlight' = Batch(q) /\ pending' = r /\ writing' = TRUE
      /\ inFlightBytes' = BatchBytes(Batch(q)) /\ pendingBytes' = bytes - BatchBytes(Batch(q))
  BY <1>4 DEF TakeBatch
<1> HIDE DEF r
<1>9. \A x, y \in Nat : (x + y) - x = y /\ x + y = x + y
  OBVIOUS
<1>10. pendingBytes' = BatchBytes(r)
  BY <1>6, <1>8, <1>9
<1> QED BY <1>4, <1>6, <1>7, <1>8, <1>10

LEMMA AdmitFollows ==
    ASSUME Types, WriteUnderWay, Follows, Counted, ~failed,
           NEW e \in Events, e.first = Taken + 1, e.first <= e.last, Admit(e)
    PROVE  /\ inFlight' \in Seq(Events) /\ inFlight' # <<>> /\ pending' \in Seq(Events)
           /\ writing' = TRUE /\ written' = written /\ failed' = failed
           /\ FollowFrom(inFlight', written) /\ FollowFrom(pending', Reach(inFlight', written))
           /\ Taken' = e.last
           /\ inFlightBytes' = BatchBytes(inFlight') /\ pendingBytes' = BatchBytes(pending')
           /\ Unjournaled' = Unjournaled + Growth(e)
           /\ ~writing => inFlight' = <<e>> /\ pending' = <<>>
<1> DEFINE n == Reach(inFlight, written)
           q == IF JoinsLast(e) THEN Append(Front(pending), Merged(Last(pending), e))
                                ELSE Append(pending, e)
           bytes == pendingBytes + Growth(e)
<1>1. n \in Nat
  BY ReachIsNat DEF Types
<1>2. FollowFrom(pending, n) /\ e.first = Reach(pending, n) + 1 /\ pending \in Seq(Events)
  BY DEF Follows, Taken, Types
<1>3. q \in Seq(Events) /\ q # <<>> /\ FollowFrom(q, n) /\ Reach(q, n) = e.last
  <2>1. CASE JoinsLast(e)
    <3>1. pending # <<>>
      BY <2>1 DEF JoinsLast
    <3> QED BY <1>1, <1>2, <2>1, <3>1, MergeFollows
  <2>2. CASE ~JoinsLast(e)
    BY <1>1, <1>2, <2>2, AppendFollows
  <2> QED BY <2>1, <2>2
<1>4. IF writing
      THEN /\ pending' = q /\ pendingBytes' = bytes
           /\ UNCHANGED <<inFlight, inFlightBytes, writing>>
      ELSE TakeBatch(q, bytes)
  BY DEF Admit
<1>5. UNCHANGED <<failed, written>>
  BY DEF Admit
<1>8. bytes = BatchBytes(q) /\ bytes \in Nat /\ Growth(e) \in Int
      /\ pendingBytes \in Nat /\ inFlightBytes \in Nat
  <2>0. /\ pendingBytes = BatchBytes(pending) /\ pendingBytes \in Nat
        /\ inFlightBytes \in Nat
    BY BytesAreNat DEF Counted, Types
  <2>1. CASE JoinsLast(e)
    <3>1. pending # <<>>
      BY <2>1 DEF JoinsLast
    <3>2. /\ BatchBytes(q) = BatchBytes(pending) + Growth(e)
          /\ Growth(e) \in Int
      BY <1>2, <2>1, <3>1, BytesOfMerge DEF Growth
    <3> QED BY <1>3, <2>0, <3>2, BytesAreNat
  <2>2. CASE ~JoinsLast(e)
    <3>1. BatchBytes(q) = BatchBytes(pending) + Growth(e) /\ Growth(e) \in Int
      BY <1>2, <2>2, BytesOfAppend DEF Growth
    <3> QED BY <1>3, <2>0, <3>1, BytesAreNat
  <2> QED BY <2>1, <2>2
<1>9. ~writing => /\ n = written /\ q = <<e>> /\ inFlightBytes = 0
  <2> SUFFICES ASSUME ~writing PROVE n = written /\ q = <<e>> /\ inFlightBytes = 0
    OBVIOUS
  <2>1. inFlight = <<>> /\ pending = <<>>
    BY DEF WriteUnderWay
  <2>2. ~JoinsLast(e) /\ Append(<<>>, e) = <<e>>
    BY <2>1 DEF JoinsLast
  <2> QED BY <2>1, <2>2, BytesOfEmpty DEF Reach, Counted
<1> HIDE DEF n, q
<1>6. CASE writing
  <2>1. pending' = q /\ inFlight' = inFlight /\ writing' = writing
        /\ pendingBytes' = bytes /\ inFlightBytes' = inFlightBytes
    BY <1>4, <1>6
  <2>2. Reach(inFlight', written) = n
    BY <2>1 DEF n
  <2>3. /\ inFlight \in Seq(Events) /\ inFlight # <<>> /\ FollowFrom(inFlight, written)
        /\ inFlightBytes = BatchBytes(inFlight)
    BY <1>6 DEF Types, WriteUnderWay, Follows, Counted
  <2>4. Unjournaled' = Unjournaled + Growth(e)
    BY <1>8, <2>1 DEF Unjournaled
  <2> QED BY <1>3, <1>5, <1>6, <1>8, <2>1, <2>2, <2>3, <2>4 DEF Taken
<1>7. CASE ~writing
  <2>2. TakeBatch(q, bytes)
    BY <1>4, <1>7
  <2>3. /\ inFlight' \in Seq(Events) /\ inFlight' # <<>> /\ pending' \in Seq(Events)
        /\ writing' = TRUE
        /\ FollowFrom(inFlight', n) /\ FollowFrom(pending', Reach(inFlight', n))
        /\ Reach(pending', Reach(inFlight', n)) = Reach(q, n)
        /\ inFlightBytes' = BatchBytes(inFlight') /\ pendingBytes' = BatchBytes(pending')
        /\ bytes = inFlightBytes' + pendingBytes'
        /\ Len(q) = 1 => inFlight' = q /\ pending' = <<>>
    BY <1>1, <1>3, <1>8, <2>2, TakeBatchFollows
  <2>4. Len(q) = 1
    BY <1>7, <1>9
  <2>5. Unjournaled' = Unjournaled + Growth(e)
    BY <1>7, <1>8, <1>9, <2>3 DEF Unjournaled
  <2> QED BY <1>3, <1>5, <1>7, <1>9, <2>3, <2>4, <2>5 DEF Taken
<1> QED BY <1>6, <1>7

---------------------------------------------------------------------------------
(* Every step keeps the invariant. *)

(* A step that leaves the queue alone keeps what is said of it. *)
LEMMA QuietQueue ==
    ASSUME IInv, UNCHANGED queueVars
    PROVE  /\ WriteUnderWay' /\ Counted' /\ LargeIsAlone' /\ Follows' /\ Taken' = Taken
           /\ Drained' = Drained /\ failed' = failed /\ writing' = writing /\ pending' = pending
           /\ pending' \in Seq(Events) /\ inFlight' \in Seq(Events) /\ writing' \in BOOLEAN
           /\ failed' \in BOOLEAN /\ written' \in 0 .. MaxDeltas
BY DEF IInv, queueVars, Types, WriteUnderWay, Counted, LargeIsAlone, Follows, Taken, Reach,
       FollowFrom, Drained, Unjournaled

(* With no write under way nothing is held, and there is room. *)
LEMMA NoRoomWhileWriting ==
    ASSUME IInv, NEW e, ~HasCapacity(e)
    PROVE  writing
<1> SUFFICES ASSUME ~writing PROVE FALSE
  OBVIOUS
<1>1. inFlight = <<>> /\ pending = <<>>
  BY DEF IInv, WriteUnderWay
<1>2. inFlightBytes = 0 /\ pendingBytes = 0
  BY <1>1, BytesOfEmpty DEF IInv, Counted
<1> QED BY <1>2 DEF HasCapacity, Unjournaled

(* Admitting a delta there is room for keeps the bound. *)
LEMMA AdmitKeepsQueue ==
    ASSUME IInv, ~failed, NEW n \in 1 .. MaxDeltas, NEW b \in Blocks, NEW s \in Sizes,
           Taken = n - 1, HasCapacity(Delta(n, b, s)), Admit(Delta(n, b, s))
    PROVE  /\ WriteUnderWay' /\ Counted' /\ LargeIsAlone' /\ Follows' /\ Taken' = n
           /\ pending' \in Seq(Events) /\ inFlight' \in Seq(Events)
           /\ writing' = TRUE /\ failed' = failed /\ written' = written
<1> DEFINE e == Delta(n, b, s)
<1>1. e \in Events /\ e.first = Taken + 1 /\ e.first <= e.last /\ e.last = n
  <2>1. s \in Nat \ {0} /\ n \in Nat /\ (n - 1) + 1 = n
    BY JournalConstants
  <2>2. e \in Events
    BY <2>1 DEF Delta, Events
  <2> QED BY <2>1, <2>2 DEF Delta
<1> HIDE DEF e
<1>2. /\ inFlight' \in Seq(Events) /\ inFlight' # <<>> /\ pending' \in Seq(Events)
      /\ writing' = TRUE /\ written' = written /\ failed' = failed
      /\ FollowFrom(inFlight', written) /\ FollowFrom(pending', Reach(inFlight', written))
      /\ Taken' = n
      /\ inFlightBytes' = BatchBytes(inFlight') /\ pendingBytes' = BatchBytes(pending')
      /\ Unjournaled' = Unjournaled + Growth(e)
      /\ ~writing => inFlight' = <<e>> /\ pending' = <<>>
  <2>1. Admit(e)
    BY DEF e
  <2> QED BY <1>1, <2>1, AdmitFollows DEF IInv
<1>3. LargeIsAlone'
  <2>1. CASE Unjournaled = 0
    <3>1. pending = <<>> /\ inFlight = <<>>
      <4>1. /\ pendingBytes = BatchBytes(pending) /\ pendingBytes \in Nat
            /\ inFlightBytes = BatchBytes(inFlight) /\ inFlightBytes \in Nat
        BY BytesAreNat DEF IInv, Counted, Types
      <4>2. pendingBytes = 0 /\ inFlightBytes = 0
        BY <2>1, <4>1 DEF Unjournaled
      <4>3. pending \in Seq(Events) /\ inFlight \in Seq(Events)
        BY DEF IInv, Types
      <4>4. ~(BatchBytes(pending) > 0) /\ ~(BatchBytes(inFlight) > 0)
        BY <4>1, <4>2
      <4> QED BY <4>3, <4>4, BytesOfSome
    <3>2. ~writing
      BY <3>1 DEF IInv, WriteUnderWay
    <3> QED BY <1>2, <3>2 DEF LargeIsAlone, e
  <2>2. CASE Unjournaled + Growth(e) <= MaxBytes
    <3>1. Unjournaled' <= MaxBytes
      BY <1>2, <2>2
    <3>2. Unjournaled' \in Nat
      BY <1>2, BytesAreNat DEF Unjournaled
    <3>3. ~(Unjournaled' > MaxBytes)
      BY <3>1, <3>2, JournalConstants
    <3> QED BY <3>3 DEF LargeIsAlone
  <2> QED BY <2>1, <2>2 DEF HasCapacity, e
<1>4. Follows'
  BY <1>2 DEF Follows
<1> QED BY <1>2, <1>3, <1>4 DEF WriteUnderWay, Counted

(* The stream loop's push, of the last delta made. *)
LEMMA PushKeeps ==
    ASSUME IInv, NEW n \in 1 .. MaxDeltas, NEW b \in Blocks, NEW s \in Sizes,
           scope = "model_request", caller \in {"producing", "pushing"},
           ~failed => Taken = n - 1,
           Push(Delta(n, b, s)), made' = n, UNCHANGED <<sealed, scope, drain>>
    PROVE  IInv'
<1> DEFINE e == Delta(n, b, s)
<1>1. e \in Events /\ e.first = n /\ e.last = n
  <2>1. s \in Nat \ {0}
    BY JournalConstants
  <2> QED BY <2>1 DEF Delta, Events
<1>2. ~sealed /\ drain = "idle"
  BY DEF IInv, SealedLate
<1>3. scope' = "model_request" /\ sealed' = sealed /\ drain' = "idle" /\ made' \in 0 .. MaxDeltas
  BY <1>2
<1>4. CASE /\ HasCapacity(e) /\ ~failed /\ ~sealed
           /\ Admit(e)
           /\ caller' = "producing" /\ offered' = <<>>
           /\ UNCHANGED waitVars
  <2>1. /\ WriteUnderWay' /\ Counted' /\ LargeIsAlone' /\ Follows' /\ Taken' = n
        /\ pending' \in Seq(Events) /\ inFlight' \in Seq(Events)
        /\ writing' = TRUE /\ failed' = failed /\ written' = written
    BY <1>4, AdmitKeepsQueue
  <2>2. Types'
    BY <1>3, <1>4, <2>1 DEF IInv, Types, waitVars, OwnerStates
  <2>3. AllTaken' /\ OfferIsLast' /\ SealedLate'
    BY <1>2, <1>3, <1>4, <2>1 DEF AllTaken, OfferIsLast, SealedLate
  <2>4. WaitersAreWoken'
    BY <1>2, <1>3, <1>4, <2>1 DEF WaitersAreWoken
  <2> QED BY <2>1, <2>2, <2>3, <2>4 DEF IInv
<1>5. CASE /\ failed \/ sealed
           /\ caller' = "sealing" /\ offered' = <<>>
           /\ UNCHANGED <<queueVars, waitVars>>
  <2>1. failed
    BY <1>2, <1>5
  <2>2. /\ WriteUnderWay' /\ Counted' /\ LargeIsAlone' /\ Follows' /\ failed' = failed
        /\ writing' = writing /\ pending' = pending
        /\ pending' \in Seq(Events) /\ inFlight' \in Seq(Events) /\ writing' \in BOOLEAN
        /\ failed' \in BOOLEAN /\ written' \in 0 .. MaxDeltas
    BY <1>5, QuietQueue
  <2>3. Types'
    BY <1>3, <1>5, <2>2 DEF IInv, Types, waitVars, OwnerStates
  <2>4. AllTaken' /\ OfferIsLast' /\ SealedLate'
    BY <1>2, <1>3, <1>5, <2>1, <2>2 DEF AllTaken, OfferIsLast, SealedLate
  <2>5. WaitersAreWoken'
    BY <1>3, <1>5, <2>2 DEF IInv, WaitersAreWoken, waitVars
  <2> QED BY <2>2, <2>3, <2>4, <2>5 DEF IInv
<1>6. CASE /\ ~HasCapacity(e) /\ ~failed /\ ~sealed
           /\ capacityWaiters' = capacityWaiters \cup {"owner"}
           /\ caller' = "pushing" /\ offered' = <<e>>
           /\ UNCHANGED <<queueVars, drainWaiters>>
  <2>1. writing
    BY <1>6, NoRoomWhileWriting
  <2>2. /\ WriteUnderWay' /\ Counted' /\ LargeIsAlone' /\ Follows' /\ failed' = failed
        /\ Taken' = Taken /\ writing' = writing /\ pending' = pending
        /\ pending' \in Seq(Events) /\ inFlight' \in Seq(Events) /\ writing' \in BOOLEAN
        /\ failed' \in BOOLEAN /\ written' \in 0 .. MaxDeltas
    BY <1>6, QuietQueue
  <2>3. <<e>> \in Seq(Events) /\ <<e>>[1] = e
    BY <1>1
  <2>4. Types'
    BY <1>3, <1>6, <2>2, <2>3 DEF IInv, Types, OwnerStates, Callers
  <2>5. OfferIsLast'
    <3>1. scope' = "model_request" /\ made' = n /\ n > 0 /\ offered'[1] = e
      BY <1>3, <1>6, <2>3
    <3> QED BY <3>1 DEF OfferIsLast
  <2>6. AllTaken' /\ SealedLate'
    BY <1>2, <1>3, <1>6, <2>2 DEF AllTaken, SealedLate
  <2>7. WaitersAreWoken'
    BY <1>2, <1>3, <1>6, <2>1, <2>2 DEF IInv, WaitersAreWoken
  <2> QED BY <2>2, <2>4, <2>5, <2>6, <2>7 DEF IInv
<1> QED BY <1>4, <1>5, <1>6 DEF Push

LEMMA StreamStep ==
    ASSUME IInv, StreamDelta \/ PushAgain \/ StreamEnds
    PROVE  IInv'
<1>1. CASE StreamDelta
  <2>1. PICK b \in Blocks, s \in Sizes : Push(Delta(made + 1, b, s))
    BY <1>1 DEF StreamDelta, NextDeltas
  <2>2. /\ scope = "model_request" /\ caller = "producing" /\ made' = made + 1
        /\ UNCHANGED <<sealed, scope, drain>>
    BY <1>1 DEF StreamDelta
  <2>3. made + 1 \in 1 .. MaxDeltas /\ (made + 1) - 1 = made
    BY <1>1, JournalConstants DEF StreamDelta, IInv, Types
  <2>4. ~failed => Taken = made
    BY <2>2 DEF IInv, AllTaken
  <2>5. PICK n \in 1 .. MaxDeltas : n = made + 1 /\ n - 1 = made
    BY <2>3
  <2>6. Push(Delta(n, b, s)) /\ made' = n /\ (~failed => Taken = n - 1)
    BY <2>1, <2>2, <2>4, <2>5
  <2> QED BY <2>2, <2>5, <2>6, PushKeeps
<1>2. CASE PushAgain
  <2>1. caller = "pushing" /\ Push(offered[1]) /\ UNCHANGED <<sealed, scope, made, drain>>
    BY <1>2 DEF PushAgain
  <2>2. PICK b \in Blocks, s \in Sizes : offered[1] = Delta(made, b, s)
    BY <2>1 DEF IInv, OfferIsLast
  <2>3. scope = "model_request" /\ made \in 1 .. MaxDeltas
    BY <2>1, JournalConstants DEF IInv, OfferIsLast, Types
  <2>4. ~failed => Taken = made - 1
    BY <2>1, <2>3 DEF IInv, AllTaken
  <2>5. Push(Delta(made, b, s)) /\ made' = made
    BY <2>1, <2>2
  <2> QED BY <2>1, <2>3, <2>4, <2>5, PushKeeps
<1>3. CASE StreamEnds
  <2>1. /\ scope = "model_request" /\ caller = "producing" /\ caller' \in {"ending", "sealing"}
        /\ UNCHANGED queueVars /\ UNCHANGED <<sealed, waitVars, scope, made, offered, drain>>
    BY <1>3 DEF StreamEnds
  <2>2. /\ WriteUnderWay' /\ Counted' /\ LargeIsAlone' /\ Follows' /\ Taken' = Taken
        /\ failed' = failed /\ writing' = writing /\ pending' = pending
        /\ pending' \in Seq(Events) /\ inFlight' \in Seq(Events) /\ writing' \in BOOLEAN
        /\ failed' \in BOOLEAN /\ written' \in 0 .. MaxDeltas
    BY <2>1, QuietQueue
  <2>3. Types'
    BY <2>1, <2>2 DEF IInv, Types, waitVars, OwnerStates
  <2>4. AllTaken' /\ OfferIsLast' /\ SealedLate'
    BY <2>1, <2>2 DEF IInv, AllTaken, OfferIsLast, SealedLate
  <2>5. WaitersAreWoken'
    BY <2>1, <2>2 DEF IInv, WaitersAreWoken, waitVars
  <2> QED BY <2>2, <2>3, <2>4, <2>5 DEF IInv
<1> QED BY <1>1, <1>2, <1>3

LEMMA OutputStep ==
    ASSUME IInv, EmitOutput
    PROVE  IInv'
<1>1. /\ scope = "tool_call" /\ made < MaxDeltas /\ made' = made + 1
      /\ UNCHANGED <<drainWaiters, scope, offered, caller, drain>>
  BY DEF EmitOutput
<1>2. PICK b \in Blocks, s \in Sizes :
        LET e == Delta(made + 1, b, s)
        IN  \/ /\ ~failed /\ ~sealed /\ HasCapacity(e)
               /\ Admit(e)
               /\ UNCHANGED <<sealed, capacityWaiters>>
            \/ /\ failed \/ (~sealed /\ ~HasCapacity(e))
               /\ Seal
               /\ UNCHANGED queueVars
            \/ /\ sealed /\ ~failed
               /\ UNCHANGED <<queueVars, sealed, capacityWaiters>>
  BY DEF EmitOutput, NextDeltas
<1>3. PICK n \in 1 .. MaxDeltas : n = made + 1 /\ n - 1 = made
  BY <1>1, JournalConstants DEF IInv, Types
<1> DEFINE e == Delta(n, b, s)
<1>4. made' \in 0 .. MaxDeltas /\ made' = n
  BY <1>1, <1>3
<1>5. CASE /\ ~failed /\ ~sealed /\ HasCapacity(e)
           /\ Admit(e)
           /\ UNCHANGED <<sealed, capacityWaiters>>
  <2>1. caller # "pushing" /\ Taken = n - 1
    BY <1>1, <1>3, <1>5 DEF IInv, AllTaken, OfferIsLast
  <2>2. /\ WriteUnderWay' /\ Counted' /\ LargeIsAlone' /\ Follows' /\ Taken' = n
        /\ pending' \in Seq(Events) /\ inFlight' \in Seq(Events)
        /\ writing' = TRUE /\ failed' = failed /\ written' = written
    BY <1>5, <2>1, AdmitKeepsQueue
  <2>3. Types'
    BY <1>1, <1>4, <1>5, <2>2 DEF IInv, Types
  <2>4. AllTaken' /\ OfferIsLast'
    BY <1>1, <1>4, <2>1, <2>2 DEF AllTaken, OfferIsLast
  <2>5. SealedLate'
    BY <1>1, <1>5 DEF IInv, SealedLate
  <2>6. WaitersAreWoken'
    BY <1>1, <1>5, <2>2 DEF IInv, WaitersAreWoken
  <2> QED BY <2>2, <2>3, <2>4, <2>5, <2>6 DEF IInv
<1>6. CASE /\ \/ failed \/ (~sealed /\ ~HasCapacity(e))
              \/ sealed /\ ~failed
           /\ Seal \/ UNCHANGED <<sealed, capacityWaiters>>
           /\ Seal \/ sealed
           /\ UNCHANGED queueVars
  <2>1. /\ WriteUnderWay' /\ Counted' /\ LargeIsAlone' /\ Follows' /\ Taken' = Taken
        /\ Drained' = Drained /\ failed' = failed /\ writing' = writing /\ pending' = pending
        /\ pending' \in Seq(Events) /\ inFlight' \in Seq(Events) /\ writing' \in BOOLEAN
        /\ failed' \in BOOLEAN /\ written' \in 0 .. MaxDeltas
    BY <1>6, QuietQueue
  <2>2. sealed' = TRUE /\ (capacityWaiters' = {} \/ (sealed /\ capacityWaiters' = capacityWaiters))
    BY <1>6 DEF Seal, IInv, Types
  <2>3. Types'
    BY <1>1, <1>4, <2>1, <2>2 DEF IInv, Types
  <2>4. caller # "pushing"
    BY <1>1 DEF IInv, OfferIsLast
  <2>5. AllTaken' /\ OfferIsLast'
    BY <1>1, <2>2, <2>4 DEF AllTaken, OfferIsLast
  <2>6. SealedLate'
    BY <1>1, <2>1, <2>2 DEF IInv, SealedLate
  <2>7. WaitersAreWoken'
    BY <1>1, <2>1, <2>2 DEF IInv, WaitersAreWoken
  <2> QED BY <2>1, <2>3, <2>5, <2>6, <2>7 DEF IInv
<1> QED BY <1>2, <1>3, <1>5, <1>6

(* The steps of the tool call and of the scope's closing that leave the    *)
(* queue alone.                                                            *)
LEMMA ClosingStep ==
    ASSUME IInv, StartDrain \/ ToolSettles \/ SealScope \/ Flush
    PROVE  IInv'
<1>1. UNCHANGED queueVars /\ UNCHANGED <<scope, made, offered>>
  BY DEF StartDrain, ToolSettles, SealScope, Flush, FlushWaits, EndFlush, LastFlush, EndDrain,
         callerVars
<1>2. /\ WriteUnderWay' /\ Counted' /\ LargeIsAlone' /\ Follows' /\ Taken' = Taken
      /\ Drained' = Drained /\ failed' = failed /\ writing' = writing /\ pending' = pending
      /\ pending' \in Seq(Events) /\ inFlight' \in Seq(Events) /\ writing' \in BOOLEAN
      /\ failed' \in BOOLEAN /\ written' \in 0 .. MaxDeltas
  BY <1>1, QuietQueue
<1>3. /\ sealed' \in BOOLEAN /\ (sealed => sealed')
      /\ capacityWaiters' \in {{}, capacityWaiters}
      /\ sealed' # sealed => capacityWaiters' = {}
  BY DEF IInv, Types, StartDrain, ToolSettles, SealScope, Flush, FlushWaits, EndFlush, LastFlush,
         EndDrain, Seal, waitVars
<1>4. \/ drainWaiters' = drainWaiters
      \/ writing /\ ~failed /\ drainWaiters' \subseteq Callers
  BY DEF IInv, Types, WriteUnderWay, StartDrain, ToolSettles, SealScope, Flush, FlushWaits, EndFlush,
         LastFlush, EndDrain, waitVars, Drained, Callers
<1>5. caller' \in OwnerStates /\ drain' \in DrainStates
  BY DEF IInv, Types, StartDrain, ToolSettles, SealScope, Flush, FlushWaits, EndFlush, LastFlush,
         EndDrain, callerVars, OwnerStates, DrainStates
<1>6. Types'
  BY <1>1, <1>2, <1>3, <1>4, <1>5 DEF IInv, Types
<1>7. /\ caller' = "pushing" <=> caller = "pushing"
      /\ scope = "model_request" => (sealed' => caller' \in {"flushing", "flushed", "threw"})
                                    /\ drain' = "idle"
      /\ caller' \in {"flushing", "flushed", "threw"} => sealed'
      /\ caller' = "flushed" => Drained /\ ~failed
  BY DEF IInv, SealedLate, StartDrain, ToolSettles, SealScope, Flush, FlushWaits, EndFlush, LastFlush,
         EndDrain, FlushReturns, Seal, callerVars, Types
<1>8. AllTaken' /\ OfferIsLast'
  <2>1. caller = "pushing" => scope = "model_request"
    BY DEF IInv, OfferIsLast
  <2> QED BY <1>1, <1>2, <1>3, <1>7, <2>1 DEF IInv, AllTaken, OfferIsLast, Types
<1>9. SealedLate'
  BY <1>1, <1>2, <1>7 DEF SealedLate
<1>10. WaitersAreWoken'
  BY <1>2, <1>3, <1>4 DEF IInv, WaitersAreWoken
<1> QED BY <1>2, <1>6, <1>8, <1>9, <1>10 DEF IInv

(* The end of a write. *)
LEMMA WriteStep ==
    ASSUME IInv, WriteCommits \/ WriteFails
    PROVE  IInv'
<1>1. /\ writing /\ ~failed /\ inFlight \in Seq(Events) /\ inFlight # <<>> /\ pending \in Seq(Events)
      /\ FollowFrom(pending, Reach(inFlight, written))
  BY DEF WriteCommits, WriteFails, IInv, Types, WriteUnderWay, Follows
<1>2. /\ Last(inFlight).last = Reach(inFlight, written)
      /\ Last(inFlight).last \in Nat /\ Last(inFlight).last \in 0 .. MaxDeltas
  BY <1>1, LastIsEvent DEF Reach
<1>3. /\ UNCHANGED <<sealed, scope, made, offered, caller, drain>>
      /\ capacityWaiters' = {}
      /\ drainWaiters' \in {{}, drainWaiters}
  BY DEF WriteCommits, WriteFails, callerVars
<1>4. OfferIsLast'
  BY <1>3 DEF IInv, OfferIsLast
<1>5. CASE WriteFails
  <2>1. /\ failed' = TRUE /\ written' \in {written, Last(inFlight).last} /\ drainWaiters' = {}
        /\ UNCHANGED <<pending, inFlight, pendingBytes, inFlightBytes, writing>>
    BY <1>5 DEF WriteFails
  <2>2. Types'
    BY <1>2, <1>3, <2>1 DEF IInv, Types
  <2>3. WriteUnderWay' /\ Counted' /\ LargeIsAlone' /\ Follows' /\ AllTaken'
    BY <2>1 DEF IInv, WriteUnderWay, Counted, LargeIsAlone, Unjournaled, Follows, AllTaken
  <2>4. SealedLate'
    BY <1>1, <1>3, <2>1 DEF IInv, SealedLate, Drained
  <2>5. WaitersAreWoken'
    BY <1>1, <1>3, <2>1 DEF IInv, WaitersAreWoken
  <2> QED BY <1>4, <2>2, <2>3, <2>4, <2>5 DEF IInv
<1>6. CASE WriteCommits /\ pending = <<>>
  <2>1. /\ written' = Last(inFlight).last /\ failed' = failed
        /\ inFlight' = <<>> /\ inFlightBytes' = 0 /\ writing' = FALSE /\ drainWaiters' = {}
        /\ pending' = <<>> /\ pendingBytes' = pendingBytes
    BY <1>6 DEF WriteCommits
  <2>2. pendingBytes = 0
    BY <1>6, BytesOfEmpty DEF IInv, Counted
  <2>3. Types'
    <3>1. <<>> \in Seq(Events)
      OBVIOUS
    <3> QED BY <1>2, <1>3, <2>1, <3>1 DEF IInv, Types
  <2>4. WriteUnderWay' /\ Counted'
    BY <2>1, <2>2, BytesOfEmpty DEF WriteUnderWay, Counted
  <2>5. LargeIsAlone'
    BY <2>1, <2>2, JournalConstants DEF LargeIsAlone, Unjournaled
  <2>6. Follows'
    BY <2>1 DEF Follows, FollowFrom
  <2>7. Taken' = Taken
    BY <1>2, <1>6, <2>1 DEF Taken, Reach
  <2>8. AllTaken'
    BY <1>3, <2>1, <2>7 DEF IInv, AllTaken
  <2>9. SealedLate'
    BY <1>1, <1>3, <2>1 DEF IInv, SealedLate, Drained
  <2>10. WaitersAreWoken'
    BY <1>3, <2>1 DEF WaitersAreWoken
  <2> QED BY <1>4, <2>3, <2>4, <2>5, <2>6, <2>8, <2>9, <2>10 DEF IInv
<1>7. CASE WriteCommits /\ pending # <<>>
  <2>1. /\ written' = Last(inFlight).last /\ failed' = failed
        /\ TakeBatch(pending, pendingBytes) /\ drainWaiters' = drainWaiters
    BY <1>7 DEF WriteCommits
  <2>2. FollowFrom(pending, written') /\ written' \in Nat /\ pendingBytes = BatchBytes(pending)
    BY <1>1, <1>2, <2>1 DEF IInv, Counted
  <2>3. /\ inFlight' \in Seq(Events) /\ inFlight' # <<>> /\ pending' \in Seq(Events)
        /\ writing' = TRUE
        /\ FollowFrom(inFlight', written') /\ FollowFrom(pending', Reach(inFlight', written'))
        /\ Reach(pending', Reach(inFlight', written')) = Reach(pending, written')
        /\ inFlightBytes' = BatchBytes(inFlight') /\ pendingBytes' = BatchBytes(pending')
        /\ pendingBytes = inFlightBytes' + pendingBytes'
    <3>1. PICK n \in Nat : n = written'
      BY <2>2
    <3>2. FollowFrom(pending, n)
      BY <2>2, <3>1
    <3>3. /\ inFlight' \in Seq(Events) /\ inFlight' # <<>> /\ pending' \in Seq(Events)
          /\ writing' = TRUE
          /\ FollowFrom(inFlight', n) /\ FollowFrom(pending', Reach(inFlight', n))
          /\ Reach(pending', Reach(inFlight', n)) = Reach(pending, n)
          /\ inFlightBytes' = BatchBytes(inFlight') /\ pendingBytes' = BatchBytes(pending')
          /\ pendingBytes = inFlightBytes' + pendingBytes'
      <4>1. PICK q \in Seq(Events), bytes \in Int : q = pending /\ bytes = BatchBytes(pending)
        BY <1>1, BytesAreNat
      <4>2. bytes = BatchBytes(q) /\ bytes = pendingBytes /\ q # <<>> /\ FollowFrom(q, n)
        BY <1>7, <2>2, <3>2, <4>1
      <4>3. TakeBatch(q, bytes)
        BY <2>1, <4>1, <4>2 DEF TakeBatch
      <4>4. /\ inFlight' \in Seq(Events) /\ inFlight' # <<>> /\ pending' \in Seq(Events)
            /\ writing' = TRUE
            /\ FollowFrom(inFlight', n) /\ FollowFrom(pending', Reach(inFlight', n))
            /\ Reach(pending', Reach(inFlight', n)) = Reach(q, n)
            /\ inFlightBytes' = BatchBytes(inFlight') /\ pendingBytes' = BatchBytes(pending')
            /\ bytes = inFlightBytes' + pendingBytes'
        BY <3>1, <4>1, <4>2, <4>3, TakeBatchFollows
      <4> QED BY <4>1, <4>2, <4>4
    <3> QED BY <3>1, <3>3
  <2>4. Types'
    BY <1>2, <1>3, <2>1, <2>3 DEF IInv, Types
  <2>5. WriteUnderWay' /\ Counted' /\ Follows'
    BY <2>3 DEF WriteUnderWay, Counted, Follows
  <2>6. LargeIsAlone'
    <3>1. ~(Unjournaled > MaxBytes)
      BY <1>7 DEF IInv, LargeIsAlone
    <3>2. pendingBytes \in Nat /\ inFlightBytes \in Nat
      BY <1>1, <2>2, BytesAreNat DEF IInv, Counted
    <3>3. Unjournaled' = pendingBytes
      BY <2>3 DEF Unjournaled
    <3>4. ~(Unjournaled' > MaxBytes)
      BY <3>1, <3>2, <3>3, JournalConstants DEF Unjournaled
    <3> QED BY <3>4 DEF LargeIsAlone
  <2>7. Taken' = Taken
    BY <1>2, <2>1, <2>3 DEF Taken
  <2>8. AllTaken'
    BY <1>3, <2>1, <2>7 DEF IInv, AllTaken
  <2>9. SealedLate'
    BY <1>1, <1>3 DEF IInv, SealedLate, Drained
  <2>10. WaitersAreWoken'
    BY <1>1, <1>3, <2>1, <2>3 DEF IInv, WaitersAreWoken
  <2> QED BY <1>4, <2>4, <2>5, <2>6, <2>8, <2>9, <2>10 DEF IInv
<1> QED BY <1>5, <1>6, <1>7

---------------------------------------------------------------------------------
(* Theorems. *)

LEMMA Initially == Init => IInv
<1> SUFFICES ASSUME Init PROVE IInv
  OBVIOUS
<1>1. <<>> \in Seq(Events)
  OBVIOUS
<1>2. Types
  <2>1. pending \in Seq(Events) /\ inFlight \in Seq(Events) /\ offered \in Seq(Events)
    BY <1>1 DEF Init
  <2>2. made \in 0 .. MaxDeltas /\ written \in 0 .. MaxDeltas
    BY JournalConstants DEF Init
  <2> QED BY <2>1, <2>2 DEF Init, Types, OwnerStates, DrainStates
<1>5. WriteUnderWay /\ AllTaken /\ OfferIsLast
  BY DEF Init, WriteUnderWay, AllTaken, Taken, Reach, OfferIsLast
<1>6. SealedLate /\ WaitersAreWoken
  BY DEF Init, SealedLate, WaitersAreWoken
<1>3. Counted /\ Follows
  BY BytesOfEmpty DEF Init, Counted, Follows, FollowFrom
<1>4. LargeIsAlone
  BY JournalConstants DEF Init, LargeIsAlone, Unjournaled
<1> QED BY <1>2, <1>3, <1>4, <1>5, <1>6 DEF IInv

LEMMA StepKeeps == IInv /\ [Next]_vars => IInv'
<1> SUFFICES ASSUME IInv, [Next]_vars PROVE IInv'
  OBVIOUS
<1>1. CASE UNCHANGED vars
  BY <1>1 DEF vars, queueVars, waitVars, callerVars, IInv, Types, WriteUnderWay, Counted, LargeIsAlone,
              Unjournaled, Follows, AllTaken, Taken, OfferIsLast, SealedLate, WaitersAreWoken, Drained
<1>2. CASE StreamDelta \/ PushAgain \/ StreamEnds
  BY <1>2, StreamStep
<1>3. CASE EmitOutput
  BY <1>3, OutputStep
<1>4. CASE StartDrain \/ ToolSettles \/ SealScope \/ Flush
  BY <1>4, ClosingStep
<1>5. CASE WriteCommits \/ WriteFails
  BY <1>5, WriteStep
<1> QED BY <1>1, <1>2, <1>3, <1>4, <1>5 DEF Next

THEOREM Invariance == Spec => []IInv
BY Initially, StepKeeps, PTL DEF Spec

(* Every variable keeps its type; the byte counts never go below zero.     *)
THEOREM TypeIsInvariant == Spec => []TypeOK
<1>1. IInv => TypeOK
  <2> SUFFICES ASSUME IInv PROVE TypeOK
    OBVIOUS
  <2>1. pendingBytes \in Nat /\ inFlightBytes \in Nat
    BY BytesAreNat DEF IInv, Types, Counted
  <2> QED BY <2>1 DEF IInv, Types, TypeOK
<1> QED BY <1>1, Invariance, PTL

(* Until a write fails, what is journaled, being written and queued is an  *)
(* unbroken start of what was made, in order.                              *)
THEOREM InOrderIsInvariant == Spec => []InOrder
<1>1. IInv => InOrder
  <2> SUFFICES ASSUME IInv, ~failed PROVE FollowFrom(inFlight \o pending, written)
    BY DEF InOrder
  <2>1. /\ inFlight \in Seq(Events) /\ pending \in Seq(Events) /\ written \in Nat
        /\ FollowFrom(inFlight, written) /\ FollowFrom(pending, Reach(inFlight, written))
    BY JournalConstants DEF IInv, Types, Follows
  <2> QED BY <2>1, ConcatFollows
<1> QED BY <1>1, Invariance, PTL

(* The counted bytes are the events' own and stay within the bound, but    *)
(* for one delta that is alone.                                            *)
THEOREM BytesAreBoundedIsInvariant == Spec => []BytesAreBounded
<1>1. IInv => BytesAreBounded
  <2> SUFFICES ASSUME IInv PROVE BytesAreBounded
    OBVIOUS
  <2>1. pendingBytes = BatchBytes(pending) /\ inFlightBytes = BatchBytes(inFlight)
    BY DEF IInv, Counted
  <2>2. pendingBytes \in Nat /\ inFlightBytes \in Nat
    BY <2>1, BytesAreNat DEF IInv, Types
  <2>3. CASE Unjournaled > MaxBytes
    <3>1. pending = <<>> /\ inFlight \in Seq(Events)
      BY <2>3 DEF IInv, LargeIsAlone, Types
    <3>2. inFlight \o pending = inFlight
      BY <3>1, ConcatEmptySeq
    <3> QED BY <2>1, <2>3, <3>2 DEF IInv, LargeIsAlone, BytesAreBounded
  <2>4. CASE ~(Unjournaled > MaxBytes)
    BY <2>1, <2>2, <2>4, JournalConstants DEF BytesAreBounded, Unjournaled
  <2> QED BY <2>3, <2>4
<1> QED BY <1>1, Invariance, PTL

(* Whoever waits is woken by the end of a write that is under way.         *)
THEOREM WaitersAreWokenIsInvariant == Spec => []WaitersAreWoken
<1>1. IInv => WaitersAreWoken
  BY DEF IInv
<1> QED BY <1>1, Invariance, PTL

(* Once the last flush has returned nothing the journal took is missing,   *)
(* and nothing more is written.                                            *)
THEOREM FlushIsTheBoundaryHolds == Spec => FlushIsTheBoundary
<1> DEFINE Boundary == caller = "flushed" =>
                          /\ Drained
                          /\ scope = "model_request" => written = made
                          /\ UNCHANGED <<written, pending, writing>>
<1>1. IInv /\ [Next]_vars => [Boundary]_vars
  <2> SUFFICES ASSUME IInv, Next, caller = "flushed"
               PROVE  /\ Drained
                      /\ scope = "model_request" => written = made
                      /\ UNCHANGED <<written, pending, writing>>
    BY DEF Boundary
  <2>1. Drained /\ ~failed /\ sealed /\ ~writing /\ pending = <<>> /\ inFlight = <<>>
    BY DEF IInv, SealedLate, WriteUnderWay, Drained
  <2>2. Taken = written
    BY <2>1 DEF Taken, Reach
  <2>3. scope = "model_request" => written = made
    BY <2>1, <2>2 DEF IInv, AllTaken
  <2>4. UNCHANGED queueVars
    BY <2>1 DEF Next, StreamDelta, PushAgain, StreamEnds, EmitOutput, StartDrain, ToolSettles, SealScope,
                Flush, FlushWaits, EndFlush, LastFlush, EndDrain, WriteCommits, WriteFails, callerVars
  <2> QED BY <2>1, <2>3, <2>4 DEF queueVars
<1> QED BY <1>1, Invariance, PTL DEF Spec, FlushIsTheBoundary

=================================================================================
