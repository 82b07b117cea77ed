------------------------- MODULE OrderAndValueProofs --------------------------
(***************************************************************************)
(* Proofs about the evaluation order, its bulk owner, and several owners   *)
(* of it at once, for every number of automations, every legacy order,     *)
(* every length of the configured list and every page size; and, at the    *)
(* end, about an optional attribute on its way to the service and back,    *)
(* for every set of elements.                                              *)
(***************************************************************************)
EXTENDS PriorityOrder, AutomationOrder, Values,
        FiniteSetTheorems, SequenceTheorems, TLAPS

(* An order as the service may hold it: finitely many automations, each    *)
(* with a positive priority, and a highest one among them.                 *)
Orderly(p) ==
    /\ DOMAIN p \subseteq Nat
    /\ IsFiniteSet(DOMAIN p)
    /\ \A a \in DOMAIN p : p[a] \in Nat \ {0}
    /\ \E bound \in Nat : \A a \in DOMAIN p : p[a] <= bound

-----------------------------------------------------------------------------
(* A set of naturals with a bound has a greatest element.                  *)
LEMMA GreatestElement ==
    ASSUME NEW S, S \subseteq Nat, S # {}, NEW bound \in Nat, \A s \in S : s <= bound
    PROVE  \E max \in S : \A s \in S : s <= max
<1> DEFINE T == {bound - s : s \in S}
<1>1. T \subseteq Nat /\ T # {}
  <2>1. \A s \in S : bound - s \in Nat
    OBVIOUS
  <2>2. PICK s \in S : TRUE
    OBVIOUS
  <2>3. bound - s \in T
    BY <2>2
  <2> QED
    BY <2>1, <2>3
<1>2. PICK x \in T : \A y \in T : <<y, x>> \notin OpToRel(<, Nat)
  <2> HIDE DEF T
  <2> QED
    BY <1>1, NatLessThanWellFounded, WFMin
<1>3. \A y \in T : ~(y < x)
  <2> SUFFICES ASSUME NEW y \in T, y < x PROVE FALSE
    OBVIOUS
  <2>1. <<y, x>> \in OpToRel(<, Nat)
    BY <1>1 DEF OpToRel
  <2> QED
    BY <2>1, <1>2
<1>4. PICK max \in S : x = bound - max
  BY <1>2
<1> QED
  BY <1>3, <1>4

(* Highest is the priority of some automation, and none has a higher one.  *)
LEMMA HighestIsGreatest ==
    ASSUME NEW p, Orderly(p), DOMAIN p # {}
    PROVE  /\ Highest(p) \in Nat \ {0}
           /\ \E a \in DOMAIN p : p[a] = Highest(p)
           /\ \A a \in DOMAIN p : p[a] <= Highest(p)
<1> DEFINE S == {p[a] : a \in DOMAIN p}
<1>1. S \subseteq Nat /\ S # {}
  BY DEF Orderly
<1>2. PICK bound \in Nat : \A s \in S : s <= bound
  BY DEF Orderly
<1>3. \E max \in S : \A s \in S : s <= max
  <2> HIDE DEF S
  <2> QED
    BY <1>1, <1>2, GreatestElement
<1>4. \E n \in S : \A b \in DOMAIN p : p[b] <= n
  BY <1>3
<1>5. Highest(p) \in S /\ \A b \in DOMAIN p : p[b] <= Highest(p)
  BY <1>4 DEF Highest
<1> QED
  BY <1>5 DEF Orderly

-----------------------------------------------------------------------------
(* Lemmas about one move.                                                  *)

(* A move leaves an order of the same automations.                         *)
LEMMA MovedOrderly ==
    ASSUME NEW p, Orderly(p), NEW a \in DOMAIN p, NEW n \in Nat \ {0}
    PROVE  Orderly(Moved(p, a, n)) /\ DOMAIN Moved(p, a, n) = DOMAIN p
<1> DEFINE new == Clamped(p, n)
           q == Moved(p, a, n)
<1>1. new \in Nat \ {0} /\ new <= Highest(p)
  BY HighestIsGreatest DEF Clamped
<1>2. \A b \in DOMAIN p : p[b] \in Nat \ {0} /\ p[b] <= Highest(p)
  BY HighestIsGreatest DEF Orderly
<1>3. DOMAIN q = DOMAIN p
  BY DEF Moved
<1>4. ASSUME NEW b \in DOMAIN p PROVE q[b] \in Nat \ {0} /\ q[b] <= Highest(p)
  <2>1. q[b] = CASE b = a -> new
                 [] b # a /\ new <= p[b] /\ p[b] < p[a] -> p[b] + 1
                 [] b # a /\ p[a] < p[b] /\ p[b] <= new -> p[b] - 1
                 [] OTHER -> p[b]
    BY DEF Moved
  <2> HIDE DEF new, q
  <2> QED
    BY <1>1, <1>2, <2>1, HighestIsGreatest
<1>5. Highest(p) \in Nat
  BY HighestIsGreatest
<1> QED
  BY <1>3, <1>4, <1>5 DEF Orderly

(* A move of the automations of a duplicate-free order makes no duplicate, *)
(* and moves none of the others past another.                              *)
LEMMA MovedDistinct ==
    ASSUME NEW p, Orderly(p), Distinct(p), NEW a \in DOMAIN p, NEW n \in Nat \ {0}
    PROVE  /\ Distinct(Moved(p, a, n))
           /\ \A b, c \in DOMAIN p \ {a} : Before(p, b, c) = Before(Moved(p, a, n), b, c)
<1> DEFINE new == Clamped(p, n)
           q == Moved(p, a, n)
<1>1. new \in Nat \ {0}
  BY HighestIsGreatest DEF Clamped
<1>2. \A b \in DOMAIN p : p[b] \in Nat
  BY DEF Orderly
<1>3. q[a] = new
  BY DEF Moved
<1>4. \A b \in DOMAIN p \ {a} :
        q[b] = IF new <= p[b] /\ p[b] < p[a] THEN p[b] + 1
               ELSE IF p[a] < p[b] /\ p[b] <= new THEN p[b] - 1
               ELSE p[b]
  <2> SUFFICES ASSUME NEW b \in DOMAIN p \ {a}
               PROVE  q[b] = IF new <= p[b] /\ p[b] < p[a] THEN p[b] + 1
                             ELSE IF p[a] < p[b] /\ p[b] <= new THEN p[b] - 1
                             ELSE p[b]
    OBVIOUS
  <2>1. q[b] = CASE b = a -> new
                 [] b # a /\ new <= p[b] /\ p[b] < p[a] -> p[b] + 1
                 [] b # a /\ p[a] < p[b] /\ p[b] <= new -> p[b] - 1
                 [] OTHER -> p[b]
    BY DEF Moved
  <2> HIDE DEF new, q
  <2> QED
    BY <1>1, <1>2, <2>1
<1>5. DOMAIN q = DOMAIN p
  BY DEF Moved
<1>6. \A b \in DOMAIN p \ {a} : p[b] # p[a]
  BY DEF Distinct
<1>7. \A b \in DOMAIN p \ {a} : q[b] # new /\ q[b] \in Int
  <2> HIDE DEF new, q
  <2> QED
    BY <1>1, <1>2, <1>4, <1>6
<1>8. \A b, c \in DOMAIN p \ {a} : p[b] < p[c] => q[b] < q[c]
  <2> HIDE DEF new, q
  <2> QED
    BY <1>1, <1>2, <1>4, <1>6
<1>9. \A b, c \in DOMAIN p \ {a} : b # c => p[b] < p[c] \/ p[c] < p[b]
  BY <1>2 DEF Distinct
<1> HIDE DEF new, q
<1>10. Distinct(q)
  BY <1>3, <1>5, <1>7, <1>8, <1>9 DEF Distinct
<1>11. \A b, c \in DOMAIN p \ {a} : Before(p, b, c) <=> Before(q, b, c)
  BY <1>2, <1>7, <1>8, <1>9 DEF Before
<1> QED
  BY <1>10, <1>11 DEF q, Before

(* Moving an automation up to a position puts it there, and leaves every   *)
(* better position alone.                                                  *)
LEMMA MovedUp ==
    ASSUME NEW p, Orderly(p), NEW a \in DOMAIN p, NEW n \in Nat \ {0}, n <= p[a]
    PROVE  /\ Moved(p, a, n)[a] = n
           /\ \A b \in DOMAIN p \ {a} : p[b] < n => Moved(p, a, n)[b] = p[b]
<1>1. p[a] <= Highest(p) /\ Highest(p) \in Nat /\ \A b \in DOMAIN p : p[b] \in Nat
  BY HighestIsGreatest DEF Orderly
<1>2. Clamped(p, n) = n
  BY <1>1 DEF Clamped
<1> QED
  BY <1>1, <1>2 DEF Moved

(* A move to where the automation is changes nothing.                      *)
LEMMA MovedNowhere ==
    ASSUME NEW p, Orderly(p), NEW a \in DOMAIN p
    PROVE  \A b \in DOMAIN p : Moved(p, a, p[a])[b] = p[b]
<1>1. p[a] <= Highest(p) /\ Highest(p) \in Nat /\ \A b \in DOMAIN p : p[b] \in Nat
  BY HighestIsGreatest DEF Orderly
<1>2. Clamped(p, p[a]) = p[a]
  BY <1>1 DEF Clamped
<1> QED
  BY <1>1, <1>2 DEF Moved

-----------------------------------------------------------------------------
(* Lemmas about the list endpoint.                                         *)

(* The first n entries of a list hold the first n positions.               *)
Placed(p, ids, n) == \A i \in 1 .. n : ids[i] \in DOMAIN p /\ p[ids[i]] = i

(* There are as many automations better than position i as there are       *)
(* positions better than i.                                                *)
LEMMA PlacedBefore ==
    ASSUME NEW p, Orderly(p), Distinct(p), NEW ids, NEW n \in Nat, Placed(p, ids, n),
           NEW i \in 1 .. n
    PROVE  /\ IsFiniteSet({b \in DOMAIN p : p[b] < i})
           /\ Cardinality({b \in DOMAIN p : p[b] < i}) = i - 1
<1> DEFINE better == {b \in DOMAIN p : p[b] < i}
           f == [j \in 1 .. i - 1 |-> ids[j]]
<1>1. \A j \in 1 .. i - 1 : ids[j] \in DOMAIN p /\ p[ids[j]] = j
  BY DEF Placed
<1>2. f \in [1 .. i - 1 -> better]
  BY <1>1
<1>3. \A j, k \in 1 .. i - 1 : f[j] = f[k] => j = k
  BY <1>1
<1>4. \A b \in better : \E j \in 1 .. i - 1 : f[j] = b
  <2> SUFFICES ASSUME NEW b \in better PROVE f[p[b]] = b /\ p[b] \in 1 .. i - 1
    OBVIOUS
  <2>1. b \in DOMAIN p /\ p[b] \in 1 .. i - 1
    BY DEF Orderly
  <2>2. ids[p[b]] \in DOMAIN p /\ p[ids[p[b]]] = p[b]
    BY <1>1, <2>1
  <2> QED
    BY <2>1, <2>2 DEF Distinct
<1>5. f \in Bijection(1 .. i - 1, better)
  <2> HIDE DEF f, better
  <2>1. f \in Injection(1 .. i - 1, better)
    BY <1>2, <1>3 DEF Injection, IsInjective
  <2> QED
    BY <2>1, <1>4 DEF Bijection, Injection, Surjection
<1>6. IsFiniteSet(1 .. i - 1) /\ Cardinality(1 .. i - 1) = i - 1
  BY FS_Interval
<1> HIDE DEF f, better
<1>7. ExistsBijection(1 .. i - 1, better)
  BY <1>5 DEF ExistsBijection
<1>8. IsFiniteSet(better) /\ Cardinality(better) = Cardinality(1 .. i - 1)
  BY <1>6, <1>7, FS_Bijection
<1> QED
  BY <1>6, <1>8 DEF better

(* An automation at one of those positions is that entry of the list.      *)
LEMMA RankingOfPlaced ==
    ASSUME NEW p, Orderly(p), Distinct(p), NEW ids, NEW n \in Nat, Placed(p, ids, n)
    PROVE  /\ Cardinality(DOMAIN p) \in Nat
           /\ n <= Cardinality(DOMAIN p)
           /\ \A i \in 1 .. n : Ranking(p)[i] = ids[i]
<1>1. IsFiniteSet(DOMAIN p) /\ Cardinality(DOMAIN p) \in Nat
  BY FS_CardinalityType DEF Orderly
<1>2. \A a, b \in DOMAIN p : Before(p, a, b) <=> p[a] < p[b]
  BY DEF Orderly, Distinct, Before
<1>3. ASSUME NEW i \in 1 .. n PROVE Position(p, ids[i]) = i
  <2>1. ids[i] \in DOMAIN p /\ p[ids[i]] = i
    BY DEF Placed
  <2>2. {b \in DOMAIN p : Before(p, b, ids[i])} = {b \in DOMAIN p : p[b] < i}
    BY <1>2, <2>1
  <2> QED
    BY <2>2, PlacedBefore DEF Position
<1>4. ASSUME NEW i \in 1 .. n, NEW a \in DOMAIN p, Position(p, a) = i
      PROVE  a = ids[i]
  <2>1. ids[i] \in DOMAIN p /\ p[ids[i]] = i
    BY DEF Placed
  <2>2. p[a] \in Nat \ {0}
    BY DEF Orderly
  <2>3. CASE p[a] < i
    <3>1. p[a] \in 1 .. n /\ ids[p[a]] = a
      BY <2>2, <2>3 DEF Placed, Distinct
    <3> QED
      BY <3>1, <1>3, <1>4, <2>3, <2>2
  <2>4. CASE p[a] = i
    BY <2>1, <2>4 DEF Distinct
  <2>5. CASE p[a] > i
    <3> DEFINE better == {b \in DOMAIN p : p[b] < i}
               others == {b \in DOMAIN p : Before(p, b, a)}
    <3>1. better \cup {ids[i]} \subseteq others
      BY <1>2, <2>1, <2>2, <2>5 DEF Orderly
    <3>2. ids[i] \notin better
      BY <2>1
    <3>3. IsFiniteSet(better) /\ Cardinality(better) = i - 1
      BY PlacedBefore
    <3>4. IsFiniteSet(others)
      BY <1>1, FS_Subset
    <3> HIDE DEF better, others
    <3>5. Cardinality(better \cup {ids[i]}) = i
      <4>1. Cardinality(better \cup {ids[i]}) = Cardinality(better) + 1
        BY <3>2, <3>3, FS_AddElement
      <4> QED
        BY <3>3, <4>1
    <3>6. Cardinality(better \cup {ids[i]}) <= Cardinality(others) /\ Cardinality(others) \in Nat
      BY <3>1, <3>4, FS_Subset, FS_CardinalityType
    <3>7. Position(p, a) = 1 + Cardinality(others)
      BY DEF Position, others
    <3> QED
      BY <3>5, <3>6, <3>7, <1>4
  <2> QED
    BY <2>2, <2>3, <2>4, <2>5
<1>5. n <= Cardinality(DOMAIN p)
  <2> DEFINE f == [i \in 1 .. n |-> ids[i]]
  <2>1. f \in [1 .. n -> DOMAIN p] /\ \A i, j \in 1 .. n : f[i] = f[j] => i = j
    BY DEF Placed
  <2> HIDE DEF f
  <2>2. f \in Injection(1 .. n, DOMAIN p)
    BY <2>1 DEF Injection, IsInjective
  <2>3. Cardinality(1 .. n) = n
    BY FS_Interval
  <2> QED
    BY <1>1, <2>2, <2>3, FS_Injection
<1>6. ASSUME NEW i \in 1 .. n PROVE Ranking(p)[i] = ids[i]
  <2>1. i \in 1 .. Cardinality(DOMAIN p)
    BY <1>1, <1>5
  <2>2. Ranking(p)[i] = CHOOSE a \in DOMAIN p : Position(p, a) = i
    BY <2>1 DEF Ranking
  <2>3. ids[i] \in DOMAIN p
    BY DEF Placed
  <2> QED
    BY <2>2, <2>3, <1>3, <1>4
<1> QED
  BY <1>1, <1>5, <1>6

(* The list endpoint returns every automation once: a ranking is a         *)
(* sequence of as many automations as there are.                           *)
LEMMA RankingIsSequence ==
    ASSUME NEW p, Orderly(p)
    PROVE  /\ Cardinality(DOMAIN p) \in Nat
           /\ \A i \in 1 .. Cardinality(DOMAIN p) :
                Ranking(p)[i] \in DOMAIN p /\ Position(p, Ranking(p)[i]) = i
<1> DEFINE better(a) == {b \in DOMAIN p : Before(p, b, a)}
           n == Cardinality(DOMAIN p)
           f == [a \in DOMAIN p |-> Position(p, a)]
<1>1. IsFiniteSet(DOMAIN p) /\ n \in Nat /\ DOMAIN p \subseteq Nat
  BY FS_CardinalityType DEF Orderly
<1>2. \A a \in DOMAIN p : p[a] \in Nat
  BY DEF Orderly
<1>3. ASSUME NEW a \in DOMAIN p
      PROVE  /\ IsFiniteSet(better(a)) /\ Cardinality(better(a)) \in Nat
             /\ Position(p, a) = 1 + Cardinality(better(a)) /\ Position(p, a) \in 1 .. n
  <2>1. better(a) \subseteq DOMAIN p /\ a \notin better(a)
    BY <1>1, <1>2 DEF Before
  <2>2. IsFiniteSet(better(a)) /\ Cardinality(better(a)) <= n
        /\ Cardinality(better(a)) \in Nat /\ Cardinality(better(a)) # n
    BY <1>1, <2>1, FS_Subset, FS_CardinalityType
  <2> QED
    BY <1>1, <2>2 DEF Position
<1>4. ASSUME NEW a \in DOMAIN p, NEW c \in DOMAIN p, Before(p, a, c)
      PROVE  Position(p, a) < Position(p, c)
  <2>1. better(a) \subseteq better(c) /\ a \in better(c) /\ a \notin better(a)
    BY <1>1, <1>2, <1>4 DEF Before
  <2>2. Cardinality(better(a)) <= Cardinality(better(c))
        /\ Cardinality(better(a)) # Cardinality(better(c))
    BY <1>3, <2>1, FS_Subset
  <2> QED
    BY <1>3, <2>2
<1>5. \A a, c \in DOMAIN p : a # c => Before(p, a, c) \/ Before(p, c, a)
  BY <1>1, <1>2 DEF Before
<1>6. f \in [DOMAIN p -> 1 .. n] /\ \A a, c \in DOMAIN p : f[a] = f[c] => a = c
  <2>1. f \in [DOMAIN p -> 1 .. n]
    BY <1>3
  <2>2. ASSUME NEW a \in DOMAIN p, NEW c \in DOMAIN p, a # c PROVE Position(p, a) # Position(p, c)
    <3> HIDE DEF n
    <3>1. Position(p, a) \in 1 .. n /\ Position(p, c) \in 1 .. n
      BY <1>3
    <3>2. Position(p, a) < Position(p, c) \/ Position(p, c) < Position(p, a)
      BY <1>4, <1>5, <2>2
    <3> QED
      BY <3>1, <3>2
  <2> QED
    BY <2>1, <2>2
<1>7. f \in Injection(DOMAIN p, 1 .. n)
  <2> HIDE DEF f
  <2> QED
    BY <1>6 DEF Injection, IsInjective
<1>8. IsFiniteSet(1 .. n) /\ Cardinality(1 .. n) = n
  BY <1>1, FS_Interval
<1>9. f \in Surjection(DOMAIN p, 1 .. n)
  BY <1>7, <1>8, FS_Injection
<1>10. \A i \in 1 .. n : \E a \in DOMAIN p : Position(p, a) = i
  BY <1>9 DEF Surjection
<1> QED
  BY <1>1, <1>10 DEF Ranking

-----------------------------------------------------------------------------
(* Lemmas about the pages of a list.                                       *)

(* What has been received stays, and what comes is read off the order as   *)
(* it is now; the last page makes the list at least as long as the order.  *)
LEMMA ListedProperties ==
    ASSUME Orderly(prio), DOMAIN prio \subseteq Automations, op.all \in Seq(Automations),
           PriorityOrderAssumption
    PROVE  /\ Listed \in Seq(Automations)
           /\ \A i \in 1 .. Len(Listed) :
                Listed[i] = IF i <= Len(op.all) THEN op.all[i] ELSE Ranking(prio)[i]
           /\ LastPage => Len(Listed) >= Cardinality(DOMAIN prio)
<1> DEFINE n == Cardinality(DOMAIN prio)
           m == Len(op.all)
           last == AtMost(n, m + PageLimit)
<1>1. n \in Nat /\ \A i \in 1 .. n : Ranking(prio)[i] \in Automations
  BY RankingIsSequence
<1>2. m \in Nat /\ PageLimit \in Nat \ {0}
  BY LenProperties DEF PriorityOrderAssumption
<1>3. last \in Int /\ last <= n /\ (last = n \/ last = m + PageLimit)
  BY <1>1, <1>2 DEF AtMost
<1>4. \A i \in m + 1 .. last : Ranking(prio)[i] \in Automations
  BY <1>1, <1>2, <1>3
<1>5. Page = SubSeq(Ranking(prio), m + 1, last)
  BY DEF Page
<1> HIDE DEF n, m, last
<1>6. /\ Page \in Seq(Automations)
      /\ Len(Page) = IF m + 1 <= last THEN last - (m + 1) + 1 ELSE 0
      /\ \A i \in 1 .. last - (m + 1) + 1 : Page[i] = Ranking(prio)[(m + 1) + i - 1]
  BY <1>2, <1>3, <1>4, <1>5, SubSeqProperties
<1>7. /\ Listed \in Seq(Automations)
      /\ Len(Listed) = m + Len(Page)
      /\ \A i \in 1 .. m + Len(Page) :
           Listed[i] = IF i <= m THEN op.all[i] ELSE Page[i - m]
  BY <1>6, ConcatProperties DEF Listed, m
<1>8. ASSUME NEW i \in 1 .. Len(Listed)
      PROVE  Listed[i] = IF i <= m THEN op.all[i] ELSE Ranking(prio)[i]
  <2>1. CASE i <= m
    BY <1>2, <1>6, <1>7, <2>1
  <2>2. CASE i > m
    <3>1. i - m \in 1 .. last - (m + 1) + 1
      BY <1>2, <1>3, <1>6, <1>7, <2>2
    <3>2. Page[i - m] = Ranking(prio)[(m + 1) + (i - m) - 1] /\ (m + 1) + (i - m) - 1 = i
      BY <1>2, <1>6, <3>1
    <3> QED
      BY <1>2, <1>6, <1>7, <2>2, <3>2
  <2> QED
    BY <1>2, <2>1, <2>2
<1>9. ASSUME LastPage PROVE Len(Listed) >= n
  <2>1. CASE Page = << >>
    <3>1. Len(Page) = 0
      BY <2>1, EmptySeq
    <3> QED
      BY <1>1, <1>2, <1>3, <1>6, <1>7, <3>1
  <2>2. CASE Len(Listed) >= Cardinality(DOMAIN prio)
    BY <2>2 DEF n
  <2> QED
    BY <1>9, <2>1, <2>2 DEF LastPage
<1> QED
  BY <1>7, <1>8, <1>9 DEF n, m

(* The first n of a list that is at least as long.                         *)
LEMMA TopProperties ==
    ASSUME NEW S, NEW s \in Seq(S), NEW n \in Nat
    PROVE  /\ Top(n, s) \in Seq(S)
           /\ Len(Top(n, s)) <= n
           /\ Len(s) >= n => /\ Len(Top(n, s)) = n
                             /\ \A i \in 1 .. n : Top(n, s)[i] = s[i]
<1> DEFINE last == AtMost(Len(s), n)
<1>1. Len(s) \in Nat /\ \A i \in 1 .. Len(s) : s[i] \in S
  BY LenProperties, ElementOfSeq
<1>2. last \in Nat /\ last <= n /\ last <= Len(s) /\ (Len(s) >= n => last = n)
  BY <1>1 DEF AtMost
<1>3. Top(n, s) = SubSeq(s, 1, last)
  BY DEF Top
<1> HIDE DEF last
<1>4. \A i \in 1 .. last : s[i] \in S
  BY <1>1, <1>2
<1>5. /\ Top(n, s) \in Seq(S)
      /\ Len(Top(n, s)) = IF 1 <= last THEN last - 1 + 1 ELSE 0
      /\ \A i \in 1 .. last - 1 + 1 : Top(n, s)[i] = s[1 + i - 1]
  BY <1>2, <1>3, <1>4, SubSeqProperties
<1>6. Len(Top(n, s)) <= n
  BY <1>2, <1>5
<1>7. ASSUME Len(s) >= n
      PROVE  Len(Top(n, s)) = n /\ \A i \in 1 .. n : Top(n, s)[i] = s[i]
  <2>1. last = n
    BY <1>2, <1>7
  <2>2. \A i \in 1 .. n : Top(n, s)[i] = s[1 + i - 1] /\ 1 + i - 1 = i
    BY <1>5, <2>1
  <2> QED
    BY <1>2, <1>5, <2>1, <2>2
<1> QED
  BY <1>5, <1>6, <1>7

(* The first entries of a list are its first entries again, as many as     *)
(* there turned out to be.                                                 *)
LEMMA TopOfTop ==
    ASSUME NEW S, NEW s \in Seq(S), NEW n \in Nat
    PROVE  Top(Len(Top(n, s)), s) = Top(n, s)
<1> DEFINE last == AtMost(Len(s), n)
<1>1. Len(s) \in Nat /\ \A i \in 1 .. Len(s) : s[i] \in S
  BY LenProperties, ElementOfSeq
<1>2. last \in Nat /\ last <= n /\ last <= Len(s)
  BY <1>1 DEF AtMost
<1>3. Top(n, s) = SubSeq(s, 1, last)
  BY DEF Top
<1>4. AtMost(Len(s), last) = last
  BY <1>1, <1>2 DEF AtMost
<1> HIDE DEF last
<1>5. \A i \in 1 .. last : s[i] \in S
  BY <1>1, <1>2
<1>6. Len(Top(n, s)) = IF 1 <= last THEN last - 1 + 1 ELSE 0
  BY <1>2, <1>3, <1>5, SubSeqProperties
<1>7. Len(Top(n, s)) = last
  BY <1>2, <1>6
<1> QED
  BY <1>3, <1>4, <1>7 DEF Top

(* The ranking, as the sequence that the list endpoint returns.            *)
LEMMA RankingInSeq ==
    ASSUME NEW p, Orderly(p), DOMAIN p \subseteq Automations
    PROVE  Ranking(p) \in Seq(Automations) /\ Len(Ranking(p)) = Cardinality(DOMAIN p)
<1>1. /\ Cardinality(DOMAIN p) \in Nat
      /\ \A i \in 1 .. Cardinality(DOMAIN p) : Ranking(p)[i] \in Automations
  BY RankingIsSequence
<1>2. Ranking(p) = [i \in 1 .. Cardinality(DOMAIN p) |-> Ranking(p)[i]]
  BY DEF Ranking
<1>3. Ranking(p) \in [1 .. Cardinality(DOMAIN p) -> Automations]
  BY <1>1, <1>2
<1> QED
  BY <1>1, <1>3

(* Entries that hold the first positions are what is at the top.           *)
LEMMA PlacedIsTop ==
    ASSUME NEW p, Orderly(p), Distinct(p), DOMAIN p \subseteq Automations,
           NEW ids \in Seq(Automations), Placed(p, ids, Len(ids))
    PROVE  ids = Top(Len(ids), Ranking(p))
<1> DEFINE n == Len(ids)
           s == Ranking(p)
<1>1. n \in Nat /\ s \in Seq(Automations) /\ Len(s) = Cardinality(DOMAIN p)
  BY RankingInSeq, LenProperties
<1>2. n <= Len(s) /\ \A i \in 1 .. n : s[i] = ids[i]
  BY <1>1, RankingOfPlaced
<1> HIDE DEF s
<1>3. Len(s) \in Nat
  BY <1>1, LenProperties
<1>4. /\ Top(n, s) \in Seq(Automations)
      /\ Len(Top(n, s)) = n
      /\ \A i \in 1 .. n : Top(n, s)[i] = s[i]
  <2> HIDE DEF n
  <2> QED
    BY <1>1, <1>2, <1>3, TopProperties
<1>5. \A i \in 1 .. Len(ids) : Top(n, s)[i] = ids[i]
  BY <1>2, <1>4
<1>6. ids = Top(n, s)
  BY <1>4, <1>5, SeqEqual
<1> QED
  BY <1>6 DEF s

-----------------------------------------------------------------------------
(* The inductive invariant.  PrefixHeld alone is not inductive: that each  *)
(* move only ever goes up needs an order without duplicates; that a late   *)
(* PUT moves nothing needs to know which PUT it is; that the list comes    *)
(* out right needs the same of the pages received before the last.  And    *)
(* SavedOrderIsAchieved needs that what a PUT still on its way would do    *)
(* has been done, or else that the pages agree with the order as it is.    *)
Operations ==
    [kind : {"none", "apply", "read"}, pc : {"idle", "assert", "list"},
     ids : Seq(Automations), next : Nat, attempt : {0, 1},
     all : Seq(Automations), result : {"none", "ok", "error", "diverged"}]

Puts == [id : Automations, priority : 1 .. MaxListed]

Shape ==
    /\ created \in 0 .. MaxAutomations
    /\ DOMAIN prio \subseteq 1 .. created
    /\ Orderly(prio)
    /\ config \in Lists \cup {<< >>}
    /\ state \in [managed : BOOLEAN, ids : Seq(Automations)]
    /\ Len(state.ids) <= MaxListed
    /\ op \in Operations
    /\ <<op.kind, op.pc>> \in {<<"none", "idle">>, <<"apply", "assert">>,
                              <<"apply", "list">>, <<"read", "list">>}
    /\ op.kind = "apply" => UniqueValues(op.ids)
    /\ Len(op.ids) <= MaxListed
    /\ At("assert") => op.next \in 1 .. Len(op.ids)
    /\ late \in {NoPut} \cup Puts
    /\ quiet \in BOOLEAN
    /\ strayed \in BOOLEAN

Listing == {op.ids[i] : i \in DOMAIN op.ids}

(* How many entries of the list an undisturbed apply has put in place.     *)
Held == IF At("assert") THEN op.next - 1 ELSE Len(op.ids)

Working ==
    Undisturbed /\ op.kind = "apply" =>
        /\ op.attempt = 0
        /\ Distinct(prio)
        /\ Placed(prio, op.ids, Held)
        /\ late = NoPut \/ \E k \in 1 .. Held : late = [id |-> op.ids[k], priority |-> k]
        /\ \A a, b \in DOMAIN prio \ Listing : Before(before, a, b) = Before(prio, a, b)
        /\ At("list") =>
             \A i \in 1 .. Len(op.all) : i <= Len(op.ids) => op.all[i] = op.ids[i]

Reading == quiet /\ op.kind = "read" => late = NoPut /\ before = prio /\ ~strayed

NoDivergence == Undisturbed => op.result # "diverged"

(* The pages received so far begin the order that there is.                *)
Paging ==
    quiet /\ ~strayed /\ At("list") =>
        /\ Len(op.all) <= Cardinality(DOMAIN prio)
        /\ \A i \in 1 .. Len(op.all) : op.all[i] = Ranking(prio)[i]

AtTop == state.ids = Top(Len(state.ids), Ranking(prio))

Straggling ==
    /\ Distinct(prio)
    /\ Placed(prio, state.ids, Len(state.ids))
    /\ \E k \in 1 .. Len(state.ids) : late = [id |-> state.ids[k], priority |-> k]

Saved ==
    Idle /\ quiet /\ op.result = "ok" /\ state.managed =>
        /\ (strayed => Distinct(before)) => AtTop
        /\ Distinct(before) /\ late # NoPut => Straggling

IInv == Shape /\ Working /\ Reading /\ NoDivergence /\ Paging /\ Saved

-----------------------------------------------------------------------------
LEMMA ListsAreSequences ==
    \A s \in Lists : /\ s \in Seq(Automations)
                     /\ Len(s) \in 1 .. MaxListed
                     /\ UniqueValues(s)
<1> SUFFICES ASSUME NEW s \in Lists
             PROVE  /\ s \in Seq(Automations)
                    /\ Len(s) \in 1 .. MaxListed
                    /\ UniqueValues(s)
  OBVIOUS
<1>1. UniqueValues(s) /\ \E n \in 1 .. MaxListed : s \in [1 .. n -> Automations]
  BY PriorityOrderAssumption DEF PriorityOrderAssumption, ValidLists
<1>2. PICK n \in 1 .. MaxListed : s \in [1 .. n -> Automations]
  BY <1>1
<1> QED
  BY <1>1, <1>2

LEMMA InitIInv == PriorityOrderAssumption /\ Init => IInv
<1> SUFFICES ASSUME PriorityOrderAssumption, Init PROVE IInv
  OBVIOUS
<1>1. PICK n \in 0 .. MaxAutomations : prio \in [1 .. n -> 1 .. MaxPriority]
  BY DEF Init, Orders
<1>2. DOMAIN prio = 1 .. n /\ n \in Nat /\ n <= MaxAutomations
  BY <1>1 DEF PriorityOrderAssumption
<1>3. IsFiniteSet(1 .. n) /\ Cardinality(1 .. n) = n
  BY <1>2, FS_Interval
<1>4. created \in 0 .. MaxAutomations /\ DOMAIN prio \subseteq 1 .. created
  BY <1>2, <1>3 DEF Init, PriorityOrderAssumption
<1>5. Orderly(prio)
  BY <1>1, <1>2, <1>3 DEF Orderly, PriorityOrderAssumption
<1>6. << >> \in Seq(Automations) /\ Len(<< >>) = 0
  BY EmptySeq
<1>7. Shape
  <2>1. state \in [managed : BOOLEAN, ids : Seq(Automations)] /\ Len(state.ids) <= MaxListed
    BY <1>6 DEF Init, NotManaged, PriorityOrderAssumption
  <2>2. op \in Operations
    BY <1>6 DEF Init, Operations
  <2>3. /\ op.kind = "none" /\ op.pc = "idle" /\ Len(op.ids) <= MaxListed
    BY <1>6 DEF Init, PriorityOrderAssumption
  <2> QED
    BY <1>4, <1>5, <2>1, <2>2, <2>3 DEF Init, Shape, At
<1> QED
  BY <1>7 DEF Init, IInv, Working, Reading, NoDivergence, Paging, Saved, Undisturbed

-----------------------------------------------------------------------------
(* A handler that begins.                                                  *)
LEMMA BeginStep ==
    ASSUME PriorityOrderAssumption, IInv, BeginApply \/ BeginRead
    PROVE  IInv'
<1> USE DEF IInv
<1>1. ASSUME BeginApply PROVE IInv'
  <2>1. config \in Lists
    BY <1>1 DEF BeginApply, Shape
  <2>2. config \in Seq(Automations) /\ Len(config) \in 1 .. MaxListed /\ UniqueValues(config)
    BY <2>1, ListsAreSequences
  <2>3. op' = [kind |-> "apply", pc |-> "assert", ids |-> config, next |-> 1, attempt |-> 0,
               all |-> << >>, result |-> "none"]
    BY <1>1 DEF BeginApply, Begin
  <2>4. op' \in Operations
    <3>1. << >> \in Seq(Automations)
      BY EmptySeq
    <3> QED
      BY <2>2, <2>3, <3>1 DEF Operations
  <2>5. UNCHANGED <<prio, created, config, state, late>> /\ quiet' = (late = NoPut)
        /\ (quiet' => before' = prio) /\ strayed' = FALSE
    BY <1>1 DEF BeginApply, Begin
  <2>6. Shape'
    <3>1. quiet' \in BOOLEAN /\ strayed' \in BOOLEAN
      BY <2>5, Zenon
    <3>2. /\ <<op'.kind, op'.pc>> = <<"apply", "assert">> /\ op'.ids = config /\ op'.next = 1
      BY <2>3
    <3> QED
      BY <2>2, <2>4, <2>5, <3>1, <3>2 DEF Shape, Orderly, At, UniqueValues
  <2>7. Working'
    <3> SUFFICES ASSUME Undisturbed' PROVE Working'
      BY DEF Working
    <3>1. before' = prio /\ prio' = prio /\ late' = NoPut /\ Distinct(prio)
      BY <2>5 DEF Undisturbed
    <3>2. Held' = 0
      BY <2>3 DEF Held, At
    <3>3. op'.attempt = 0 /\ ~At("list")'
      BY <2>3 DEF At
    <3>4. Placed(prio, op.ids, Held)'
      BY <3>2 DEF Placed
    <3> QED
      BY <3>1, <3>3, <3>4 DEF Working
  <2>8. Reading' /\ NoDivergence' /\ Paging' /\ Saved'
    BY <2>3 DEF Reading, NoDivergence, Paging, Saved, At, Idle
  <2> QED
    BY <2>6, <2>7, <2>8
<1>2. ASSUME BeginRead PROVE IInv'
  <2>1. op' = [kind |-> "read", pc |-> "list", ids |-> state.ids, next |-> 1, attempt |-> 0,
               all |-> << >>, result |-> "none"]
    BY <1>2 DEF BeginRead, Begin
  <2>2. op' \in Operations
    <3>1. << >> \in Seq(Automations) /\ state.ids \in Seq(Automations)
      BY EmptySeq DEF Shape
    <3> QED
      BY <2>1, <3>1 DEF Operations
  <2>3. UNCHANGED <<prio, created, config, state, late>> /\ quiet' = (late = NoPut)
        /\ (quiet' => before' = prio) /\ strayed' = FALSE
    BY <1>2 DEF BeginRead, Begin
  <2>4. Shape'
    BY <2>1, <2>2, <2>3 DEF Shape, Orderly, At
  <2>5. Working' /\ Reading' /\ NoDivergence' /\ Saved'
    BY <2>1, <2>3 DEF Working, Reading, NoDivergence, Saved, Idle
  <2>6. Paging'
    <3>1. op'.all = << >> /\ Cardinality(DOMAIN prio) \in Nat
      BY <2>1, RankingIsSequence DEF Shape
    <3> QED
      BY <2>3, <3>1, EmptySeq DEF Paging
  <2> QED
    BY <2>4, <2>5, <2>6
<1> QED
  BY <1>1, <1>2

(* Steps between handlers.                                                 *)
LEMMA IdleStep ==
    ASSUME PriorityOrderAssumption, IInv, NEW ids \in Lists \cup {<< >>},
           Configure(ids) \/ Delete
    PROVE  IInv'
<1> USE DEF IInv
<1>1. /\ op.kind = "none" /\ op'.kind = "none" /\ op'.pc = op.pc /\ op' \in Operations
      /\ op'.ids = op.ids /\ op'.next = op.next
      /\ (op'.result = op.result \/ op'.result = "none")
  BY DEF Configure, Delete, Idle, Shape, Operations
<1>2. /\ state' \in [managed : BOOLEAN, ids : Seq(Automations)] /\ Len(state'.ids) <= MaxListed
      /\ config' \in Lists \cup {<< >>}
  <2>1. << >> \in Seq(Automations) /\ Len(<< >>) = 0 /\ 0 <= MaxListed
    BY EmptySeq DEF PriorityOrderAssumption
  <2>2. CASE Configure(ids)
    BY <2>2 DEF Configure, Shape
  <2>3. CASE Delete
    BY <2>1, <2>3 DEF Delete, NotManaged, Shape
  <2> QED
    BY <2>2, <2>3
<1>3. /\ UNCHANGED <<prio, created, late>>
      /\ \/ UNCHANGED <<op, state, quiet, before, strayed>>
         \/ quiet' = FALSE /\ strayed' = FALSE
  BY DEF Configure, Delete, Forget
<1>4. Shape'
  BY <1>1, <1>2, <1>3 DEF Shape, Orderly, At
<1>5. Working' /\ Reading' /\ NoDivergence'
  BY <1>1, <1>3 DEF Working, Reading, NoDivergence, Undisturbed
<1>6. Paging' /\ Saved'
  <2>1. ~At("list")'
    BY <1>1 DEF Shape, At
  <2>2. CASE quiet' = FALSE
    BY <2>2 DEF Paging, Saved
  <2>3. CASE UNCHANGED <<op, state, quiet, before, strayed>>
    BY <1>3, <2>1, <2>3 DEF Paging, Saved, Straggling, AtTop, Idle, Distinct, Placed
  <2> QED
    BY <1>3, <2>2, <2>3
<1> QED
  BY <1>4, <1>5, <1>6

(* A handler that ends, whatever it has done to the order.                 *)
LEMMA EndStep ==
    ASSUME PriorityOrderAssumption, IInv, NEW result \in {"ok", "error", "diverged"},
           End(result), Undisturbed' => result # "diverged", result = "ok" => Saved',
           /\ created' = created /\ DOMAIN prio' = DOMAIN prio /\ Orderly(prio')
           /\ config' = config
           /\ state' \in [managed : BOOLEAN, ids : Seq(Automations)]
           /\ Len(state'.ids) <= MaxListed
           /\ late' \in {NoPut} \cup Puts
    PROVE  IInv'
<1>1. op' = [kind |-> "none", pc |-> "idle", ids |-> << >>, next |-> 1, attempt |-> 0,
             all |-> << >>, result |-> result]
  BY DEF End
<1>6. quiet' \in BOOLEAN /\ strayed' \in BOOLEAN
  BY DEF End, Forget, History, IInv, Shape
<1>2. << >> \in Seq(Automations) /\ Len(<< >>) = 0
  BY EmptySeq
<1>3. op' \in Operations
  BY <1>1, <1>2 DEF Operations
<1>4. Len(op'.ids) <= MaxListed
  BY <1>1, <1>2 DEF PriorityOrderAssumption
<1>5. Shape'
  BY <1>1, <1>3, <1>4, <1>6 DEF Shape, At, Orderly, IInv
<1>7. result # "ok" => Saved'
  BY <1>1 DEF Saved
<1> QED
  BY <1>1, <1>5, <1>7 DEF IInv, Working, Reading, NoDivergence, Paging, At

(* Whatever the service does with a PUT, the order stays orderly.          *)
LEMMA AfterPutOrderly ==
    ASSUME Shape, NEW put \in [id : Automations, priority : Nat \ {0}],
           \/ put.id \in DOMAIN prio /\ prio' = Moved(prio, put.id, put.priority)
           \/ prio' = prio
    PROVE  Orderly(prio') /\ DOMAIN prio' = DOMAIN prio
<1>1. CASE put.id \in DOMAIN prio /\ prio' = Moved(prio, put.id, put.priority)
  BY <1>1, MovedOrderly DEF Shape
<1>2. CASE prio' = prio
  BY <1>2 DEF Shape
<1> QED
  BY <1>1, <1>2

(* The PUT that an apply sends next.                                       *)
LEMMA NextPut ==
    ASSUME PriorityOrderAssumption, Shape, At("assert")
    PROVE  /\ op.kind = "apply" /\ UniqueValues(op.ids)
           /\ op.next \in 1 .. Len(op.ids) /\ op.next \in Nat \ {0}
           /\ Len(op.ids) \in Nat /\ DOMAIN op.ids = 1 .. Len(op.ids)
           /\ [id |-> op.ids[op.next], priority |-> PutPosition(op.next)] \in Puts
           /\ PutPosition(op.next) = op.next
<1>1. op.kind = "apply" /\ UniqueValues(op.ids) /\ op.next \in 1 .. Len(op.ids)
  BY DEF Shape, At
<1>2. op.ids \in Seq(Automations) /\ Len(op.ids) <= MaxListed
  BY DEF Shape, Operations
<1>3. Len(op.ids) \in Nat /\ DOMAIN op.ids = 1 .. Len(op.ids) /\ op.ids[op.next] \in Automations
  BY <1>1, <1>2, LenProperties, ElementOfSeq
<1>4. op.next \in 1 .. MaxListed
  BY <1>1, <1>2, <1>3 DEF PriorityOrderAssumption
<1> QED
  BY <1>1, <1>3, <1>4 DEF Puts, PutPosition

(* An undisturbed apply always moves an automation up, or leaves it, and   *)
(* so the entries in place stay in place.                                  *)
LEMMA PutIsPlaced ==
    ASSUME PriorityOrderAssumption, Shape, At("assert"), op.attempt = 0, Distinct(prio),
           Placed(prio, op.ids, op.next - 1), op.ids[op.next] \in DOMAIN prio,
           NEW q, q = Moved(prio, op.ids[op.next], op.next)
    PROVE  /\ Distinct(q)
           /\ Placed(q, op.ids, op.next)
           /\ \A a, b \in DOMAIN prio \ Listing : Before(prio, a, b) = Before(q, a, b)
<1> DEFINE n == op.next
           id == op.ids[op.next]
<1>1. /\ UniqueValues(op.ids) /\ n \in 1 .. Len(op.ids) /\ n \in Nat \ {0}
      /\ Len(op.ids) \in Nat /\ DOMAIN op.ids = 1 .. Len(op.ids)
  BY NextPut
<1>2. Orderly(prio)
  BY DEF Shape
<1>3. prio[id] \in Nat \ {0}
  BY <1>2 DEF Orderly
<1>4. n <= prio[id]
  <2> SUFFICES ASSUME prio[id] < n PROVE FALSE
    BY <1>1, <1>3
  <2>1. prio[id] \in 1 .. n - 1
    BY <1>1, <1>3
  <2>2. op.ids[prio[id]] \in DOMAIN prio /\ prio[op.ids[prio[id]]] = prio[id]
    BY <2>1 DEF Placed
  <2>3. op.ids[prio[id]] = id
    BY <2>2 DEF Distinct
  <2>4. prio[id] \in DOMAIN op.ids /\ n \in DOMAIN op.ids
    BY <1>1, <2>1
  <2>5. prio[id] = n
    BY <1>1, <2>3, <2>4 DEF UniqueValues
  <2> QED
    BY <1>1, <1>3, <2>5
<1>5. DOMAIN q = DOMAIN prio
  BY <1>1, <1>2, MovedOrderly
<1>6. q[id] = n /\ \A b \in DOMAIN prio \ {id} : prio[b] < n => q[b] = prio[b]
  BY <1>1, <1>2, <1>4, MovedUp
<1>7. /\ Distinct(q)
      /\ \A b, c \in DOMAIN prio \ {id} : Before(prio, b, c) = Before(q, b, c)
  BY <1>1, <1>2, MovedDistinct
<1>8. ASSUME NEW i \in 1 .. n PROVE op.ids[i] \in DOMAIN q /\ q[op.ids[i]] = i
  <2>1. CASE i = n
    BY <1>5, <1>6, <2>1
  <2>2. CASE i # n
    <3>1. i \in 1 .. n - 1 /\ i < n
      BY <1>1, <2>2
    <3>2. op.ids[i] \in DOMAIN prio /\ prio[op.ids[i]] = i
      BY <3>1 DEF Placed
    <3>3. op.ids[i] # id
      BY <1>1, <3>1 DEF UniqueValues
    <3> QED
      BY <1>5, <1>6, <3>1, <3>2, <3>3
  <2> QED
    BY <2>1, <2>2
<1>9. id \in Listing
  BY <1>1 DEF Listing
<1> QED
  BY <1>7, <1>8, <1>9 DEF Placed

(* One PUT of assertOrder.                                                 *)
LEMMA AssertStep ==
    ASSUME PriorityOrderAssumption, IInv, NEW outcome \in Outcomes, AssertNext(outcome)
    PROVE  IInv'
<1> DEFINE id == op.ids[op.next]
           put == [id |-> id, priority |-> PutPosition(op.next)]
           effect == outcome \notin {"failed", "pending"}
<1>1. Shape /\ At("assert")
  BY DEF IInv, AssertNext
<1>2. /\ op.kind = "apply" /\ UniqueValues(op.ids)
      /\ op.next \in 1 .. Len(op.ids) /\ op.next \in Nat \ {0}
      /\ Len(op.ids) \in Nat /\ put \in Puts
      /\ put = [id |-> id, priority |-> op.next]
  BY <1>1, NextPut
<1>3. /\ effect => id \in DOMAIN prio
      /\ prio' = IF effect THEN Moved(prio, id, op.next) ELSE prio
      /\ late' = put \/ late' = late
      /\ late' # late => late' = put /\ outcome \in {"retried", "pending"}
      /\ UNCHANGED <<created, config, state>>
  BY <1>2 DEF AssertNext
<1>4. Orderly(prio') /\ DOMAIN prio' = DOMAIN prio
  BY <1>1, <1>2, <1>3, AfterPutOrderly DEF Puts
<1>5. late' \in {NoPut} \cup Puts
  BY <1>1, <1>2, <1>3 DEF Shape
<1> HIDE DEF put
<1>6. CASE End("error")
  <2>1. /\ state' \in [managed : BOOLEAN, ids : Seq(Automations)]
        /\ Len(state'.ids) <= MaxListed
    BY <1>1, <1>3 DEF Shape
  <2> QED
    BY <1>3, <1>4, <1>5, <1>6, <2>1, EndStep
<1>7. CASE outcome \in {"fine", "retried"} /\ UNCHANGED History
  <2>1. op' = IF op.next < Len(op.ids) THEN [op EXCEPT !.next = @ + 1]
              ELSE [op EXCEPT !.pc = "list", !.all = << >>]
    BY <1>7 DEF AssertNext
  <2>9. UNCHANGED <<quiet, before, strayed>>
    BY <1>7 DEF History
  <2>2. effect
    BY <1>7
  <2>3. op' \in Operations
    <3>1. << >> \in Seq(Automations) /\ op \in Operations /\ op.next + 1 \in Nat
      BY <1>1, <1>2, EmptySeq DEF Shape
    <3>2. CASE op' = [op EXCEPT !.next = @ + 1]
      BY <3>1, <3>2 DEF Operations
    <3>3. CASE op' = [op EXCEPT !.pc = "list", !.all = << >>]
      BY <3>1, <3>3 DEF Operations
    <3> QED
      BY <2>1, <3>2, <3>3
  <2>4. /\ op'.kind = op.kind /\ op'.ids = op.ids /\ op'.attempt = op.attempt
        /\ op'.result = op.result
        /\ \/ At("assert")' /\ op'.next = op.next + 1 /\ op.next < Len(op.ids)
           \/ op'.pc = "list" /\ op'.all = << >> /\ op.next = Len(op.ids)
    BY <1>1, <1>2, <2>1 DEF Shape, Operations, At
  <2>5. Held' = op.next
    BY <2>4, <1>2 DEF Held, At
  <2>6. Shape'
    <3>1. op'.next \in 1 .. Len(op'.ids) \/ ~At("assert")'
      BY <1>2, <2>4 DEF At
    <3>2. <<op'.kind, op'.pc>> \in {<<"apply", "assert">>, <<"apply", "list">>}
      BY <1>2, <2>4 DEF At
    <3> QED
      BY <1>1, <1>2, <1>3, <1>4, <1>5, <2>3, <2>4, <2>9, <3>1, <3>2 DEF Shape, UniqueValues
  <2>7. Working'
    <3> SUFFICES ASSUME Undisturbed' PROVE Working'
      BY DEF Working
    <3>1. Undisturbed
      BY <2>9 DEF Undisturbed
    <3>2. /\ op.attempt = 0 /\ Distinct(prio)
          /\ Placed(prio, op.ids, op.next - 1)
          /\ late = NoPut \/ \E k \in 1 .. op.next - 1 :
                               late = [id |-> op.ids[k], priority |-> k]
          /\ \A a, b \in DOMAIN prio \ Listing : Before(before, a, b) = Before(prio, a, b)
      BY <1>1, <1>2, <3>1 DEF IInv, Working, Held
    <3>3. /\ Distinct(prio') /\ Placed(prio', op.ids, op.next)
          /\ \A a, b \in DOMAIN prio \ Listing : Before(prio, a, b) = Before(prio', a, b)
      BY <1>1, <1>3, <2>2, <3>2, PutIsPlaced
    <3>4. late' = NoPut \/ \E k \in 1 .. op.next : late' = [id |-> op.ids[k], priority |-> k]
      <4>1. op.next \in 1 .. op.next
        BY <1>2
      <4>2. CASE late' = put
        BY <1>2, <4>1, <4>2
      <4>3. CASE late' = late
        <5>1. \A k \in 1 .. op.next - 1 : k \in 1 .. op.next
          BY <1>2
        <5> QED
          BY <3>2, <4>3, <5>1
      <4> QED
        BY <1>3, <4>2, <4>3
    <3>5. \A a, b \in DOMAIN prio \ Listing : Before(before, a, b) = Before(prio', a, b)
      BY <3>2, <3>3
    <3>6. Listing' = Listing
      BY <2>4 DEF Listing
    <3>7. At("list")' => \A i \in 1 .. Len(op'.all) : i <= Len(op'.ids) => op'.all[i] = op'.ids[i]
      BY <2>4, EmptySeq DEF At
    <3> QED
      BY <1>4, <2>4, <2>5, <2>9, <3>2, <3>3, <3>4, <3>5, <3>6, <3>7 DEF Working
  <2>8. Reading' /\ NoDivergence' /\ Saved'
    BY <1>2, <2>4, <2>9 DEF Reading, NoDivergence, Saved, Idle, IInv, Undisturbed
  <2>10. Paging'
    <3>1. Cardinality(DOMAIN prio') \in Nat
      BY <1>4, RankingIsSequence
    <3> QED
      BY <2>4, <3>1, EmptySeq DEF Paging, At
  <2> QED
    BY <2>6, <2>7, <2>8, <2>10 DEF IInv
<1> QED
  BY <1>6, <1>7 DEF AssertNext

-----------------------------------------------------------------------------
(* While an undisturbed apply reads the list, every entry it has received  *)
(* that could be one of its own is.                                        *)
LEMMA ListedAsPlaced ==
    ASSUME PriorityOrderAssumption, IInv, At("list"), Undisturbed, op.kind = "apply"
    PROVE  /\ \A i \in 1 .. Len(Listed) : i <= Len(op.ids) => Listed[i] = op.ids[i]
           /\ LastPage => Top(Len(op.ids), Listed) = op.ids
<1>1. /\ Orderly(prio) /\ DOMAIN prio \subseteq Automations
      /\ op.all \in Seq(Automations) /\ op.ids \in Seq(Automations)
  BY DEF IInv, Shape, Automations, Operations, PriorityOrderAssumption
<1>2. /\ Distinct(prio) /\ Placed(prio, op.ids, Len(op.ids))
      /\ \A i \in 1 .. Len(op.all) : i <= Len(op.ids) => op.all[i] = op.ids[i]
  BY DEF IInv, Working, Held, At
<1>3. Len(op.ids) \in Nat /\ Len(op.all) \in Nat
  BY <1>1, LenProperties
<1>4. /\ Len(op.ids) <= Cardinality(DOMAIN prio) /\ Cardinality(DOMAIN prio) \in Nat
      /\ \A i \in 1 .. Len(op.ids) : Ranking(prio)[i] = op.ids[i]
  BY <1>1, <1>2, <1>3, RankingOfPlaced
<1>5. /\ Listed \in Seq(Automations)
      /\ \A i \in 1 .. Len(Listed) :
           Listed[i] = IF i <= Len(op.all) THEN op.all[i] ELSE Ranking(prio)[i]
      /\ LastPage => Len(Listed) >= Cardinality(DOMAIN prio)
  BY <1>1, ListedProperties
<1>6. Len(Listed) \in Nat
  BY <1>5, LenProperties
<1>7. ASSUME NEW i \in 1 .. Len(Listed), i <= Len(op.ids) PROVE Listed[i] = op.ids[i]
  <2>1. i \in Nat \ {0} /\ i \in 1 .. Len(op.ids)
    BY <1>3, <1>6, <1>7
  <2>2. i <= Len(op.all) => i \in 1 .. Len(op.all)
    BY <1>3, <2>1
  <2> QED
    BY <1>2, <1>4, <1>5, <1>7, <2>1, <2>2
<1>8. ASSUME LastPage PROVE Top(Len(op.ids), Listed) = op.ids
  <2>1. Len(Listed) >= Len(op.ids)
    BY <1>3, <1>4, <1>5, <1>6, <1>8
  <2>2. /\ Top(Len(op.ids), Listed) \in Seq(Automations)
        /\ Len(Top(Len(op.ids), Listed)) = Len(op.ids)
        /\ \A i \in 1 .. Len(op.ids) : Top(Len(op.ids), Listed)[i] = Listed[i]
    <3> DEFINE s == Listed
               n == Len(op.ids)
    <3>1. s \in Seq(Automations) /\ n \in Nat /\ Len(s) >= n
      BY <1>3, <1>5, <2>1
    <3> HIDE DEF s, n
    <3>2. /\ Top(n, s) \in Seq(Automations)
          /\ Len(Top(n, s)) = n
          /\ \A i \in 1 .. n : Top(n, s)[i] = s[i]
      BY <3>1, TopProperties
    <3> QED
      BY <3>2 DEF s, n
  <2>3. \A i \in 1 .. Len(op.ids) : Top(Len(op.ids), Listed)[i] = op.ids[i]
    <3>1. \A i \in 1 .. Len(op.ids) : i \in 1 .. Len(Listed) /\ i <= Len(op.ids)
      BY <1>3, <1>6, <2>1
    <3> QED
      BY <1>7, <2>2, <3>1
  <2> QED
    BY <1>1, <2>2, <2>3, SeqEqual
<1> QED
  BY <1>7, <1>8

(* As long as the order has not changed since the list began, what has     *)
(* been received begins it, and with the last page is all of it.           *)
LEMMA PagesBeginRanking ==
    ASSUME PriorityOrderAssumption, IInv, At("list"), quiet, ~strayed
    PROVE  /\ Len(Listed) <= Cardinality(DOMAIN prio)
           /\ \A i \in 1 .. Len(Listed) : Listed[i] = Ranking(prio)[i]
           /\ LastPage => Listed = Ranking(prio)
<1>1. /\ Orderly(prio) /\ DOMAIN prio \subseteq Automations
      /\ op.all \in Seq(Automations) /\ Len(op.all) \in Nat
      /\ PageLimit \in Nat \ {0}
  BY LenProperties DEF IInv, Shape, Automations, Operations, PriorityOrderAssumption
<1>2. /\ Len(op.all) <= Cardinality(DOMAIN prio)
      /\ \A i \in 1 .. Len(op.all) : op.all[i] = Ranking(prio)[i]
  BY DEF IInv, Paging
<1>3. /\ Listed \in Seq(Automations) /\ Len(Listed) \in Nat
      /\ \A i \in 1 .. Len(Listed) :
           Listed[i] = IF i <= Len(op.all) THEN op.all[i] ELSE Ranking(prio)[i]
      /\ LastPage => Len(Listed) >= Cardinality(DOMAIN prio)
  BY <1>1, ListedProperties, LenProperties
<1>4. ASSUME NEW i \in 1 .. Len(Listed) PROVE Listed[i] = Ranking(prio)[i]
  <2>1. i <= Len(op.all) => i \in 1 .. Len(op.all)
    BY <1>1, <1>3
  <2> QED
    BY <1>2, <1>3, <2>1
<1>5. Len(Listed) <= Cardinality(DOMAIN prio)
  <2> DEFINE m == Len(op.all)
             last == AtMost(Cardinality(DOMAIN prio), m + PageLimit)
  <2>1. Cardinality(DOMAIN prio) \in Nat
        /\ \A i \in 1 .. Cardinality(DOMAIN prio) : Ranking(prio)[i] \in Automations
    BY <1>1, RankingIsSequence
  <2>2. last \in Int /\ last <= Cardinality(DOMAIN prio)
    BY <1>1, <2>1 DEF AtMost
  <2>3. Page = SubSeq(Ranking(prio), m + 1, last)
    BY DEF Page
  <2>4. \A i \in m + 1 .. last : Ranking(prio)[i] \in Automations
    BY <1>1, <2>1, <2>2
  <2> HIDE DEF m, last
  <2>5. m \in Nat /\ m <= Cardinality(DOMAIN prio)
    BY <1>1, <1>2 DEF m
  <2>6. /\ Page \in Seq(Automations)
        /\ Len(Page) = IF m + 1 <= last THEN last - (m + 1) + 1 ELSE 0
    BY <2>2, <2>3, <2>4, <2>5, SubSeqProperties
  <2>7. Len(Listed) = m + Len(Page)
    BY <1>1, <2>6, ConcatProperties DEF Listed, m
  <2> QED
    BY <2>1, <2>2, <2>5, <2>6, <2>7
<1>6. ASSUME LastPage PROVE Listed = Ranking(prio)
  <2>1. Ranking(prio) \in Seq(Automations) /\ Len(Ranking(prio)) = Cardinality(DOMAIN prio)
        /\ Cardinality(DOMAIN prio) \in Nat
    BY <1>1, RankingInSeq, RankingIsSequence
  <2>2. Len(Listed) = Len(Ranking(prio))
    BY <1>3, <1>5, <1>6, <2>1
  <2> QED
    BY <1>3, <1>4, <2>1, <2>2, SeqEqual
<1> QED
  BY <1>4, <1>5, <1>6

(* A page that is not the last.                                            *)
LEMMA PageStep ==
    ASSUME PriorityOrderAssumption, IInv, ListPage
    PROVE  IInv'
<1>1. /\ Shape /\ At("list") /\ op \in Operations
      /\ UNCHANGED <<prio, created, config, state, late, quiet, before, strayed>>
      /\ op' = [op EXCEPT !.all = Listed]
  BY DEF IInv, Shape, ListPage
<1>2. Listed \in Seq(Automations)
  <2>1. Orderly(prio) /\ DOMAIN prio \subseteq Automations /\ op.all \in Seq(Automations)
    BY <1>1 DEF Shape, Automations, Operations, PriorityOrderAssumption
  <2> QED
    BY <2>1, ListedProperties
<1>3. /\ op' \in Operations /\ op'.kind = op.kind /\ op'.pc = op.pc /\ op'.ids = op.ids
      /\ op'.next = op.next /\ op'.attempt = op.attempt /\ op'.result = op.result
      /\ op'.all = Listed
  BY <1>1, <1>2 DEF Operations
<1>4. Shape'
  BY <1>1, <1>3 DEF Shape, At, UniqueValues, Orderly
<1>5. Working'
  <2> SUFFICES ASSUME Undisturbed', op'.kind = "apply" PROVE Working'
    BY DEF Working
  <2>1. Undisturbed /\ op.kind = "apply"
    BY <1>1, <1>3 DEF Undisturbed
  <2>2. \A i \in 1 .. Len(op'.all) : i <= Len(op'.ids) => op'.all[i] = op'.ids[i]
    BY <1>1, <1>3, <2>1, ListedAsPlaced
  <2>3. Held' = Held /\ Listing' = Listing
    BY <1>3 DEF Held, At, Listing
  <2> QED
    BY <1>1, <1>3, <2>1, <2>2, <2>3 DEF Working, IInv, Placed
<1>6. Reading' /\ NoDivergence'
  BY <1>1, <1>3 DEF Reading, NoDivergence, Undisturbed, IInv
<1>7. Paging'
  BY <1>1, <1>3, PagesBeginRanking DEF Paging
<1>8. Saved'
  BY <1>1, <1>3 DEF Saved, Idle, Shape, At
<1> QED
  BY <1>4, <1>5, <1>6, <1>7, <1>8 DEF IInv

(* A list that has been verified is at the top, and what a PUT still on    *)
(* its way would do to an order without duplicates has been done.          *)
LEMMA VerifiedIsSaved ==
    ASSUME PriorityOrderAssumption, IInv, At("list"), op.kind = "apply", LastPage,
           Top(Len(op.ids), Listed) = op.ids,
           state' = Managed(op.ids), UNCHANGED <<prio, late, quiet, before, strayed>>
    PROVE  Saved'
<1> SUFFICES ASSUME quiet PROVE Saved'
  BY DEF Saved
<1>1. /\ Orderly(prio) /\ DOMAIN prio \subseteq Automations
      /\ op.ids \in Seq(Automations)
  BY DEF IInv, Shape, Automations, Operations, PriorityOrderAssumption
<1>2. state'.ids = op.ids
  BY DEF Managed
<1>3. ASSUME Distinct(before)
      PROVE  /\ Distinct(prio) /\ Placed(prio, op.ids, Len(op.ids))
             /\ late = NoPut \/ \E k \in 1 .. Len(op.ids) : late = [id |-> op.ids[k], priority |-> k]
  BY <1>3 DEF IInv, Working, Undisturbed, Held, At
<1>4. ASSUME Distinct(before) PROVE op.ids = Top(Len(op.ids), Ranking(prio))
  BY <1>1, <1>3, <1>4, PlacedIsTop
<1>5. ASSUME ~strayed PROVE op.ids = Top(Len(op.ids), Ranking(prio))
  BY <1>5, PagesBeginRanking
<1>6. ((strayed => Distinct(before)) => AtTop)'
  <2>1. AtTop' <=> op.ids = Top(Len(op.ids), Ranking(prio))
    BY <1>2 DEF AtTop
  <2>2. Distinct(before)' <=> Distinct(before)
    BY DEF Distinct
  <2> QED
    BY <1>4, <1>5, <2>1, <2>2
<1>7. (Distinct(before) /\ late # NoPut => Straggling)'
  <2>1. Distinct(before)' <=> Distinct(before)
    BY DEF Distinct
  <2> QED
    BY <1>2, <1>3, <2>1 DEF Straggling, Distinct, Placed
<1> QED
  BY <1>6, <1>7 DEF Saved

(* The last page, or no answer.                                            *)
LEMMA LastPageStep ==
    ASSUME PriorityOrderAssumption, IInv, ListFails \/ VerifyOrder \/ RefreshOrder
    PROVE  IInv'
<1>1. /\ Shape /\ At("list") /\ Orderly(prio)
      /\ UNCHANGED <<prio, created, config, late>>
  BY DEF IInv, Shape, ListFails, VerifyOrder, RefreshOrder
<1>2. /\ state \in [managed : BOOLEAN, ids : Seq(Automations)] /\ Len(state.ids) <= MaxListed
      /\ op.ids \in Seq(Automations) /\ Len(op.ids) <= MaxListed /\ Len(op.ids) \in Nat
      /\ late \in {NoPut} \cup Puts
  BY <1>1, LenProperties DEF Shape, Operations
<1>3. CASE ListFails
  <2>1. End("error") /\ state' = state
    BY <1>3 DEF ListFails
  <2> QED
    BY <1>1, <1>2, <2>1, EndStep
<1>4. CASE VerifyOrder
  <2>1. op.kind = "apply" /\ LastPage
    BY <1>4 DEF VerifyOrder
  <2>2. CASE Top(Len(op.ids), Listed) = op.ids
    <3>1. End("ok") /\ state' = Managed(op.ids)
      BY <1>4, <2>2 DEF VerifyOrder
    <3>2. UNCHANGED <<quiet, before, strayed>>
      BY <3>1 DEF End, History
    <3>3. Saved'
      BY <1>1, <2>1, <2>2, <3>1, <3>2, VerifiedIsSaved
    <3> QED
      BY <1>1, <1>2, <3>1, <3>3, EndStep DEF Managed
  <2>3. CASE Top(Len(op.ids), Listed) # op.ids
    <3>1. ~Undisturbed
      BY <1>1, <2>1, <2>3, ListedAsPlaced
    <3>2. ~Undisturbed' /\ UNCHANGED <<quiet, before, strayed>>
      BY <1>4, <2>3, <3>1 DEF Undisturbed, VerifyOrder, End, History
    <3>3. CASE op.attempt = 1
      <4>1. End("diverged") /\ state' = state
        BY <1>4, <2>3, <3>3 DEF VerifyOrder
      <4> QED
        BY <1>1, <1>2, <3>2, <4>1, EndStep
    <3>4. CASE op.attempt # 1
      <4>1. /\ op' = [op EXCEPT !.pc = "assert", !.next = 1, !.attempt = 1]
            /\ state' = state
        BY <1>4, <2>3, <3>4 DEF VerifyOrder
      <4>2. /\ op' \in Operations /\ op'.kind = "apply" /\ op'.pc = "assert"
            /\ op'.ids = op.ids /\ op'.next = 1
        <5>1. op \in Operations
          BY <1>1 DEF Shape
        <5>2. op' = [op EXCEPT !.pc = "assert", !.next = 1, !.attempt = 1]
          BY <4>1
        <5>3. op' \in Operations
          BY <5>1, <5>2 DEF Operations
        <5> QED
          BY <2>1, <5>1, <5>2, <5>3 DEF Operations
      <4>3. op.ids # << >>
        <5> SUFFICES ASSUME op.ids = << >> PROVE Top(Len(op.ids), Listed) = << >>
          BY <2>3
        <5>1. Len(Listed) \in Nat /\ Listed \in Seq(Automations)
          <6>1. DOMAIN prio \subseteq Automations /\ op.all \in Seq(Automations)
            BY <1>1 DEF Shape, Automations, Operations, PriorityOrderAssumption
          <6> QED
            BY <1>1, <6>1, ListedProperties, LenProperties
        <5>2. AtMost(Len(Listed), Len(op.ids)) = 0
          BY <5>1, EmptySeq DEF AtMost
        <5> QED
          BY <5>2, SubSeqEmpty DEF Top
      <4>4. Len(op.ids) \in Nat \ {0}
        BY <1>2, <4>3, EmptySeq
      <4>5. Shape'
        BY <1>1, <1>2, <2>1, <3>2, <4>1, <4>2, <4>4 DEF Shape, At, UniqueValues, Orderly
      <4> QED
        BY <3>2, <4>2, <4>5 DEF IInv, Working, Reading, NoDivergence, Paging, Saved, At, Idle
    <3> QED
      BY <3>3, <3>4
  <2> QED
    BY <2>2, <2>3
<1>5. CASE RefreshOrder
  <2>1. End("ok") /\ state' = Managed(Top(Len(op.ids), Listed))
    BY <1>5 DEF RefreshOrder
  <2>2. DOMAIN prio \subseteq Automations /\ op.all \in Seq(Automations)
    BY <1>1 DEF Shape, Automations, Operations, PriorityOrderAssumption
  <2>3. Listed \in Seq(Automations)
    BY <1>1, <2>2, ListedProperties
  <2>4. /\ Top(Len(op.ids), Listed) \in Seq(Automations)
        /\ Len(Top(Len(op.ids), Listed)) <= Len(op.ids)
    BY <1>2, <2>3, TopProperties
  <2>5. Len(Top(Len(op.ids), Listed)) \in Nat
    BY <2>4, LenProperties
  <2>6. Len(Top(Len(op.ids), Listed)) <= MaxListed
    BY <1>2, <2>4, <2>5 DEF PriorityOrderAssumption
  <2>7. Saved'
    <3> SUFFICES ASSUME quiet' PROVE Saved'
      BY DEF Saved
    <3>1. UNCHANGED <<quiet, before, strayed>>
      BY <2>1 DEF End, History
    <3>2. op.kind = "read" /\ LastPage
      BY <1>5 DEF RefreshOrder
    <3>3. late' = NoPut /\ ~strayed
      BY <1>1, <3>1, <3>2 DEF IInv, Reading
    <3>4. Listed = Ranking(prio)
      BY <1>1, <3>1, <3>2, <3>3, PagesBeginRanking
    <3>5. state'.ids = Top(Len(op.ids), Ranking(prio)) /\ Ranking(prio) \in Seq(Automations)
      BY <2>1, <2>3, <3>4 DEF Managed
    <3>6. state'.ids = Top(Len(state'.ids), Ranking(prio))
      BY <1>2, <3>5, TopOfTop
    <3>7. AtTop'
      BY <1>1, <3>6 DEF AtTop
    <3> QED
      BY <3>3, <3>7 DEF Saved
  <2> QED
    BY <1>1, <1>2, <2>1, <2>4, <2>6, <2>7, EndStep DEF Managed
<1> QED
  BY <1>3, <1>4, <1>5

-----------------------------------------------------------------------------
(* The late PUT repeats a move that is already in place.                   *)
LEMMA LateStep ==
    ASSUME PriorityOrderAssumption, IInv, LatePut
    PROVE  IInv'
<1>1. /\ Shape /\ Orderly(prio) /\ late \in Puts /\ late' = NoPut
      /\ UNCHANGED <<created, config, state, op, quiet, before>>
  BY DEF IInv, Shape, LatePut
<1>2. late \in [id : Automations, priority : Nat \ {0}]
  BY <1>1 DEF Puts, PriorityOrderAssumption
<1>3. Orderly(prio') /\ DOMAIN prio' = DOMAIN prio
  BY <1>1, <1>2, AfterPutOrderly DEF LatePut
<1>4. Shape'
  <2>1. strayed' \in BOOLEAN
    BY DEF LatePut
  <2> QED
    BY <1>1, <1>3, <2>1 DEF Shape, At, UniqueValues
<1>5. ASSUME Undisturbed', op.kind = "apply" PROVE Working'
  <2>1. Undisturbed
    BY <1>1, <1>5 DEF Undisturbed
  <2>2. /\ op.attempt = 0 /\ Distinct(prio) /\ Placed(prio, op.ids, Held)
        /\ \A a, b \in DOMAIN prio \ Listing : Before(before, a, b) = Before(prio, a, b)
        /\ At("list") =>
             \A i \in 1 .. Len(op.all) : i <= Len(op.ids) => op.all[i] = op.ids[i]
    BY <1>5, <2>1 DEF IInv, Working
  <2>3. PICK k \in 1 .. Held : late = [id |-> op.ids[k], priority |-> k]
    <3>1. late # NoPut
      BY DEF LatePut
    <3> QED
      BY <1>5, <2>1, <3>1 DEF IInv, Working
  <2>4. late.id \in DOMAIN prio /\ late.priority = prio[late.id]
    BY <2>2, <2>3 DEF Placed
  <2>5. \A b \in DOMAIN prio : prio'[b] = prio[b]
    BY <1>1, <2>4, MovedNowhere DEF LatePut
  <2>6. Distinct(prio') /\ Placed(prio', op.ids, Held)
    BY <1>3, <2>2, <2>5 DEF Distinct, Placed
  <2>7. \A a, b \in DOMAIN prio' \ Listing : Before(before, a, b) = Before(prio', a, b)
    BY <1>3, <2>2, <2>5 DEF Before
  <2>8. Held' = Held /\ Listing' = Listing
    BY <1>1 DEF Held, At, Listing
  <2> QED
    BY <1>1, <2>2, <2>6, <2>7, <2>8 DEF Working, At
<1>6. Working'
  BY <1>1, <1>5 DEF Working
<1>7. Reading' /\ NoDivergence'
  BY <1>1 DEF IInv, Reading, NoDivergence, Undisturbed, LatePut
<1>8. quiet' /\ ~strayed' => prio' = prio /\ ~strayed
  <2>1. strayed' = (quiet /\ (strayed \/ prio' # prio)) /\ quiet' = quiet
    BY DEF LatePut
  <2> QED
    BY <2>1, Zenon
<1>9. Paging'
  BY <1>1, <1>8 DEF IInv, Paging, At
<1>10. ASSUME Idle, quiet, op.result = "ok", state.managed, Distinct(before) PROVE AtTop'
  <2>1. Straggling
    BY <1>10 DEF IInv, Saved, LatePut
  <2>2. PICK k \in 1 .. Len(state.ids) : late = [id |-> state.ids[k], priority |-> k]
    BY <2>1 DEF Straggling
  <2>3. late.id \in DOMAIN prio /\ late.priority = prio[late.id]
    BY <2>1, <2>2 DEF Straggling, Placed
  <2>4. \A b \in DOMAIN prio : prio'[b] = prio[b]
    BY <1>1, <2>3, MovedNowhere DEF LatePut
  <2>5. Distinct(prio') /\ Placed(prio', state.ids, Len(state.ids))
    BY <1>3, <2>1, <2>4 DEF Straggling, Distinct, Placed
  <2>6. DOMAIN prio' \subseteq Automations /\ state.ids \in Seq(Automations)
    BY <1>1, <1>3 DEF Shape, Automations, PriorityOrderAssumption
  <2> QED
    BY <1>1, <1>3, <2>5, <2>6, PlacedIsTop DEF AtTop
<1>11. ASSUME Idle, quiet, op.result = "ok", state.managed, ~strayed' PROVE AtTop'
  BY <1>1, <1>8, <1>11 DEF IInv, Saved, AtTop
<1>12. Saved'
  <2>1. Distinct(before)' <=> Distinct(before)
    BY <1>1 DEF Distinct
  <2> QED
    BY <1>1, <1>10, <1>11, <2>1 DEF Saved, Idle
<1> QED
  BY <1>4, <1>6, <1>7, <1>9, <1>12 DEF IInv

(* Others leave an order that is orderly, and end the quiet.               *)
LEMMA OutsideStep ==
    ASSUME PriorityOrderAssumption, IInv, NEW order, NEW count \in 0 .. MaxAutomations,
           Outside(order, count), Orderly(order), DOMAIN order \subseteq 1 .. count
    PROVE  IInv'
<1>1. /\ prio' = order /\ created' = count /\ quiet' = FALSE /\ strayed' = FALSE
      /\ UNCHANGED <<config, state, op, late>>
  BY DEF Outside, Forget
<1>2. Shape'
  BY <1>1 DEF IInv, Shape, At, UniqueValues
<1> QED
  BY <1>1, <1>2 DEF IInv, Working, Reading, NoDivergence, Paging, Saved, Undisturbed

LEMMA ConsoleStep ==
    ASSUME PriorityOrderAssumption, IInv,
           \/ CreateOutside
           \/ \E a \in Automations : DeleteOutside(a)
           \/ \E a \in Automations, n \in 1 .. MaxPriority : MoveOutside(a, n)
    PROVE  IInv'
<1>1. /\ Orderly(prio) /\ created \in 0 .. MaxAutomations /\ DOMAIN prio \subseteq 1 .. created
      /\ MaxAutomations \in Nat /\ MaxPriority \in Nat
  BY DEF IInv, Shape, PriorityOrderAssumption
<1>2. CASE CreateOutside
  <2> DEFINE a == created + 1
             order == [b \in DOMAIN prio \cup {a} |->
                         IF b \in DOMAIN prio THEN prio[b] ELSE Highest(prio) + 1]
  <2>1. Outside(order, a) /\ a \in 0 .. MaxAutomations /\ DOMAIN order \subseteq 1 .. a
    BY <1>1, <1>2 DEF CreateOutside
  <2>2. Highest(prio) \in Nat /\ \A b \in DOMAIN prio : prio[b] <= Highest(prio)
    BY <1>1, HighestIsGreatest DEF Highest
  <2>3. \A b \in DOMAIN order : order[b] \in Nat \ {0} /\ order[b] <= Highest(prio) + 1
    BY <1>1, <2>2 DEF Orderly
  <2>4. IsFiniteSet(DOMAIN order) /\ DOMAIN order \subseteq Nat
    BY <1>1, FS_AddElement DEF Orderly
  <2>5. Orderly(order)
    <3> HIDE DEF order
    <3> QED
      BY <2>2, <2>3, <2>4 DEF Orderly
  <2> HIDE DEF order, a
  <2> QED
    BY <2>1, <2>5, OutsideStep
<1>3. ASSUME NEW a \in Automations, DeleteOutside(a) PROVE IInv'
  <2> DEFINE order == [b \in DOMAIN prio \ {a} |-> prio[b]]
  <2>1. Outside(order, created) /\ DOMAIN order \subseteq 1 .. created
    BY <1>1, <1>3 DEF DeleteOutside
  <2>2. Orderly(order)
    <3>1. IsFiniteSet(DOMAIN prio \ {a})
      BY <1>1, FS_RemoveElement DEF Orderly
    <3> QED
      BY <1>1, <3>1 DEF Orderly
  <2> HIDE DEF order
  <2> QED
    BY <1>1, <2>1, <2>2, OutsideStep
<1>4. ASSUME NEW a \in Automations, NEW n \in 1 .. MaxPriority, MoveOutside(a, n) PROVE IInv'
  <2>1. a \in DOMAIN prio /\ Outside(Moved(prio, a, n), created) /\ n \in Nat \ {0}
    BY <1>1, <1>4 DEF MoveOutside
  <2>2. Orderly(Moved(prio, a, n)) /\ DOMAIN Moved(prio, a, n) = DOMAIN prio
    BY <1>1, <2>1, MovedOrderly
  <2> QED
    BY <1>1, <2>1, <2>2, OutsideStep
<1> QED
  BY <1>2, <1>3, <1>4

-----------------------------------------------------------------------------
LEMMA StutterStep ==
    ASSUME IInv, UNCHANGED vars
    PROVE  IInv'
BY DEF IInv, Shape, Working, Reading, NoDivergence, Paging, Saved, Straggling, AtTop,
       Undisturbed, Held, Listing, At, Idle, Orderly, Distinct, Placed, UniqueValues, vars

(* Every step keeps the inductive invariant.                               *)
LEMMA NextIInv == PriorityOrderAssumption /\ IInv /\ [Next]_vars => IInv'
<1> SUFFICES ASSUME PriorityOrderAssumption, IInv, [Next]_vars PROVE IInv'
  OBVIOUS
<1>1. ASSUME Handler PROVE IInv'
  BY <1>1, AssertStep, PageStep, LastPageStep DEF Handler
<1>2. ASSUME Terraform PROVE IInv'
  BY <1>2, IdleStep, BeginStep DEF Terraform
<1>3. ASSUME Environment PROVE IInv'
  BY <1>3, LateStep, ConsoleStep DEF Environment
<1> QED
  BY <1>1, <1>2, <1>3, StutterStep DEF Next

LEMMA IInvInvariant == Spec => []IInv
<1>1. Init => IInv
  BY PriorityOrderAssumption, InitIInv
<1>2. IInv /\ [Next]_vars => IInv'
  BY PriorityOrderAssumption, NextIInv
<1> QED
  BY <1>1, <1>2, PTL DEF Spec

-----------------------------------------------------------------------------
(* The state always has the shape that the module documents.               *)
THEOREM TypeCorrect == Spec => []TypeOK
<1>1. IInv => TypeOK
  <2> SUFFICES ASSUME IInv PROVE TypeOK
    OBVIOUS
  <2>1. Shape
    BY DEF IInv
  <2>2. late = NoPut \/ (late.id \in Automations /\ late.priority \in 1 .. MaxListed)
    BY <2>1 DEF Shape, Puts
  <2>3. op.attempt \in 0 .. 1 /\ op.result \in {"none", "ok", "error", "diverged"}
        /\ op.kind \in {"none", "apply", "read"} /\ state.managed \in BOOLEAN
    BY <2>1 DEF Shape, Operations
  <2> QED
    BY <2>1, <2>2, <2>3 DEF Shape, TypeOK, Orderly
<1> QED
  BY <1>1, IInvInvariant, PTL

(* An apply that nobody interrupts, on an order without duplicates, never  *)
(* takes back a position it has given: not by its next PUT, and not by a   *)
(* late one.                                                               *)
THEOREM PlacedStayPlaced == Spec => []PrefixHeld
<1>1. IInv => PrefixHeld
  BY DEF IInv, Shape, Working, PrefixHeld, Held, Placed, At
<1> QED
  BY <1>1, IInvInvariant, PTL

(* A full reorder converges in one apply: for every number of automations, *)
(* every list and every page size, without interference and duplicates the *)
(* verification never fails and the automations that are not listed keep   *)
(* their relative order.                                                   *)
THEOREM Convergence == Spec => []FullReorderConverges
<1>1. IInv => FullReorderConverges
  <2> SUFFICES ASSUME IInv, Undisturbed PROVE FullReorderConverges
    BY DEF FullReorderConverges
  <2>1. op.result # "diverged"
    BY DEF IInv, NoDivergence
  <2>2. ASSUME ~Idle
        PROVE  \A a, b \in DOMAIN prio \ Listing : Before(before, a, b) = Before(prio, a, b)
    <3>1. CASE op.kind = "apply"
      BY <3>1 DEF IInv, Working
    <3>2. CASE op.kind = "read"
      <4>1. before = prio
        BY <3>2 DEF IInv, Reading, Undisturbed
      <4> QED
        BY <4>1
    <3> QED
      BY <2>2, <3>1, <3>2 DEF IInv, Shape, Idle
  <2> QED
    BY <2>1, <2>2 DEF FullReorderConverges, Listing
<1> QED
  BY <1>1, IInvInvariant, PTL

(* What an apply or a refresh saves is what the service evaluates first,   *)
(* for every order, list and page size, whoever retries: unless somebody   *)
(* else has moved automations, or a late PUT has met an order with         *)
(* duplicates.                                                             *)
THEOREM SavedIsAchieved == Spec => []SavedOrderIsAchieved
<1>1. IInv => SavedOrderIsAchieved
  BY DEF IInv, Saved, AtTop, SavedOrderIsAchieved
<1> QED
  BY <1>1, IInvInvariant, PTL
-----------------------------------------------------------------------------
(* Lemmas about a move within the priorities there are.                    *)

(* Automations with priorities of their own need as many of them.          *)
LEMMA HighestReaches ==
    ASSUME NEW p, Orderly(p), Distinct(p), DOMAIN p # {}
    PROVE  Cardinality(DOMAIN p) \in Nat /\ Cardinality(DOMAIN p) <= Highest(p)
<1> DEFINE f == [a \in DOMAIN p |-> p[a]]
           S == 1 .. Highest(p)
<1>1. Highest(p) \in Nat \ {0} /\ \A a \in DOMAIN p : p[a] \in S
  BY HighestIsGreatest DEF Orderly
<1>2. f \in [DOMAIN p -> S] /\ \A a, b \in DOMAIN p : f[a] = f[b] => a = b
  BY <1>1 DEF Distinct
<1>3. IsFiniteSet(S) /\ Cardinality(S) = Highest(p)
  BY <1>1, FS_Interval
<1>4. IsFiniteSet(DOMAIN p) /\ Cardinality(DOMAIN p) \in Nat
  BY FS_CardinalityType DEF Orderly
<1> HIDE DEF f, S
<1>5. f \in Injection(DOMAIN p, S)
  BY <1>2 DEF Injection, IsInjective
<1> QED
  BY <1>3, <1>4, <1>5, FS_Injection

(* What a move of a to priority n does to the priority of another.         *)
Shifted(p, a, n, b) ==
    IF n <= p[b] /\ p[b] < p[a] THEN p[b] + 1
    ELSE IF p[a] < p[b] /\ p[b] <= n THEN p[b] - 1
    ELSE p[b]

(* A priority there is is not clamped, and only those in between move.     *)
LEMMA MovedTo ==
    ASSUME NEW p, Orderly(p), NEW a \in DOMAIN p, NEW n \in 1 .. Highest(p)
    PROVE  /\ Moved(p, a, n)[a] = n
           /\ \A b \in DOMAIN p \ {a} :
                Moved(p, a, n)[b] = Shifted(p, a, n, b)
<1> DEFINE q == Moved(p, a, n)
<1>1. Highest(p) \in Nat /\ Clamped(p, n) = n
  BY HighestIsGreatest DEF Clamped
<1>2. q[a] = n
  BY <1>1 DEF Moved
<1>3. ASSUME NEW b \in DOMAIN p \ {a}
      PROVE  q[b] = Shifted(p, a, n, b)
  <2>1. q[b] = CASE b = a -> n
                 [] b # a /\ n <= p[b] /\ p[b] < p[a] -> p[b] + 1
                 [] b # a /\ p[a] < p[b] /\ p[b] <= n -> p[b] - 1
                 [] OTHER -> p[b]
    BY <1>1 DEF Moved
  <2>2. p[a] \in Nat /\ p[b] \in Nat
    BY DEF Orderly
  <2> HIDE DEF q
  <2> QED
    BY <2>1, <2>2 DEF Shifted
<1> QED
  BY <1>2, <1>3

-----------------------------------------------------------------------------
(* Several owners of the order: AutomationOrder.                           *)

(* Some owner of the order asks for position n for automation a.           *)
Wants(a, n) == (n # 0 /\ pins[a] = n) \/ (n \in DOMAIN list /\ list[n] = a)

(* The handlers that run will still move a to the position it should have. *)
Pending(a) ==
    \/ at[a] # "idle"
    \/ at[TheList] = "assert" /\ \E i \in next .. Len(list) : list[i] = a

(* The order is duplicate-free, and the handlers know what they are about. *)
OwnersShape ==
    /\ OwnersTypeOK
    /\ Compatible
    /\ \A a \in Ids : at[a] # "idle" => pins[a] # 0
    /\ at[TheList] # "idle" => list # << >>
    /\ saved => at[TheList] = "idle"
    /\ attempt = 0

(* What the list has placed stays placed: the entries so far while it is   *)
(* asserted, and all of it once it is saved.  This is why it never needs   *)
(* its second attempt.                                                     *)
ListPlaced ==
    /\ at[TheList] = "assert" => Placed(standing, list, next - 1)
    /\ at[TheList] = "list" \/ saved => Placed(standing, list, Len(list))

(* An order without gaps at first never gets any.                          *)
Gapless == \A a \in Ids : legacy[a] = a
StaysGapless == Gapless => \A a \in Ids : standing[a] <= Count

(* After k applies the k lowest of the wanted positions, and the k highest,*)
(* are settled for good: nothing that wants one of the lowest is above it, *)
(* and nothing that wants one of the highest is below it.                  *)
OutermostSettled ==
    Gapless /\ failures = 0 =>
        \A a \in Ids, n \in Ids : Wants(a, n) =>
            /\ n > Count - applies =>
                 standing[a] >= n \/ (n = Count - applies + 1 /\ Pending(a))
            /\ n <= applies =>
                 standing[a] <= n \/ (n = applies /\ Pending(a))

(* The list is done in the first apply, when no call fails.                *)
ListDone ==
    applies >= 1 /\ list # << >> /\ failures = 0 => saved \/ at[TheList] # "idle"

OwnersInv ==
    OwnersShape /\ ListPlaced /\ StaysGapless /\ OutermostSettled /\ ListDone /\ FewApplies

(* The order of AutomationOrder is one of those the lemmas are about, and  *)
(* its priorities reach as far as there are automations.                   *)
LEMMA StandingIsOrderly ==
    ASSUME AutomationOrderAssumption, OwnersTypeOK
    PROVE  /\ Orderly(standing) /\ Distinct(standing) /\ DOMAIN standing = Ids
           /\ Cardinality(Ids) = Count /\ Count \in Nat /\ MaxLegacy \in Nat
           /\ \A a \in Ids : standing[a] \in 1 .. MaxLegacy
           /\ Ids # {} => /\ Highest(standing) \in Nat /\ Count <= Highest(standing)
                          /\ Highest(standing) <= MaxLegacy
                          /\ \A a \in Ids : standing[a] <= Highest(standing)
                          /\ \E a \in Ids : standing[a] = Highest(standing)
<1>1. Count \in Nat /\ MaxLegacy \in Nat
  BY DEF AutomationOrderAssumption
<1>2. IsFiniteSet(Ids) /\ Cardinality(Ids) = Count /\ Ids \subseteq Nat
  <2>1. ASSUME NEW n \in Nat PROVE IsFiniteSet(1 .. n) /\ Cardinality(1 .. n) = n
    <3>1. 1 \in Int /\ n \in Int
      OBVIOUS
    <3>2. IsFiniteSet(1 .. n) /\ Cardinality(1 .. n) = IF 1 > n THEN 0 ELSE n - 1 + 1
      BY <3>1, FS_Interval
    <3> QED
      BY <3>2
  <2>2. 1 .. Count \subseteq Nat
    OBVIOUS
  <2> QED
    BY <1>1, <2>1, <2>2 DEF Ids
<1>3. DOMAIN standing = Ids /\ Distinct(standing) /\ \A a \in Ids : standing[a] \in 1 .. MaxLegacy
  BY DEF OwnersTypeOK
<1>4. Orderly(standing)
  <2>1. \A a \in Ids : standing[a] \in Nat \ {0} /\ standing[a] <= MaxLegacy
    BY <1>1, <1>3
  <2> QED
    BY <1>1, <1>2, <1>3, <2>1 DEF Orderly
<1>5. Ids # {} => /\ Highest(standing) \in Nat
                  /\ \E a \in Ids : standing[a] = Highest(standing)
                  /\ \A a \in Ids : standing[a] <= Highest(standing)
  BY <1>3, <1>4, HighestIsGreatest
<1>6. Ids # {} => Count <= Highest(standing)
  BY <1>2, <1>3, <1>4, HighestReaches
<1> QED
  BY <1>1, <1>2, <1>3, <1>4, <1>5, <1>6

(* So a request for one of the first Count positions is met exactly, and   *)
(* leaves such an order.                                                   *)
LEMMA MoveInRange ==
    ASSUME AutomationOrderAssumption, OwnersTypeOK, NEW a \in Ids, NEW n \in Ids
    PROVE  /\ DOMAIN Moved(standing, a, n) = Ids /\ Distinct(Moved(standing, a, n))
           /\ \A b \in Ids : Moved(standing, a, n)[b] \in 1 .. MaxLegacy
           /\ Moved(standing, a, n)[a] = n
           /\ \A b \in Ids \ {a} :
                Moved(standing, a, n)[b] = Shifted(standing, a, n, b)
           /\ (\A b \in Ids : standing[b] <= Count) =>
                \A b \in Ids : Moved(standing, a, n)[b] <= Count
<1> DEFINE q == Moved(standing, a, n)
<1>1. /\ Orderly(standing) /\ Distinct(standing) /\ DOMAIN standing = Ids
      /\ Count \in Nat /\ MaxLegacy \in Nat
      /\ \A b \in Ids : standing[b] \in 1 .. MaxLegacy
      /\ Highest(standing) \in Nat /\ Count <= Highest(standing)
      /\ Highest(standing) <= MaxLegacy
      /\ \A b \in Ids : standing[b] <= Highest(standing)
  BY StandingIsOrderly
<1>2. n \in Nat \ {0} /\ n <= Count /\ n \in 1 .. Highest(standing)
  BY <1>1 DEF Ids
<1>3. Orderly(q) /\ DOMAIN q = Ids /\ Distinct(q)
  BY <1>1, <1>2, MovedOrderly, MovedDistinct
<1>4. /\ q[a] = n
      /\ \A b \in Ids \ {a} :
           q[b] = Shifted(standing, a, n, b)
  BY <1>1, <1>2, MovedTo
<1> HIDE DEF q
<1>5. ASSUME NEW b \in Ids PROVE q[b] \in 1 .. MaxLegacy
  BY <1>1, <1>2, <1>4 DEF Shifted
<1>6. ASSUME \A b \in Ids : standing[b] <= Count, NEW b \in Ids PROVE q[b] <= Count
  BY <1>1, <1>2, <1>4, <1>6 DEF Shifted
<1> QED
  BY <1>3, <1>4, <1>5, <1>6 DEF q

(* Owners that are compatible want one position for an automation, and no  *)
(* two automations want the same.                                          *)
LEMMA WantsOnce ==
    ASSUME AutomationOrderAssumption, OwnersShape
    PROVE  /\ \A a \in Ids : \A n : Wants(a, n) => n \in Ids
           /\ \A a, b \in Ids, n, m \in Ids : Wants(a, n) /\ Wants(b, m) => (a = b <=> n = m)
<1>1. PICK p \in [Ids -> Ids] : Distinct(p) /\ Met(p)
  BY DEF OwnersShape, Compatible
<1>2. pins \in [Ids -> 0 .. Count]
  BY DEF OwnersShape, OwnersTypeOK
<1>3. ASSUME NEW a \in Ids, NEW n, Wants(a, n) PROVE p[a] = n
  BY <1>1, <1>2, <1>3 DEF Wants, Met
<1> QED
  BY <1>1, <1>3 DEF Distinct

(* The entries of the list are automations that it wants placed.           *)
LEMMA Entries ==
    ASSUME AutomationOrderAssumption, OwnersTypeOK
    PROVE  /\ list \in Seq(Ids) /\ Len(list) \in Nat /\ DOMAIN list = 1 .. Len(list)
           /\ \A i \in 1 .. Len(list) : list[i] \in Ids /\ Wants(list[i], i)
           /\ list = << >> <=> Len(list) = 0
<1>1. PICK n \in 0 .. MaxEntries : list \in [1 .. n -> Ids]
  BY DEF OwnersTypeOK, BulkLists
<1>2. MaxEntries \in Nat /\ n \in Nat
  BY DEF AutomationOrderAssumption
<1>3. list \in Seq(Ids) /\ Len(list) = n /\ DOMAIN list = 1 .. n
  BY <1>1, <1>2
<1>4. \A i \in 1 .. n : list[i] \in Ids /\ Wants(list[i], i)
  BY <1>1, <1>3 DEF Wants
<1>5. list = << >> <=> Len(list) = 0
  BY <1>3, EmptySeq
<1> QED
  BY <1>2, <1>3, <1>4, <1>5

(* No owner displaces what the list has placed, and the next entry joins   *)
(* it.                                                                     *)
LEMMA PlacedKept ==
    ASSUME AutomationOrderAssumption, OwnersShape, NEW a \in Ids, NEW n \in Ids, Wants(a, n),
           NEW k \in 0 .. Len(list), Placed(standing, list, k)
    PROVE  /\ Placed(Moved(standing, a, n), list, k)
           /\ n = k + 1 => \A i \in DOMAIN list :
                i = n /\ list[i] = a => Placed(Moved(standing, a, n), list, k + 1)
<1> DEFINE q == Moved(standing, a, n)
<1>1. OwnersTypeOK
  BY DEF OwnersShape
<1>2. /\ Len(list) \in Nat /\ k \in Nat
      /\ \A i \in 1 .. k : list[i] \in Ids /\ Wants(list[i], i) /\ standing[list[i]] = i
  BY <1>1, Entries DEF Placed
<1>3. Count \in Nat /\ \A b \in Ids : standing[b] \in Nat /\ standing[b] # 0
  BY <1>1, StandingIsOrderly
<1>4. /\ DOMAIN q = Ids /\ q[a] = n
      /\ \A b \in Ids \ {a} :
           q[b] = Shifted(standing, a, n, b)
  BY <1>1, MoveInRange
<1>5. n \in Nat \ {0}
  BY <1>3 DEF Ids
<1>6. \A b, c \in Ids : standing[b] = standing[c] => b = c
  BY <1>1 DEF OwnersTypeOK, Distinct
<1> HIDE DEF q
<1>7. ASSUME NEW i \in 1 .. k PROVE q[list[i]] = i
  <2>1. i \in Ids
    BY <1>2, WantsOnce
  <2>2. CASE list[i] = a
    <3>1. n = i
      BY <1>2, <2>1, <2>2, WantsOnce
    <3> QED
      BY <1>4, <2>2, <3>1
  <2>3. CASE list[i] # a
    <3>1. n # i
      <4>1. list[i] \in Ids /\ Wants(list[i], i)
        BY <1>2
      <4> QED
        BY <2>1, <2>3, <4>1, WantsOnce
    <3>2. ASSUME n < i PROVE standing[a] = n
      <4>1. n \in 1 .. k /\ Wants(list[n], n)
        BY <1>2, <1>5, <3>2
      <4>2. list[n] = a
        BY <1>2, <4>1, WantsOnce
      <4> QED
        BY <1>2, <4>1, <4>2
    <3>3. ASSUME standing[a] < i PROVE n < i
      <4> DEFINE j == standing[a]
      <4>1. j \in 1 .. k
        BY <1>2, <1>3, <3>3
      <4>2. list[j] = a
        BY <1>2, <1>6, <4>1
      <4>3. Wants(a, j) /\ j \in Ids
        BY <1>2, <4>1, <4>2, WantsOnce
      <4>4. n = j
        BY <4>3, WantsOnce
      <4> QED
        BY <3>3, <4>4
    <3>4. standing[list[i]] = i /\ list[i] \in Ids \ {a} /\ standing[a] \in Nat /\ i \in Nat
      BY <1>2, <1>3, <2>3
    <3>5. q[list[i]] = IF n <= i /\ i < standing[a] THEN i + 1
                       ELSE IF standing[a] < i /\ i <= n THEN i - 1
                       ELSE i
      BY <1>4, <3>4 DEF Shifted
    <3> QED
      BY <1>5, <3>1, <3>2, <3>3, <3>4, <3>5
  <2> QED
    BY <2>2, <2>3
<1>8. Placed(q, list, k)
  BY <1>2, <1>4, <1>7 DEF Placed
<1>9. ASSUME n = k + 1, NEW i \in DOMAIN list, i = n, list[i] = a
      PROVE  Placed(q, list, k + 1)
  BY <1>2, <1>4, <1>7, <1>9 DEF Placed
<1> QED
  BY <1>8, <1>9 DEF q

(* A list in place is what is at the top of the ranking.                   *)
LEMMA PlacedLeads ==
    ASSUME AutomationOrderAssumption, OwnersTypeOK, Placed(standing, list, Len(list))
    PROVE  Leading(Len(list)) = list
<1> DEFINE n == Len(list)
           s == Ranking(standing)
<1>1. Orderly(standing) /\ Distinct(standing) /\ DOMAIN standing = Ids
  BY StandingIsOrderly
<1>2. list \in Seq(Ids) /\ n \in Nat
  BY Entries
<1>3. /\ Cardinality(Ids) \in Nat /\ n <= Cardinality(Ids)
      /\ \A i \in 1 .. n : s[i] = list[i]
  BY <1>1, <1>2, RankingOfPlaced
<1>4. \A i \in 1 .. n : s[i] \in Ids
  BY <1>2, <1>3, ElementOfSeq
<1> HIDE DEF s
<1>5. /\ SubSeq(s, 1, n) \in Seq(Ids)
      /\ Len(SubSeq(s, 1, n)) = IF 1 <= n THEN n - 1 + 1 ELSE 0
      /\ \A i \in 1 .. n - 1 + 1 : SubSeq(s, 1, n)[i] = s[1 + i - 1]
  BY <1>2, <1>4, SubSeqProperties
<1>6. Len(SubSeq(s, 1, n)) = n /\ \A i \in 1 .. n : SubSeq(s, 1, n)[i] = list[i]
  <2>1. \A i \in 1 .. n : SubSeq(s, 1, n)[i] = s[1 + i - 1] /\ 1 + i - 1 = i
    BY <1>2, <1>5
  <2> QED
    BY <1>2, <1>3, <1>5, <2>1
<1>7. SubSeq(s, 1, n) = list
  BY <1>2, <1>5, <1>6, SeqEqual
<1> QED
  BY <1>7 DEF s, Leading

(* A move for one owner unsettles no automation that wants another         *)
(* position: to pass it, the moved one would have to leave a settled       *)
(* position of its own.                                                    *)
LEMMA MoveSettles ==
    ASSUME AutomationOrderAssumption, OwnersShape, OutermostSettled, Gapless, failures = 0,
           NEW b \in Ids, NEW m \in Ids, Wants(b, m),
           NEW a \in Ids, NEW n \in Ids, Wants(a, n), a # b
    PROVE  /\ n > Count - applies =>
                Moved(standing, b, m)[a] >= n \/ (n = Count - applies + 1 /\ Pending(a))
           /\ n <= applies =>
                Moved(standing, b, m)[a] <= n \/ (n = applies /\ Pending(a))
<1> DEFINE new == Moved(standing, b, m)[a]
<1>1. OwnersTypeOK
  BY DEF OwnersShape
<1>2. /\ Count \in Nat /\ standing[a] \in Nat /\ standing[b] \in Nat
      /\ standing[a] # standing[b]
  BY <1>1, StandingIsOrderly DEF Distinct
<1>3. new = Shifted(standing, b, m, a)
  BY <1>1, MoveInRange
<1>4. n \in Nat /\ m \in Nat /\ n # m
  <2>1. n # m
    BY WantsOnce
  <2> QED
    BY <1>2, <2>1 DEF Ids
<1>5. applies \in Nat
  BY <1>1, <1>2 DEF OwnersTypeOK
<1>6. /\ n > Count - applies => standing[a] >= n \/ (n = Count - applies + 1 /\ Pending(a))
      /\ n <= applies => standing[a] <= n \/ (n = applies /\ Pending(a))
  BY DEF OutermostSettled
<1>7. /\ m > Count - applies => standing[b] >= m \/ m = Count - applies + 1
      /\ m <= applies => standing[b] <= m \/ m = applies
  BY DEF OutermostSettled
<1> HIDE DEF new
<1>8. n > Count - applies => new >= n \/ (n = Count - applies + 1 /\ Pending(a))
  <2> SUFFICES ASSUME n > Count - applies, standing[a] >= n
               PROVE  new >= n
    BY <1>6
  <2> QED
    BY <1>2, <1>3, <1>4, <1>5, <1>7 DEF Shifted
<1>9. n <= applies => new <= n \/ (n = applies /\ Pending(a))
  <2> SUFFICES ASSUME n <= applies, standing[a] <= n
               PROVE  new <= n
    BY <1>6
  <2> QED
    BY <1>2, <1>3, <1>4, <1>5, <1>7 DEF Shifted
<1> QED
  BY <1>8, <1>9 DEF new

(* What an owner asks for when its handler runs.                           *)
LEMMA Asked ==
    ASSUME AutomationOrderAssumption, OwnersShape
    PROVE  /\ TheList \notin Ids /\ Owners = Ids \cup {TheList}
           /\ Count \in Nat /\ applies \in Nat
           /\ \A a \in Ids : pins[a] # 0 => pins[a] \in Ids /\ Wants(a, pins[a])
           /\ at[TheList] = "assert" =>
                /\ next \in 1 .. Len(list) /\ next \in Ids
                /\ list[next] \in Ids /\ Wants(list[next], next)
<1>1. OwnersTypeOK /\ Count \in Nat
  BY StandingIsOrderly DEF OwnersShape
<1>2. TheList \notin Ids /\ Owners = Ids \cup {TheList}
  BY <1>1 DEF TheList, Ids, Owners
<1>3. ASSUME NEW a \in Ids, pins[a] # 0 PROVE pins[a] \in Ids /\ Wants(a, pins[a])
  BY <1>1, <1>3 DEF OwnersTypeOK, Ids, Wants
<1>4. ASSUME at[TheList] = "assert"
      PROVE  /\ next \in 1 .. Len(list) /\ next \in Ids
             /\ list[next] \in Ids /\ Wants(list[next], next)
  <2>1. next \in 1 .. Len(list) /\ list[next] \in Ids /\ Wants(list[next], next)
    BY <1>1, <1>4, Entries DEF OwnersTypeOK
  <2> QED
    BY <2>1, WantsOnce
<1>5. applies \in Nat
  BY <1>1 DEF OwnersTypeOK
<1> QED
  BY <1>1, <1>2, <1>3, <1>4, <1>5

-----------------------------------------------------------------------------
(* The invariant, action by action.                                        *)

(* All owners are met when nobody is at work and enough applies have run.  *)
LEMMA NothingToApply ==
    ASSUME AutomationOrderAssumption, OwnersInv, Resting, failures = 0, applies >= 1
    PROVE  /\ ~ListDrifted
           /\ Gapless /\ applies >= Count - 1 => \A a \in Ids : ~PinDrifted(a)
<1>1. OwnersShape /\ OwnersTypeOK /\ Count \in Nat /\ applies \in Nat
  BY Asked DEF OwnersInv, OwnersShape
<1>2. ~ListDrifted
  <2> SUFFICES ASSUME list # << >> PROVE saved /\ Leading(Len(list)) = list
    BY DEF ListDrifted
  <2>1. saved
    BY <1>1, Asked DEF OwnersInv, ListDone, Resting
  <2>2. Placed(standing, list, Len(list))
    BY <2>1 DEF OwnersInv, ListPlaced
  <2> QED
    BY <1>1, <2>1, <2>2, PlacedLeads
<1>3. ASSUME Gapless, applies >= Count - 1, NEW a \in Ids, pins[a] # 0
      PROVE  standing[a] = pins[a]
  <2> DEFINE n == pins[a]
  <2>1. n \in Ids /\ Wants(a, n)
    BY <1>1, <1>3, Asked
  <2>2. ~Pending(a)
    BY <1>1, Asked DEF Resting, Pending
  <2>3. /\ n > Count - applies => standing[a] >= n
        /\ n <= applies => standing[a] <= n
    BY <1>3, <2>1, <2>2 DEF OwnersInv, OutermostSettled
  <2>4. standing[a] \in Nat /\ standing[a] >= 1 /\ standing[a] <= Count
    BY <1>1, <1>3, StandingIsOrderly DEF OwnersInv, StaysGapless
  <2>5. n \in Nat /\ 1 <= n /\ n <= Count
    BY <1>1, <2>1 DEF Ids
  <2> HIDE DEF n
  <2>6. standing[a] = n
    BY <1>1, <1>3, <2>3, <2>4, <2>5
  <2> QED
    BY <2>6 DEF n
<1> QED
  BY <1>2, <1>3 DEF PinDrifted

(* A refresh and a plan start the handlers of those that have drifted.     *)
LEMMA ApplyStep ==
    ASSUME AutomationOrderAssumption, OwnersInv, Apply
    PROVE  OwnersInv'
<1>1. OwnersShape /\ OwnersTypeOK
  BY DEF OwnersInv, OwnersShape
<1>2. /\ TheList \notin Ids /\ Owners = Ids \cup {TheList}
      /\ Count \in Nat /\ applies \in Nat /\ applies <= Count + 1
  BY <1>1, Asked DEF OwnersTypeOK
<1>3. /\ standing' = standing /\ legacy' = legacy /\ pins' = pins /\ list' = list
      /\ referring' = referring /\ saved' = saved /\ failures' = failures
      /\ next' = 1 /\ attempt' = 0
      /\ applies' = (IF applies <= Count THEN applies + 1 ELSE applies)
  BY DEF Apply, wanted
<1>4. /\ DOMAIN at' = Owners
      /\ at'[TheList] = IF ListDrifted THEN "assert" ELSE "idle"
      /\ \A a \in Ids : at'[a] = IF PinDrifted(a) THEN "verify" ELSE "idle"
  <2>1. at' = [o \in Owners |->
                CASE o = TheList /\ ListDrifted -> "assert"
                  [] o # TheList /\ PinDrifted(o) -> "verify"
                  [] OTHER -> "idle"]
    BY DEF Apply
  <2> QED
    BY <1>2, <2>1
<1>5. applies' \in Nat /\ applies' <= Count + 1
  BY <1>2, <1>3
<1>6. ListDrifted => 1 \in DOMAIN list /\ list # << >>
  BY <1>1, Entries DEF ListDrifted
<1>7. OwnersTypeOK'
  <2>1. applies' \in 0 .. Count + 1
    BY <1>2, <1>5
  <2>2. at'[TheList] \in {"idle", "assert", "list"} /\ \A a \in Ids : at'[a] \in {"idle", "verify", "set"}
    BY <1>4
  <2>3. at'[TheList] = "assert" => next' \in DOMAIN list'
    BY <1>3, <1>4, <1>6
  <2> QED
    BY <1>1, <1>3, <1>4, <2>1, <2>2, <2>3 DEF OwnersTypeOK
<1>8. saved => ~ListDrifted
  BY <1>1, PlacedLeads DEF OwnersInv, ListPlaced, ListDrifted
<1>9. Compatible'
  BY <1>1, <1>3 DEF OwnersShape, Compatible, Met
<1>10. OwnersShape'
  BY <1>3, <1>4, <1>6, <1>7, <1>8, <1>9 DEF OwnersShape, PinDrifted
<1>11. ListPlaced'
  BY <1>3, <1>4 DEF OwnersInv, ListPlaced, Placed
<1>12. StaysGapless'
  BY <1>3 DEF OwnersInv, StaysGapless, Gapless
<1>13. OutermostSettled'
  <2> SUFFICES ASSUME Gapless, failures = 0, NEW a \in Ids, NEW n \in Ids, Wants(a, n)
               PROVE  /\ n > Count - applies' =>
                           standing[a] >= n \/ (n = Count - applies' + 1 /\ Pending(a)')
                      /\ n <= applies' =>
                           standing[a] <= n \/ (n = applies' /\ Pending(a)')
    BY <1>3 DEF OutermostSettled, Gapless, Wants
  <2>1. ~Pending(a)
    BY <1>2 DEF Apply, Resting, Pending
  <2>2. /\ n > Count - applies => standing[a] >= n
        /\ n <= applies => standing[a] <= n
    BY <2>1 DEF OwnersInv, OutermostSettled
  <2>3. n \in Nat /\ n <= Count /\ standing[a] \in Nat
    BY <1>1, <1>2, StandingIsOrderly DEF Ids
  <2>4. ASSUME standing[a] # n PROVE Pending(a)'
    <3>1. CASE n # 0 /\ pins[a] = n
      BY <1>4, <2>4, <3>1 DEF PinDrifted, Pending
    <3>2. CASE n \in DOMAIN list /\ list[n] = a
      <4>1. n \in 1 .. Len(list) /\ Len(list) \in Nat /\ list # << >>
        BY <1>1, <3>2, Entries
      <4>2. ~saved
        BY <2>4, <3>2, <4>1 DEF OwnersInv, ListPlaced, Placed
      <4>3. at'[TheList] = "assert"
        BY <1>4, <4>1, <4>2 DEF ListDrifted
      <4> QED
        BY <1>3, <3>2, <4>1, <4>3 DEF Pending
    <3> QED
      BY <3>1, <3>2 DEF Wants
  <2> QED
    BY <1>2, <1>3, <2>2, <2>3, <2>4
<1>14. ListDone'
  <2> SUFFICES ASSUME list # << >>, ~saved PROVE at'[TheList] # "idle"
    BY <1>3 DEF ListDone
  <2> QED
    BY <1>4 DEF ListDrifted
<1>15. FewApplies'
  <2> SUFFICES ASSUME failures = 0
               PROVE  /\ Gapless => applies' <= 1 \/ applies' < Count
                      /\ (\A a \in Ids : pins[a] = 0) => applies' <= 1
    BY <1>3 DEF FewApplies, Gapless
  <2>1. applies >= 1 => ~ListDrifted
    BY NothingToApply DEF Apply
  <2>2. ASSUME Gapless PROVE applies' <= 1 \/ applies' < Count
    <3>1. applies >= 1 => applies < Count - 1
      BY <1>2, <2>1, <2>2, NothingToApply DEF Apply
    <3> QED
      BY <1>2, <1>3, <3>1
  <2>3. ASSUME \A a \in Ids : pins[a] = 0 PROVE applies' <= 1
    <3>1. ~(applies >= 1)
      BY <2>1, <2>3 DEF Apply, PinDrifted
    <3> QED
      BY <1>2, <1>3, <3>1
  <2> QED
    BY <2>2, <2>3
<1> QED
  BY <1>10, <1>11, <1>12, <1>13, <1>14, <1>15 DEF OwnersInv

(* What no handler changes.                                                *)
LEMMA Unplanned ==
    ASSUME AutomationOrderAssumption, OwnersInv, OwnersNext, ~Apply
    PROVE  /\ legacy' = legacy /\ pins' = pins /\ list' = list /\ referring' = referring
           /\ applies' = applies
           /\ Compatible'
           /\ \A a, n : Wants(a, n)' = Wants(a, n)
<1>1. /\ legacy' = legacy /\ pins' = pins /\ list' = list /\ referring' = referring
      /\ applies' = applies
  BY DEF OwnersNext, Handle, updatePriorityOnly, applyPriority, assertOrder, applyOrder, wanted
<1>2. Compatible'
  BY <1>1 DEF OwnersInv, OwnersShape, Compatible, Met
<1>3. \A a, n : Wants(a, n)' = Wants(a, n)
  BY <1>1 DEF Wants
<1> QED
  BY <1>1, <1>2, <1>3

(* An automation whose priority has come right has nothing to do.          *)
LEMMA VerifyStep ==
    ASSUME AutomationOrderAssumption, OwnersInv, ~Apply, OwnersNext,
           NEW a \in Ids, updatePriorityOnly(a)
    PROVE  OwnersInv'
<1>1. OwnersShape /\ OwnersTypeOK /\ TheList \notin Ids /\ Owners = Ids \cup {TheList}
  BY Asked DEF OwnersInv, OwnersShape
<1>2. /\ standing' = standing /\ saved' = saved /\ next' = next /\ attempt' = attempt
      /\ failures' = failures
      /\ at[a] = "verify"
      /\ at' = [at EXCEPT ![a] = IF standing[a] = pins[a] THEN "idle" ELSE "set"]
  BY DEF updatePriorityOnly
<1>3. /\ legacy' = legacy /\ pins' = pins /\ list' = list /\ referring' = referring
      /\ applies' = applies /\ Compatible' /\ \A b, n : Wants(b, n)' = Wants(b, n)
  BY Unplanned
<1>4. /\ DOMAIN at' = Owners /\ at'[TheList] = at[TheList]
      /\ at'[a] = IF standing[a] = pins[a] THEN "idle" ELSE "set"
      /\ \A b \in Ids \ {a} : at'[b] = at[b]
  BY <1>1, <1>2 DEF OwnersTypeOK
<1>5. OwnersTypeOK'
  <2>1. \A b \in Ids : at'[b] \in {"idle", "verify", "set"}
    BY <1>1, <1>4 DEF OwnersTypeOK
  <2> QED
    BY <1>1, <1>2, <1>3, <1>4, <2>1 DEF OwnersTypeOK
<1>6. OwnersShape'
  <2>1. \A b \in Ids : at'[b] # "idle" => pins'[b] # 0
    BY <1>2, <1>3, <1>4 DEF OwnersInv, OwnersShape
  <2> QED
    BY <1>1, <1>2, <1>3, <1>4, <1>5, <2>1 DEF OwnersShape
<1>7. ListPlaced'
  BY <1>2, <1>3, <1>4 DEF OwnersInv, ListPlaced, Placed
<1>8. StaysGapless'
  BY <1>2, <1>3 DEF OwnersInv, StaysGapless, Gapless
<1>9. OutermostSettled'
  <2> SUFFICES ASSUME Gapless, failures = 0, NEW b \in Ids, NEW n \in Ids, Wants(b, n)
               PROVE  /\ n > Count - applies =>
                           standing[b] >= n \/ (n = Count - applies + 1 /\ Pending(b)')
                      /\ n <= applies =>
                           standing[b] <= n \/ (n = applies /\ Pending(b)')
    BY <1>2, <1>3 DEF OutermostSettled, Gapless
  <2>1. /\ n > Count - applies =>
             standing[b] >= n \/ (n = Count - applies + 1 /\ Pending(b))
        /\ n <= applies =>
             standing[b] <= n \/ (n = applies /\ Pending(b))
    BY DEF OwnersInv, OutermostSettled
  <2>2. CASE b = a /\ standing[a] = pins[a]
    <3>1. n = pins[a]
      BY <1>1, <1>2, <2>2, Asked, WantsOnce DEF OwnersShape
    <3>2. standing[b] = n /\ n \in Nat
      BY <1>1, <2>2, <3>1, Asked DEF Ids
    <3> QED
      BY <3>2
  <2>3. CASE ~(b = a /\ standing[a] = pins[a])
    <3>1. Pending(b) => Pending(b)'
      BY <1>2, <1>3, <1>4, <2>3 DEF Pending
    <3> QED
      BY <2>1, <3>1
  <2> QED
    BY <2>2, <2>3
<1>10. ListDone'
  BY <1>2, <1>3, <1>4 DEF OwnersInv, ListDone
<1>11. FewApplies'
  BY <1>2, <1>3 DEF OwnersInv, FewApplies
<1> QED
  BY <1>5, <1>6, <1>7, <1>8, <1>9, <1>10, <1>11 DEF OwnersInv

(* What every PUT of an owner leaves, whether it is told or not.           *)
LEMMA AfterPut ==
    ASSUME AutomationOrderAssumption, OwnersInv, NEW a \in Ids, NEW n \in Ids, Wants(a, n),
           NEW outcome \in PutOutcomes, PriorityEffect(outcome, a, n), Failing(outcome),
           legacy' = legacy
    PROVE  /\ DOMAIN standing' = Ids /\ Distinct(standing)'
           /\ \A b \in Ids : standing'[b] \in 1 .. MaxLegacy
           /\ failures' \in 0 .. MaxFailures
           /\ StaysGapless'
           /\ \A k \in 0 .. Len(list) :
                Placed(standing, list, k) => Placed(standing', list, k)
           /\ failures' = 0 => /\ failures = 0 /\ outcome = "fine"
                               /\ standing' = Moved(standing, a, n)
<1>1. OwnersShape /\ OwnersTypeOK
  BY DEF OwnersInv, OwnersShape
<1>2. standing' = standing \/ standing' = Moved(standing, a, n)
  BY DEF PriorityEffect
<1>3. DOMAIN standing' = Ids /\ Distinct(standing)' /\ \A b \in Ids : standing'[b] \in 1 .. MaxLegacy
  <2>1. DOMAIN standing' = Ids /\ Distinct(standing') /\ \A b \in Ids : standing'[b] \in 1 .. MaxLegacy
    BY <1>1, <1>2, MoveInRange, StandingIsOrderly
  <2> QED
    BY <2>1 DEF Distinct
<1>4. StaysGapless'
  BY <1>1, <1>2, MoveInRange DEF OwnersInv, StaysGapless, Gapless
<1>5. ASSUME NEW k \in 0 .. Len(list), Placed(standing, list, k) PROVE Placed(standing', list, k)
  BY <1>1, <1>2, <1>5, PlacedKept
<1>6. failures \in Nat /\ MaxFailures \in Nat
  BY <1>1 DEF AutomationOrderAssumption, OwnersTypeOK
<1>7. failures' \in 0 .. MaxFailures
  BY <1>6 DEF Failing
<1>8. ASSUME failures' = 0 PROVE failures = 0 /\ outcome = "fine" /\ standing' = Moved(standing, a, n)
  <2>1. outcome = "fine" /\ failures = 0
    BY <1>6, <1>8 DEF Failing
  <2> QED
    BY <2>1 DEF PriorityEffect
<1> QED
  BY <1>3, <1>4, <1>5, <1>7, <1>8

(* The PUT of an automation with a priority of its own.                    *)
LEMMA PinStep ==
    ASSUME AutomationOrderAssumption, OwnersInv, ~Apply, OwnersNext,
           NEW a \in Ids, NEW outcome \in PutOutcomes, applyPriority(a, outcome)
    PROVE  OwnersInv'
<1>1. OwnersShape /\ OwnersTypeOK /\ TheList \notin Ids /\ Owners = Ids \cup {TheList}
  BY Asked DEF OwnersInv, OwnersShape
<1>2. /\ at[a] = "set" /\ Failing(outcome) /\ PriorityEffect(outcome, a, pins[a])
      /\ at' = [at EXCEPT ![a] = "idle"]
      /\ saved' = saved /\ next' = next /\ attempt' = attempt
  BY DEF applyPriority
<1>3. /\ legacy' = legacy /\ pins' = pins /\ list' = list /\ referring' = referring
      /\ applies' = applies /\ Compatible' /\ \A b, n : Wants(b, n)' = Wants(b, n)
  BY Unplanned
<1>4. /\ DOMAIN at' = Owners /\ at'[TheList] = at[TheList] /\ at'[a] = "idle"
      /\ \A b \in Ids \ {a} : at'[b] = at[b]
  BY <1>1, <1>2 DEF OwnersTypeOK
<1>5. pins[a] \in Ids /\ Wants(a, pins[a])
  BY <1>1, <1>2, Asked DEF OwnersShape
<1>6. /\ DOMAIN standing' = Ids /\ Distinct(standing)'
      /\ \A b \in Ids : standing'[b] \in 1 .. MaxLegacy
      /\ failures' \in 0 .. MaxFailures
      /\ StaysGapless'
      /\ \A k \in 0 .. Len(list) :
           Placed(standing, list, k) => Placed(standing', list, k)
      /\ failures' = 0 => failures = 0 /\ standing' = Moved(standing, a, pins[a])
  BY <1>2, <1>3, <1>5, AfterPut
<1>7. OwnersTypeOK'
  <2>1. \A b \in Ids : at'[b] \in {"idle", "verify", "set"}
    BY <1>1, <1>4 DEF OwnersTypeOK
  <2> QED
    BY <1>1, <1>2, <1>3, <1>4, <1>6, <2>1 DEF OwnersTypeOK
<1>8. OwnersShape'
  <2>1. \A b \in Ids : at'[b] # "idle" => pins'[b] # 0
    BY <1>3, <1>4 DEF OwnersInv, OwnersShape
  <2> QED
    BY <1>1, <1>2, <1>3, <1>4, <1>7, <2>1 DEF OwnersShape
<1>9. ListPlaced'
  <2>1. Len(list) \in Nat /\ Len(list) \in 0 .. Len(list)
    BY <1>1, Entries
  <2>2. at[TheList] = "assert" => next - 1 \in 0 .. Len(list)
    BY <1>1, <2>1, Asked
  <2>3. at'[TheList] = "assert" => Placed(standing', list, next - 1)
    BY <1>4, <1>6, <2>2 DEF OwnersInv, ListPlaced
  <2>4. at'[TheList] = "list" \/ saved' => Placed(standing', list, Len(list))
    BY <1>2, <1>4, <1>6, <2>1 DEF OwnersInv, ListPlaced
  <2> QED
    BY <1>2, <1>3, <2>3, <2>4 DEF ListPlaced, Placed
<1>10. OutermostSettled'
  <2> SUFFICES ASSUME Gapless, failures' = 0, NEW b \in Ids, NEW n \in Ids, Wants(b, n)
               PROVE  /\ n > Count - applies =>
                           standing'[b] >= n \/ (n = Count - applies + 1 /\ Pending(b)')
                      /\ n <= applies =>
                           standing'[b] <= n \/ (n = applies /\ Pending(b)')
    BY <1>3 DEF OutermostSettled, Gapless
  <2>1. failures = 0 /\ standing' = Moved(standing, a, pins[a])
    BY <1>6
  <2>2. CASE b = a
    <3>1. n = pins[a]
      BY <1>1, <1>5, <2>2, WantsOnce
    <3>2. standing'[b] = n /\ n \in Nat
      BY <1>1, <1>5, <2>1, <2>2, <3>1, MoveInRange DEF Ids
    <3> QED
      BY <3>2
  <2>3. CASE b # a
    <3>1. Pending(b) => Pending(b)'
      BY <1>2, <1>3, <1>4, <2>3 DEF Pending
    <3>2. /\ n > Count - applies =>
               standing'[b] >= n \/ (n = Count - applies + 1 /\ Pending(b))
          /\ n <= applies =>
               standing'[b] <= n \/ (n = applies /\ Pending(b))
      BY <1>1, <1>5, <2>1, <2>3, MoveSettles DEF OwnersInv
    <3> QED
      BY <3>1, <3>2
  <2> QED
    BY <2>2, <2>3
<1>11. ListDone'
  BY <1>2, <1>3, <1>4, <1>6 DEF OwnersInv, ListDone
<1>12. FewApplies'
  BY <1>3, <1>6 DEF OwnersInv, FewApplies
<1> QED
  BY <1>6, <1>7, <1>8, <1>9, <1>10, <1>11, <1>12 DEF OwnersInv

(* The PUT of the next entry of the list.                                  *)
LEMMA EntryStep ==
    ASSUME AutomationOrderAssumption, OwnersInv, ~Apply, OwnersNext,
           NEW outcome \in PutOutcomes, assertOrder(outcome)
    PROVE  OwnersInv'
<1>1. OwnersShape /\ OwnersTypeOK /\ TheList \notin Ids /\ Owners = Ids \cup {TheList}
  BY Asked DEF OwnersInv, OwnersShape
<1>2. /\ at[TheList] = "assert" /\ Failing(outcome)
      /\ PriorityEffect(outcome, list[next], next)
      /\ saved' = saved /\ attempt' = attempt
  BY DEF assertOrder
<1>3. /\ legacy' = legacy /\ pins' = pins /\ list' = list /\ referring' = referring
      /\ applies' = applies /\ Compatible' /\ \A b, n : Wants(b, n)' = Wants(b, n)
  BY Unplanned
<1>4. /\ next \in 1 .. Len(list) /\ next \in Ids
      /\ list[next] \in Ids /\ Wants(list[next], next)
  BY <1>1, <1>2, Asked
<1>5. /\ Len(list) \in Nat /\ next \in Nat /\ DOMAIN list = 1 .. Len(list)
      /\ next - 1 \in 0 .. Len(list)
  BY <1>1, <1>4, Entries
<1>6. /\ DOMAIN standing' = Ids /\ Distinct(standing)'
      /\ \A b \in Ids : standing'[b] \in 1 .. MaxLegacy
      /\ failures' \in 0 .. MaxFailures
      /\ StaysGapless'
      /\ failures' = 0 => /\ failures = 0 /\ outcome = "fine"
                          /\ standing' = Moved(standing, list[next], next)
  BY <1>2, <1>3, <1>4, AfterPut
<1>7. \/ /\ outcome # "fine"
         /\ at' = [at EXCEPT ![TheList] = "idle"] /\ next' = 1
      \/ /\ outcome = "fine" /\ next < Len(list)
         /\ at' = at /\ next' = next + 1
      \/ /\ outcome = "fine" /\ next = Len(list)
         /\ at' = [at EXCEPT ![TheList] = "list"] /\ next' = 1
  BY <1>4, <1>5 DEF assertOrder
<1>8. /\ DOMAIN at' = Owners /\ \A b \in Ids : at'[b] = at[b]
      /\ \/ outcome # "fine" /\ at'[TheList] = "idle"
         \/ outcome = "fine" /\ next < Len(list) /\ at'[TheList] = "assert" /\ next' = next + 1
         \/ outcome = "fine" /\ next = Len(list) /\ at'[TheList] = "list"
  BY <1>1, <1>2, <1>7 DEF OwnersTypeOK
<1>9. ~saved
  BY <1>1, <1>2 DEF OwnersShape
<1>10. OwnersTypeOK'
  <2>1. at'[TheList] \in {"idle", "assert", "list"} /\ \A b \in Ids : at'[b] \in {"idle", "verify", "set"}
    BY <1>1, <1>8 DEF OwnersTypeOK
  <2>2. at'[TheList] = "assert" => next' \in DOMAIN list'
    BY <1>3, <1>4, <1>5, <1>8
  <2> QED
    BY <1>1, <1>2, <1>3, <1>6, <1>8, <2>1, <2>2 DEF OwnersTypeOK
<1>11. OwnersShape'
  <2>1. \A b \in Ids : at'[b] # "idle" => pins'[b] # 0
    BY <1>1, <1>3, <1>8 DEF OwnersShape
  <2>2. list' # << >>
    BY <1>1, <1>2, <1>3 DEF OwnersShape
  <2> QED
    BY <1>1, <1>2, <1>3, <1>9, <1>10, <2>1, <2>2 DEF OwnersShape
<1>12. ListPlaced'
  <2>1. Placed(standing, list, next - 1)
    BY <1>2 DEF OwnersInv, ListPlaced
  <2>2. ASSUME outcome = "fine" PROVE Placed(standing', list, next)
    <3>1. standing' = Moved(standing, list[next], next)
      BY <1>2, <2>2 DEF PriorityEffect
    <3>2. next = (next - 1) + 1 /\ next \in DOMAIN list
      BY <1>4, <1>5
    <3>3. Placed(standing', list, (next - 1) + 1)
      BY <1>1, <1>4, <1>5, <2>1, <3>1, <3>2, PlacedKept
    <3> QED
      BY <3>2, <3>3
  <2>3. at'[TheList] = "assert" => Placed(standing', list, next' - 1)
    <3>1. at'[TheList] = "assert" => outcome = "fine" /\ next' - 1 = next
      BY <1>5, <1>8
    <3> QED
      BY <2>2, <3>1
  <2>4. at'[TheList] = "list" => Placed(standing', list, Len(list))
    BY <1>8, <2>2
  <2> QED
    BY <1>2, <1>3, <1>9, <2>3, <2>4 DEF ListPlaced, Placed
<1>13. OutermostSettled'
  <2> SUFFICES ASSUME Gapless, failures' = 0, NEW b \in Ids, NEW n \in Ids, Wants(b, n)
               PROVE  /\ n > Count - applies =>
                           standing'[b] >= n \/ (n = Count - applies + 1 /\ Pending(b)')
                      /\ n <= applies =>
                           standing'[b] <= n \/ (n = applies /\ Pending(b)')
    BY <1>3 DEF OutermostSettled, Gapless
  <2>1. failures = 0 /\ outcome = "fine" /\ standing' = Moved(standing, list[next], next)
    BY <1>6
  <2>2. CASE b = list[next]
    <3>1. n = next
      BY <1>1, <1>4, <2>2, WantsOnce
    <3>2. standing'[b] = n
      BY <1>1, <1>4, <2>1, <2>2, <3>1, MoveInRange
    <3> QED
      BY <1>5, <3>1, <3>2
  <2>3. CASE b # list[next]
    <3>1. Pending(b) => Pending(b)'
      <4>1. ASSUME NEW i \in next .. Len(list), list[i] = b
            PROVE  at'[TheList] = "assert" /\ i \in next' .. Len(list)
        <5>1. i # next /\ next < Len(list)
          BY <1>5, <2>3, <4>1
        <5>2. ~(next = Len(list))
          <6> SUFFICES ASSUME next = Len(list) PROVE FALSE
            OBVIOUS
          <6>1. next < next
            BY <5>1
          <6> QED
            BY <1>5, <6>1
        <5>3. at'[TheList] = "assert" /\ next' = next + 1
          BY <1>8, <2>1, <5>2, Zenon
        <5> QED
          BY <1>5, <4>1, <5>1, <5>3
      <4> QED
        BY <1>3, <1>8, <4>1 DEF Pending
    <3>2. /\ n > Count - applies =>
               standing'[b] >= n \/ (n = Count - applies + 1 /\ Pending(b))
          /\ n <= applies =>
               standing'[b] <= n \/ (n = applies /\ Pending(b))
      BY <1>1, <1>4, <2>1, <2>3, MoveSettles DEF OwnersInv
    <3> QED
      BY <3>1, <3>2
  <2> QED
    BY <2>2, <2>3
<1>14. ListDone'
  BY <1>6, <1>8 DEF ListDone
<1>15. FewApplies'
  BY <1>3, <1>6 DEF OwnersInv, FewApplies
<1> QED
  BY <1>6, <1>10, <1>11, <1>12, <1>13, <1>14, <1>15 DEF OwnersInv

(* The list finds that it has achieved what it wants, and is saved.        *)
LEMMA AchievedStep ==
    ASSUME AutomationOrderAssumption, OwnersInv, ~Apply, OwnersNext, applyOrder
    PROVE  OwnersInv'
<1>1. OwnersShape /\ OwnersTypeOK /\ TheList \notin Ids /\ Owners = Ids \cup {TheList}
  BY Asked DEF OwnersInv, OwnersShape
<1>2. /\ at[TheList] = "list" /\ standing' = standing /\ next' = next /\ failures' = failures
  BY DEF applyOrder
<1>3. /\ legacy' = legacy /\ pins' = pins /\ list' = list /\ referring' = referring
      /\ applies' = applies /\ Compatible' /\ \A b, n : Wants(b, n)' = Wants(b, n)
  BY Unplanned
<1>4. Placed(standing, list, Len(list))
  BY <1>2 DEF OwnersInv, ListPlaced
<1>5. Leading(Len(list)) = list
  BY <1>1, <1>4, PlacedLeads
<1>6. at' = [at EXCEPT ![TheList] = "idle"] /\ saved' = TRUE /\ attempt' = attempt
  BY <1>5 DEF applyOrder
<1>7. DOMAIN at' = Owners /\ at'[TheList] = "idle" /\ \A b \in Ids : at'[b] = at[b]
  BY <1>1, <1>6 DEF OwnersTypeOK
<1>8. OwnersTypeOK'
  BY <1>1, <1>2, <1>3, <1>6, <1>7 DEF OwnersTypeOK
<1>9. OwnersShape'
  BY <1>1, <1>3, <1>6, <1>7, <1>8 DEF OwnersShape
<1>10. ListPlaced'
  BY <1>2, <1>3, <1>4, <1>7 DEF ListPlaced, Placed
<1>11. StaysGapless'
  BY <1>2, <1>3 DEF OwnersInv, StaysGapless, Gapless
<1>12. OutermostSettled'
  <2>1. \A b \in Ids : Pending(b) = Pending(b)'
    BY <1>2, <1>7 DEF Pending
  <2> QED
    BY <1>2, <1>3, <2>1 DEF OwnersInv, OutermostSettled, Gapless
<1>13. ListDone'
  BY <1>6 DEF ListDone
<1>14. FewApplies'
  BY <1>2, <1>3 DEF OwnersInv, FewApplies
<1> QED
  BY <1>8, <1>9, <1>10, <1>11, <1>12, <1>13, <1>14 DEF OwnersInv

LEMMA OwnersInitially == AutomationOrderAssumption /\ OwnersInit => OwnersInv
<1> SUFFICES ASSUME AutomationOrderAssumption, OwnersInit PROVE OwnersInv
  OBVIOUS
<1>1. /\ {Count, MaxLegacy, MaxEntries, MaxFailures} \subseteq Nat /\ Count <= MaxLegacy
      /\ standing \in LegacyOrders /\ legacy = standing /\ pins \in [Ids -> 0 .. Count]
      /\ list \in BulkLists /\ Compatible /\ referring \in BOOLEAN /\ saved = FALSE
      /\ next = 1 /\ attempt = 0 /\ applies = 0 /\ failures = 0
  BY DEF AutomationOrderAssumption, OwnersInit
<1>2. DOMAIN at = Owners /\ at[TheList] = "idle" /\ \A a \in Ids : at[a] = "idle"
  BY DEF OwnersInit, Owners
<1>3. /\ standing \in [Ids -> 1 .. MaxLegacy]
      /\ \A a, b \in Ids : a < b => standing[a] < standing[b]
  BY <1>1 DEF LegacyOrders
<1>4. Distinct(standing)
  <2> SUFFICES ASSUME NEW a \in Ids, NEW b \in Ids, standing[a] = standing[b] PROVE a = b
    BY <1>3 DEF Distinct
  <2>1. a \in Nat /\ b \in Nat /\ standing[a] \in Nat /\ standing[b] \in Nat
    BY <1>1, <1>3 DEF Ids
  <2>2. ~(a < b) /\ ~(b < a)
    BY <1>3, <2>1
  <2> QED
    BY <2>1, <2>2
<1>5. OwnersTypeOK
  <2>1. applies \in 0 .. Count + 1 /\ failures \in 0 .. MaxFailures
    BY <1>1
  <2>2. /\ DOMAIN standing = Ids /\ \A a \in Ids : standing[a] \in 1 .. MaxLegacy
        /\ legacy \in LegacyOrders /\ attempt \in 0 .. 1
    BY <1>1, <1>3
  <2>3. at[TheList] # "assert"
    BY <1>2
  <2>4. /\ at[TheList] \in {"idle", "assert", "list"}
        /\ \A a \in Ids : at[a] \in {"idle", "verify", "set"}
    BY <1>2
  <2> QED
    BY <1>1, <1>2, <1>4, <2>1, <2>2, <2>3, <2>4 DEF OwnersTypeOK
<1>6. OwnersShape
  BY <1>1, <1>2, <1>5 DEF OwnersShape
<1>7. ListPlaced /\ ListDone
  BY <1>1, <1>2 DEF ListPlaced, ListDone
<1>8. StaysGapless
  <2>1. \A a \in Ids : a <= Count
    BY <1>1 DEF Ids
  <2> QED
    BY <1>1, <2>1 DEF StaysGapless, Gapless
<1>9. OutermostSettled
  <2>1. \A n \in Ids : ~(n > Count - applies) /\ ~(n <= applies)
    BY <1>1 DEF Ids
  <2> QED
    BY <2>1 DEF OutermostSettled
<1>10. FewApplies
  BY <1>1 DEF FewApplies
<1> QED
  BY <1>6, <1>7, <1>8, <1>9, <1>10 DEF OwnersInv

LEMMA OwnersStutter == OwnersInv /\ UNCHANGED ownersVars => OwnersInv'
<1> SUFFICES ASSUME OwnersInv, UNCHANGED ownersVars PROVE OwnersInv'
  OBVIOUS
<1>1. /\ standing' = standing /\ legacy' = legacy /\ pins' = pins /\ list' = list
      /\ referring' = referring /\ saved' = saved /\ at' = at /\ next' = next
      /\ attempt' = attempt /\ applies' = applies /\ failures' = failures
  BY DEF ownersVars
<1>2. OwnersShape'
  BY <1>1 DEF OwnersInv, OwnersShape, OwnersTypeOK, Compatible, Met
<1>3. ListPlaced' /\ StaysGapless' /\ ListDone' /\ FewApplies'
  BY <1>1 DEF OwnersInv, ListPlaced, Placed, StaysGapless, Gapless, ListDone, FewApplies
<1>4. OutermostSettled'
  <2>1. \A a, n : Wants(a, n)' = Wants(a, n)
    BY <1>1 DEF Wants
  <2>2. \A a \in Ids : Pending(a) = Pending(a)'
    BY <1>1 DEF Pending
  <2> QED
    BY <1>1, <2>1, <2>2 DEF OwnersInv, OutermostSettled, Gapless
<1> QED
  BY <1>2, <1>3, <1>4 DEF OwnersInv

LEMMA OwnersStep == AutomationOrderAssumption /\ OwnersInv /\ [OwnersNext]_ownersVars => OwnersInv'
<1> SUFFICES ASSUME AutomationOrderAssumption, OwnersInv, [OwnersNext]_ownersVars PROVE OwnersInv'
  OBVIOUS
<1>1. CASE Apply
  BY <1>1, ApplyStep
<1>2. CASE OwnersNext /\ ~Apply
  <2>1. ASSUME NEW a \in Ids, updatePriorityOnly(a) PROVE OwnersInv'
    BY <1>2, <2>1, VerifyStep
  <2>2. ASSUME NEW a \in Ids, NEW o \in PutOutcomes, applyPriority(a, o) PROVE OwnersInv'
    BY <1>2, <2>2, PinStep
  <2>3. ASSUME NEW o \in PutOutcomes, assertOrder(o) PROVE OwnersInv'
    BY <1>2, <2>3, EntryStep
  <2>4. ASSUME applyOrder PROVE OwnersInv'
    BY <1>2, <2>4, AchievedStep
  <2> QED
    BY <1>2, <2>1, <2>2, <2>3, <2>4 DEF OwnersNext, Handle
<1>3. CASE UNCHANGED ownersVars
  BY <1>3, OwnersStutter
<1> QED
  BY <1>1, <1>2, <1>3

LEMMA OwnersInvInvariant == OwnersSpec => []OwnersInv
<1>1. OwnersInit => OwnersInv
  BY AutomationOrderAssumption, OwnersInitially
<1>2. OwnersInv /\ [OwnersNext]_ownersVars => OwnersInv'
  BY AutomationOrderAssumption, OwnersStep
<1> QED
  BY <1>1, <1>2, PTL DEF OwnersSpec

-----------------------------------------------------------------------------
(* The owners' variables keep their types, the order stays one without     *)
(* duplicates, and the list never makes a second attempt.                  *)
THEOREM OwnersTypeCorrect == OwnersSpec => [](OwnersTypeOK /\ attempt = 0)
<1>1. OwnersInv => OwnersTypeOK /\ attempt = 0
  BY DEF OwnersInv, OwnersShape
<1> QED
  BY <1>1, OwnersInvInvariant, PTL

(* Terraform applies a configuration of compatible owners fewer times than *)
(* there are automations, in whatever order its handlers run, when no call *)
(* fails and the order has no gaps; and only once when the list is its     *)
(* only owner.                                                             *)
THEOREM FewAppliesNeeded == OwnersSpec => []FewApplies
<1>1. OwnersInv => FewApplies
  BY DEF OwnersInv
<1> QED
  BY <1>1, OwnersInvInvariant, PTL

(* A saved list is the top of the order.                                   *)
LEMMA SavedListLeads == AutomationOrderAssumption /\ OwnersInv => (saved => Leading(Len(list)) = list)
BY PlacedLeads DEF OwnersInv, OwnersShape, ListPlaced

(* A saved list is never displaced by automations that are pinned, however *)
(* many calls fail and whatever order there was at first.                  *)
THEOREM SavedListStays == OwnersSpec => HeldListStays
<1>1. OwnersInv => (saved => Leading(Len(list)) = list)
  BY AutomationOrderAssumption, SavedListLeads
<1>2. /\ OwnersInv
      /\ (saved => Leading(Len(list)) = list)'
      /\ [OwnersNext]_ownersVars
      => [saved /\ Leading(Len(list)) = list => Leading(Len(list))' = list]_ownersVars
  <2> SUFFICES ASSUME OwnersInv, (saved => Leading(Len(list)) = list)', OwnersNext, saved
               PROVE  Leading(Len(list))' = list
    OBVIOUS
  <2>1. saved' = TRUE /\ list' = list
    <3>1. CASE Apply
      BY <3>1 DEF Apply, wanted, OwnersInv, OwnersShape, OwnersTypeOK
    <3>2. CASE ~Apply
      <4>1. list' = list
        BY <3>2, AutomationOrderAssumption, Unplanned
      <4>2. ~applyOrder
        BY DEF applyOrder, OwnersInv, OwnersShape
      <4>3. saved' = saved /\ saved \in BOOLEAN
        BY <3>2, <4>2 DEF OwnersNext, Handle, updatePriorityOnly, applyPriority, assertOrder,
                          OwnersInv, OwnersShape, OwnersTypeOK
      <4> QED
        BY <4>1, <4>3
    <3> QED
      BY <3>1, <3>2
  <2> QED
    BY <2>1
<1> QED
  BY <1>1, <1>2, OwnersInvInvariant, PTL DEF OwnersSpec, HeldListStays

-----------------------------------------------------------------------------
(* A text is a sequence of at most two different elements.                 *)
LEMMA TextsAreSequences ==
    Texts = {t \in Seq(Elements) : Len(t) <= 2 /\ IsInjective(t)}
<1>1. ASSUME NEW t \in Texts
      PROVE  t \in Seq(Elements) /\ Len(t) <= 2 /\ IsInjective(t)
  <2>1. PICK m \in 0 .. 2 : t \in [1 .. m -> Elements]
    BY DEF Texts, BoundedSeq, SeqOf
  <2>2. t \in Seq(Elements) /\ Len(t) = m
    BY <2>1, IsASeq, LenProperties
  <2> QED
    BY <2>1, <2>2 DEF Texts
<1>2. ASSUME NEW t \in Seq(Elements), Len(t) <= 2, IsInjective(t)
      PROVE  t \in Texts
  <2>1. Len(t) \in Nat /\ t \in [1 .. Len(t) -> Elements]
    BY LenProperties
  <2>2. Len(t) \in 0 .. 2
    BY <1>2, <2>1
  <2>3. t \in BoundedSeq(Elements, 2)
    BY <2>1, <2>2 DEF BoundedSeq, SeqOf
  <2> QED
    BY <1>2, <2>3 DEF Texts
<1> QED
  BY <1>1, <1>2

(* Texts by their length.                                                  *)
LEMMA TextShapes ==
    ASSUME NEW s \in Texts
    PROVE  /\ s \in Seq(Elements)
           /\ DOMAIN s = 1 .. Len(s)
           /\ Len(s) \in 0 .. 2
           /\ Len(s) = 0 => s = << >>
           /\ Len(s) = 1 => s[1] \in Elements /\ s = <<s[1]>>
           /\ Len(s) = 2 => /\ s[1] \in Elements /\ s[2] \in Elements
                            /\ s[1] # s[2] /\ s = <<s[1], s[2]>>
<1>1. s \in Seq(Elements) /\ Len(s) <= 2 /\ IsInjective(s)
  BY TextsAreSequences
<1>2. Len(s) \in Nat /\ DOMAIN s = 1 .. Len(s)
  BY <1>1, LenProperties
<1>3. Len(s) \in 0 .. 2
  BY <1>1, <1>2
<1>4. \A i \in 1 .. Len(s) : s[i] \in Elements
  BY <1>1, ElementOfSeq
<1>5. ASSUME Len(s) = 0
      PROVE  s = << >>
  BY <1>1, <1>5
<1>6. ASSUME Len(s) = 1
      PROVE  s[1] \in Elements /\ s = <<s[1]>>
  <2>1. s[1] \in Elements
    BY <1>4, <1>6
  <2> QED
    BY <1>1, <1>6, <2>1
<1>7. ASSUME Len(s) = 2
      PROVE  /\ s[1] \in Elements /\ s[2] \in Elements
             /\ s[1] # s[2] /\ s = <<s[1], s[2]>>
  <2>1. s[1] \in Elements /\ s[2] \in Elements
    BY <1>4, <1>7
  <2>2. s[1] # s[2]
    BY <1>1, <1>2, <1>7 DEF IsInjective
  <2>3. s = <<s[1], s[2]>>
    BY <1>1, <1>7, <2>1
  <2> QED
    BY <2>1, <2>2, <2>3
<1> QED
  BY <1>1, <1>2, <1>3, <1>5, <1>6, <1>7

(* The sequences of at most two different elements are texts.              *)
LEMMA ShortTexts ==
    /\ << >> \in Texts
    /\ \A x \in Elements : <<x>> \in Texts
    /\ \A x, y \in Elements : x # y => <<x, y>> \in Texts
<1>1. << >> \in Texts
  BY TextsAreSequences DEF IsInjective
<1>2. ASSUME NEW x \in Elements PROVE <<x>> \in Texts
  BY TextsAreSequences DEF IsInjective
<1>3. ASSUME NEW x \in Elements, NEW y \in Elements, x # y
      PROVE  <<x, y>> \in Texts
  BY <1>3, TextsAreSequences DEF IsInjective
<1> QED
  BY <1>1, <1>2, <1>3

(* What the texts of each length hold.                                     *)
LEMMA ToSetOfTexts ==
    /\ ToSet(<< >>) = {}
    /\ \A x : ToSet(<<x>>) = {x}
    /\ \A x, y : ToSet(<<x, y>>) = {x, y}
BY DEF ToSet

(* An empty content has one text, and so has a single element.             *)
LEMMA ShortLayouts ==
    ASSUME NEW s \in Texts, NEW t \in Layouts(s), Len(s) < 2
    PROVE  t = s
<1>1. t \in Texts /\ ToSet(t) = ToSet(s)
  BY DEF Layouts
<1>2. \/ s = << >> /\ ToSet(s) = {}
      \/ \E x \in Elements : ToSet(s) = {x} /\ s = <<x>>
  <2>1. Len(s) = 0 \/ Len(s) = 1
    BY TextShapes
  <2> QED
    BY <2>1, TextShapes, ToSetOfTexts
<1>3. CASE Len(t) = 0
  BY <1>1, <1>2, <1>3, TextShapes, ToSetOfTexts
<1>4. CASE Len(t) = 1
  <2>1. t = <<t[1]>>
    BY <1>1, <1>4, TextShapes
  <2>2. ToSet(t) = {t[1]}
    BY <2>1, ToSetOfTexts
  <2> QED
    BY <1>1, <1>2, <2>1, <2>2
<1>5. CASE Len(t) = 2
  <2>1. t[1] # t[2] /\ t = <<t[1], t[2]>>
    BY <1>1, <1>5, TextShapes
  <2>2. ToSet(t) = {t[1], t[2]}
    BY <2>1, ToSetOfTexts
  <2> QED
    BY <1>1, <1>2, <2>1, <2>2
<1> QED
  BY <1>1, <1>3, <1>4, <1>5, TextShapes

(* Every text of a content holds something exactly when the content does.  *)
LEMMA EmptyLayouts ==
    ASSUME NEW s \in Texts, NEW t \in Layouts(s)
    PROVE  t \in Texts /\ s \in Layouts(t) /\ (t = << >> <=> s = << >>)
<1>1. t \in Texts /\ ToSet(t) = ToSet(s)
  BY DEF Layouts
<1>2. s \in Layouts(t)
  BY <1>1 DEF Layouts
<1>3. s = << >> => t = s
  BY ShortLayouts
<1>4. t = << >> => s = t
  BY <1>1, <1>2, ShortLayouts
<1> QED
  BY <1>1, <1>2, <1>3, <1>4

(* Every content has a sorted text.                                        *)
LEMMA SortedIsLayout ==
    ASSUME ValuesAssumption, NEW s \in Texts
    PROVE  Sorted(s) \in Layouts(s)
<1> DEFINE Ascends(t) == \A i, j \in DOMAIN t : i < j => t[i] < t[j]
<1>1. s \in Layouts(s)
  BY DEF Layouts
<1>2. \E t \in Layouts(s) : Ascends(t)
  <2>1. CASE Len(s) < 2
    <3>1. Ascends(s)
      BY <2>1, TextShapes
    <3> QED
      BY <1>1, <3>1
  <2>2. CASE Len(s) = 2
    <3>1. /\ s[1] \in Elements /\ s[2] \in Elements /\ s[1] # s[2]
          /\ s = <<s[1], s[2]>> /\ DOMAIN s = 1 .. 2
      BY <2>2, TextShapes
    <3>2. CASE s[1] < s[2]
      <4>1. Ascends(s)
        BY <3>1, <3>2
      <4> QED
        BY <1>1, <4>1
    <3>3. CASE s[2] < s[1]
      <4> DEFINE t == <<s[2], s[1]>>
      <4>1. t \in Texts
        BY <3>1, ShortTexts
      <4>2. ToSet(t) = ToSet(s)
        <5>1. ToSet(<<s[1], s[2]>>) = {s[1], s[2]}
          BY ToSetOfTexts
        <5>2. ToSet(t) = {s[2], s[1]}
          BY ToSetOfTexts
        <5> QED
          BY <3>1, <5>1, <5>2
      <4>3. Ascends(t)
        BY <3>3
      <4> QED
        BY <4>1, <4>2, <4>3 DEF Layouts
    <3> QED
      BY <3>1, <3>2, <3>3 DEF ValuesAssumption
  <2>3. Len(s) = 0 \/ Len(s) = 1 \/ Len(s) = 2
    BY TextShapes
  <2>4. 0 < 2 /\ 1 < 2
    OBVIOUS
  <2> HIDE DEF Ascends
  <2> QED
    BY <2>1, <2>2, <2>3, <2>4
<1> QED
  BY <1>2 DEF Sorted

(* Sorting depends on nothing but the content.                             *)
LEMMA SortedOfLayout ==
    ASSUME NEW s \in Texts, NEW t \in Layouts(s)
    PROVE  Sorted(t) = Sorted(s)
<1>1. Layouts(t) = Layouts(s)
  BY DEF Layouts
<1> QED
  BY <1>1 DEF Sorted

-----------------------------------------------------------------------------
(* The contents of an attribute are texts, and the configured values are   *)
(* contents or null; null, nothing and the texts are told apart.           *)
LEMMA ContentsAreTexts ==
    ASSUME ValuesAssumption, NEW k \in Kinds
    PROVE  /\ Contents(k) \subseteq Texts
           /\ << >> \in Contents(k)
           /\ Configs(k) \subseteq Contents(k) \cup {Null}
           /\ Null \notin Contents(k) /\ Nil \notin Contents(k) /\ Null # Nil
<1>1. Contents(k) \subseteq Texts
  BY SortedIsLayout DEF Contents, Layouts
<1>2. << >> \in Contents(k)
  <2>1. << >> \in Texts /\ Len(<< >>) <= 1
    BY ShortTexts
  <2>2. Sorted(<< >>) = << >>
    BY <2>1, SortedIsLayout, EmptyLayouts
  <2> QED
    BY <2>1, <2>2 DEF Contents
<1>3. Configs(k) \subseteq Contents(k) \cup {Null}
  BY DEF Configs
<1> QED
  BY <1>1, <1>2, <1>3 DEF ValuesAssumption

(* A set is held in its sorted text.                                       *)
LEMMA SetsAreSorted ==
    ASSUME ValuesAssumption, NEW k \in SetKinds, NEW s \in Texts
    PROVE  /\ Sorted(s) \in Contents(k)
           /\ s \in Contents(k) => Sorted(s) = s
<1>1. Contents(k) = {Sorted(t) : t \in Texts}
  BY DEF Contents, SetKinds, ScalarKinds
<1>2. ASSUME NEW t \in Texts, s = Sorted(t)
      PROVE  Sorted(s) = s
  BY <1>2, SortedIsLayout, SortedOfLayout
<1> QED
  BY <1>1, <1>2

(* What the service shows of a content: nothing or an empty value of an    *)
(* empty one, otherwise one of its texts, and the very text it has unless  *)
(* it returns the elements in any order.                                   *)
LEMMA AnswersShow ==
    ASSUME ValuesAssumption, kind \in Kinds, service \in Services(kind),
           NEW s \in Texts, NEW a \in Answers(s)
    PROVE  /\ s = << >> => Blank(a) /\ a = service.blank
           /\ s # << >> => /\ ~Blank(a)
                           /\ a \in Layouts(s)
                           /\ ~service.shuffles \/ Len(s) < 2 => a = s
<1>1. CASE s = << >>
  <2>1. a = service.blank
    BY <1>1 DEF Answers
  <2>2. service.blank \in {Nil, << >>}
    BY DEF Services
  <2> QED
    BY <1>1, <2>1, <2>2 DEF Blank
<1>2. CASE s # << >>
  <2>1. a \in Layouts(s) /\ (~service.shuffles => a = s)
    BY <1>2 DEF Answers, Layouts
  <2>2. ~Blank(a)
    BY <1>2, <2>1, EmptyLayouts DEF Blank, ValuesAssumption
  <2>3. Len(s) < 2 => a = s
    BY <2>1, ShortLayouts
  <2> QED
    BY <1>2, <2>1, <2>2, <2>3
<1> QED
  BY <1>1, <1>2

(* What is sent of a value is a content, or nothing.                       *)
LEMMA SentIsContent ==
    ASSUME ValuesAssumption, NEW k \in Kinds, NEW v \in Contents(k) \cup {Null},
           NEW creating \in BOOLEAN
    PROVE  Sent(k, v, creating) \in Contents(k) \cup {Nil}
<1>1. << >> \in Contents(k)
  BY ContentsAreTexts
<1> QED
  BY <1>1 DEF Sent, Kinds, ListKinds, SetKinds, ScalarKinds, DocumentKinds, StringSliceFrom,
       ToAPI, ToAPINonNull, omitempty, normalize, DecodeJSONField

(* What comes back of an answer is a content, or null.                     *)
LEMMA ReadIsContent ==
    ASSUME ValuesAssumption, kind \in Kinds, service \in Services(kind),
           NEW s \in Contents(kind), NEW a \in Answers(s),
           NEW prior \in Contents(kind) \cup {Null}
    PROVE  Settled(kind, prior, FromAPI(kind, prior, a)) \in Contents(kind) \cup {Null}
<1> DEFINE Values == Contents(kind) \cup {Null}
<1>1. s \in Texts /\ << >> \in Contents(kind)
  BY ContentsAreTexts
<1>2. Blank(a) \/ a \in Texts
  BY <1>1, AnswersShow, EmptyLayouts
<1>3. CASE kind \in ListKinds
  <2>1. Contents(kind) = Texts
    BY <1>3 DEF Contents, ListKinds, SetKinds, ScalarKinds
  <2>2. FromAPI(kind, prior, a) = MatchPlan(prior, a)
    BY <1>3 DEF FromAPI, ListKinds
  <2> QED
    BY <1>1, <1>2, <2>1, <2>2 DEF MatchPlan, Settled
<1>4. CASE kind \in SetKinds
  <2>1. ~Blank(a) => Sorted(a) \in Contents(kind)
    BY <1>2, <1>4, SetsAreSorted
  <2>2. Blank(a) => a \in {Nil, << >>}
    BY DEF Blank
  <2>3. FromAPI(kind, prior, a) \in Values
    BY <1>1, <1>4, <2>1, <2>2 DEF FromAPI, SetKinds, MatchPlan, BusinessUnitsFromAPI
  <2> QED
    BY <2>3 DEF Settled
<1>5. CASE kind \in ScalarKinds
  <2>1. Contents(kind) = {t \in Texts : Len(t) <= 1}
    BY <1>5 DEF Contents, SetKinds, ScalarKinds
  <2>2. Blank(a) \/ a = s
    <3>1. Len(s) < 2
      BY <1>1, <2>1, TextShapes
    <3> QED
      BY <1>1, <3>1, AnswersShow
  <2>3. FromAPI(kind, prior, a) \in Values
    BY <1>5, <2>2 DEF FromAPI, ScalarKinds, OptionalStringMatchPlan, OrNull
  <2> QED
    BY <2>3 DEF Settled
<1>6. CASE kind \in DocumentKinds
  <2>1. Contents(kind) = Texts
    BY <1>6 DEF Contents, DocumentKinds, SetKinds, ScalarKinds
  <2>2. a \in Texts => Sorted(a) \in Texts
    BY SortedIsLayout DEF Layouts
  <2>3. FromAPI(kind, prior, a) \in Values
    BY <1>2, <1>6, <2>1, <2>2
       DEF FromAPI, DocumentKinds, EncodeJSONField, EncodeOrcaMappingField
  <2> QED
    BY <2>3 DEF Settled
<1> QED
  BY <1>3, <1>4, <1>5, <1>6 DEF Kinds

-----------------------------------------------------------------------------
(* After a write the service has what was configured, and nothing for      *)
(* null, unless a key that is kept was left out.                           *)
Configured == IF configured = Null THEN << >> ELSE configured

LEMMA WrittenIsConfigured ==
    ASSUME ValuesAssumption, ValueTypeOK, ~CannotBeCleared, ~StoresPlan(kind),
           NEW creating \in BOOLEAN
    PROVE  LET sent == Sent(kind, configured, creating)
           IN /\ sent # Nil => sent = Configured
              /\ sent = Nil => Configured = << >> /\ (creating \/ ~service.keeps)
<1> DEFINE sent == Sent(kind, configured, creating)
<1>1. configured \in Configs(kind) /\ service \in Services(kind)
  BY DEF ValueTypeOK
<1>2. configured # Nil
  BY <1>1, ContentsAreTexts DEF ValueTypeOK
<1>3. << >> # Nil /\ << >> # Null /\ Null # Nil
  BY ContentsAreTexts DEF ValueTypeOK
<1>4. CASE kind \in {"scope", "assignment", "description"}
  BY <1>2, <1>3, <1>4 DEF Sent, StringSliceFrom, Configured
<1>5. CASE kind = "business_units"
  <2>1. service.keeps
    BY <1>1, <1>5 DEF Services
  <2>2. configured # Null
    BY <1>5, <2>1 DEF CannotBeCleared
  <2>3. sent = IF creating THEN omitempty(configured) ELSE configured
    BY <1>5, <2>2 DEF Sent, ToAPI
  <2> QED
    BY <1>2, <1>3, <2>2, <2>3 DEF omitempty, Configured
<1>6. CASE kind = "input_parameters"
  BY <1>2, <1>3, <1>6 DEF Sent, DecodeJSONField, ToAPI, normalize, Configured
<1>7. CASE kind = "status_mapping"
  <2>1. configured = Null => ~service.keeps
    BY <1>7 DEF CannotBeCleared
  <2> QED
    BY <1>2, <1>3, <1>7, <2>1 DEF Sent, DecodeJSONField, ToAPI, Configured
<1>8. CASE kind = "mapping"
  <2>1. configured # Null
    BY <1>1, <1>8, ContentsAreTexts DEF Configs, ValueTypeOK
  <2> QED
    BY <1>2, <1>8, <2>1 DEF Sent, DecodeJSONField, ToAPI, Configured
<1> QED
  BY <1>4, <1>5, <1>6, <1>7, <1>8
     DEF ValueTypeOK, Kinds, ListKinds, SetKinds, ScalarKinds, DocumentKinds, StoresPlan

(* A list is shown in the order in which it was configured, unless it      *)
(* may be reordered.                                                       *)
LEMMA ListsInOrder ==
    ASSUME ValuesAssumption, ValueTypeOK, kind \in ListKinds, ~Reordered,
           configured # Null, configured # << >>, NEW a \in Answers(configured)
    PROVE  a = configured
<1>1. configured \in Texts
  BY ContentsAreTexts DEF ValueTypeOK
<1>2. ~service.shuffles \/ Len(configured) < 2
  BY <1>1, TextShapes DEF Reordered
<1> QED
  BY <1>1, <1>2, AnswersShow DEF ValueTypeOK

(* The answer of a write that left the service with what was configured    *)
(* is read as what was configured, unless it is one of the cases the code  *)
(* cannot express.                                                         *)
LEMMA AnswerIsConfigured ==
    ASSUME ValuesAssumption, ValueTypeOK, ~Reordered, ~NilIsNull, ~StoresPlan(kind),
           NEW a \in Answers(Configured)
    PROVE  Settled(kind, configured, FromAPI(kind, configured, a)) = configured
<1> DEFINE read == FromAPI(kind, configured, a)
<1>1. /\ configured \in Contents(kind) \cup {Null} /\ Contents(kind) \subseteq Texts
      /\ << >> \in Texts /\ Null \notin Texts
  BY ContentsAreTexts DEF ValueTypeOK, ValuesAssumption
<1>2. Configured \in Texts
  BY <1>1 DEF Configured
<1>3. CASE configured \in {Null, << >>}
  <2>1. Configured = << >>
    BY <1>3 DEF Configured
  <2>2. Blank(a) /\ a = service.blank
    BY <1>2, <2>1, AnswersShow DEF ValueTypeOK
  <2>3. CASE kind = "business_units"
    <3>1. configured = << >> => a # Nil
      BY <2>2, <2>3 DEF NilIsNull
    <3>2. a = Nil \/ a = << >>
      BY <2>2 DEF Blank
    <3>3. read = BusinessUnitsFromAPI(configured, IF Blank(a) THEN a ELSE Sorted(a))
      BY <2>3 DEF FromAPI
    <3>4. read = configured
      BY <1>1, <1>3, <2>2, <3>1, <3>2, <3>3 DEF BusinessUnitsFromAPI
    <3> QED
      BY <3>4 DEF Settled
  <2>4. CASE kind # "business_units"
    <3>1. read = configured
      BY <1>1, <1>3, <2>2, <2>4
         DEF FromAPI, MatchPlan, OptionalStringMatchPlan, EncodeJSONField,
             EncodeOrcaMappingField, ValueTypeOK, Kinds, ListKinds, SetKinds, ScalarKinds,
             DocumentKinds, StoresPlan
    <3> QED
      BY <3>1 DEF Settled
  <2> QED
    BY <2>3, <2>4
<1>4. CASE configured \notin {Null, << >>}
  <2>1. Configured = configured /\ configured \in Texts /\ configured \in Contents(kind)
    BY <1>1, <1>4 DEF Configured
  <2>2. ~Blank(a) /\ a \in Layouts(configured)
    BY <1>4, <2>1, AnswersShow DEF ValueTypeOK
  <2>3. CASE kind \in ListKinds
    <3>1. a = configured
      BY <1>4, <2>1, <2>3, ListsInOrder
    <3>2. read = configured
      BY <2>2, <2>3, <3>1 DEF FromAPI, MatchPlan, ListKinds
    <3> QED
      BY <3>2 DEF Settled
  <2>4. CASE kind \in SetKinds
    <3>1. Sorted(a) = configured
      BY <2>1, <2>2, <2>4, SetsAreSorted, SortedOfLayout
    <3>2. ~Blank(configured)
      BY <1>4, <2>1 DEF Blank, ValuesAssumption
    <3>3. read = configured
      BY <1>4, <2>2, <2>4, <3>1, <3>2
         DEF FromAPI, MatchPlan, BusinessUnitsFromAPI, SetKinds, Blank
    <3> QED
      BY <3>3 DEF Settled
  <2>5. CASE kind \in ScalarKinds
    <3>1. Len(configured) < 2
      BY <2>1, <2>5, TextShapes DEF Contents, SetKinds, ScalarKinds
    <3>2. a = configured
      BY <2>1, <2>2, <3>1, ShortLayouts
    <3>3. read = configured
      BY <2>2, <2>5, <3>2 DEF FromAPI, OptionalStringMatchPlan, ScalarKinds, StoresPlan
    <3> QED
      BY <3>3 DEF Settled
  <2>6. CASE kind \in DocumentKinds
    <3>1. read \in {a, Sorted(a)}
      BY <1>4, <2>2, <2>6
         DEF FromAPI, EncodeJSONField, EncodeOrcaMappingField, DocumentKinds
    <3>2. read \in Texts /\ ToSet(read) = ToSet(configured)
      BY <2>1, <2>2, <3>1, SortedIsLayout DEF Layouts
    <3>3. SemanticEquals(kind, configured, read)
      BY <1>1, <1>4, <2>6, <3>2 DEF SemanticEquals
    <3> QED
      BY <3>3 DEF Settled
  <2> QED
    BY <2>3, <2>4, <2>5, <2>6 DEF ValueTypeOK, Kinds
<1> QED
  BY <1>3, <1>4

-----------------------------------------------------------------------------
(* A write, with a content, and a refresh keep the types.                  *)
LEMMA WriteKeepsTypes ==
    ASSUME ValuesAssumption, ValueTypeOK, NEW creating \in BOOLEAN,
           NEW content \in Contents(kind), Write(creating, content)
    PROVE  ValueTypeOK'
<1> DEFINE Shown(a) == IF StoresPlan(kind) THEN configured
                       ELSE Settled(kind, configured, FromAPI(kind, configured, a))
<1>1. PICK a \in Answers(content) :
        tracked' = [value |-> Shown(a), tainted |-> creating /\ Shown(a) # configured]
  BY DEF Write
<1>2. configured \in Contents(kind) \cup {Null}
  BY ContentsAreTexts DEF ValueTypeOK
<1>3. Shown(a) \in Contents(kind) \cup {Null}
  BY <1>2, ReadIsContent DEF ValueTypeOK
<1>4. tracked' \in [value : Contents(kind) \cup {Null}, tainted : BOOLEAN]
  BY <1>1, <1>3
<1> QED
  BY <1>4 DEF ValueTypeOK, Write

LEMMA RefreshKeepsTypes ==
    ASSUME ValuesAssumption, ValueTypeOK, Exists,
           NEW prior \in Contents(kind) \cup {Null}, Refresh(prior)
    PROVE  tracked' \in [value : Contents(kind) \cup {Null}, tainted : BOOLEAN]
<1>1. PICK a \in Answers(remote) :
        tracked' = [tracked EXCEPT !.value = Settled(kind, prior, FromAPI(kind, prior, a))]
  BY DEF Refresh
<1>2. Settled(kind, prior, FromAPI(kind, prior, a)) \in Contents(kind) \cup {Null}
  BY ReadIsContent DEF ValueTypeOK
<1>3. tracked \in [value : Contents(kind) \cup {Null}, tainted : BOOLEAN]
  BY DEF ValueTypeOK, Exists
<1> QED
  BY <1>1, <1>2, <1>3

(* What Create and Update write.                                           *)
Creation ==
    LET sent == Sent(kind, configured, TRUE) IN IF sent = Nil THEN << >> ELSE sent

Revision ==
    LET sent == Sent(kind, configured, FALSE)
    IN IF sent # Nil THEN sent ELSE IF service.keeps THEN remote ELSE << >>

LEMMA WrittenIsContent ==
    ASSUME ValuesAssumption, ValueTypeOK
    PROVE  Creation \in Contents(kind) /\ Revision \in Contents(kind)
<1>1. configured \in Contents(kind) \cup {Null} /\ << >> \in Contents(kind)
  BY ContentsAreTexts DEF ValueTypeOK
<1>2. \A creating \in BOOLEAN :
        Sent(kind, configured, creating) \in Contents(kind) \cup {Nil}
  BY <1>1, SentIsContent DEF ValueTypeOK
<1> QED
  BY <1>1, <1>2 DEF Creation, Revision, ValueTypeOK

LEMMA WritesAre ==
    /\ Create => Write(TRUE, Creation)
    /\ Update => Write(FALSE, Revision)
BY DEF Create, Update, Creation, Revision

LEMMA ValueInitiallyTyped ==
    ASSUME ValuesAssumption, ValueInit
    PROVE  ValueTypeOK
<1>1. << >> \in Contents(kind)
  BY ContentsAreTexts DEF ValueInit
<1> QED
  BY <1>1 DEF ValueInit, ValueTypeOK, ValuesAssumption

LEMMA ValueStepKeepsTypes ==
    ASSUME ValuesAssumption, ValueTypeOK, [ValueNext]_valueVars
    PROVE  ValueTypeOK'
<1>1. CASE Create
  BY <1>1, WritesAre, WrittenIsContent, WriteKeepsTypes
<1>2. CASE Update
  BY <1>2, WritesAre, WrittenIsContent, WriteKeepsTypes
<1>3. CASE Read
  <2>1. tracked.value \in Contents(kind) \cup {Null}
    BY <1>3 DEF Read, Exists, ValueTypeOK
  <2>2. tracked' \in [value : Contents(kind) \cup {Null}, tainted : BOOLEAN]
    BY <1>3, <2>1, RefreshKeepsTypes DEF Read
  <2> QED
    BY <1>3, <2>2 DEF Read, ValueTypeOK
<1>4. CASE Import
  <2>1. tracked' \in [value : Contents(kind) \cup {Null}, tainted : BOOLEAN]
    BY <1>4, RefreshKeepsTypes DEF Import
  <2>2. edits' \in 0 .. MaxEdits
    BY <1>4 DEF Import, ValueTypeOK, ValuesAssumption
  <2> QED
    BY <1>4, <2>1, <2>2 DEF Import, ValueTypeOK
<1>5. CASE EditConfig
  <2>1. edits' \in 0 .. MaxEdits
    BY <1>5 DEF EditConfig, ValueTypeOK, ValuesAssumption
  <2> QED
    BY <1>5, <2>1 DEF EditConfig, ValueTypeOK
<1>6. CASE ChangeOutside
  <2>1. changes' \in 0 .. MaxChanges
    BY <1>6 DEF ChangeOutside, ValueTypeOK, ValuesAssumption
  <2> QED
    BY <1>6, <2>1 DEF ChangeOutside, ValueTypeOK
<1>7. CASE UNCHANGED valueVars
  BY <1>7 DEF valueVars, ValueTypeOK
<1> QED
  BY <1>1, <1>2, <1>3, <1>4, <1>5, <1>6, <1>7 DEF ValueNext

(* The variables of an attribute keep their types: whatever is sent, shown *)
(* and read, a content stays a text of its sort, a set stays sorted, and   *)
(* the state holds a content or null.                                      *)
THEOREM ValueTypeCorrect == ValueSpec => []ValueTypeOK
<1>1. ValueInit => ValueTypeOK
  BY ValuesAssumption, ValueInitiallyTyped
<1>2. ValueTypeOK /\ [ValueNext]_valueVars => ValueTypeOK'
  BY ValuesAssumption, ValueStepKeepsTypes
<1> QED
  BY <1>1, <1>2, PTL DEF ValueSpec

(* A write that stores what the service answers stores what was planned.   *)
LEMMA WriteIsConsistent ==
    ASSUME ValuesAssumption, ValueTypeOK, Create \/ Update,
           ~Reordered, ~CannotBeCleared, ~NilIsNull
    PROVE  tracked'.value = configured
<1>1. PICK creating \in BOOLEAN, content \in {Creation, Revision} :
        /\ Write(creating, content)
        /\ content = IF creating THEN Creation ELSE Revision
  BY WritesAre
<1>2. CASE StoresPlan(kind)
  BY <1>1, <1>2 DEF Write
<1>3. CASE ~StoresPlan(kind)
  <2>1. content = Configured
    BY <1>1, <1>3, WrittenIsConfigured DEF Creation, Revision
  <2>2. PICK a \in Answers(content) :
          tracked'.value = Settled(kind, configured, FromAPI(kind, configured, a))
    BY <1>1, <1>3 DEF Write
  <2> QED
    BY <1>3, <2>1, <2>2, AnswerIsConfigured
<1> QED
  BY <1>2, <1>3

(* "must match the planned value after apply": whatever the attribute, the *)
(* service and the value, a write leaves the state with what was planned,  *)
(* except for the cases that Reordered, CannotBeCleared and NilIsNull name *)
(* (integrations_common, tfconv).                                          *)
THEOREM ValuesAreConsistent == ValueSpec => Consistent
<1>1. ValueTypeOK /\ [ValueNext]_valueVars =>
        [(Create \/ Update) /\ ~Reordered /\ ~CannotBeCleared /\ ~NilIsNull
           => tracked'.value = configured]_valueVars
  BY ValuesAssumption, WriteIsConsistent
<1> QED
  BY <1>1, ValueTypeCorrect, PTL DEF ValueSpec, Consistent
===============================================================================
