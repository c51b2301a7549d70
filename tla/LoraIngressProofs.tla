-------------------------- MODULE LoraIngressProofs --------------------------
(***************************************************************************)
(* For every TTL, buffer size, set of stations and texts: a node does not  *)
(* route a mesh duplicate within TTL, does not stay deaf to a message for  *)
(* longer than TTL after it was last heard, and its loop guard is exact.   *)
(***************************************************************************)
EXTENDS LoraIngress, SequenceTheorems, WellFoundedInduction, TLAPS

---------------------------------------------------------------------------
(* The operators of TtlWindow.                                             *)

\* A set of naturals that is not empty has a least element.
LEMMA Least ==
    ASSUME NEW T, T \subseteq Nat, T # {}
    PROVE  \E x \in T : \A y \in T : x <= y
<1>1. PICK x \in T : \A y \in T : <<y, x>> \notin OpToRel(<, Nat)
    BY NatLessThanWellFounded, WFMin
<1>2. \A y \in T : ~ (y < x)
    BY <1>1 DEF OpToRel
<1> QED
    BY <1>2

\* A sequence of items with a time.
Timed(w) == Len(w) \in Nat /\ \A i \in 1..Len(w) : w[i].at \in Nat

\* evict() pops a prefix of items that are too old, and stops at the first that is not.
LEMMA EvictStops ==
    ASSUME NEW w, Timed(w), NEW now \in Nat
    PROVE  /\ FirstKept(w, now) \in 1..(Len(w) + 1)
           /\ \A j \in 1..(FirstKept(w, now) - 1) : ~Fresh(w[j], now)
           /\ FirstKept(w, now) <= Len(w) => Fresh(w[FirstKept(w, now)], now)
<1> DEFINE T == {j \in 1..Len(w) : Fresh(w[j], now)}
           P(i) == /\ \A j \in 1..(i - 1) : ~Fresh(w[j], now)
                   /\ i <= Len(w) => Fresh(w[i], now)
<1>1. Len(w) \in Nat
    BY DEF Timed
<1>2. \E i \in 1..(Len(w) + 1) : P(i)
  <2>1. CASE T = {}
    <3>1. P(Len(w) + 1)
        BY <1>1, <2>1
    <3> QED BY <1>1, <3>1
  <2>2. CASE T # {}
    <3>1. T \subseteq Nat
        BY <1>1
    <3>2. \E x \in T : \A y \in T : x <= y
      <4> HIDE DEF T, P
      <4> QED BY <2>2, <3>1, Least
    <3>3. PICK x \in T : \A y \in T : x <= y
        BY <3>2
    <3>4. P(x)
        BY <1>1, <3>3
    <3> QED BY <1>1, <3>3, <3>4
  <2> QED BY <2>1, <2>2
<1>3. FirstKept(w, now) = CHOOSE i \in 1..(Len(w) + 1) : P(i)
    BY DEF FirstKept
<1> HIDE DEF P
<1>4. FirstKept(w, now) \in 1..(Len(w) + 1) /\ P(FirstKept(w, now))
    BY <1>2, <1>3
<1> QED
    BY <1>4 DEF P

\* What is left is the window from the first item that is kept on.
LEMMA EvictLeaves ==
    ASSUME NEW S, NEW w \in Seq(S), Timed(w), NEW now \in Nat
    PROVE  /\ Evict(w, now) \in Seq(S)
           /\ Len(Evict(w, now)) = Len(w) - FirstKept(w, now) + 1
           /\ \A j \in 1..Len(Evict(w, now)) :
                /\ j + FirstKept(w, now) - 1 \in 1..Len(w)
                /\ Evict(w, now)[j] = w[j + FirstKept(w, now) - 1]
<1> DEFINE f == FirstKept(w, now)
<1>1. f \in 1..(Len(w) + 1)
    BY EvictStops
<1> HIDE DEF f
<1>2. Len(w) \in Nat /\ \A i \in f..Len(w) : w[i] \in S
    BY <1>1
<1>3. /\ SubSeq(w, f, Len(w)) \in Seq(S)
      /\ Len(SubSeq(w, f, Len(w))) = Len(w) - f + 1
      /\ \A j \in 1..(Len(w) - f + 1) : SubSeq(w, f, Len(w))[j] = w[f + j - 1]
    BY <1>1, <1>2, SubSeqProperties
<1>4. Evict(w, now) = SubSeq(w, f, Len(w))
    BY DEF Evict, f
<1>5. Len(Evict(w, now)) = Len(w) - f + 1
    BY <1>3, <1>4
<1>6. ASSUME NEW j \in 1..Len(Evict(w, now))
      PROVE  j + f - 1 \in 1..Len(w) /\ Evict(w, now)[j] = w[j + f - 1]
  <2>1. j \in 1..(Len(w) - f + 1)
    BY <1>5
  <2>2. Evict(w, now)[j] = w[f + j - 1]
    BY <1>3, <1>4, <2>1
  <2>3. j + f - 1 = f + j - 1 /\ j + f - 1 \in 1..Len(w)
    BY <1>1, <1>2, <2>1
  <2> QED BY <2>2, <2>3
<1> QED
    BY <1>3, <1>4, <1>5, <1>6 DEF f

\* Nothing that is fresh is evicted.
LEMMA FreshSurvives ==
    ASSUME NEW S, NEW w \in Seq(S), Timed(w), NEW now \in Nat,
           NEW i \in 1..Len(w), Fresh(w[i], now)
    PROVE  \E j \in 1..Len(Evict(w, now)) : Evict(w, now)[j] = w[i]
<1> DEFINE f == FirstKept(w, now)
<1>1. f \in 1..(Len(w) + 1) /\ \A j \in 1..(f - 1) : ~Fresh(w[j], now)
    BY EvictStops
<1>2. /\ Len(Evict(w, now)) = Len(w) - f + 1
      /\ \A j \in 1..Len(Evict(w, now)) : Evict(w, now)[j] = w[j + f - 1]
    BY EvictLeaves
<1> HIDE DEF f
<1>3. Len(w) \in Nat /\ i >= f
    BY <1>1
<1> DEFINE j == i - f + 1
<1>4. j \in 1..(Len(w) - f + 1) /\ j + f - 1 = i
    BY <1>1, <1>3
<1> HIDE DEF j
<1>5. j \in 1..Len(Evict(w, now)) /\ Evict(w, now)[j] = w[i]
    BY <1>2, <1>4
<1> QED
    BY <1>5

\* Dropping an item closes the gap it leaves.
LEMMA DropLeaves ==
    ASSUME NEW S, NEW w \in Seq(S), NEW p \in 1..Len(w)
    PROVE  /\ Drop(w, p) \in Seq(S)
           /\ Len(Drop(w, p)) = Len(w) - 1
           /\ \A j \in 1..(Len(w) - 1) : Drop(w, p)[j] = IF j < p THEN w[j] ELSE w[j + 1]
<1>1. Len(w) \in Nat /\ Len(w) >= 1
    OBVIOUS
<1>2. Drop(w, p) \in [1..(Len(w) - 1) -> S]
    BY <1>1 DEF Drop
<1>3. Drop(w, p) \in Seq(S)
    BY <1>1, <1>2
<1>4. Len(Drop(w, p)) = Len(w) - 1
    BY <1>1, <1>2, <1>3
<1> QED
    BY <1>1, <1>3, <1>4 DEF Drop

\* Position finds the item of a key that is there.
LEMMA PositionFinds ==
    ASSUME NEW S, NEW w \in Seq(S), NEW k, Has(w, k)
    PROVE  Position(w, k) \in 1..Len(w) /\ w[Position(w, k)].key = k
<1>1. \E i \in DOMAIN w : w[i].key = k
    BY DEF Has
<1> QED
    BY <1>1 DEF Position

---------------------------------------------------------------------------
(* The invariant of the dedup window.                                      *)

\* No key has two items.
Distinct(w) == \A i, j \in 1..Len(w) : w[i].key = w[j].key => i = j

\* An item is not younger than the last time its key was asked for (a), which is not in the
\* future.
NotYounger(w, a, now) ==
    \A i \in 1..Len(w) : a[w[i].key] # Never /\ w[i].at <= a[w[i].key] /\ a[w[i].key] <= now

\* Nor is any item in front of it: this is what eviction from the head relies on.
Ordered(w, a) == \A i, j \in 1..Len(w) : i < j => w[i].at <= a[w[j].key]

\* A key that was routed (r) within TTL has an item that is at least as young.
Remembers(w, r, now) ==
    \A k \in Keys :
        r[k] # Never =>
            /\ r[k] <= now
            /\ r[k] + TTL >= now => \E i \in 1..Len(w) : w[i].key = k /\ w[i].at >= r[k]

DedupInv(w, a, r, now) ==
    Distinct(w) /\ NotYounger(w, a, now) /\ Ordered(w, a) /\ Remembers(w, r, now)

\* The types the lemmas below assume.
DedupTypes(w, a, r, now) ==
    /\ w \in Seq([key : Keys, at : Nat])
    /\ a \in [Keys -> Nat] /\ r \in [Keys -> Nat] /\ now \in Nat

\* Every item of such a window has a key of K and a time.
LEMMA Items ==
    ASSUME NEW K, NEW w \in Seq([key : K, at : Nat])
    PROVE  /\ Timed(w)
           /\ Len(w) \in Nat
           /\ \A i \in 1..Len(w) : w[i].key \in K /\ w[i].at \in Nat
<1> DEFINE S == [key : K, at : Nat]
<1>1. w \in Seq(S)
    OBVIOUS
<1>2. \A x \in S : x.key \in K /\ x.at \in Nat
    OBVIOUS
<1> HIDE DEF S
<1>3. Len(w) \in Nat /\ \A i \in 1..Len(w) : w[i] \in S
    BY <1>1
<1> QED
    BY <1>2, <1>3 DEF Timed

\* Eviction preserves the invariant.
LEMMA EvictDedup ==
    ASSUME NEW w, NEW a, NEW r, NEW now, DedupTypes(w, a, r, now), DedupInv(w, a, r, now)
    PROVE  DedupTypes(Evict(w, now), a, r, now) /\ DedupInv(Evict(w, now), a, r, now)
<1> DEFINE e == Evict(w, now)
           f == FirstKept(w, now)
           S == [key : Keys, at : Nat]
<1> USE TtlAssumption
<1>1. now \in Nat /\ w \in Seq(S) /\ a \in [Keys -> Nat] /\ r \in [Keys -> Nat]
    BY DEF DedupTypes
<1>2. /\ Timed(w) /\ Len(w) \in Nat
      /\ \A i \in 1..Len(w) : w[i].key \in Keys /\ w[i].at \in Nat
    BY <1>1, Items
<1> HIDE DEF S
<1>3. f \in 1..(Len(w) + 1)
    BY <1>1, <1>2, EvictStops
<1>4. /\ e \in Seq(S)
      /\ Len(e) = Len(w) - f + 1
      /\ \A j \in 1..Len(e) : j + f - 1 \in 1..Len(w) /\ e[j] = w[j + f - 1]
    BY <1>1, <1>2, EvictLeaves
<1>5. \A i \in 1..Len(w) : Fresh(w[i], now) => \E j \in 1..Len(e) : e[j] = w[i]
    BY <1>1, <1>2, FreshSurvives
<1> HIDE DEF e, f
<1>6. ASSUME NEW i \in 1..Len(e), NEW j \in 1..Len(e)
      PROVE  \E x, y \in 1..Len(w) : /\ e[i] = w[x] /\ e[j] = w[y]
                                     /\ i < j => x < y
                                     /\ x = y => i = j
  <2>1. /\ i + f - 1 \in 1..Len(w) /\ j + f - 1 \in 1..Len(w)
        /\ i < j => i + f - 1 < j + f - 1
        /\ i + f - 1 = j + f - 1 => i = j
    BY <1>2, <1>3, <1>4
  <2> QED BY <1>4, <2>1
<1>7. Distinct(e)
  <2> SUFFICES ASSUME NEW i \in 1..Len(e), NEW j \in 1..Len(e), e[i].key = e[j].key
               PROVE  i = j
    BY DEF Distinct
  <2>1. PICK x \in 1..Len(w), y \in 1..Len(w) : e[i] = w[x] /\ e[j] = w[y] /\ (x = y => i = j)
    BY <1>6
  <2>2. x = y
    BY <2>1 DEF DedupInv, Distinct
  <2> QED BY <2>1, <2>2
<1>8. NotYounger(e, a, now)
  <2> SUFFICES ASSUME NEW i \in 1..Len(e)
               PROVE  a[e[i].key] # Never /\ e[i].at <= a[e[i].key] /\ a[e[i].key] <= now
    BY DEF NotYounger
  <2>1. PICK x \in 1..Len(w) : e[i] = w[x]
    BY <1>6
  <2> QED BY <2>1 DEF DedupInv, NotYounger
<1>9. Ordered(e, a)
  <2> SUFFICES ASSUME NEW i \in 1..Len(e), NEW j \in 1..Len(e), i < j
               PROVE  e[i].at <= a[e[j].key]
    BY DEF Ordered
  <2>1. PICK x \in 1..Len(w), y \in 1..Len(w) : e[i] = w[x] /\ e[j] = w[y] /\ x < y
    BY <1>6
  <2> QED BY <2>1 DEF DedupInv, Ordered
<1>10. Remembers(e, r, now)
  <2> SUFFICES ASSUME NEW k \in Keys, r[k] # Never, r[k] + TTL >= now
               PROVE  \E i \in 1..Len(e) : e[i].key = k /\ e[i].at >= r[k]
    BY DEF DedupInv, Remembers
  <2>1. PICK i \in 1..Len(w) : w[i].key = k /\ w[i].at >= r[k]
    BY DEF DedupInv, Remembers
  <2>2. w[i].at \in Nat /\ r[k] \in Nat
    BY <1>1, <1>2
  <2>3. Fresh(w[i], now)
    BY <1>1, <2>1, <2>2 DEF Fresh
  <2> QED BY <1>5, <2>1, <2>3
<1> QED
    BY <1>1, <1>4, <1>7, <1>8, <1>9, <1>10 DEF DedupInv, DedupTypes, e, S

\* A key that is there moves to the end and keeps its time.
LEMMA MoveDedup ==
    ASSUME NEW w, NEW a, NEW r, NEW now, DedupTypes(w, a, r, now), DedupInv(w, a, r, now),
           NEW p \in 1..Len(w), now # Never
    PROVE  LET m == Append(Drop(w, p), w[p])
               b == [a EXCEPT ![w[p].key] = now]
           IN DedupTypes(m, b, r, now) /\ DedupInv(m, b, r, now)
<1> DEFINE d == Drop(w, p)
           m == Append(d, w[p])
           b == [a EXCEPT ![w[p].key] = now]
           S == [key : Keys, at : Nat]
           L == Len(w)
<1>1. now \in Nat /\ w \in Seq(S) /\ a \in [Keys -> Nat] /\ r \in [Keys -> Nat]
    BY DEF DedupTypes
<1>2. L \in Nat /\ \A i \in 1..L : w[i].key \in Keys /\ w[i].at \in Nat
    BY <1>1, Items
<1> HIDE DEF S
<1>3. p \in 1..L /\ w[p] \in S
    BY <1>1
<1>4. /\ d \in Seq(S) /\ Len(d) = L - 1
      /\ \A j \in 1..(L - 1) : d[j] = IF j < p THEN w[j] ELSE w[j + 1]
    BY <1>1, DropLeaves
<1> HIDE DEF d
<1>5. /\ m \in Seq(S) /\ Len(m) = L
      /\ \A j \in 1..(L - 1) : m[j] = IF j < p THEN w[j] ELSE w[j + 1]
      /\ m[L] = w[p]
    BY <1>2, <1>3, <1>4, AppendProperties
<1>6. b \in [Keys -> Nat] /\ b[w[p].key] = now /\ \A k \in Keys : k # w[p].key => b[k] = a[k]
    BY <1>1, <1>2, <1>3
<1>7. \A i \in 1..L : /\ b[w[i].key] \in Nat /\ a[w[i].key] \in Nat
                      /\ b[w[i].key] <= now /\ b[w[i].key] # Never
                      /\ w[i].at <= a[w[i].key] /\ a[w[i].key] <= b[w[i].key]
    BY <1>1, <1>2, <1>3, <1>6 DEF DedupInv, NotYounger
<1> HIDE DEF m, b, L
\* The old place of item j of the new window.
<1> DEFINE Old(j) == IF j = L THEN p ELSE IF j < p THEN j ELSE j + 1
<1>8. \A j \in 1..L : Old(j) \in 1..L /\ m[j] = w[Old(j)]
    BY <1>2, <1>3, <1>5
<1>9. \A i, j \in 1..L : /\ Old(i) = Old(j) => i = j
                         /\ i < j /\ j # L => Old(i) < Old(j)
    BY <1>2, <1>3
<1>10. \A i \in 1..L : \E j \in 1..L : Old(j) = i
  <2> TAKE i \in 1..L
  <2>1. CASE i = p
    <3>1. Old(L) = i /\ L \in 1..L
      BY <1>2, <1>3, <2>1
    <3> QED BY <3>1
  <2>2. CASE i < p
    <3>1. Old(i) = i
      BY <1>2, <1>3, <2>2
    <3> QED BY <3>1
  <2>3. CASE i > p
    <3>1. i - 1 \in 1..L /\ Old(i - 1) = i
      BY <1>2, <1>3, <2>3
    <3> QED BY <3>1
  <2> QED BY <1>2, <1>3, <2>1, <2>2, <2>3
<1> HIDE DEF Old
<1>11. Distinct(m)
  <2> SUFFICES ASSUME NEW i \in 1..L, NEW j \in 1..L, m[i].key = m[j].key
               PROVE  i = j
    BY <1>5 DEF Distinct
  <2>1. Old(i) = Old(j)
    BY <1>8 DEF DedupInv, Distinct, L
  <2> QED BY <1>9, <2>1
<1>12. NotYounger(m, b, now)
  <2> SUFFICES ASSUME NEW j \in 1..L
               PROVE  b[m[j].key] # Never /\ m[j].at <= b[m[j].key] /\ b[m[j].key] <= now
    BY <1>5 DEF NotYounger
  <2>1. PICK i \in 1..L : m[j] = w[i]
    BY <1>8
  <2>2. w[i].at \in Nat
    BY <1>2
  <2> QED BY <1>1, <1>7, <2>1, <2>2, SMTT(60)
<1>13. Ordered(m, b)
  <2> SUFFICES ASSUME NEW i \in 1..L, NEW j \in 1..L, i < j
               PROVE  m[i].at <= b[m[j].key]
    BY <1>5 DEF Ordered
  <2>1. Old(i) \in 1..L /\ m[i] = w[Old(i)] /\ Old(j) \in 1..L /\ m[j] = w[Old(j)]
    BY <1>8
  <2>2. m[i].at \in Nat /\ m[i].at <= a[m[i].key] /\ a[m[i].key] \in Nat /\ a[m[i].key] <= now
    <3>1. PICK x \in 1..L : m[i] = w[x]
      BY <2>1
    <3>2. /\ w[x].at \in Nat /\ w[x].at <= a[w[x].key] /\ a[w[x].key] \in Nat
          /\ b[w[x].key] \in Nat /\ a[w[x].key] <= b[w[x].key] /\ b[w[x].key] <= now
      BY <1>2, <1>7
    <3>3. a[w[x].key] <= now
      BY <1>1, <3>2
    <3> QED BY <3>1, <3>2, <3>3
  <2>3. CASE j = L
    <3>1. b[m[j].key] = now
      BY <1>5, <1>6, <2>3
    <3> QED BY <1>1, <2>2, <3>1
  <2>4. CASE j # L
    <3>1. m[i].at <= a[m[j].key]
      BY <1>9, <2>1, <2>4 DEF DedupInv, Ordered, L
    <3>2. a[m[j].key] \in Nat /\ b[m[j].key] \in Nat /\ a[m[j].key] <= b[m[j].key]
      BY <1>7, <2>1
    <3> QED BY <2>2, <3>1, <3>2
  <2> QED BY <2>3, <2>4
<1>14. Remembers(m, r, now)
  <2> SUFFICES ASSUME NEW k \in Keys, r[k] # Never, r[k] + TTL >= now
               PROVE  \E i \in 1..L : m[i].key = k /\ m[i].at >= r[k]
    BY <1>5 DEF DedupInv, Remembers
  <2>1. PICK i \in 1..L : w[i].key = k /\ w[i].at >= r[k]
    BY DEF DedupInv, Remembers, L
  <2>2. PICK j \in 1..L : m[j] = w[i]
    BY <1>8, <1>10
  <2> QED BY <2>1, <2>2
<1>15. DedupTypes(m, b, r, now)
    BY <1>1, <1>5, <1>6 DEF DedupTypes, S
<1> QED
    BY <1>11, <1>12, <1>13, <1>14, <1>15 DEF DedupInv, m, b, d

\* A key that is not there gets an item of now; a message is routed (s) or swallowed as an echo.
LEMMA AppendDedup ==
    ASSUME NEW w, NEW a, NEW r, NEW now, DedupTypes(w, a, r, now), DedupInv(w, a, r, now),
           NEW k \in Keys, ~Has(w, k), now # Never,
           NEW s, s = r \/ s = [r EXCEPT ![k] = now]
    PROVE  LET m == Append(w, [key |-> k, at |-> now])
               b == [a EXCEPT ![k] = now]
           IN DedupTypes(m, b, s, now) /\ DedupInv(m, b, s, now)
<1> DEFINE x == [key |-> k, at |-> now]
           m == Append(w, x)
           b == [a EXCEPT ![k] = now]
           S == [key : Keys, at : Nat]
           L == Len(w)
<1>1. now \in Nat /\ w \in Seq(S) /\ a \in [Keys -> Nat] /\ r \in [Keys -> Nat]
    BY DEF DedupTypes
<1>2. L \in Nat /\ \A i \in 1..L : w[i].key \in Keys /\ w[i].at \in Nat
    BY <1>1, Items
<1>3. x \in S /\ x.key = k /\ x.at = now
    BY <1>1
<1> HIDE DEF S, x
<1>4. /\ m \in Seq(S) /\ Len(m) = L + 1 /\ m[L + 1] = x
      /\ \A i \in 1..L : m[i] = w[i]
    BY <1>1, <1>2, <1>3, AppendProperties
<1>5. b \in [Keys -> Nat] /\ b[k] = now /\ \A q \in Keys : q # k => b[q] = a[q]
    BY <1>1
<1>6. \A i \in 1..L : w[i].key # k
    BY <1>1 DEF Has
<1>7. \A i \in 1..L : /\ a[w[i].key] \in Nat /\ a[w[i].key] # Never
                      /\ w[i].at <= a[w[i].key] /\ a[w[i].key] <= now /\ w[i].at <= now
  <2> TAKE i \in 1..L
  <2>1. a[w[i].key] # Never /\ w[i].at <= a[w[i].key] /\ a[w[i].key] <= now
    BY DEF DedupInv, NotYounger
  <2>2. w[i].key \in Keys /\ w[i].at \in Nat
    BY <1>2
  <2>3. a[w[i].key] \in Nat
    BY <1>1, <2>2
  <2> QED BY <1>1, <2>1, <2>2, <2>3
<1>8. s \in [Keys -> Nat] /\ \A q \in Keys : q # k => s[q] = r[q]
    BY <1>1
<1>9. s[k] = r[k] \/ s[k] = now
    BY <1>1
<1>10. \A q \in Keys : r[q] # Never => r[q] <= now
    BY DEF DedupInv, Remembers
<1> HIDE DEF m, b
<1>11. Distinct(m)
  <2> SUFFICES ASSUME NEW i \in 1..(L + 1), NEW j \in 1..(L + 1), m[i].key = m[j].key
               PROVE  i = j
    BY <1>4 DEF Distinct
  <2>1. CASE i \in 1..L /\ j \in 1..L
    BY <1>4, <2>1 DEF DedupInv, Distinct
  <2>2. CASE i \in 1..L /\ j = L + 1
    BY <1>3, <1>4, <1>6, <2>2
  <2>3. CASE i = L + 1 /\ j \in 1..L
    BY <1>3, <1>4, <1>6, <2>3
  <2> QED BY <1>2, <2>1, <2>2, <2>3
<1>12. NotYounger(m, b, now)
  <2> SUFFICES ASSUME NEW i \in 1..(L + 1)
               PROVE  b[m[i].key] # Never /\ m[i].at <= b[m[i].key] /\ b[m[i].key] <= now
    BY <1>4 DEF NotYounger
  <2>1. CASE i \in 1..L
    <3>1. w[i].key \in Keys /\ w[i].key # k /\ m[i] = w[i]
      BY <1>2, <1>4, <1>6, <2>1
    <3>2. b[w[i].key] = a[w[i].key]
      BY <1>5, <3>1
    <3> QED BY <1>7, <2>1, <3>1, <3>2
  <2>2. CASE i = L + 1
    BY <1>1, <1>3, <1>4, <1>5, <2>2
  <2> QED BY <1>2, <2>1, <2>2
<1>13. Ordered(m, b)
  <2> SUFFICES ASSUME NEW i \in 1..(L + 1), NEW j \in 1..(L + 1), i < j
               PROVE  m[i].at <= b[m[j].key]
    BY <1>4 DEF Ordered
  <2>1. i \in 1..L /\ m[i] = w[i]
    BY <1>2, <1>4
  <2>2. CASE j \in 1..L
    <3>1. w[j].key \in Keys /\ w[j].key # k /\ m[j] = w[j]
      BY <1>2, <1>4, <1>6, <2>2
    <3>2. b[w[j].key] = a[w[j].key]
      BY <1>5, <3>1
    <3>3. w[i].at <= a[w[j].key]
      BY <2>1, <2>2 DEF DedupInv, Ordered
    <3> QED BY <2>1, <3>1, <3>2, <3>3
  <2>3. CASE j = L + 1
    BY <1>3, <1>4, <1>5, <1>7, <2>1, <2>3
  <2> QED BY <1>2, <2>2, <2>3
<1>14. Remembers(m, s, now)
  <2> SUFFICES ASSUME NEW q \in Keys, s[q] # Never
               PROVE  /\ s[q] <= now
                      /\ s[q] + TTL >= now
                            => \E i \in 1..(L + 1) : m[i].key = q /\ m[i].at >= s[q]
    BY <1>4 DEF Remembers
  <2>1. CASE s[q] = r[q]
    <3>1. s[q] <= now
      BY <1>10, <2>1
    <3>2. ASSUME r[q] + TTL >= now PROVE \E i \in 1..(L + 1) : m[i].key = q /\ m[i].at >= r[q]
      <4>1. PICK i \in 1..L : w[i].key = q /\ w[i].at >= r[q]
        BY <2>1, <3>2 DEF DedupInv, Remembers
      <4>2. i \in 1..(L + 1) /\ m[i] = w[i]
        BY <1>2, <1>4
      <4> QED BY <4>1, <4>2
    <3> QED BY <2>1, <3>1, <3>2
  <2>2. CASE q = k /\ s[q] = now
    <3>1. m[L + 1].key = q /\ m[L + 1].at >= s[q] /\ L + 1 \in 1..(L + 1)
      BY <1>1, <1>2, <1>3, <1>4, <2>2
    <3> QED BY <1>1, <2>2, <3>1
  <2> QED BY <1>8, <1>9, <2>1, <2>2
<1>15. DedupTypes(m, b, s, now)
    BY <1>1, <1>4, <1>5, <1>8 DEF DedupTypes, S
<1> QED
    BY <1>11, <1>12, <1>13, <1>14, <1>15 DEF DedupInv, m, b, x

\* Time passes.
LEMMA LaterDedup ==
    ASSUME NEW w, NEW a, NEW r, NEW now, DedupTypes(w, a, r, now), DedupInv(w, a, r, now)
    PROVE  DedupTypes(w, a, r, now + 1) /\ DedupInv(w, a, r, now + 1)
<1>1. now \in Nat /\ a \in [Keys -> Nat] /\ r \in [Keys -> Nat] /\ TTL \in Nat
    BY TtlAssumption DEF DedupTypes
<1>2. \A i \in 1..Len(w) : w[i].key \in Keys
    BY Items DEF DedupTypes
<1>3. NotYounger(w, a, now + 1)
  <2> SUFFICES ASSUME NEW i \in 1..Len(w)
               PROVE  a[w[i].key] # Never /\ w[i].at <= a[w[i].key] /\ a[w[i].key] <= now + 1
    BY DEF NotYounger
  <2>1. a[w[i].key] # Never /\ w[i].at <= a[w[i].key] /\ a[w[i].key] <= now
    BY DEF DedupInv, NotYounger
  <2>2. a[w[i].key] \in Nat
    BY <1>1, <1>2
  <2> QED BY <1>1, <2>1, <2>2
<1>4. Remembers(w, r, now + 1)
  <2> SUFFICES ASSUME NEW k \in Keys, r[k] # Never
               PROVE  /\ r[k] <= now + 1
                      /\ r[k] + TTL >= now + 1
                            => \E i \in 1..Len(w) : w[i].key = k /\ w[i].at >= r[k]
    BY DEF Remembers
  <2>1. r[k] \in Nat /\ r[k] <= now
    BY <1>1 DEF DedupInv, Remembers
  <2>2. r[k] + TTL >= now => \E i \in 1..Len(w) : w[i].key = k /\ w[i].at >= r[k]
    BY DEF DedupInv, Remembers
  <2> QED BY <1>1, <2>1, <2>2
<1> QED
    BY <1>1, <1>3, <1>4 DEF DedupInv, DedupTypes

---------------------------------------------------------------------------
(* The invariant of the loop guard.                                        *)

\* An item has the time its text was last marked (s), which is not in the future.
Exact(w, s, now) ==
    \A i \in 1..Len(w) : s[w[i].key] # Never /\ w[i].at = s[w[i].key] /\ w[i].at <= now

Sorted(w) == \A i, j \in 1..Len(w) : i < j => w[i].at <= w[j].at

\* A text marked within TTL has an item.
Marked(w, s, now) ==
    \A t \in Wires : s[t] # Never /\ s[t] + TTL >= now => \E i \in 1..Len(w) : w[i].key = t

GuardInv(w, s, now) == Distinct(w) /\ Exact(w, s, now) /\ Sorted(w) /\ Marked(w, s, now)

GuardTypes(w, s, now) ==
    w \in Seq([key : Wires, at : Nat]) /\ s \in [Wires -> Nat] /\ now \in Nat

\* Eviction preserves it and leaves nothing that is too old.
LEMMA EvictGuard ==
    ASSUME NEW w, NEW s, NEW now, GuardTypes(w, s, now), GuardInv(w, s, now)
    PROVE  /\ GuardTypes(Evict(w, now), s, now) /\ GuardInv(Evict(w, now), s, now)
           /\ \A i \in 1..Len(Evict(w, now)) : Fresh(Evict(w, now)[i], now)
<1> DEFINE e == Evict(w, now)
           f == FirstKept(w, now)
           S == [key : Wires, at : Nat]
<1> USE TtlAssumption
<1>1. now \in Nat /\ w \in Seq(S) /\ s \in [Wires -> Nat]
    BY DEF GuardTypes
<1>2. /\ Timed(w) /\ Len(w) \in Nat
      /\ \A i \in 1..Len(w) : w[i].key \in Wires /\ w[i].at \in Nat
    BY <1>1, Items
<1> HIDE DEF S
<1>3. f \in 1..(Len(w) + 1) /\ (f <= Len(w) => Fresh(w[f], now))
    BY <1>1, <1>2, EvictStops
<1>4. /\ e \in Seq(S)
      /\ Len(e) = Len(w) - f + 1
      /\ \A j \in 1..Len(e) : j + f - 1 \in 1..Len(w) /\ e[j] = w[j + f - 1]
    BY <1>1, <1>2, EvictLeaves
<1>5. \A i \in 1..Len(w) : Fresh(w[i], now) => \E j \in 1..Len(e) : e[j] = w[i]
    BY <1>1, <1>2, FreshSurvives
<1> HIDE DEF e, f
<1>6. ASSUME NEW i \in 1..Len(e), NEW j \in 1..Len(e)
      PROVE  \E x, y \in 1..Len(w) : /\ e[i] = w[x] /\ e[j] = w[y]
                                     /\ i < j => x < y
                                     /\ x = y => i = j
                                     /\ x >= f
  <2>1. /\ i + f - 1 \in 1..Len(w) /\ j + f - 1 \in 1..Len(w)
        /\ i < j => i + f - 1 < j + f - 1
        /\ i + f - 1 = j + f - 1 => i = j
        /\ i + f - 1 >= f
    BY <1>2, <1>3, <1>4
  <2> QED BY <1>4, <2>1
<1>7. Distinct(e)
  <2> SUFFICES ASSUME NEW i \in 1..Len(e), NEW j \in 1..Len(e), e[i].key = e[j].key
               PROVE  i = j
    BY DEF Distinct
  <2>1. PICK x \in 1..Len(w), y \in 1..Len(w) : e[i] = w[x] /\ e[j] = w[y] /\ (x = y => i = j)
    BY <1>6
  <2>2. x = y
    BY <2>1 DEF GuardInv, Distinct
  <2> QED BY <2>1, <2>2
<1>8. Exact(e, s, now)
  <2> SUFFICES ASSUME NEW i \in 1..Len(e)
               PROVE  s[e[i].key] # Never /\ e[i].at = s[e[i].key] /\ e[i].at <= now
    BY DEF Exact
  <2>1. PICK x \in 1..Len(w) : e[i] = w[x]
    BY <1>6
  <2> QED BY <2>1 DEF GuardInv, Exact
<1>9. Sorted(e)
  <2> SUFFICES ASSUME NEW i \in 1..Len(e), NEW j \in 1..Len(e), i < j
               PROVE  e[i].at <= e[j].at
    BY DEF Sorted
  <2>1. PICK x \in 1..Len(w), y \in 1..Len(w) : e[i] = w[x] /\ e[j] = w[y] /\ x < y
    BY <1>6
  <2> QED BY <2>1 DEF GuardInv, Sorted
<1>10. Marked(e, s, now)
  <2> SUFFICES ASSUME NEW t \in Wires, s[t] # Never, s[t] + TTL >= now
               PROVE  \E i \in 1..Len(e) : e[i].key = t
    BY DEF Marked
  <2>1. PICK i \in 1..Len(w) : w[i].key = t
    BY DEF GuardInv, Marked
  <2>2. Fresh(w[i], now)
    BY <2>1 DEF GuardInv, Exact, Fresh
  <2> QED BY <1>5, <2>1, <2>2
<1>11. ASSUME NEW i \in 1..Len(e) PROVE Fresh(e[i], now)
  <2>1. PICK x \in 1..Len(w) : e[i] = w[x] /\ x >= f
    BY <1>6
  <2>2. f \in 1..Len(w) /\ w[f].at \in Nat /\ w[x].at \in Nat /\ w[f].at + TTL >= now
    BY <1>2, <1>3, <2>1 DEF Fresh
  <2>3. w[f].at <= w[x].at
    BY <2>1, <2>2 DEF GuardInv, Sorted
  <2> QED BY <1>1, <2>1, <2>2, <2>3 DEF Fresh
<1> QED
    BY <1>1, <1>4, <1>7, <1>8, <1>9, <1>10, <1>11 DEF GuardInv, GuardTypes, e, S

\* d is w without the item of k.
Without(d, w, k) ==
    /\ \A i, j \in 1..Len(d) : \E x, y \in 1..Len(w) : /\ d[i] = w[x] /\ d[j] = w[y]
                                                       /\ i < j => x < y
                                                       /\ x = y => i = j
    /\ \A i \in 1..Len(d) : d[i].key # k
    /\ \A x \in 1..Len(w) : w[x].key # k => \E i \in 1..Len(d) : d[i] = w[x]

\* Drop removes the item of its key and nothing else, in a window that has no key twice.
LEMMA DropWithout ==
    ASSUME NEW S, NEW w \in Seq(S), Distinct(w), NEW p \in 1..Len(w)
    PROVE  Drop(w, p) \in Seq(S) /\ Without(Drop(w, p), w, w[p].key)
<1> DEFINE d == Drop(w, p)
           L == Len(w)
<1>1. L \in Nat /\ p \in 1..L
    OBVIOUS
<1>2. /\ d \in Seq(S) /\ Len(d) = L - 1
      /\ \A j \in 1..(L - 1) : d[j] = IF j < p THEN w[j] ELSE w[j + 1]
    BY DropLeaves
<1> HIDE DEF d
<1> DEFINE Old(j) == IF j < p THEN j ELSE j + 1
<1>3. \A j \in 1..Len(d) : Old(j) \in 1..L /\ Old(j) # p /\ d[j] = w[Old(j)]
    BY <1>1, <1>2
<1>4. \A i, j \in 1..Len(d) : (i < j => Old(i) < Old(j)) /\ (Old(i) = Old(j) => i = j)
    BY <1>1, <1>2
<1>5. ASSUME NEW x \in 1..L, x # p PROVE \E j \in 1..Len(d) : Old(j) = x
  <2>1. CASE x < p
    <3>1. x \in 1..Len(d) /\ Old(x) = x
      BY <1>1, <1>2, <2>1
    <3> QED BY <3>1
  <2>2. CASE x > p
    <3>1. x - 1 \in 1..Len(d) /\ Old(x - 1) = x
      BY <1>1, <1>2, <2>2
    <3> QED BY <3>1
  <2> QED BY <1>1, <1>5, <2>1, <2>2
<1> HIDE DEF Old, L
<1>6. \A i, j \in 1..Len(d) : \E x, y \in 1..L : /\ d[i] = w[x] /\ d[j] = w[y]
                                                 /\ i < j => x < y
                                                 /\ x = y => i = j
    BY <1>3, <1>4
<1>7. ASSUME NEW i \in 1..Len(d) PROVE d[i].key # w[p].key
    BY <1>1, <1>3 DEF Distinct, L
<1>8. ASSUME NEW x \in 1..L, w[x].key # w[p].key PROVE \E i \in 1..Len(d) : d[i] = w[x]
    BY <1>3, <1>5, <1>8
<1> QED
    BY <1>2, <1>6, <1>7, <1>8 DEF Without, d, L

\* A text is marked.
LEMMA AddGuard ==
    ASSUME NEW w, NEW s, NEW now, GuardTypes(w, s, now), GuardInv(w, s, now),
           NEW t \in Wires, now # Never
    PROVE  LET b == [s EXCEPT ![t] = now]
           IN GuardTypes(Add(w, t, now), b, now) /\ GuardInv(Add(w, t, now), b, now)
<1> DEFINE e == Evict(w, now)
           d == IF Has(e, t) THEN Drop(e, Position(e, t)) ELSE e
           x == [key |-> t, at |-> now]
           b == [s EXCEPT ![t] = now]
           S == [key : Wires, at : Nat]
<1>1. GuardTypes(e, s, now) /\ GuardInv(e, s, now)
    BY EvictGuard
<1> HIDE DEF e
<1>2. now \in Nat /\ e \in Seq(S) /\ s \in [Wires -> Nat]
    BY <1>1 DEF GuardTypes
<1>3. Len(e) \in Nat /\ \A i \in 1..Len(e) : e[i].key \in Wires /\ e[i].at \in Nat
    BY <1>2, Items
<1>4. x \in S /\ x.key = t /\ x.at = now
    BY <1>2
<1> HIDE DEF S, x
<1>5. d \in Seq(S) /\ Without(d, e, t)
  <2>1. CASE Has(e, t)
    <3>1. Position(e, t) \in 1..Len(e) /\ e[Position(e, t)].key = t
      BY <1>2, <2>1, PositionFinds
    <3>2. Distinct(e)
      BY <1>1 DEF GuardInv
    <3>3. Drop(e, Position(e, t)) \in Seq(S) /\ Without(Drop(e, Position(e, t)), e, t)
      BY <1>2, <3>1, <3>2, DropWithout
    <3> QED BY <2>1, <3>3
  <2>2. CASE ~Has(e, t)
    <3>1. d = e
      BY <2>2
    <3>2. \A i \in 1..Len(e) : e[i].key # t
      BY <1>2, <2>2 DEF Has
    <3>3. Without(e, e, t)
      BY <3>2 DEF Without
    <3> QED BY <1>2, <3>1, <3>3
  <2> QED BY <2>1, <2>2
<1>6. Add(w, t, now) = Append(d, x)
    BY DEF Add, e, x
<1> HIDE DEF d
<1> DEFINE m == Append(d, x)
           L == Len(d)
<1>7. /\ m \in Seq(S) /\ Len(m) = L + 1 /\ m[L + 1] = x /\ L \in Nat
      /\ \A i \in 1..L : m[i] = d[i]
    BY <1>4, <1>5, AppendProperties
<1>8. b \in [Wires -> Nat] /\ b[t] = now /\ \A q \in Wires : q # t => b[q] = s[q]
    BY <1>2
<1> HIDE DEF m, b
<1>9. \A i \in 1..L : \E y \in 1..Len(e) : m[i] = e[y]
    BY <1>5, <1>7 DEF Without
<1>10. \A i \in 1..L : m[i].key # t
    BY <1>5, <1>7 DEF Without
<1>11. Distinct(m)
  <2> SUFFICES ASSUME NEW i \in 1..(L + 1), NEW j \in 1..(L + 1), m[i].key = m[j].key
               PROVE  i = j
    BY <1>7 DEF Distinct
  <2>1. CASE i \in 1..L /\ j \in 1..L
    <3>1. PICK y \in 1..Len(e), z \in 1..Len(e) :
            d[i] = e[y] /\ d[j] = e[z] /\ (y = z => i = j)
      BY <1>5, <2>1 DEF Without
    <3>2. y = z
      BY <1>1, <1>7, <2>1, <3>1 DEF GuardInv, Distinct
    <3> QED BY <3>1, <3>2
  <2>2. CASE i \in 1..L /\ j = L + 1
    BY <1>4, <1>7, <1>10, <2>2
  <2>3. CASE i = L + 1 /\ j \in 1..L
    BY <1>4, <1>7, <1>10, <2>3
  <2> QED BY <1>7, <2>1, <2>2, <2>3
<1>12. Exact(m, b, now)
  <2> SUFFICES ASSUME NEW i \in 1..(L + 1)
               PROVE  b[m[i].key] # Never /\ m[i].at = b[m[i].key] /\ m[i].at <= now
    BY <1>7 DEF Exact
  <2>1. CASE i \in 1..L
    <3>1. PICK y \in 1..Len(e) : m[i] = e[y]
      BY <1>9, <2>1
    <3>2. e[y].key \in Wires /\ e[y].key # t
      BY <1>3, <1>10, <2>1, <3>1
    <3>3. b[e[y].key] = s[e[y].key]
      BY <1>8, <3>2
    <3> QED BY <1>1, <3>1, <3>3 DEF GuardInv, Exact
  <2>2. CASE i = L + 1
    BY <1>2, <1>4, <1>7, <1>8, <2>2
  <2> QED BY <1>7, <2>1, <2>2
<1>13. Sorted(m)
  <2> SUFFICES ASSUME NEW i \in 1..(L + 1), NEW j \in 1..(L + 1), i < j
               PROVE  m[i].at <= m[j].at
    BY <1>7 DEF Sorted
  <2>1. i \in 1..L /\ m[i] = d[i]
    BY <1>7
  <2>2. CASE j \in 1..L
    <3>1. PICK y \in 1..Len(e), z \in 1..Len(e) : d[i] = e[y] /\ d[j] = e[z] /\ y < z
      BY <1>5, <2>1, <2>2 DEF Without
    <3> QED BY <1>1, <1>7, <2>1, <2>2, <3>1 DEF GuardInv, Sorted
  <2>3. CASE j = L + 1
    <3>1. PICK y \in 1..Len(e) : m[i] = e[y]
      BY <1>9, <2>1
    <3>2. e[y].at <= now
      BY <1>1 DEF GuardInv, Exact
    <3> QED BY <1>4, <1>7, <2>3, <3>1, <3>2
  <2> QED BY <1>7, <2>2, <2>3
<1>14. Marked(m, b, now)
  <2> SUFFICES ASSUME NEW q \in Wires, b[q] # Never, b[q] + TTL >= now
               PROVE  \E i \in 1..(L + 1) : m[i].key = q
    BY <1>7 DEF Marked
  <2>1. CASE q = t
    BY <1>4, <1>7, <2>1
  <2>2. CASE q # t
    <3>1. b[q] = s[q]
      BY <1>8, <2>2
    <3>2. PICK y \in 1..Len(e) : e[y].key = q
      BY <1>1, <3>1 DEF GuardInv, Marked
    <3>3. PICK i \in 1..L : d[i] = e[y]
      BY <1>5, <2>2, <3>2 DEF Without
    <3>4. i \in 1..(L + 1) /\ m[i] = d[i]
      BY <1>7
    <3> QED BY <3>2, <3>3, <3>4
  <2> QED BY <2>1, <2>2
<1>15. GuardTypes(m, b, now)
    BY <1>2, <1>7, <1>8 DEF GuardTypes, S
<1> QED
    BY <1>6, <1>11, <1>12, <1>13, <1>14, <1>15 DEF GuardInv, m, b

\* Time passes.
LEMMA LaterGuard ==
    ASSUME NEW w, NEW s, NEW now, GuardTypes(w, s, now), GuardInv(w, s, now)
    PROVE  GuardTypes(w, s, now + 1) /\ GuardInv(w, s, now + 1)
<1>1. now \in Nat /\ s \in [Wires -> Nat] /\ TTL \in Nat
    BY TtlAssumption DEF GuardTypes
<1>2. \A i \in 1..Len(w) : w[i].at \in Nat
    BY Items DEF GuardTypes
<1>3. Exact(w, s, now + 1)
    BY <1>1, <1>2 DEF GuardInv, Exact
<1>4. Marked(w, s, now + 1)
  <2> SUFFICES ASSUME NEW t \in Wires, s[t] # Never, s[t] + TTL >= now + 1
               PROVE  \E i \in 1..Len(w) : w[i].key = t
    BY DEF Marked
  <2>1. s[t] \in Nat
    BY <1>1
  <2>2. s[t] + TTL >= now
    BY <1>1, <2>1
  <2> QED BY <2>2 DEF GuardInv, Marked
<1> QED
    BY <1>1, <1>3, <1>4 DEF GuardInv, GuardTypes

---------------------------------------------------------------------------
(* The state.                                                              *)

\* TypeOK, with times that are only known to be numbers in the two windows.
Types ==
    /\ clock \in Times
    /\ hub \in Seq(Frame) /\ Len(hub) <= HubSize
    /\ routing \in BOOLEAN
    /\ dedup \in Seq([key : Keys, at : Nat]) /\ guard \in Seq([key : Wires, at : Nat])
    /\ tx \in Wires \cup {NoWire} /\ onAir \subseteq Wires
    /\ asked \in [Keys -> Times \cup {Never}]
    /\ sentAt \in [Wires -> Times \cup {Never}]
    /\ routedAt \in [Keys -> Times \cup {Never}]

IngressInv ==
    /\ Types
    /\ DedupInv(dedup, asked, routedAt, clock)
    /\ GuardInv(guard, sentAt, clock)

\* Never is a number after every time of the clock.
LEMMA TimesAreNumbers ==
    /\ Never \in Nat /\ Times \subseteq Nat
    /\ \A t \in Times : t # Never /\ t <= MaxTime
BY IngressAssumption DEF Never, Times

\* Types gives the two windows the types their lemmas assume.
LEMMA WindowTypes ==
    ASSUME Types
    PROVE  DedupTypes(dedup, asked, routedAt, clock) /\ GuardTypes(guard, sentAt, clock)
BY TimesAreNumbers DEF Types, DedupTypes, GuardTypes

\* The invariant holds when the node starts: both windows are empty and no history exists.
LEMMA InitIngress == Init => IngressInv
<1> SUFFICES ASSUME Init PROVE IngressInv
    OBVIOUS
<1>1. 0 \in Times
    BY IngressAssumption DEF Times
<1>2. Types
  <2>1. hub \in Seq(Frame) /\ Len(hub) <= HubSize
    BY IngressAssumption DEF Init
  <2>2. dedup \in Seq([key : Keys, at : Nat])
    <3> DEFINE S == [key : Keys, at : Nat]
    <3> HIDE DEF S
    <3>1. dedup \in Seq(S)
      BY DEF Init
    <3> QED BY <3>1 DEF S
  <2>3. guard \in Seq([key : Wires, at : Nat])
    <3> DEFINE S == [key : Wires, at : Nat]
    <3> HIDE DEF S
    <3>1. guard \in Seq(S)
      BY DEF Init
    <3> QED BY <3>1 DEF S
  <2>4. /\ asked \in [Keys -> Times \cup {Never}]
        /\ sentAt \in [Wires -> Times \cup {Never}]
        /\ routedAt \in [Keys -> Times \cup {Never}]
    BY DEF Init
  <2>5. /\ clock \in Times /\ routing \in BOOLEAN
        /\ tx \in Wires \cup {NoWire} /\ onAir \subseteq Wires
    BY <1>1 DEF Init
  <2> QED BY <2>1, <2>2, <2>3, <2>4, <2>5 DEF Types
<1>3. Len(dedup) = 0 /\ Len(guard) = 0
    BY DEF Init
<1>4. 1..Len(dedup) = {} /\ 1..Len(guard) = {}
    BY <1>3
<1>5. Distinct(dedup) /\ NotYounger(dedup, asked, clock) /\ Ordered(dedup, asked)
    BY <1>4 DEF Distinct, NotYounger, Ordered
<1>6. \A k \in Keys : routedAt[k] = Never
    BY DEF Init
<1>7. Remembers(dedup, routedAt, clock)
    BY <1>6 DEF Remembers
<1>8. Distinct(guard) /\ Exact(guard, sentAt, clock) /\ Sorted(guard)
    BY <1>4 DEF Distinct, Exact, Sorted
<1>9. \A w \in Wires : sentAt[w] = Never
    BY DEF Init
<1>10. Marked(guard, sentAt, clock)
    BY <1>9 DEF Marked
<1> QED
    BY <1>2, <1>5, <1>7, <1>8, <1>10 DEF IngressInv, DedupInv, GuardInv

\* A frame is published.
LEMMA PublishTyped ==
    ASSUME Types, NEW f \in Frame, Publish(f)
    PROVE  hub' \in Seq(Frame) /\ Len(hub') <= HubSize
<1>1. CASE Len(hub) < HubSize
  <2>1. hub' = Append(hub, f) /\ hub \in Seq(Frame) /\ Len(hub) \in Nat
    BY <1>1 DEF Publish, Types
  <2>2. hub' \in Seq(Frame) /\ Len(hub') = Len(hub) + 1
    BY <2>1, AppendProperties
  <2> QED BY <1>1, <2>1, <2>2, IngressAssumption
<1>2. CASE ~(Len(hub) < HubSize)
    BY <1>2 DEF Publish, Types
<1> QED BY <1>1, <1>2

\* A frame is taken and its key asked for; a key that is not there may be routed.
LEMMA TakeFrame ==
    ASSUME IngressInv, NEW f \in Frame, NextFrame(f),
           \/ routedAt' = routedAt
           \/ ~Has(Evict(dedup, clock), f.key) /\ routedAt' = [routedAt EXCEPT ![f.key] = clock]
    PROVE  /\ hub' \in Seq(Frame) /\ Len(hub') <= HubSize
           /\ asked' \in [Keys -> Times \cup {Never}]
           /\ routedAt' \in [Keys -> Times \cup {Never}]
           /\ dedup' \in Seq([key : Keys, at : Nat])
           /\ DedupInv(dedup', asked', routedAt', clock)
<1> DEFINE e == Evict(dedup, clock)
           k == f.key
<1>1. k \in Keys
    BY DEF Frame
<1>2. clock \in Times /\ clock \in Nat /\ clock # Never
    BY TimesAreNumbers DEF IngressInv, Types
<1>3. hub' \in Seq(Frame) /\ Len(hub') <= HubSize
  <2>1. hub \in Seq(Frame) /\ hub # <<>> /\ hub' = Tail(hub) /\ Len(hub) <= HubSize
    BY DEF IngressInv, Types, NextFrame
  <2>2. hub' \in Seq(Frame) /\ Len(hub') = Len(hub) - 1 /\ Len(hub) \in Nat
    BY <2>1
  <2> QED BY <2>1, <2>2, IngressAssumption
<1>4. asked' = [asked EXCEPT ![k] = clock] /\ dedup' = AddIfAbsent(dedup, k, clock)
    BY DEF NextFrame
<1>5. asked' \in [Keys -> Times \cup {Never}] /\ routedAt' \in [Keys -> Times \cup {Never}]
    BY <1>1, <1>2, <1>4 DEF IngressInv, Types
<1>6. DedupTypes(e, asked, routedAt, clock) /\ DedupInv(e, asked, routedAt, clock)
    BY WindowTypes, EvictDedup DEF IngressInv
<1>7. e \in Seq([key : Keys, at : Nat])
    BY <1>6 DEF DedupTypes
<1>8. DedupTypes(dedup', asked', routedAt', clock) /\ DedupInv(dedup', asked', routedAt', clock)
  <2>1. CASE Has(e, k)
    <3> DEFINE p == Position(e, k)
    <3>1. p \in 1..Len(e) /\ e[p].key = k
      BY <1>7, <2>1, PositionFinds
    <3>2. dedup' = Append(Drop(e, p), e[p])
      BY <1>4, <2>1 DEF AddIfAbsent
    <3>3. routedAt' = routedAt
      BY <2>1
    <3> HIDE DEF p, e, k
    <3>4. LET m == Append(Drop(e, p), e[p])
              b == [asked EXCEPT ![e[p].key] = clock]
          IN DedupTypes(m, b, routedAt, clock) /\ DedupInv(m, b, routedAt, clock)
      BY <1>2, <1>6, <3>1, MoveDedup
    <3> QED BY <1>4, <3>1, <3>2, <3>3, <3>4
  <2>2. CASE ~Has(e, k)
    <3>1. dedup' = Append(e, [key |-> k, at |-> clock])
      BY <1>4, <2>2 DEF AddIfAbsent
    <3>2. routedAt' = routedAt \/ routedAt' = [routedAt EXCEPT ![k] = clock]
      OBVIOUS
    <3> HIDE DEF e, k
    <3>3. LET m == Append(e, [key |-> k, at |-> clock])
              b == [asked EXCEPT ![k] = clock]
          IN DedupTypes(m, b, routedAt', clock) /\ DedupInv(m, b, routedAt', clock)
      BY <1>1, <1>2, <1>6, <2>2, <3>2, AppendDedup
    <3> QED BY <1>4, <3>1, <3>3
  <2> QED BY <2>1, <2>2
<1>9. dedup' \in Seq([key : Keys, at : Nat])
    BY <1>8 DEF DedupTypes
<1> QED
    BY <1>3, <1>5, <1>8, <1>9

\* The guard is asked.
LEMMA AskGuard ==
    ASSUME IngressInv, guard' = Evict(guard, clock)
    PROVE  guard' \in Seq([key : Wires, at : Nat]) /\ GuardInv(guard', sentAt, clock)
BY WindowTypes, EvictGuard DEF IngressInv, GuardTypes

\* Every step of the hub, of Bridge.consume and of the worker preserves the invariant.
LEMMA NextIngress == IngressInv /\ [Next]_vars => IngressInv'
<1> SUFFICES ASSUME IngressInv, [Next]_vars PROVE IngressInv'
    OBVIOUS
<1>1. CASE Tick
  <2>1. clock' = clock + 1 /\ clock' \in Times
    BY <1>1, IngressAssumption DEF Tick, IngressInv, Types, Times
  <2>2. UNCHANGED <<hub, routing, dedup, guard, tx, onAir, asked, sentAt, routedAt>>
    BY <1>1 DEF Tick
  <2>3. DedupInv(dedup, asked, routedAt, clock + 1)
    BY WindowTypes, LaterDedup DEF IngressInv
  <2>4. GuardInv(guard, sentAt, clock + 1)
    BY WindowTypes, LaterGuard DEF IngressInv
  <2>5. Types'
    BY <2>1, <2>2 DEF IngressInv, Types
  <2> QED BY <2>1, <2>2, <2>3, <2>4, <2>5 DEF IngressInv
<1>2. ASSUME NEW f \in Frame, Publish(f),
             UNCHANGED <<clock, routing, dedup, guard, tx, asked, sentAt, routedAt>>,
             onAir' \subseteq Wires
      PROVE  IngressInv'
  <2>1. Types'
    BY <1>2, PublishTyped DEF IngressInv, Types
  <2> QED BY <1>2, <2>1 DEF IngressInv
<1>3. ASSUME NEW k \in Foreign, Hear(k) PROVE IngressInv'
  <2>1. [key |-> k, echo |-> NoWire] \in Frame
    BY DEF Frame, Keys
  <2> QED BY <1>2, <1>3, <2>1 DEF Hear, IngressInv, Types
<1>4. ASSUME NEW w \in Wires, HearEcho(w) PROVE IngressInv'
  <2>1. [key |-> Decoded[w], echo |-> w] \in Frame
    BY DEF Frame, Keys
  <2> QED BY <1>2, <1>4, <2>1 DEF HearEcho, IngressInv, Types
<1>5. CASE SwallowDuplicate
  <2>1. PICK f \in Frame : /\ NextFrame(f)
                           /\ UNCHANGED <<clock, routing, guard, tx, onAir, sentAt, routedAt>>
    BY <1>5 DEF SwallowDuplicate
  <2>2. /\ hub' \in Seq(Frame) /\ Len(hub') <= HubSize
        /\ asked' \in [Keys -> Times \cup {Never}]
        /\ dedup' \in Seq([key : Keys, at : Nat])
        /\ DedupInv(dedup', asked', routedAt', clock)
    BY <2>1, TakeFrame
  <2> QED BY <2>1, <2>2 DEF IngressInv, Types
<1>6. CASE SwallowEcho
  <2>1. PICK f \in Frame : /\ NextFrame(f)
                           /\ guard' = Evict(guard, clock)
                           /\ UNCHANGED <<clock, routing, tx, onAir, sentAt, routedAt>>
    BY <1>6 DEF SwallowEcho
  <2>2. /\ hub' \in Seq(Frame) /\ Len(hub') <= HubSize
        /\ asked' \in [Keys -> Times \cup {Never}]
        /\ dedup' \in Seq([key : Keys, at : Nat])
        /\ DedupInv(dedup', asked', routedAt', clock)
    BY <2>1, TakeFrame
  <2>3. guard' \in Seq([key : Wires, at : Nat]) /\ GuardInv(guard', sentAt, clock)
    BY <2>1, AskGuard
  <2> QED BY <2>1, <2>2, <2>3 DEF IngressInv, Types
<1>7. CASE Route
  <2>1. PICK f \in Frame : /\ NextFrame(f)
                           /\ ~Has(Evict(dedup, clock), f.key)
                           /\ guard' = Evict(guard, clock)
                           /\ routing' = TRUE
                           /\ routedAt' = [routedAt EXCEPT ![f.key] = clock]
                           /\ UNCHANGED <<clock, tx, onAir, sentAt>>
    BY <1>7 DEF Route
  <2>2. /\ hub' \in Seq(Frame) /\ Len(hub') <= HubSize
        /\ asked' \in [Keys -> Times \cup {Never}]
        /\ routedAt' \in [Keys -> Times \cup {Never}]
        /\ dedup' \in Seq([key : Keys, at : Nat])
        /\ DedupInv(dedup', asked', routedAt', clock)
    BY <2>1, TakeFrame
  <2>3. guard' \in Seq([key : Wires, at : Nat]) /\ GuardInv(guard', sentAt, clock)
    BY <2>1, AskGuard
  <2> QED BY <2>1, <2>2, <2>3 DEF IngressInv, Types
<1>8. CASE RouteDone
    BY <1>8 DEF RouteDone, IngressInv, Types
<1>9. ASSUME NEW w \in Wires, Transmit(w) PROVE IngressInv'
    BY <1>9 DEF Transmit, IngressInv, Types
<1>10. CASE MarkSent
  <2>1. /\ tx \in Wires /\ tx' = NoWire
        /\ guard' = Add(guard, tx, clock) /\ sentAt' = [sentAt EXCEPT ![tx] = clock]
        /\ UNCHANGED <<clock, hub, routing, dedup, onAir, asked, routedAt>>
    BY <1>10 DEF MarkSent, IngressInv, Types
  <2>2. clock \in Times /\ clock # Never
    BY TimesAreNumbers DEF IngressInv, Types
  <2>3. GuardTypes(guard', sentAt', clock) /\ GuardInv(guard', sentAt', clock)
    BY <2>1, <2>2, WindowTypes, AddGuard DEF IngressInv
  <2>4. guard' \in Seq([key : Wires, at : Nat])
    BY <2>3 DEF GuardTypes
  <2>5. sentAt' \in [Wires -> Times \cup {Never}]
    BY <2>1, <2>2 DEF IngressInv, Types
  <2> QED BY <2>1, <2>3, <2>4, <2>5 DEF IngressInv, Types
<1>11. CASE TransmitFailed
    BY <1>11 DEF TransmitFailed, IngressInv, Types
<1>12. CASE UNCHANGED vars
    BY <1>12 DEF vars, IngressInv, Types
<1> QED
    BY <1>1, <1>3, <1>4, <1>5, <1>6, <1>7, <1>8, <1>9, <1>10, <1>11, <1>12 DEF Next
---------------------------------------------------------------------------
(* What the invariant says of the properties.                              *)

\* What is left of the dedup window was asked for within TTL: the head is fresh, and no
\* item behind it was asked for before the head was stored.
LEMMA HeardRecently ==
    ASSUME NEW w, NEW a, NEW r, NEW now, DedupTypes(w, a, r, now), DedupInv(w, a, r, now),
           NEW i \in 1..Len(Evict(w, now))
    PROVE  LET k == Evict(w, now)[i].key IN a[k] # Never /\ a[k] + TTL >= now
<1> DEFINE f == FirstKept(w, now)
           e == Evict(w, now)
           S == [key : Keys, at : Nat]
<1>1. now \in Nat /\ TTL \in Nat /\ w \in Seq(S) /\ a \in [Keys -> Nat]
    BY TtlAssumption DEF DedupTypes
<1>2. /\ Timed(w) /\ Len(w) \in Nat
      /\ \A x \in 1..Len(w) : w[x].key \in Keys /\ w[x].at \in Nat
    BY <1>1, Items
<1> HIDE DEF S
<1>3. f \in 1..(Len(w) + 1) /\ (f <= Len(w) => Fresh(w[f], now))
    BY <1>1, <1>2, EvictStops
<1>4. i + f - 1 \in 1..Len(w) /\ e[i] = w[i + f - 1] /\ i \in Nat /\ i >= 1
    BY <1>1, <1>2, EvictLeaves
<1> HIDE DEF f, e
<1> DEFINE x == i + f - 1
<1>5. x \in 1..Len(w) /\ e[i] = w[x] /\ f \in 1..Len(w) /\ (x = f \/ f < x)
    BY <1>2, <1>3, <1>4
<1> HIDE DEF x
<1>6. a[w[x].key] # Never /\ a[w[x].key] \in Nat
    BY <1>1, <1>2, <1>5 DEF DedupInv, NotYounger
<1>7. w[f].at <= a[w[x].key]
  <2>1. CASE x = f
    BY <1>5, <2>1 DEF DedupInv, NotYounger
  <2>2. CASE f < x
    BY <1>5, <2>2 DEF DedupInv, Ordered
  <2> QED BY <1>5, <2>1, <2>2
<1>8. w[f].at \in Nat /\ w[f].at + TTL >= now
    BY <1>2, <1>3, <1>5 DEF Fresh
<1>9. a[w[x].key] + TTL >= now
    BY <1>1, <1>6, <1>7, <1>8
<1> QED
    BY <1>5, <1>6, <1>9 DEF e

\* An item is no younger than the last question about its key, so its time is a time.
LEMMA InvTyped == IngressInv => TypeOK
<1> SUFFICES ASSUME IngressInv PROVE TypeOK
    OBVIOUS
<1>1. DedupTypes(dedup, asked, routedAt, clock) /\ GuardTypes(guard, sentAt, clock)
    BY WindowTypes DEF IngressInv
<1>2. dedup \in Seq([key : Keys, at : Nat]) /\ guard \in Seq([key : Wires, at : Nat])
    BY <1>1 DEF DedupTypes, GuardTypes
<1>3. clock \in Nat /\ clock <= MaxTime /\ MaxTime \in Nat
    BY TimesAreNumbers, IngressAssumption DEF IngressInv, Types
<1>4. dedup \in Seq(Item(Keys))
  <2>1. ASSUME NEW i \in 1..Len(dedup) PROVE dedup[i] \in Item(Keys)
    <3>1. dedup[i] \in [key : Keys, at : Nat]
      <4> DEFINE S == [key : Keys, at : Nat]
      <4>1. dedup \in Seq(S)
        BY <1>2
      <4> HIDE DEF S
      <4>2. dedup[i] \in S
        BY <4>1
      <4> QED BY <4>2 DEF S
    <3>2. dedup[i].at <= asked[dedup[i].key] /\ asked[dedup[i].key] <= clock
      BY DEF IngressInv, DedupInv, NotYounger
    <3>3. dedup[i].key \in Keys /\ dedup[i].at \in Nat /\ asked[dedup[i].key] \in Nat
      BY <1>1, <3>1 DEF DedupTypes
    <3>4. dedup[i].at \in Nat /\ dedup[i].at <= MaxTime
      BY <1>3, <3>2, <3>3
    <3>5. dedup[i].at \in 0..MaxTime
      BY <1>3, <3>4
    <3> QED BY <3>1, <3>5 DEF Item, Times
  <2> QED BY <1>2, <2>1
<1>5. guard \in Seq(Item(Wires))
  <2>1. ASSUME NEW i \in 1..Len(guard) PROVE guard[i] \in Item(Wires)
    <3>1. guard[i] \in [key : Wires, at : Nat]
      <4> DEFINE S == [key : Wires, at : Nat]
      <4>1. guard \in Seq(S)
        BY <1>2
      <4> HIDE DEF S
      <4>2. guard[i] \in S
        BY <4>1
      <4> QED BY <4>2 DEF S
    <3>2. guard[i].at <= clock
      BY DEF IngressInv, GuardInv, Exact
    <3>3. guard[i].at \in 0..MaxTime
      BY <1>3, <3>1, <3>2
    <3> QED BY <3>1, <3>3 DEF Item, Times
  <2> QED BY <1>2, <2>1
<1> QED
    BY <1>4, <1>5 DEF IngressInv, Types, TypeOK

\* HeardRecently, of the window as it is now.
LEMMA InvForgets == IngressInv => SilenceForgets
<1> SUFFICES ASSUME IngressInv, NEW i \in DOMAIN Evict(dedup, clock)
             PROVE  LET e == Evict(dedup, clock)[i]
                    IN asked[e.key] # Never /\ asked[e.key] + TTL >= clock
    BY DEF SilenceForgets
<1>1. /\ DedupTypes(dedup, asked, routedAt, clock)
      /\ DedupInv(dedup, asked, routedAt, clock)
    BY WindowTypes DEF IngressInv
<1>2. Evict(dedup, clock) \in Seq([key : Keys, at : Nat])
    BY <1>1, EvictDedup DEF DedupTypes
<1>3. i \in 1..Len(Evict(dedup, clock))
    BY <1>2
<1> QED
    BY <1>1, <1>3, HeardRecently

\* What eviction leaves is fresh and exact, and every fresh mark has an item.
LEMMA InvExact == IngressInv => GuardIsExact
<1> SUFFICES ASSUME IngressInv, NEW w \in Wires
             PROVE  Has(Evict(guard, clock), w)
                        <=> sentAt[w] # Never /\ sentAt[w] + TTL >= clock
    BY DEF GuardIsExact
<1> DEFINE e == Evict(guard, clock)
<1>1. /\ GuardTypes(e, sentAt, clock) /\ GuardInv(e, sentAt, clock)
      /\ \A i \in 1..Len(e) : Fresh(e[i], clock)
    BY WindowTypes, EvictGuard DEF IngressInv
<1>2. DOMAIN e = 1..Len(e)
    BY <1>1 DEF GuardTypes
<1> HIDE DEF e
<1>3. Has(e, w) => sentAt[w] # Never /\ sentAt[w] + TTL >= clock
    BY <1>1, <1>2 DEF Has, Fresh, GuardInv, Exact
<1>4. sentAt[w] # Never /\ sentAt[w] + TTL >= clock => Has(e, w)
    BY <1>1, <1>2 DEF Has, GuardInv, Marked
<1> QED
    BY <1>3, <1>4 DEF e

\* A key that is not in the window after eviction was not routed within TTL.
LEMMA NotRoutedLately ==
    ASSUME IngressInv, NEW k \in Keys, ~Has(Evict(dedup, clock), k)
    PROVE  routedAt[k] = Never \/ routedAt[k] + TTL < clock
<1>1. /\ DedupTypes(Evict(dedup, clock), asked, routedAt, clock)
      /\ DedupInv(Evict(dedup, clock), asked, routedAt, clock)
    BY WindowTypes, EvictDedup DEF IngressInv
<1>2. DOMAIN Evict(dedup, clock) = 1..Len(Evict(dedup, clock))
    BY <1>1 DEF DedupTypes
<1>3. ~(routedAt[k] # Never /\ routedAt[k] + TTL >= clock)
    BY <1>1, <1>2 DEF DedupInv, Remembers, Has
<1>4. routedAt[k] \in Nat /\ clock \in Nat /\ TTL \in Nat
    BY <1>1, TtlAssumption DEF DedupTypes
<1> QED
    BY <1>3, <1>4

\* Only Route starts routing, and it routes a frame that neither window knows.
LEMMA OnlyRoute ==
    ASSUME IngressInv, [Next]_vars, NEW f \in Frame, Routes(f)
    PROVE  ~Has(Evict(dedup, clock), f.key) /\ ~Has(Evict(guard, clock), f.key.text)
<1>1. ~routing /\ routing' /\ f = Head(hub)
    BY DEF Routes
<1>2. Route
    BY <1>1 DEF Next, vars, Tick, Hear, HearEcho, SwallowDuplicate, SwallowEcho, RouteDone,
                Transmit, MarkSent, TransmitFailed
<1> QED
    BY <1>1, <1>2 DEF Route, NextFrame

---------------------------------------------------------------------------
(* The theorems.                                                           *)

\* The windows agree with the history of questions, marks and routed messages at all times.
THEOREM IngressInvariant == Spec => []IngressInv
BY InitIngress, NextIngress, PTL DEF Spec

\* The state of the ingress always has its type: no window holds an item of the future, and
\* the hub of a slow consumer never holds more than HubSize frames.
THEOREM TypeCorrect == Spec => []TypeOK
BY IngressInvariant, InvTyped, PTL

\* A node is deaf to a message for at most TTL seconds after it was last heard.
THEOREM Forgets == Spec => []SilenceForgets
BY IngressInvariant, InvForgets, PTL

\* The loop guard answers exactly "this text was marked within the last TTL seconds".
THEOREM GuardExact == Spec => []GuardIsExact
BY IngressInvariant, InvExact, PTL

\* Two messages with the same author and text that are routed are more than TTL apart.
THEOREM Spaced == Spec => DuplicatesSpaced
<1>1. IngressInv /\ [Next]_vars =>
        [\A f \in Frame : Routes(f) => \/ routedAt[f.key] = Never
                                       \/ routedAt[f.key] + TTL < clock]_vars
  <2> SUFFICES ASSUME IngressInv, [Next]_vars, NEW f \in Frame, Routes(f)
               PROVE  routedAt[f.key] = Never \/ routedAt[f.key] + TTL < clock
    OBVIOUS
  <2>1. f.key \in Keys
    BY DEF Frame
  <2> QED BY <2>1, OnlyRoute, NotRoutedLately
<1> QED
    BY <1>1, IngressInvariant, PTL DEF Spec, DuplicatesSpaced

\* An intact echo is not routed while the mark of its text is fresh.
THEOREM EchoDropped == Spec => MarkedEchoDropped
<1>1. IngressInv /\ [Next]_vars =>
        [\A f \in Frame : Routes(f) /\ IntactEcho(f) => \/ sentAt[f.echo] = Never
                                                        \/ sentAt[f.echo] + TTL < clock]_vars
  <2> SUFFICES ASSUME IngressInv, [Next]_vars, NEW f \in Frame, Routes(f), IntactEcho(f)
               PROVE  sentAt[f.echo] = Never \/ sentAt[f.echo] + TTL < clock
    OBVIOUS
  <2>1. f.echo \in Wires /\ ~Has(Evict(guard, clock), f.echo)
    BY OnlyRoute DEF IntactEcho
  <2>2. ~(sentAt[f.echo] # Never /\ sentAt[f.echo] + TTL >= clock)
    BY <2>1, InvExact DEF GuardIsExact
  <2>3. sentAt[f.echo] \in Nat /\ clock \in Nat /\ TTL \in Nat
    BY <2>1, WindowTypes, TtlAssumption DEF IngressInv, GuardTypes
  <2> QED BY <2>2, <2>3
<1> QED
    BY <1>1, IngressInvariant, PTL DEF Spec, MarkedEchoDropped
=============================================================================
