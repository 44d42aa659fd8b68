--------------------- MODULE BrokerRequestBudgetProofs ---------------------
(***************************************************************************)
(* Proofs about BrokerRequestBudget for every set of policies and demands. *)
(***************************************************************************)
EXTENDS BrokerRequestBudget, FiniteSetTheorems, WellFoundedInduction, TLAPS

(* The earlier permits the j-th one was counted against.                    *)
Ahead(h, j) ==
    {i \in 1..(j - 1) :
        /\ h[i].policy = h[j].policy
        /\ h[i].issued >= h[j].issued - (Policy[h[j].policy].window + Policy[h[j].policy].ttl)}

(* A permit lives exactly for the lifetime of its policy.                   *)
LifetimesExact(h) ==
    \A i \in DOMAIN h : h[i].expires = h[i].issued + Policy[h[i].policy].ttl

(* Issue times follow the sequence.                                         *)
IssueOrdered(h) ==
    \A i, j \in DOMAIN h : i <= j => h[i].issued <= h[j].issued

(* Between permits of two policies lies the whole horizon of the earlier.   *)
RotationsDrained(h) ==
    \A i, j \in DOMAIN h : i < j /\ h[i].policy # h[j].policy => Drained(h[i], h[j].issued)

(* Every permit was within the capacity of its purpose when it was issued.  *)
AdmittedWithin(h) ==
    \A j \in DOMAIN h : Cardinality(Ahead(h, j)) < CapacityFor(h[j].policy, h[j].demand.purpose)

Chained(h) ==
    LifetimesExact(h) /\ IssueOrdered(h) /\ RotationsDrained(h) /\ AdmittedWithin(h)

(* The pass that authenticates the chain keeps exactly these windows.       *)
Windows(h, front) ==
    /\ front \in [DOMAIN h -> DOMAIN h]
    /\ \A j \in DOMAIN h :
          Passes(h, front, j) /\ front[j] <= j /\ Ahead(h, j) = front[j]..(j - 1)

Authentic(h) == \E front : Windows(h, front)

Inv == TypeOK /\ head = HeadOf(permits) /\ Chained(permits) /\ Authentic(permits)

-----------------------------------------------------------------------------
(* A set of positions that is not empty has a last one.                     *)
LEMMA LastPosition ==
  ASSUME NEW n \in Nat, NEW S \in SUBSET (1..n), S # {}
  PROVE  \E m \in S : \A q \in S : q <= m
<1> DEFINE T == {k \in Nat : n - k \in S}
<1>1. PICK s \in S : TRUE
  BY Zenon
<1>2. n - s \in T
  <2>1. n - s \in Nat /\ n - (n - s) = s
    OBVIOUS
  <2> QED
    BY <2>1
<1>3. PICK x \in T : \A y \in T : ~(<<y, x>> \in OpToRel(<, Nat))
  <2> HIDE DEF T
  <2>1. T # {}
    BY <1>2
  <2>2. T \subseteq Nat
    BY DEF T
  <2> QED
    BY <2>1, <2>2, NatLessThanWellFounded, WFMin, Zenon
<1>4. ASSUME NEW q \in S PROVE q <= n - x
  <2>1. n - q \in Nat /\ n - (n - q) = q
    OBVIOUS
  <2>2. n - q \in T
    BY <2>1
  <2>3. ~(n - q < x)
    BY <1>3, <2>2, Zenon DEF OpToRel
  <2> QED
    BY <2>1, <2>3
<1> QED
  BY <1>4

(* ... and a first one.                                                     *)
LEMMA FirstPosition ==
  ASSUME NEW n \in Nat, NEW S \in SUBSET (1..n), S # {}
  PROVE  \E m \in S : \A q \in S : m <= q
<1>1. S \subseteq Nat
  OBVIOUS
<1>2. PICK x \in S : \A y \in S : ~(<<y, x>> \in OpToRel(<, Nat))
  BY <1>1, NatLessThanWellFounded, WFMin, Zenon
<1>3. ASSUME NEW q \in S PROVE x <= q
  <2>1. ~(q < x)
    BY <1>1, <1>2, Zenon DEF OpToRel
  <2> QED
    BY <1>1, <2>1
<1> QED
  BY <1>3

(* A set of positions is finite.                                            *)
LEMMA FinitePositions ==
  ASSUME NEW n \in Nat, NEW S \in SUBSET (1..n)
  PROVE  IsFiniteSet(S) /\ Cardinality(S) \in Nat
<1>1. IsFiniteSet(1..n)
  BY FS_Interval
<1> QED
  BY <1>1, FS_Subset, FS_CardinalityType, Zenon

(* A set whose last position is m, and whose other members m was counted    *)
(* against, is no larger than the capacity m was admitted under.            *)
LEMMA CountedByLast ==
  ASSUME NEW n \in Nat, NEW A \in SUBSET (1..n), NEW S \in SUBSET (1..n), NEW m \in 1..n,
         NEW c \in Nat, S \subseteq A \union {m}, Cardinality(A) < c
  PROVE  Cardinality(S) <= c
<1>1. IsFiniteSet(A) /\ Cardinality(A) \in Nat
  BY FinitePositions, SMTT(30)
<1>2. IsFiniteSet(A \union {m}) /\ Cardinality(A \union {m}) <= Cardinality(A) + 1
  BY <1>1, FS_AddElement
<1>3. Cardinality(A \union {m}) \in Nat /\ Cardinality(S) \in Nat
  BY <1>2, FS_Subset, FS_CardinalityType, Zenon
<1>4. Cardinality(S) <= Cardinality(A \union {m})
  BY <1>2, FS_Subset, Zenon
<1> QED
  BY <1>1, <1>2, <1>3, <1>4

(* The ceilings are ordered as the policy demands.                          *)
LEMMA Ceilings ==
  ASSUME NEW p \in PolicyId, NEW purpose
  PROVE  /\ CapacityFor(p, purpose) \in Nat
         /\ CapacityFor(p, purpose) <= Policy[p].total
         /\ purpose = "submission" => CapacityFor(p, purpose) = Policy[p].submission
         /\ purpose \in {"submission", "unknown_lookup"}
              => CapacityFor(p, purpose) <= Policy[p].recovery
<1>1. /\ Policy[p] \in PolicyContent
      /\ Policy[p].submission < Policy[p].recovery
      /\ Policy[p].recovery < Policy[p].total
  BY PolicyAssumption
<1> QED
  BY <1>1 DEF CapacityFor, PolicyContent

(* The policy of a permit has the durations and tiers of a policy.          *)
LEMMA PolicyType ==
  ASSUME NEW p \in PolicyId
  PROVE  Policy[p].window \in Nat /\ Policy[p].ttl \in Nat \ {0} /\ Policy[p].total \in Nat
<1>1. Policy[p] \in PolicyContent
  BY PolicyAssumption
<1> QED
  BY <1>1 DEF PolicyContent

-----------------------------------------------------------------------------
(* Issuing a permit keeps the chain: the new permit counts exactly the      *)
(* permits Ahead of it, because a policy that returns finds its older       *)
(* permits outside its horizon.                                             *)
LEMMA IssueKeeps ==
  ASSUME Inv, NEW d \in Demand, NEW p \in PolicyId, NEW t \in Instant, Issue(d, p, t)
  PROVE  Inv'
<1> DEFINE n == Len(permits)
           r == NewPermit(d, p, t)
<1>1. /\ permits \in Seq(Permit) /\ n \in Nat /\ DOMAIN permits = 1..n
      /\ \A i \in 1..n : permits[i] \in Permit
  BY DEF Inv, TypeOK
<1>2. Instant \subseteq Nat /\ t \in Nat
  BY PolicyAssumption DEF Instant
<1>3. Cardinality(Active(permits, p, t)) \in Nat
  <2>1. Active(permits, p, t) \subseteq 1..n
    BY <1>1 DEF Active, Counted
  <2> QED
    BY <1>1, <2>1, FinitePositions, Zenon
<1>4. /\ r \in Permit /\ r.policy = p /\ r.issued = t /\ r.demand = d
      /\ r.expires = t + Policy[p].ttl
  BY <1>2, <1>3, PolicyType DEF NewPermit, Permit
<1>5. /\ permits' \in Seq(Permit) /\ Len(permits') = n + 1 /\ DOMAIN permits' = 1..(n + 1)
      /\ permits'[n + 1] = r /\ \A i \in 1..n : permits'[i] = permits[i]
  BY <1>1, <1>4 DEF Issue
<1>6. \A i \in 1..n : permits[i].issued \in Nat /\ permits[i].policy \in PolicyId
  BY <1>1, <1>2, Zenon DEF Permit
<1>7. \A i \in 1..n : permits[i].issued <= t
  <2>1. SUFFICES ASSUME NEW i \in 1..n PROVE permits[i].issued <= t
    OBVIOUS
  <2>2. permits # << >> /\ n \in 1..n
    BY <1>1
  <2>3. permits[i].issued <= permits[n].issued /\ permits[n].issued <= t
    BY <1>1, <2>2 DEF Inv, Chained, IssueOrdered, Issue, Last
  <2> QED
    BY <1>2, <1>6, <2>2, <2>3
<1>8. ASSUME NEW i \in 1..n, permits[i].policy # p
      PROVE  Drained(permits[i], t)
  <2>1. permits # << >> /\ n \in 1..n
    BY <1>1
  <2>2. permits[n].policy # p => Drained(permits[n], t)
    BY <2>1 DEF Issue, Last
  <2>3. /\ permits[i].expires = permits[i].issued + Policy[permits[i].policy].ttl
        /\ permits[n].expires = permits[n].issued + Policy[permits[n].policy].ttl
        /\ permits[i].issued <= permits[n].issued
        /\ permits[i].policy # permits[n].policy => Drained(permits[i], permits[n].issued)
    BY <1>1, <2>1 DEF Inv, Chained, LifetimesExact, IssueOrdered, RotationsDrained
  <2>4. CASE permits[i].policy = permits[n].policy
    BY <1>2, <1>6, <1>8, <2>1, <2>2, <2>3, <2>4, PolicyType, SMTT(30) DEF Drained
  <2>5. CASE permits[i].policy # permits[n].policy
    BY <1>2, <1>6, <1>7, <2>1, <2>3, <2>5, PolicyType, SMTT(30) DEF Drained
  <2> QED
    BY <2>4, <2>5
<1>9. Ahead(permits', n + 1) \subseteq Active(permits, p, t)
  <2>1. SUFFICES ASSUME NEW i \in 1..n, permits[i].policy = p,
                        permits[i].issued >= t - (Policy[p].window + Policy[p].ttl)
                 PROVE  i \in Active(permits, p, t)
    BY <1>1, <1>4, <1>5 DEF Ahead
  <2>2. permits # << >> /\ n \in 1..n
    BY <1>1
  <2>3. permits[n].policy = p
    <3>1. SUFFICES ASSUME permits[n].policy # p PROVE FALSE
      OBVIOUS
    <3>2. /\ Drained(permits[i], permits[n].issued)
          /\ permits[i].expires = permits[i].issued + Policy[p].ttl
      BY <1>1, <2>1, <2>2, <3>1 DEF Inv, Chained, RotationsDrained, LifetimesExact
    <3> DEFINE a == permits[i].issued
               b == permits[n].issued
               w == Policy[p].window
               l == Policy[p].ttl
    <3>3. b > a + l + w
      BY <2>1, <3>2 DEF Drained
    <3>4. b <= t /\ b \in Nat /\ a \in Nat /\ w \in Nat /\ l \in Nat /\ t \in Nat
      BY <1>2, <1>6, <1>7, <2>2, PolicyType
    <3>5. a >= t - (w + l)
      BY <2>1
    <3> HIDE DEF a, b, w, l
    <3> QED
      BY <3>3, <3>4, <3>5
  <2> QED
    BY <1>1, <2>1, <2>2, <2>3 DEF Active, Counted, Last
<1>10. LifetimesExact(permits')
  BY <1>1, <1>4, <1>5 DEF Inv, Chained, LifetimesExact
<1>11. IssueOrdered(permits')
  <2>1. SUFFICES ASSUME NEW i \in 1..(n + 1), NEW j \in 1..(n + 1), i <= j
                 PROVE  permits'[i].issued <= permits'[j].issued
    BY <1>5 DEF IssueOrdered
  <2>2. CASE j \in 1..n
    BY <1>1, <1>5, <2>1, <2>2 DEF Inv, Chained, IssueOrdered
  <2>3. CASE j = n + 1
    BY <1>1, <1>2, <1>4, <1>5, <1>7, <2>3
  <2> QED
    BY <1>1, <2>2, <2>3
<1>12. RotationsDrained(permits')
  <2>1. SUFFICES ASSUME NEW i \in 1..(n + 1), NEW j \in 1..(n + 1), i < j,
                        permits'[i].policy # permits'[j].policy
                 PROVE  Drained(permits'[i], permits'[j].issued)
    BY <1>5 DEF RotationsDrained
  <2>2. i \in 1..n /\ permits'[i] = permits[i]
    BY <1>1, <1>5, <2>1
  <2>3. CASE j \in 1..n
    BY <1>1, <1>5, <2>1, <2>2, <2>3 DEF Inv, Chained, RotationsDrained
  <2>4. CASE j = n + 1
    BY <1>4, <1>5, <1>8, <2>1, <2>2, <2>4
  <2> QED
    BY <1>1, <2>3, <2>4
<1>13. AdmittedWithin(permits')
  <2>1. SUFFICES ASSUME NEW j \in 1..(n + 1)
                 PROVE  Cardinality(Ahead(permits', j))
                          < CapacityFor(permits'[j].policy, permits'[j].demand.purpose)
    BY <1>5 DEF AdmittedWithin
  <2>2. CASE j \in 1..n
    <3>1. \A i \in 1..(j - 1) : permits'[i] = permits[i]
      BY <1>1, <1>5, <2>2
    <3>2. Ahead(permits', j) = Ahead(permits, j)
      BY <1>5, <2>2, <3>1 DEF Ahead
    <3> QED
      BY <1>1, <1>5, <2>2, <3>2 DEF Inv, Chained, AdmittedWithin
  <2>3. CASE j = n + 1
    <3>1. Active(permits, p, t) \subseteq 1..n
      BY <1>1 DEF Active, Counted
    <3>2. IsFiniteSet(Active(permits, p, t))
      BY <1>1, <3>1, FinitePositions, Zenon
    <3>3. /\ Cardinality(Ahead(permits', n + 1)) <= Cardinality(Active(permits, p, t))
          /\ Cardinality(Ahead(permits', n + 1)) \in Nat
      BY <1>9, <3>2, FS_Subset, FS_CardinalityType
    <3>4. Cardinality(Active(permits, p, t)) < CapacityFor(p, d.purpose)
      BY DEF Issue
    <3> QED
      BY <1>3, <1>4, <1>5, <2>3, <3>3, <3>4, Ceilings
  <2> QED
    BY <1>1, <2>2, <2>3
<1>14. head' = HeadOf(permits)' /\ head' \in [sequence : Nat, issued : Instant]
  BY <1>1, <1>4, <1>5 DEF Issue, HeadOf, Last
<1> DEFINE A == Active(permits, p, t)
           w == Policy[p].window
           l == Policy[p].ttl
<1>15. Ahead(permits', n + 1) = A
  <2>1. A \subseteq Ahead(permits', n + 1)
    BY <1>1, <1>4, <1>5 DEF Active, Counted, Ahead
  <2> QED
    BY <1>9, <2>1, Zenon
<1>16. PICK front : Windows(permits, front)
  BY DEF Inv, Authentic
<1>17. PICK k \in 1..(n + 1) :
         /\ A = k..n
         /\ n = 0 \/ permits[n].policy # p => k = n + 1
         /\ n > 0 /\ permits[n].policy = p =>
              /\ k >= front[n]
              /\ \A i \in front[n]..(k - 1) : permits[i].expires < t - w
         /\ k < n + 1 => permits[k].expires >= t - w
  <2>1. CASE n = 0 \/ permits[n].policy # p
    <3>1. A = {}
      BY <1>1, <2>1 DEF Active, Last
    <3>2. {} = (n + 1)..n /\ n + 1 \in 1..(n + 1)
      BY <1>1
    <3> QED
      BY <1>1, <2>1, <3>1, <3>2
  <2>2. CASE n > 0 /\ permits[n].policy = p
    <3>1. /\ n \in 1..n /\ front[n] \in 1..n /\ Ahead(permits, n) = front[n]..(n - 1)
      BY <1>1, <1>16, <2>2 DEF Windows
    <3>2. A = {i \in 1..n : permits[i].policy = p /\ permits[i].issued >= t - (w + l)}
      BY <1>1, <2>2 DEF Active, Counted, Last
    <3>3. w \in Nat /\ l \in Nat
      BY PolicyType
    <3>4. \A i \in front[n]..n : permits[i].policy = p
      BY <1>1, <2>2, <3>1 DEF Ahead
    <3>5. \A i \in 1..n : permits[i].policy = p => permits[i].expires = permits[i].issued + l
      BY <1>1 DEF Inv, Chained, LifetimesExact
    <3>6. \A i \in A : i \in front[n]..n
      <4>1. SUFFICES ASSUME NEW i \in A, i # n PROVE i \in Ahead(permits, n)
        BY <1>1, <3>1, <3>2
      <4>2. i \in 1..(n - 1) /\ permits[i].policy = p /\ permits[i].issued >= t - (w + l)
        BY <1>1, <3>2, <4>1
      <4>3. permits[i].issued \in Nat /\ permits[n].issued \in Nat /\ permits[n].issued <= t
        BY <1>6, <1>7, <3>1, <4>2
      <4>4. permits[i].issued >= permits[n].issued - (w + l)
        <5> DEFINE a == permits[i].issued
                   b == permits[n].issued
        <5>1. a \in Nat /\ w \in Nat /\ l \in Nat /\ t \in Nat /\ b \in Nat /\ a >= t - (w + l) /\ b <= t
          BY <1>2, <3>3, <4>2, <4>3
        <5> HIDE DEF a, b, w, l
        <5>2. a >= b - (w + l)
          BY <5>1
        <5> QED
          BY <5>2 DEF a, b, w, l
      <4> QED
        BY <2>2, <4>2, <4>4 DEF Ahead
    <3>7. CASE A = {}
      <4>1. {} = (n + 1)..n /\ n + 1 \in 1..(n + 1) /\ n + 1 >= front[n]
        BY <1>1, <3>1
      <4>2. ASSUME NEW i \in front[n]..n PROVE permits[i].expires < t - w
        <5>1. i \in 1..n /\ permits[i].policy = p
          BY <1>1, <3>1, <3>4
        <5>2. permits[i].issued < t - (w + l)
          BY <1>2, <1>6, <3>2, <3>3, <3>7, <5>1
        <5> QED
          BY <1>2, <1>6, <3>3, <3>5, <5>1, <5>2, SMTT(30)
      <4> QED
        BY <1>1, <2>2, <3>7, <4>1, <4>2
    <3>8. CASE A # {}
      <4>1. PICK k \in A : \A q \in A : k <= q
        <5>1. A \subseteq 1..n
          BY <3>2
        <5> HIDE DEF A, n
        <5> QED
          BY <1>1, <3>8, <5>1, FirstPosition, Zenon
      <4>2. k \in 1..n /\ k \in front[n]..n /\ permits[k].issued >= t - (w + l)
        BY <3>2, <3>6
      <4>3. ASSUME NEW i \in k..n PROVE i \in A
        <5>1. i \in 1..n /\ i \in front[n]..n /\ k <= i
          BY <1>1, <3>1, <4>2
        <5>2. permits[k].issued <= permits[i].issued
          BY <1>1, <4>2, <5>1 DEF Inv, Chained, IssueOrdered
        <5>3. permits[i].issued >= t - (w + l)
          <6> DEFINE a == permits[i].issued
                     b == permits[k].issued
          <6>1. a \in Nat /\ w \in Nat /\ l \in Nat /\ t \in Nat /\ b \in Nat /\ b >= t - (w + l) /\ b <= a
            BY <1>2, <1>6, <3>3, <4>2, <5>1, <5>2
          <6> HIDE DEF a, b, w, l
          <6>2. a >= t - (w + l)
            BY <6>1
          <6> QED
            BY <6>2 DEF a, b, w, l
        <5> QED
          BY <3>2, <3>4, <5>1, <5>3
      <4>4. A = k..n
        BY <1>1, <3>2, <4>1, <4>2, <4>3
      <4>5. ASSUME NEW i \in front[n]..(k - 1) PROVE permits[i].expires < t - w
        <5>1. i \in 1..n /\ permits[i].policy = p /\ i \notin A
          BY <1>1, <3>1, <3>4, <4>1, <4>2
        <5>2. permits[i].issued < t - (w + l)
          BY <1>2, <1>6, <3>2, <3>3, <5>1, SMTT(30)
        <5> QED
          BY <1>2, <1>6, <3>3, <3>5, <5>1, <5>2, SMTT(30)
      <4>6. permits[k].expires >= t - w
        BY <1>2, <1>6, <3>2, <3>3, <3>5, <4>1, <4>2, SMTT(30)
      <4> QED
        BY <1>1, <2>2, <3>1, <4>2, <4>4, <4>5, <4>6
    <3> QED
      BY <3>7, <3>8
  <2> QED
    BY <1>1, <2>1, <2>2
<1>18. r.count = ((n + 1) - k) + 1
  <2>1. Cardinality(k..n) = (n - k) + 1
    <3>1. k \in Int /\ n \in Int /\ k <= n + 1
      BY <1>1
    <3> HIDE DEF n
    <3>2. Cardinality(k..n) = IF k > n THEN 0 ELSE (n - k) + 1
      BY <3>1, FS_Interval, Zenon
    <3> QED
      BY <3>1, <3>2
  <2>2. r.count = Cardinality(A) + 1
    BY DEF NewPermit
  <2> QED
    BY <1>1, <1>17, <2>1, <2>2
<1>19. r.count <= CapacityFor(p, d.purpose)
  <2>1. r.count = Cardinality(A) + 1 /\ Cardinality(A) < CapacityFor(p, d.purpose)
    BY DEF NewPermit, Issue
  <2> QED
    BY <1>3, <2>1, Ceilings
<1> DEFINE g == [j \in 1..(n + 1) |-> IF j = n + 1 THEN k ELSE front[j]]
<1>20. /\ g \in [1..(n + 1) -> 1..(n + 1)]
       /\ g[n + 1] = k /\ \A j \in 1..n : g[j] = front[j]
  <2>1. \A j \in 1..n : front[j] \in 1..n
    BY <1>1, <1>16 DEF Windows
  <2> QED
    BY <1>1, <2>1
<1> HIDE DEF g
<1>21. ASSUME NEW j \in 1..(n + 1)
       PROVE  Passes(permits', g, j) /\ g[j] <= j /\ Ahead(permits', j) = g[j]..(j - 1)
  <2>1. CASE j \in 1..n
    <3>1. \A i \in 1..j : permits'[i] = permits[i] /\ g[i] = front[i]
      BY <1>1, <1>5, <1>20, <2>1
    <3>2. Ahead(permits', j) = Ahead(permits, j)
      BY <3>1, <2>1, SMTT(30) DEF Ahead
    <3>3. Passes(permits, front, j) /\ Ahead(permits, j) = front[j]..(j - 1)
      BY <1>1, <1>16, <2>1 DEF Windows
    <3>4. front[j] \in 1..j
      BY <1>1, <1>16, <2>1 DEF Windows
    <3>5. j > 1 => front[j - 1] \in 1..n /\ j - 1 \in 1..j
      <4>1. j > 1 => j - 1 \in 1..n /\ j - 1 \in 1..j
        BY <1>1, <2>1
      <4> QED
        BY <1>1, <1>16, <4>1, Zenon DEF Windows
    <3>6. /\ permits'[j] = permits[j] /\ g[j] = front[j]
          /\ j > 1 => permits'[j - 1] = permits[j - 1] /\ g[j - 1] = front[j - 1]
          /\ permits'[front[j]] = permits[front[j]]
      BY <2>1, <3>1, <3>4, <3>5
    <3>7. \A i \in (IF j = 1 \/ (j > 1 /\ permits[j - 1].policy # permits[j].policy)
                   THEN j ELSE front[j - 1])..(front[j] - 1) : permits'[i] = permits[i]
      BY <1>1, <2>1, <3>1, <3>4, <3>5
    <3>8. Passes(permits', g, j)
      <4>1. CASE j = 1
        BY <3>3, <3>6, <3>7, <4>1 DEF Passes
      <4>2. CASE j > 1 /\ permits[j - 1].policy # permits[j].policy
        BY <3>3, <3>6, <3>7, <4>2, SMTT(30) DEF Passes
      <4>3. CASE j > 1 /\ permits[j - 1].policy = permits[j].policy
        BY <3>3, <3>6, <3>7, <4>3, SMTT(30) DEF Passes
      <4> QED
        BY <1>1, <2>1, <4>1, <4>2, <4>3
    <3> QED
      BY <2>1, <3>1, <3>2, <3>3, <3>4, <3>8
  <2>2. CASE j = n + 1
    <3>1. Ahead(permits', j) = g[j]..(j - 1)
      BY <1>1, <1>15, <1>17, <1>20, <2>2
    <3>2. /\ n > 0 => t >= permits[n].issued
          /\ n > 0 /\ permits[n].policy # p =>
                Drained(permits[n], t) /\ Policy[p].venue = Policy[permits[n].policy].venue
          /\ d.requested <= t
      BY <1>1, <1>2, DemandAssumption DEF Issue, Last, ChainValid
    <3>3. /\ permits'[j] = r /\ g[j] = k /\ r.policy = p /\ r.issued = t /\ r.demand = d
          /\ n > 0 => permits'[j - 1] = permits[n] /\ g[j - 1] = front[n] /\ front[n] \in 1..n
      BY <1>1, <1>4, <1>5, <1>16, <1>20, <2>2, SMTT(30) DEF Windows
    <3>4. \A i \in 1..n : permits'[i] = permits[i]
      BY <1>5
    <3> HIDE DEF r, n, w, A
    <3>5. Passes(permits', g, j)
      BY <1>1, <1>17, <1>18, <1>19, <2>2, <3>2, <3>3, <3>4 DEF Passes, w
    <3>6. g[j] <= j
      BY <1>1, <1>17, <2>2, <3>3
    <3> QED
      BY <3>1, <3>5, <3>6
  <2> QED
    BY <1>1, <2>1, <2>2
<1>22. Authentic(permits')
  BY <1>5, <1>20, <1>21, Zenon DEF Authentic, Windows
<1> QED
  BY <1>5, <1>10, <1>11, <1>12, <1>13, <1>14, <1>22 DEF Inv, TypeOK, Chained

(* Inv is inductive.                                                        *)
THEOREM Invariance == Spec => []Inv
<1>1. Init => Inv
  <2>1. SUFFICES ASSUME Init PROVE Inv
    OBVIOUS
  <2>2. permits = << >> /\ DOMAIN permits = {} /\ head = NoHead
    BY <2>1 DEF Init
  <2>3. TypeOK
    BY <2>2, PolicyAssumption DEF TypeOK, NoHead, Instant
  <2>4. Authentic(permits)
    <3>1. [j \in {} |-> j] \in [{} -> {}]
      OBVIOUS
    <3> QED
      BY <2>2, <3>1, Zenon DEF Authentic, Windows
  <2> QED
    BY <2>2, <2>3, <2>4 DEF Inv, HeadOf, Chained, LifetimesExact, IssueOrdered, RotationsDrained,
       AdmittedWithin
<1>2. Inv /\ [Next]_vars => Inv'
  <2>1. SUFFICES ASSUME Inv, [Next]_vars PROVE Inv'
    OBVIOUS
  <2>2. CASE Next
    BY <2>1, <2>2, IssueKeeps DEF Next
  <2>3. CASE UNCHANGED vars
    <3>1. permits' = permits /\ head' = head
      BY <2>3 DEF vars
    <3> QED
      BY <2>1, <3>1 DEF Inv, TypeOK
  <2> QED
    BY <2>1, <2>2, <2>3
<1> QED
  BY <1>1, <1>2, PTL DEF Spec

-----------------------------------------------------------------------------
(* The shape of the permits that the arguments below use.                   *)
LEMMA PermitFacts ==
  ASSUME Inv
  PROVE  /\ Len(permits) \in Nat /\ DOMAIN permits = 1..Len(permits)
         /\ \A i \in DOMAIN permits :
               /\ permits[i].issued \in Nat /\ permits[i].policy \in PolicyId
               /\ permits[i].expires = permits[i].issued + Policy[permits[i].policy].ttl
<1>1. permits \in Seq(Permit) /\ Instant \subseteq Nat
  BY PolicyAssumption DEF Inv, TypeOK, Instant
<1>2. Len(permits) \in Nat /\ DOMAIN permits = 1..Len(permits)
  BY <1>1
<1>3. ASSUME NEW i \in DOMAIN permits
      PROVE  permits[i].issued \in Nat /\ permits[i].policy \in PolicyId
  <2>1. permits[i] \in Permit
    BY <1>1
  <2> QED
    BY <1>1, <2>1, Zenon DEF Permit
<1>4. \A i \in DOMAIN permits :
         permits[i].expires = permits[i].issued + Policy[permits[i].policy].ttl
  BY DEF Inv, Chained, LifetimesExact
<1> QED
  BY <1>2, <1>3, <1>4

(* Everything usable in a window that begins while permit i is usable       *)
(* belongs to the policy of i and was counted by the last of them.          *)
LEMMA BudgetFollows == Inv => BudgetHolds
<1>1. SUFFICES ASSUME Inv, NEW i \in DOMAIN permits,
                      NEW s \in permits[i].issued..(permits[i].expires - 1)
               PROVE  Cardinality(UsableWithin(s, Policy[permits[i].policy].window))
                        <= Policy[permits[i].policy].total
  BY DEF BudgetHolds
<1> DEFINE n == Len(permits)
           p == permits[i].policy
           w == Policy[p].window
           U == UsableWithin(s, w)
<1>2. /\ n \in Nat /\ DOMAIN permits = 1..n /\ i \in 1..n
      /\ \A j \in 1..n : /\ permits[j].issued \in Nat /\ permits[j].policy \in PolicyId
                          /\ permits[j].expires = permits[j].issued + Policy[permits[j].policy].ttl
  BY <1>1, PermitFacts
<1>3. \A j \in 1..n : /\ Policy[permits[j].policy].window \in Nat
                      /\ Policy[permits[j].policy].ttl \in Nat
  BY <1>2, PolicyType
<1>4. s \in Nat /\ permits[i].issued <= s /\ s < permits[i].expires /\ w \in Nat
  BY <1>2, <1>3, SMTT(30)
<1>5. U \subseteq 1..n
  BY <1>2 DEF UsableWithin
<1>6. ASSUME NEW q \in U
      PROVE  /\ permits[q].issued \in Nat /\ permits[q].expires \in Nat
             /\ permits[q].issued <= s + w /\ s < permits[q].expires
             /\ Policy[permits[q].policy].window \in Nat
  <2>1. q \in 1..n
    BY <1>5
  <2>2. PICK t \in s..(s + w) : permits[q].issued <= t /\ t < permits[q].expires
    BY DEF UsableWithin, Fresh
  <2>3. permits[q].issued \in Nat /\ permits[q].expires \in Nat
    <3>1. /\ permits[q].issued \in Nat
          /\ permits[q].expires = permits[q].issued + Policy[permits[q].policy].ttl
      BY <1>2, <2>1
    <3>2. Policy[permits[q].policy].ttl \in Nat
      BY <1>3, <2>1
    <3> QED
      BY <3>1, <3>2
  <2>4. Policy[permits[q].policy].window \in Nat
    BY <1>3, <2>1
  <2>5. permits[q].issued <= s + w /\ s < permits[q].expires
    BY <1>4, <2>2, <2>3
  <2> QED
    BY <2>3, <2>4, <2>5
<1>7. ASSUME NEW q \in U PROVE permits[q].policy = p
  <2>1. q \in 1..n
    BY <1>5
  <2>2. SUFFICES ASSUME permits[q].policy # p PROVE FALSE
    OBVIOUS
  <2>3. q # i
    BY <2>2
  <2>4. CASE q < i
    <3>1. Drained(permits[q], permits[i].issued)
      BY <1>1, <1>2, <2>1, <2>2, <2>4 DEF Inv, Chained, RotationsDrained
    <3>2. permits[i].issued > permits[q].expires + Policy[permits[q].policy].window
      BY <3>1 DEF Drained
    <3> QED
      BY <1>2, <1>4, <1>6, <3>2, SMTT(30)
  <2>5. CASE i < q
    <3>1. Drained(permits[i], permits[q].issued)
      BY <1>1, <1>2, <2>1, <2>2, <2>5 DEF Inv, Chained, RotationsDrained
    <3>2. permits[q].issued > permits[i].expires + w
      BY <3>1 DEF Drained
    <3>3. permits[i].expires \in Nat
      BY <1>2, <1>3, SMTT(30)
    <3> QED
      BY <1>4, <1>6, <3>2, <3>3
  <2> QED
    BY <1>2, <2>1, <2>3, <2>4, <2>5
<1>8. i \in U
  BY <1>2, <1>4 DEF UsableWithin, Fresh
<1>9. PICK m \in U : \A q \in U : q <= m
  <2> HIDE DEF U, n
  <2> QED
    BY <1>2, <1>5, <1>8, LastPosition, Zenon
<1>10. U \subseteq Ahead(permits, m) \union {m}
  <2>1. SUFFICES ASSUME NEW q \in U, q # m PROVE q \in Ahead(permits, m)
    OBVIOUS
  <2>2. q \in 1..(m - 1) /\ m \in 1..n /\ q \in 1..n
    BY <1>2, <1>5, <1>9, <2>1
  <2>3. permits[q].policy = p /\ permits[m].policy = p
    BY <1>7
  <2>4. permits[q].issued >= permits[m].issued - (w + Policy[p].ttl)
    <3>1. permits[q].expires = permits[q].issued + Policy[p].ttl /\ Policy[p].ttl \in Nat
      BY <1>2, <1>3, <2>2, <2>3
    <3>2. s < permits[q].expires /\ permits[m].issued <= s + w
      BY <1>6
    <3>3. permits[q].issued \in Nat /\ permits[m].issued \in Nat
      BY <1>6
    <3> QED
      BY <1>4, <3>1, <3>2, <3>3
  <2> QED
    BY <2>2, <2>3, <2>4 DEF Ahead
<1>11. /\ Cardinality(Ahead(permits, m)) < CapacityFor(p, permits[m].demand.purpose)
       /\ m \in 1..n /\ permits[m].policy = p
  BY <1>1, <1>2, <1>5, <1>7 DEF Inv, Chained, AdmittedWithin
<1>12. Ahead(permits, m) \subseteq 1..n
  BY <1>2, <1>11 DEF Ahead
<1>13. /\ CapacityFor(p, permits[m].demand.purpose) \in Nat
       /\ CapacityFor(p, permits[m].demand.purpose) <= Policy[p].total
       /\ Policy[p].total \in Nat
  BY <1>2, Ceilings, PolicyType
<1>14. Cardinality(U) <= CapacityFor(p, permits[m].demand.purpose)
  <2> HIDE DEF U, n, p
  <2> QED
    BY <1>2, <1>5, <1>10, <1>11, <1>12, <1>13, CountedByLast, Zenon
<1>15. Cardinality(U) \in Nat
  BY <1>2, <1>5, FinitePositions, Zenon
<1> QED
  BY <1>13, <1>14, <1>15

(* Of the permits of some purposes that count at t, the last one was        *)
(* admitted under a ceiling that counted all the others.                    *)
LEMMA TierFollows ==
  ASSUME Inv, NEW p \in PolicyId, NEW t \in head.issued..MaxTime, NEW T, NEW c \in Nat,
         \A purpose \in T : CapacityFor(p, purpose) <= c
  PROVE  Cardinality({i \in Active(permits, p, t) : permits[i].demand.purpose \in T}) <= c
<1> DEFINE n == Len(permits)
           S == {i \in Active(permits, p, t) : permits[i].demand.purpose \in T}
<1>1. /\ n \in Nat /\ DOMAIN permits = 1..n
      /\ \A j \in 1..n : permits[j].issued \in Nat
  BY PermitFacts
<1>2. S \subseteq 1..n
  BY <1>1 DEF Active, Counted
<1>3. CASE S = {}
  <2>1. Cardinality(S) = 0
    BY <1>3, FS_EmptySet, Zenon
  <2> QED
    BY <2>1
<1>4. CASE S # {}
  <2>1. PICK m \in S : \A q \in S : q <= m
    <3> HIDE DEF S, n
    <3> QED
      BY <1>1, <1>2, <1>4, LastPosition, Zenon
  <2>2. n \in 1..n /\ m \in 1..n /\ permits # << >>
    BY <1>1, <1>2, <2>1
  <2>3. permits[m].issued <= t /\ t \in Nat
    <3>1. head.issued = permits[n].issued
      BY <2>2 DEF Inv, HeadOf, Last
    <3>2. permits[m].issued <= permits[n].issued
      BY <1>1, <2>2 DEF Inv, Chained, IssueOrdered
    <3> QED
      BY <1>1, <2>2, <3>1, <3>2, PolicyAssumption
  <2>4. \A q \in S : /\ permits[q].policy = p
                     /\ permits[q].issued >= t - (Policy[p].window + Policy[p].ttl)
    BY DEF Active, Counted
  <2>5. S \subseteq Ahead(permits, m) \union {m}
    <3>1. SUFFICES ASSUME NEW q \in S, q # m PROVE q \in Ahead(permits, m)
      OBVIOUS
    <3>2. q \in 1..n /\ q \in 1..(m - 1)
      BY <1>1, <1>2, <2>1, <2>2, <3>1
    <3>3. permits[q].issued >= permits[m].issued - (Policy[p].window + Policy[p].ttl)
      <4>1. permits[q].issued \in Nat /\ permits[m].issued \in Nat
        BY <1>1, <2>2, <3>2
      <4>2. permits[q].issued >= t - (Policy[p].window + Policy[p].ttl)
        BY <2>4
      <4> HIDE DEF S
      <4> QED
        BY <2>3, <4>1, <4>2, PolicyType
    <3> QED
      BY <2>4, <3>2, <3>3, Zenon DEF Ahead
  <2>6. /\ Cardinality(Ahead(permits, m)) < CapacityFor(p, permits[m].demand.purpose)
        /\ permits[m].demand.purpose \in T
    BY <1>1, <2>2, <2>4 DEF Inv, Chained, AdmittedWithin
  <2>7. Ahead(permits, m) \subseteq 1..n
    BY <1>1, <2>2 DEF Ahead
  <2>8. CapacityFor(p, permits[m].demand.purpose) \in Nat
    BY Ceilings
  <2>9. Cardinality(S) <= CapacityFor(p, permits[m].demand.purpose)
    <3> DEFINE A == Ahead(permits, m)
               ceiling == CapacityFor(p, permits[m].demand.purpose)
    <3>1. A \subseteq 1..n /\ S \subseteq A \union {m} /\ Cardinality(A) < ceiling
      BY <2>5, <2>6, <2>7
    <3>2. ceiling \in Nat
      BY <2>8
    <3> HIDE DEF S, n, A, ceiling
    <3>3. Cardinality(S) <= ceiling
      BY <1>1, <1>2, <2>2, <3>1, <3>2, CountedByLast, Zenon
    <3> QED
      BY <3>3 DEF ceiling
  <2>10. Cardinality(S) \in Nat
    BY <1>1, <1>2, FinitePositions, Zenon
  <2> QED
    BY <2>6, <2>8, <2>9, <2>10
<1> QED
  BY <1>3, <1>4

LEMMA ReserveFollows == Inv => ReserveIsProtected
<1>1. SUFFICES ASSUME Inv, NEW p \in PolicyId, NEW t \in head.issued..MaxTime
               PROVE  /\ Cardinality({i \in Active(permits, p, t) :
                              permits[i].demand.purpose \in {"submission"}})
                            <= Policy[p].submission
                      /\ Cardinality({i \in Active(permits, p, t) :
                              permits[i].demand.purpose \in {"submission", "unknown_lookup"}})
                            <= Policy[p].recovery
  BY DEF ReserveIsProtected
<1>2. Policy[p].submission \in Nat /\ Policy[p].recovery \in Nat
  BY PolicyAssumption DEF PolicyContent
<1>3. /\ \A purpose \in {"submission"} : CapacityFor(p, purpose) <= Policy[p].submission
      /\ \A purpose \in {"submission", "unknown_lookup"} :
             CapacityFor(p, purpose) <= Policy[p].recovery
  BY <1>2, Ceilings
<1> QED
  BY <1>1, <1>2, <1>3, TierFollows, Zenon

(* However late permits are used and however policies replace one another,  *)
(* no window of a policy's length holds more usable permits than its total; *)
(* submissions never take the capacity reserved for lookups, nor the two    *)
(* together the capacity reserved for cancels and reconciliation            *)
(* (issue_broker_request_permit, _active_policy_records).                   *)
THEOREM Limits == Spec => []LimitsHold
<1>1. Inv => LimitsHold
  BY BudgetFollows, ReserveFollows DEF LimitsHold
<1> QED
  BY <1>1, Invariance, PTL

(* While the policy of the last permit stays, what counts at t is a suffix  *)
(* of the chain, and all of it is within the window.                        *)
LEMMA SelectionFollows == Inv => SelectionIsComplete
<1>1. SUFFICES ASSUME Inv, permits # << >>, NEW t \in Last(permits).issued..MaxTime
               PROVE  /\ ChainValid(permits, Last(permits).policy, t)
                      /\ Cardinality(Active(permits, Last(permits).policy, t))
                            <= Policy[Last(permits).policy].total
  BY DEF SelectionIsComplete
<1> DEFINE n == Len(permits)
           p == permits[n].policy
           A == Active(permits, p, t)
           w == Policy[p].window
           l == Policy[p].ttl
<1>2. /\ n \in Nat /\ DOMAIN permits = 1..n
      /\ \A j \in 1..n : /\ permits[j].issued \in Nat /\ permits[j].policy \in PolicyId
                          /\ permits[j].expires = permits[j].issued + Policy[permits[j].policy].ttl
  BY <1>1, PermitFacts
<1>3. n \in 1..n /\ Last(permits) = permits[n] /\ p \in PolicyId
  BY <1>1, <1>2 DEF Last
<1>4. w \in Nat /\ l \in Nat
  BY <1>3, PolicyType
<1>5. t \in Nat /\ permits[n].issued <= t /\ permits[n].issued \in Nat
  BY <1>1, <1>2, <1>3, PolicyAssumption
<1>6. A = {i \in 1..n : permits[i].policy = p /\ permits[i].issued >= t - (w + l)}
  BY <1>1, <1>2, <1>3 DEF Active, Counted
<1>7. ASSUME NEW j \in 1..n PROVE permits[j].issued <= t
  <2>1. permits[j].issued <= permits[n].issued
    BY <1>1, <1>2, <1>3 DEF Inv, Chained, IssueOrdered
  <2> QED
    BY <1>2, <1>5, <2>1
<1>8. ASSUME NEW i \in A
      PROVE  /\ i \in 1..n /\ permits[i].policy = p /\ permits[i].issued \in Nat
             /\ permits[i].expires = permits[i].issued + l
             /\ permits[i].expires >= t - w
  <2>1. i \in 1..n /\ permits[i].policy = p /\ permits[i].issued >= t - (w + l)
    BY <1>6
  <2>2. permits[i].issued \in Nat /\ permits[i].expires = permits[i].issued + l
    BY <1>2, <2>1
  <2>3. permits[i].issued + l >= t - w
    <3> DEFINE a == permits[i].issued
    <3>1. a \in Nat /\ w \in Nat /\ l \in Nat /\ t \in Nat /\ a >= t - (w + l)
      BY <1>4, <1>5, <2>1, <2>2, SMTT(30)
    <3> HIDE DEF a, w, l
    <3>2. a + l >= t - w
      BY <3>1
    <3> QED
      BY <3>2 DEF a, w, l
  <2> QED
    BY <2>1, <2>2, <2>3
<1>9. ASSUME NEW i \in A, NEW j \in 1..n, i <= j PROVE j \in A
  <2>1. permits[i].issued <= permits[j].issued
    BY <1>1, <1>2, <1>8, <1>9, SMTT(30) DEF Inv, Chained, IssueOrdered
  <2>2. permits[j].issued >= t - (w + l)
    <3>1. permits[i].issued >= t - (w + l) /\ permits[i].issued \in Nat /\ permits[j].issued \in Nat
      BY <1>2, <1>6, <1>8, SMTT(30)
    <3> QED
      <4> DEFINE a == permits[i].issued
                 b == permits[j].issued
      <4>1. a \in Nat /\ w \in Nat /\ l \in Nat /\ t \in Nat /\ b \in Nat /\ a >= t - (w + l) /\ a <= b
        BY <1>4, <1>5, <2>1, <3>1, SMTT(30)
      <4> HIDE DEF a, b, w, l
      <4>2. b >= t - (w + l)
        BY <4>1
      <4> QED
        BY <4>2 DEF a, b, w, l
  <2>3. permits[j].policy = p
    <3>1. SUFFICES ASSUME permits[j].policy # p PROVE FALSE
      OBVIOUS
    <3>2. Drained(permits[i], permits[j].issued)
      BY <1>1, <1>2, <1>8, <1>9, <3>1 DEF Inv, Chained, RotationsDrained
    <3>3. permits[j].issued > permits[i].expires + w
      BY <1>8, <3>2 DEF Drained
    <3>4. /\ permits[j].issued > (permits[i].issued + l) + w /\ permits[j].issued <= t
          /\ permits[i].issued >= t - (w + l)
          /\ permits[i].issued \in Nat /\ permits[j].issued \in Nat
      BY <1>2, <1>6, <1>7, <1>8, <3>3, SMTT(30)
    <3> QED
      <4> DEFINE a == permits[i].issued
                 b == permits[j].issued
      <4>1. a \in Nat /\ w \in Nat /\ l \in Nat /\ t \in Nat /\ b \in Nat /\ a >= t - (w + l) /\ b <= t /\ b > (a + l) + w
        BY <1>4, <1>5, <3>4
      <4> HIDE DEF a, b, w, l
      <4>2. FALSE
        BY <4>1
      <4> QED
        BY <4>2 DEF a, b, w, l
  <2> QED
    BY <1>6, <2>2, <2>3
<1>10. A = {} => permits[n].expires < t - w
  <2>1. SUFFICES ASSUME A = {} PROVE permits[n].expires < t - w
    OBVIOUS
  <2>2. ~(permits[n].issued >= t - (w + l))
    BY <1>3, <1>6, <2>1
  <2>3. permits[n].issued + l < t - w
    <3> DEFINE a == permits[n].issued
    <3>1. a \in Nat /\ w \in Nat /\ l \in Nat /\ t \in Nat /\ ~(a >= t - (w + l))
      BY <1>4, <1>5, <2>2, SMTT(30)
    <3> HIDE DEF a, w, l
    <3>2. a + l < t - w
      BY <3>1
    <3> QED
      BY <3>2 DEF a, w, l
  <2> QED
    BY <1>2, <1>3, <2>3
<1>11. ChainValid(permits, p, t)
  <2>1. \A i \in A : permits[i].expires >= t - w /\ permits[i].issued <= t
    BY <1>7, <1>8
  <2> HIDE DEF A, w, p
  <2> QED
    BY <1>1, <1>2, <1>3, <1>9, <1>10, <2>1 DEF ChainValid, A, w, p
<1>12. Cardinality(A) <= Policy[p].total
  <2>1. head.issued = permits[n].issued
    BY <1>1, <1>3 DEF Inv, HeadOf
  <2>2. \A purpose \in Purpose : CapacityFor(p, purpose) <= Policy[p].total
    BY <1>3, Ceilings
  <2>3. Policy[p].total \in Nat
    BY <1>3, PolicyType
  <2>4. \A i \in A : permits[i].demand.purpose \in Purpose
    <3>1. \A i \in 1..n : permits[i] \in Permit
      BY <1>1, <1>2 DEF Inv, TypeOK
    <3> QED
      BY <1>8, <3>1, DemandAssumption DEF Permit
  <2>5. A = {i \in A : permits[i].demand.purpose \in Purpose}
    BY <2>4
  <2>6. t \in head.issued..MaxTime
    BY <1>1, <1>3, <2>1
  <2> HIDE DEF p
  <2> QED
    BY <1>1, <1>3, <2>2, <2>3, <2>5, <2>6, TierFollows, Zenon
<1> QED
  BY <1>3, <1>11, <1>12

(* What issue() wrote never refuses a later demand: the counts that permits *)
(* recorded, taken from an SQL range, are those of the window the replay    *)
(* keeps, also when policies alternate, and the selected history is always  *)
(* the suffix that _validate_chain demands.                                 *)
THEOREM Authenticates == Spec => []OnlyCapacityRefuses
<1>1. Inv => HistoryVerifies
  BY DEF Inv, HistoryVerifies, Verifies, Authentic, Windows, Stream
<1>2. Inv => OnlyCapacityRefuses
  BY <1>1, SelectionFollows DEF OnlyCapacityRefuses
<1> QED
  BY <1>2, Invariance, PTL

(* The state of the budget is well typed for every policy and demand.       *)
THEOREM TypeCorrect == Spec => []TypeOK
<1>1. Inv => TypeOK
  BY DEF Inv
<1> QED
  BY <1>1, Invariance, PTL
=============================================================================
