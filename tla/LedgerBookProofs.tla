--------------------------- MODULE LedgerBookProofs ---------------------------
(***************************************************************************)
(* What the operations on a ledger book preserve, for every ledger: sums   *)
(* of entries, the agreement of the stored balances with the entries, what *)
(* is still left of each lot, and whose balances an operation can raise.   *)
(***************************************************************************)
EXTENDS LedgerBook, TLAPS, FiniteSetTheorems, SequenceTheorems, WellFoundedInduction

(* Induction over the naturals, for a set. *)
LEMMA NatSetInduction ==
  ASSUME NEW S, S \subseteq Nat, 0 \in S, \A n \in S : n + 1 \in S
  PROVE  S = Nat
<1>1. SUFFICES ASSUME Nat \ S # {} PROVE FALSE
  OBVIOUS
<1>2. PICK x \in Nat \ S : \A y \in Nat \ S : ~(<<y, x>> \in OpToRel(<, Nat))
  BY <1>1, WFMin, NatLessThanWellFounded
<1>3. x # 0 /\ x - 1 \in Nat
  OBVIOUS
<1>4. <<x - 1, x>> \in OpToRel(<, Nat)
  BY <1>3 DEF OpToRel
<1>5. x - 1 \in S
  BY <1>2, <1>3, <1>4
<1>6. QED
  BY <1>3, <1>5

IsSum(f, q, n) ==
  /\ f \in [0..n -> Int]
  /\ f[0] = 0
  /\ \A k \in 1..n : f[k] = f[k - 1] + q[k]

(* The partial sums of a sequence of integers exist and are integers. *)
LEMMA PartialSumsType ==
  ASSUME NEW q \in Seq(Int)
  PROVE  IsSum(PartialSums(q), q, Len(q))
<1> DEFINE S == {n \in Nat : n <= Len(q) => \E f : IsSum(f, q, n)}
           Eq(f) == f = [n \in 0..Len(q) |-> IF n = 0 THEN 0 ELSE f[n - 1] + q[n]]
<1>0. Len(q) \in Nat /\ DOMAIN q = 1..Len(q) /\ \A i \in 1..Len(q) : q[i] \in Int
  OBVIOUS
<1>1. 0 \in S
  <2>1. IsSum([k \in 0..0 |-> 0], q, 0)
    BY DEF IsSum
  <2>2. QED
    BY <2>1
<1>2. ASSUME NEW n \in S PROVE n + 1 \in S
  <2>1. SUFFICES ASSUME n + 1 <= Len(q) PROVE \E f : IsSum(f, q, n + 1)
    OBVIOUS
  <2>2. PICK g : IsSum(g, q, n)
    BY <2>1, <1>0, <1>2
  <2> DEFINE f == [k \in 0..(n + 1) |-> IF k <= n THEN g[k] ELSE g[n] + q[n + 1]]
  <2>3. n + 1 \in 1..Len(q) /\ q[n + 1] \in Int /\ n \in Nat
    BY <2>1, <1>0
  <2>4. f \in [0..(n + 1) -> Int] /\ f[0] = 0
    BY <2>2, <2>3 DEF IsSum
  <2>5. ASSUME NEW k \in 1..(n + 1) PROVE f[k] = f[k - 1] + q[k]
    <3>1. CASE k <= n
      BY <3>1, <2>2, <2>3 DEF IsSum
    <3>2. CASE k = n + 1
      BY <3>2, <2>2, <2>3 DEF IsSum
    <3>3. QED
      BY <3>1, <3>2, <2>3
  <2>6. IsSum(f, q, n + 1)
    BY <2>4, <2>5 DEF IsSum
  <2>7. QED
    BY <2>6
<1>3. S = Nat
  <2> HIDE DEF S
  <2>1. S \subseteq Nat
    BY DEF S
  <2>2. QED
    BY <1>1, <1>2, <2>1, NatSetInduction
<1>4. PICK h : IsSum(h, q, Len(q))
  BY <1>0, <1>3
<1>5. Eq(h)
  BY <1>4, <1>0 DEF IsSum
<1>6. Eq(PartialSums(q))
  <2>1. PartialSums(q) = CHOOSE f : Eq(f)
    BY DEF PartialSums
  <2>2. QED
    BY <1>5, <2>1
<1> DEFINE P == PartialSums(q)
           T == {n \in Nat : n <= Len(q) => P[n] \in Int}
<1>8. /\ DOMAIN P = 0..Len(q)
      /\ \A n \in 0..Len(q) : P[n] = IF n = 0 THEN 0 ELSE P[n - 1] + q[n]
  BY <1>6
<1> HIDE DEF P
<1>7. P[0] = 0 /\ \A k \in 1..Len(q) : P[k] = P[k - 1] + q[k]
  <2>1. \A k \in 1..Len(q) : k \in 0..Len(q) /\ k # 0
    BY <1>0
  <2>2. 0 \in 0..Len(q)
    BY <1>0
  <2>3. QED
    BY <1>8, <2>1, <2>2, Zenon
<1>9. T = Nat
  <2>1. 0 \in T
    BY <1>7
  <2>2. ASSUME NEW n \in T PROVE n + 1 \in T
    BY <1>7, <1>0
  <2>3. T \subseteq Nat
    OBVIOUS
  <2> HIDE DEF T
  <2>4. QED
    BY <2>1, <2>2, <2>3, NatSetInduction
<1>10. \A n \in 0..Len(q) : P[n] \in Int
  BY <1>9, <1>0
<1>11. QED
  BY <1>6, <1>7, <1>8, <1>10 DEF IsSum, P

(* The sum of a concatenation. *)
LEMMA TotalConcat ==
  ASSUME NEW p \in Seq(Int), NEW q \in Seq(Int)
  PROVE  /\ Total(p) \in Int
         /\ Total(p \o q) = Total(p) + Total(q)
<1> DEFINE P == PartialSums(p)
           Q == PartialSums(q)
           R == PartialSums(p \o q)
           S == {n \in Nat : n <= Len(p) => R[n] = P[n]}
           T == {n \in Nat : n <= Len(q) => R[Len(p) + n] = P[Len(p)] + Q[n]}
<1>1. /\ p \o q \in Seq(Int) /\ Len(p \o q) = Len(p) + Len(q)
      /\ \A k \in 1..Len(p) : (p \o q)[k] = p[k]
      /\ \A k \in 1..Len(q) : (p \o q)[Len(p) + k] = q[k]
  <2>1. \A k \in 1..(Len(p) + Len(q)) :
          (p \o q)[k] = IF k <= Len(p) THEN p[k] ELSE q[k - Len(p)]
    BY ConcatProperties
  <2>2. QED
    BY <2>1
<1>2. IsSum(P, p, Len(p)) /\ IsSum(Q, q, Len(q)) /\ IsSum(R, p \o q, Len(p) + Len(q))
  BY <1>1, PartialSumsType
<1> HIDE DEF P, Q, R
<1>3. Len(p) \in Nat /\ Len(q) \in Nat
  OBVIOUS
<1>typ. P[Len(p)] \in Int /\ Q[0] = 0 /\ \A k \in 0..Len(q) : Q[k] \in Int
  <2>1. P[Len(p)] \in Int
    BY <1>2, <1>3 DEF IsSum
  <2>2. QED
    BY <1>2, <2>1 DEF IsSum
<1>4. S = Nat
  <2>1. 0 \in S
    BY <1>2 DEF IsSum
  <2>2. ASSUME NEW n \in S PROVE n + 1 \in S
    <3>1. SUFFICES ASSUME n + 1 <= Len(p) PROVE R[n + 1] = P[n + 1]
      OBVIOUS
    <3>2. /\ R[n] = P[n] /\ n + 1 \in 1..Len(p) /\ n + 1 \in 1..(Len(p) + Len(q))
          /\ (n + 1) - 1 = n
      BY <3>1, <1>3
    <3>3. R[n + 1] = R[n] + p[n + 1] /\ P[n + 1] = P[n] + p[n + 1]
      BY <3>2, <1>1, <1>2 DEF IsSum
    <3>4. QED
      BY <3>2, <3>3
  <2>3. S \subseteq Nat
    OBVIOUS
  <2> HIDE DEF S
  <2>4. QED
    BY <2>1, <2>2, <2>3, NatSetInduction
<1>5. R[Len(p)] = P[Len(p)]
  BY <1>3, <1>4
<1>6. T = Nat
  <2>1. 0 \in T
    BY <1>typ, <1>3, <1>5
  <2>2. ASSUME NEW n \in T PROVE n + 1 \in T
    <3>1. SUFFICES ASSUME n + 1 <= Len(q)
                   PROVE  R[Len(p) + (n + 1)] = P[Len(p)] + Q[n + 1]
      OBVIOUS
    <3>2. /\ R[Len(p) + n] = P[Len(p)] + Q[n] /\ n + 1 \in 1..Len(q)
          /\ (n + 1) - 1 = n
          /\ Len(p) + (n + 1) \in 1..(Len(p) + Len(q))
          /\ (Len(p) + (n + 1)) - 1 = Len(p) + n
      BY <3>1, <1>3
    <3>3. R[Len(p) + (n + 1)] = R[Len(p) + n] + q[n + 1] /\ Q[n + 1] = Q[n] + q[n + 1]
      BY <3>2, <1>1, <1>2 DEF IsSum
    <3>4. P[Len(p)] \in Int /\ Q[n] \in Int /\ q[n + 1] \in Int
      <4>1. n \in 0..Len(q)
        BY <3>1, <1>3
      <4>2. q[n + 1] \in Int
        BY <3>2, ElementOfSeq
      <4>3. QED
        BY <4>1, <4>2, <1>typ
    <3>5. QED
      BY <3>2, <3>3, <3>4
  <2>3. T \subseteq Nat
    OBVIOUS
  <2> HIDE DEF T
  <2>4. QED
    BY <2>1, <2>2, <2>3, NatSetInduction
<1>7. Total(p) = P[Len(p)] /\ Total(q) = Q[Len(q)] /\ Total(p \o q) = R[Len(p) + Len(q)]
  BY <1>1 DEF Total, P, Q, R
<1>8. R[Len(p) + Len(q)] = P[Len(p)] + Q[Len(q)]
  BY <1>3, <1>6
<1>9. QED
  BY <1>7, <1>8, <1>typ
-------------------------------------------------------------------------------
(* Entries *)

Values(s) == {s[i] : i \in DOMAIN s}

(* Sequences of whatever kind of values: concatenation and comprehension. *)
LEMMA SeqConcat ==
  ASSUME NEW s, NEW t, IsSeq(s), IsSeq(t)
  PROVE  /\ IsSeq(s \o t) /\ Len(s) \in Nat /\ Len(t) \in Nat
         /\ Len(s \o t) = Len(s) + Len(t)
         /\ \A i \in 1..Len(s) : (s \o t)[i] = s[i]
         /\ \A i \in (Len(s) + 1)..(Len(s) + Len(t)) : (s \o t)[i] = t[i - Len(s)]
<1> DEFINE V == Values(s) \cup Values(t)
<1>1. s \in Seq(V) /\ t \in Seq(V)
  BY SeqMonotonic DEF IsSeq, Values
<1> HIDE DEF V
<1>2. /\ s \o t \in Seq(V) /\ Len(s \o t) = Len(s) + Len(t)
      /\ \A i \in 1..(Len(s) + Len(t)) :
           (s \o t)[i] = IF i <= Len(s) THEN s[i] ELSE t[i - Len(s)]
  BY <1>1, ConcatProperties
<1>3. IsSeq(s \o t)
  BY <1>2, SeqOfRange DEF IsSeq, Range
<1>4. Len(s) \in Nat /\ Len(t) \in Nat
  BY <1>1, LenProperties
<1>5. QED
  BY <1>2, <1>3, <1>4

LEMMA FunctionIsSeq ==
  ASSUME NEW n \in Nat, NEW f, f = [i \in 1..n |-> f[i]]
  PROVE  IsSeq(f) /\ Len(f) = n
<1> DEFINE V == {f[i] : i \in 1..n}
<1>1. DOMAIN f = 1..n
  OBVIOUS
<1>2. f \in [1..n -> V]
  OBVIOUS
<1> HIDE DEF V
<1>3. f \in Seq(V) /\ Len(f) = n
  BY <1>1, <1>2
<1>4. V = {f[i] : i \in DOMAIN f}
  BY <1>1 DEF V
<1>5. QED
  BY <1>3, <1>4 DEF IsSeq

LEMMA AccountTotalConcat ==
  ASSUME NEW s, NEW t, IsSeq(s), IsSeq(t), NEW m, NEW u,
         \A i \in 1..Len(s) : s[i].amount \in Int,
         \A i \in 1..Len(t) : t[i].amount \in Int
  PROVE  /\ AccountTotal(s, m, u) \in Int /\ AccountTotal(t, m, u) \in Int
         /\ AccountTotal(s \o t, m, u) = AccountTotal(s, m, u) + AccountTotal(t, m, u)
<1> DEFINE A == AccountAmounts(s, m, u)
           B == AccountAmounts(t, m, u)
           C == AccountAmounts(s \o t, m, u)
<1>1. /\ IsSeq(s \o t) /\ Len(s) \in Nat /\ Len(t) \in Nat
      /\ Len(s \o t) = Len(s) + Len(t)
      /\ \A i \in 1..Len(s) : (s \o t)[i] = s[i]
      /\ \A i \in (Len(s) + 1)..(Len(s) + Len(t)) : (s \o t)[i] = t[i - Len(s)]
  BY SeqConcat
<1>2. A \in Seq(Int) /\ Len(A) = Len(s)
  BY <1>1 DEF AccountAmounts
<1>3. B \in Seq(Int) /\ Len(B) = Len(t)
  BY <1>1 DEF AccountAmounts
<1>4. C = A \o B
  <2>1. C \in [1..(Len(s) + Len(t)) -> Int]
    <3>1. ASSUME NEW i \in 1..(Len(s) + Len(t)) PROVE (s \o t)[i].amount \in Int
      <4>1. CASE i <= Len(s)
        BY <1>1, <4>1
      <4>2. CASE i > Len(s)
        <5>1. i \in (Len(s) + 1)..(Len(s) + Len(t)) /\ i - Len(s) \in 1..Len(t)
          BY <4>2, <1>1
        <5>2. QED
          BY <5>1, <1>1
      <4>3. QED
        BY <4>1, <4>2, <1>1
    <3>2. QED
      BY <3>1, <1>1 DEF AccountAmounts
  <2>2. C \in Seq(Int) /\ Len(C) = Len(s) + Len(t)
    BY <2>1, <1>1
  <2>3. /\ A \o B \in Seq(Int) /\ Len(A \o B) = Len(s) + Len(t)
        /\ \A i \in 1..(Len(s) + Len(t)) :
             (A \o B)[i] = IF i <= Len(s) THEN A[i] ELSE B[i - Len(s)]
    <3> HIDE DEF A, B, C
    <3>1. /\ A \o B \in Seq(Int) /\ Len(A \o B) = Len(A) + Len(B)
          /\ \A i \in 1..(Len(A) + Len(B)) :
               (A \o B)[i] = IF i <= Len(A) THEN A[i] ELSE B[i - Len(A)]
      BY <1>2, <1>3, ConcatProperties
    <3>2. QED
      BY <3>1, <1>2, <1>3, Zenon
  <2>4. ASSUME NEW i \in 1..(Len(s) + Len(t)) PROVE C[i] = (A \o B)[i]
    <3>1. CASE i <= Len(s)
      <4>1. i \in 1..Len(s)
        BY <3>1, <1>1
      <4>2. (A \o B)[i] = A[i]
        BY <2>3, <3>1
      <4>3. C[i] = A[i]
        BY <4>1, <1>1 DEF AccountAmounts
      <4>4. QED
        BY <4>2, <4>3
    <3>2. CASE i > Len(s)
      <4>1. i \in (Len(s) + 1)..(Len(s) + Len(t)) /\ i - Len(s) \in 1..Len(t) /\ ~(i <= Len(s))
        BY <3>2, <1>1
      <4>2. (A \o B)[i] = B[i - Len(s)]
        BY <2>3, <4>1
      <4>3. C[i] = B[i - Len(s)]
        BY <4>1, <1>1 DEF AccountAmounts
      <4>4. QED
        BY <4>2, <4>3
    <3>3. i <= Len(s) \/ i > Len(s)
      BY <1>1
    <3>4. QED
      BY <3>1, <3>2, <3>3, Zenon
  <2>5. QED
    <3> HIDE DEF A, B, C
    <3>1. QED
      BY <2>2, <2>3, <2>4, SeqEqual
<1>5. Total(A) \in Int /\ Total(B) \in Int /\ Total(A \o B) = Total(A) + Total(B)
  <2> HIDE DEF A, B, C
  <2>1. QED
    BY <1>2, <1>3, TotalConcat
<1>6. QED
  BY <1>4, <1>5 DEF AccountTotal
-------------------------------------------------------------------------------
(* Books *)

Sound(b) == IsBook(b) /\ Balanced(b)

(* addLedger keeps the balances equal to the sums of the entries. *)
LEMMA AddLedgerSound ==
  ASSUME NEW b, Sound(b), NEW es, IsSeq(es), \A i \in 1..Len(es) : IsEntry(es[i])
  PROVE  /\ Sound(AddLedger(b, es)) /\ Continues(b, AddLedger(b, es))
         /\ AddLedger(b, es).ledger = b.ledger \o es
<1> DEFINE c    == AddLedger(b, es)
           n    == Len(b.ledger)
           lots == {n + i : i \in {j \in DOMAIN es : es[j].expires # NoExpiry /\ es[j].amount > 0}}
           P    == [m \in Members |-> [u \in Units |-> b.points[m][u] + AccountTotal(es, m, u)]]
           L    == [i \in DOMAIN b.lots \cup lots |->
                      IF i \in DOMAIN b.lots THEN b.lots[i] ELSE es[i - n].amount]
<1>1. c = [ledger |-> b.ledger \o es, points |-> P, lots |-> L, consumptions |-> b.consumptions]
  BY DEF AddLedger
<1>2. /\ c.ledger = b.ledger \o es /\ c.points = P /\ c.lots = L
      /\ c.consumptions = b.consumptions
      /\ c = [ledger |-> c.ledger, points |-> c.points, lots |-> c.lots,
              consumptions |-> c.consumptions]
  BY <1>1
<1> HIDE DEF c
<1>3. /\ IsSeq(b.ledger \o es) /\ n \in Nat /\ Len(es) \in Nat
      /\ Len(b.ledger \o es) = n + Len(es)
      /\ \A i \in 1..n : (b.ledger \o es)[i] = b.ledger[i]
      /\ \A i \in (n + 1)..(n + Len(es)) : (b.ledger \o es)[i] = es[i - n]
  BY SeqConcat DEF Sound, IsBook
<1>4. DOMAIN es = 1..Len(es)
  BY LenProperties DEF IsSeq
<1>5. ASSUME NEW i \in 1..(n + Len(es)) PROVE IsEntry((b.ledger \o es)[i])
  <2>1. CASE i <= n
    <3>1. i \in 1..n
      BY <2>1, <1>3
    <3>2. QED
      BY <3>1, <1>3 DEF Sound, IsBook
  <2>2. CASE i > n
    <3>1. i \in (n + 1)..(n + Len(es)) /\ i - n \in 1..Len(es)
      BY <2>2, <1>3
    <3>2. QED
      BY <3>1, <1>3
  <2>3. i <= n \/ i > n
    BY <1>3
  <2>4. QED
    BY <2>1, <2>2, <2>3
<1>6. ASSUME NEW m \in Members, NEW u \in Units
      PROVE  /\ b.points[m][u] \in Int /\ AccountTotal(es, m, u) \in Int
             /\ AccountTotal(b.ledger \o es, m, u) = b.points[m][u] + AccountTotal(es, m, u)
  <2>1. /\ \A i \in 1..Len(b.ledger) : b.ledger[i].amount \in Int
        /\ \A i \in 1..Len(es) : es[i].amount \in Int
        /\ IsSeq(b.ledger)
    BY DEF Sound, IsBook, IsEntry
  <2>2. /\ AccountTotal(es, m, u) \in Int
        /\ AccountTotal(b.ledger \o es, m, u)
             = AccountTotal(b.ledger, m, u) + AccountTotal(es, m, u)
    BY <2>1, AccountTotalConcat
  <2>3. b.points[m][u] = AccountTotal(b.ledger, m, u) /\ b.points[m][u] \in Int
    BY DEF Sound, IsBook, Balanced
  <2>4. QED
    BY <2>2, <2>3
<1>7. P \in [Members -> [Units -> Int]]
  BY <1>6
<1>8. Balanced(c)
  BY <1>2, <1>6 DEF Balanced
<1>9. ASSUME NEW i \in DOMAIN L PROVE i \in 1..(n + Len(es)) /\ L[i] \in Nat
  <2>1. CASE i \in DOMAIN b.lots
    BY <2>1, <1>3 DEF Sound, IsBook
  <2>2. CASE i \notin DOMAIN b.lots
    <3>1. PICK j \in DOMAIN es : es[j].amount > 0 /\ i = n + j
      BY <2>2
    <3>2. j \in 1..Len(es) /\ es[j].amount \in Int /\ i - n = j
      BY <3>1, <1>3, <1>4 DEF IsEntry
    <3>3. QED
      BY <2>2, <3>1, <3>2, <1>3
  <2>3. QED
    BY <2>1, <2>2
<1>10. \A r \in DOMAIN c.consumptions : \A i \in DOMAIN c.consumptions[r] :
         i \in DOMAIN c.lots /\ c.consumptions[r][i] \in Nat
  BY <1>2 DEF Sound, IsBook
<1>11. IsBook(c)
  <2>1. DOMAIN c.lots \subseteq 1..Len(c.ledger) /\ \A i \in DOMAIN c.lots : c.lots[i] \in Nat
    BY <1>2, <1>3, <1>9
  <2>2. IsSeq(c.ledger) /\ \A i \in 1..Len(c.ledger) : IsEntry(c.ledger[i])
    BY <1>2, <1>3, <1>5
  <2>3. QED
    BY <1>2, <1>7, <1>10, <2>1, <2>2 DEF IsBook
<1>12. Continues(b, c)
  BY <1>2, <1>3 DEF Continues
<1>13. QED
  BY <1>2, <1>8, <1>11, <1>12 DEF Sound, c

(* The lots are not part of the balance: a change of the lots that keeps   *)
(* their entries and leaves natural remainders keeps the book sound.       *)
LEMMA LotsSound ==
  ASSUME NEW b, Sound(b), NEW L, NEW C,
         DOMAIN L = DOMAIN b.lots, \A i \in DOMAIN L : L[i] \in Nat,
         \A r \in DOMAIN C : \A i \in DOMAIN C[r] : i \in DOMAIN L /\ C[r][i] \in Nat
  PROVE  LET c == WithLots(b, L, C)
         IN  Sound(c) /\ Continues(b, c) /\ c.ledger = b.ledger /\ c.lots = L
<1> DEFINE c == WithLots(b, L, C)
<1>1. c = [ledger |-> b.ledger, points |-> b.points, lots |-> L, consumptions |-> C]
  BY DEF WithLots
<1>2. /\ c.ledger = b.ledger /\ c.points = b.points /\ c.lots = L /\ c.consumptions = C
      /\ c = [ledger |-> c.ledger, points |-> c.points, lots |-> c.lots,
              consumptions |-> c.consumptions]
  BY <1>1
<1> HIDE DEF c
<1>3. IsBook(c)
  BY <1>2 DEF Sound, IsBook
<1>4. Balanced(c)
  BY <1>2 DEF Sound, Balanced
<1>5. Len(b.ledger) \in Nat
  BY LenProperties DEF Sound, IsBook, IsSeq
<1>6. Continues(b, c)
  BY <1>2, <1>5 DEF Continues
<1>7. QED
  BY <1>2, <1>3, <1>4, <1>6 DEF Sound, c

LEMMA TotalType ==
  ASSUME NEW q \in Seq(Int)
  PROVE  Total(q) \in Int
BY TotalConcat, EmptySeq

(* consumePointLots never takes more from a lot than what is left in it. *)
LEMMA TakenFromType ==
  ASSUME NEW b, Sound(b), NEW m, NEW i \in DOMAIN b.lots, NEW amount \in Int
  PROVE  TakenFrom(b, m, i, amount) \in 0..b.lots[i]
<1> DEFINE q == [j \in 1..Len(b.ledger) |->
                   IF j \in OpenLots(b, m) /\ b.ledger[j].unit = b.ledger[i].unit /\ SpentBefore(b, j, i)
                   THEN b.lots[j] ELSE 0]
<1>1. Len(b.ledger) \in Nat
  BY LenProperties DEF Sound, IsBook, IsSeq
<1>2. \A j \in 1..Len(b.ledger) : q[j] \in Int
  BY DEF OpenLots, Sound, IsBook
<1>3. q \in Seq(Int)
  <2>1. DOMAIN q = 1..Len(b.ledger) /\ q = [j \in 1..Len(b.ledger) |-> q[j]]
    OBVIOUS
  <2> HIDE DEF q
  <2>2. q \in [1..Len(b.ledger) -> Int]
    BY <2>1, <1>2
  <2>3. QED
    BY <2>2, <1>1
<1>4. LeftAhead(b, m, i) \in Int
  <2>1. LeftAhead(b, m, i) = Total(q)
    BY DEF LeftAhead
  <2> HIDE DEF q
  <2>2. QED
    BY <2>1, <1>3, TotalType
<1>5. b.lots[i] \in Nat
  BY DEF Sound, IsBook
<1>6. QED
  BY <1>4, <1>5 DEF TakenFrom

LEMMA ConsumePointLotsSound ==
  ASSUME NEW b, Sound(b), NEW m, NEW debit \in [Units -> Int], NEW id
  PROVE  LET c == ConsumePointLots(b, m, debit, id)
         IN  Sound(c) /\ Continues(b, c) /\ c.ledger = b.ledger
<1> DEFINE taken == [i \in OpenLots(b, m) |-> TakenFrom(b, m, i, debit[b.ledger[i].unit])]
           used  == {i \in DOMAIN taken : taken[i] > 0}
           L     == [i \in DOMAIN b.lots |-> IF i \in used THEN b.lots[i] - taken[i] ELSE b.lots[i]]
           C     == IF id = None \/ used = {} THEN b.consumptions
                    ELSE [r \in DOMAIN b.consumptions \cup {id} |->
                            IF r = id THEN [i \in used |-> taken[i]] ELSE b.consumptions[r]]
<1>1. ASSUME NEW i \in OpenLots(b, m) PROVE i \in DOMAIN b.lots /\ taken[i] \in 0..b.lots[i]
  <2>1. i \in DOMAIN b.lots
    BY DEF OpenLots
  <2>2. b.ledger[i].unit \in Units
    BY <2>1 DEF Sound, IsBook, IsEntry
  <2>3. debit[b.ledger[i].unit] \in Int
    BY <2>2
  <2>4. QED
    BY <2>1, <2>3, TakenFromType
<1>2. \A i \in DOMAIN b.lots : b.lots[i] \in Nat
  BY DEF Sound, IsBook
<1>3. \A i \in used : i \in DOMAIN b.lots /\ taken[i] \in 0..b.lots[i]
  BY <1>1
<1>4. DOMAIN L = DOMAIN b.lots /\ \A i \in DOMAIN L : L[i] \in Nat
  <2> HIDE DEF taken, used
  <2>1. QED
    BY <1>2, <1>3
<1>5. \A r \in DOMAIN C : \A i \in DOMAIN C[r] : i \in DOMAIN L /\ C[r][i] \in Nat
  <2>1. \A r \in DOMAIN b.consumptions : \A i \in DOMAIN b.consumptions[r] :
          i \in DOMAIN L /\ b.consumptions[r][i] \in Nat
    BY DEF Sound, IsBook
  <2>2. \A i \in used : i \in DOMAIN L /\ taken[i] \in Nat
    BY <1>2, <1>3
  <2> HIDE DEF taken, used, L
  <2>3. CASE id = None \/ used = {}
    BY <2>1, <2>3
  <2>4. CASE ~(id = None \/ used = {})
    BY <2>1, <2>2, <2>4
  <2>5. QED
    BY <2>3, <2>4
<1>6. ConsumePointLots(b, m, debit, id) = WithLots(b, L, C)
  BY DEF ConsumePointLots
<1> HIDE DEF L, C
<1>7. QED
  BY <1>4, <1>5, <1>6, LotsSound

LEMMA RestorePointLotsSound ==
  ASSUME NEW b, Sound(b), NEW id
  PROVE  LET c == RestorePointLots(b, id)
         IN  Sound(c) /\ Continues(b, c) /\ c.ledger = b.ledger
<1>1. CASE id \notin DOMAIN b.consumptions
  <2>1. RestorePointLots(b, id) = b
    BY <1>1 DEF RestorePointLots
  <2>2. Len(b.ledger) \in Nat
    BY LenProperties DEF Sound, IsBook, IsSeq
  <2>3. QED
    BY <2>1, <2>2 DEF Continues
<1>2. CASE id \in DOMAIN b.consumptions
  <2> DEFINE taken == b.consumptions[id]
             L == [i \in DOMAIN b.lots |->
                     IF i \in DOMAIN taken THEN b.lots[i] + taken[i] ELSE b.lots[i]]
             C == [r \in DOMAIN b.consumptions \ {id} |-> b.consumptions[r]]
  <2>1. /\ \A i \in DOMAIN b.lots : b.lots[i] \in Nat
        /\ \A i \in DOMAIN taken : taken[i] \in Nat
    BY <1>2 DEF Sound, IsBook
  <2>2. DOMAIN L = DOMAIN b.lots /\ \A i \in DOMAIN L : L[i] \in Nat
    BY <2>1
  <2>3. \A r \in DOMAIN C : \A i \in DOMAIN C[r] : i \in DOMAIN L /\ C[r][i] \in Nat
    BY DEF Sound, IsBook
  <2>4. RestorePointLots(b, id) = WithLots(b, L, C)
    BY <1>2 DEF RestorePointLots
  <2> HIDE DEF L, C
  <2>5. QED
    BY <2>2, <2>3, <2>4, LotsSound
<1>3. QED
  BY <1>1, <1>2

(* A finite set has a listing. *)
LEMMA ListingType ==
  ASSUME NEW S, IsFiniteSet(S)
  PROVE  /\ Cardinality(S) \in Nat
         /\ Listing(S) \in [1..Cardinality(S) -> S]
<1>1. Cardinality(S) \in Nat /\ ExistsBijection(1..Cardinality(S), S)
  BY FS_CardinalityType
<1>2. PICK f \in Bijection(1..Cardinality(S), S) : TRUE
  BY <1>1 DEF ExistsBijection
<1>3. /\ f \in [1..Cardinality(S) -> S]
      /\ \A i, j \in 1..Cardinality(S) : f[i] = f[j] => i = j
  BY DEF Bijection, Injection, IsInjective
<1>4. QED
  BY <1>1, <1>3 DEF Listing

LEMMA ExpirePointLotsSound ==
  ASSUME NEW b, Sound(b), NEW ms, NEW us, NEW t
  PROVE  LET c == ExpirePointLots(b, ms, us, t)
         IN  /\ Sound(c) /\ Continues(b, c)
             /\ \A i \in (Len(b.ledger) + 1)..Len(c.ledger) : c.ledger[i].op = "expiration"
<1> DEFINE due == DueLots(b, ms, us, t)
           ids == Listing(due)
           L   == [i \in DOMAIN b.lots |-> IF i \in due THEN 0 ELSE b.lots[i]]
           d   == WithLots(b, L, b.consumptions)
           es  == [k \in 1..Cardinality(due) |-> ExpirationEntry(b, ids[k], t)]
<1>1. due \subseteq DOMAIN b.lots /\ DOMAIN b.lots \subseteq 1..Len(b.ledger)
  BY DEF DueLots, Sound, IsBook
<1>2. Len(b.ledger) \in Nat
  BY LenProperties DEF Sound, IsBook, IsSeq
<1>3. IsFiniteSet(due)
  <2> HIDE DEF due
  <2>1. IsFiniteSet(1..Len(b.ledger))
    BY <1>2, FS_Interval
  <2>2. due \in SUBSET (1..Len(b.ledger))
    BY <1>1
  <2>3. QED
    BY <2>1, <2>2, FS_Subset
<1>4. Cardinality(due) \in Nat /\ ids \in [1..Cardinality(due) -> due]
  BY <1>3, ListingType
<1>5. DOMAIN L = DOMAIN b.lots /\ \A i \in DOMAIN L : L[i] \in Nat
  BY DEF Sound, IsBook
<1>6. \A r \in DOMAIN b.consumptions : \A i \in DOMAIN b.consumptions[r] :
        i \in DOMAIN L /\ b.consumptions[r][i] \in Nat
  BY DEF Sound, IsBook
<1>7. Sound(d) /\ Continues(b, d) /\ d.ledger = b.ledger
  <2> HIDE DEF L
  <2>1. QED
    BY <1>5, <1>6, LotsSound
<1>8. IsSeq(es) /\ Len(es) = Cardinality(due)
  BY <1>4, FunctionIsSeq
<1>9. ASSUME NEW k \in 1..Len(es) PROVE IsEntry(es[k]) /\ es[k].op = "expiration"
  <2>1. ids[k] \in DOMAIN b.lots /\ ids[k] \in 1..Len(b.ledger)
    BY <1>1, <1>4, <1>8
  <2>2. /\ b.ledger[ids[k]].member \in Members /\ b.ledger[ids[k]].unit \in Units
        /\ b.lots[ids[k]] \in Nat
    BY <2>1 DEF Sound, IsBook, IsEntry
  <2>3. es[k] = ExpirationEntry(b, ids[k], t)
    BY <1>8
  <2> HIDE DEF ids, es
  <2>4. QED
    BY <2>2, <2>3 DEF IsEntry, ExpirationEntry, EntryOps, NoExpiry
<1>10. ExpirePointLots(b, ms, us, t) = AddLedger(d, es)
  BY DEF ExpirePointLots
<1> HIDE DEF d, es
<1>11. /\ Sound(AddLedger(d, es)) /\ Continues(d, AddLedger(d, es))
       /\ AddLedger(d, es).ledger = b.ledger \o es
  BY <1>7, <1>8, <1>9, AddLedgerSound
<1>12. Continues(b, AddLedger(d, es))
  BY <1>7, <1>11 DEF Continues
<1>13. /\ Len(b.ledger \o es) = Len(b.ledger) + Len(es)
       /\ \A i \in (Len(b.ledger) + 1)..(Len(b.ledger) + Len(es)) : (b.ledger \o es)[i] = es[i - Len(b.ledger)]
  BY <1>8, SeqConcat DEF Sound, IsBook
<1>14. ASSUME NEW i \in (Len(b.ledger) + 1)..Len(b.ledger \o es) PROVE (b.ledger \o es)[i].op = "expiration"
  <2>1. i - Len(b.ledger) \in 1..Len(es) /\ (b.ledger \o es)[i] = es[i - Len(b.ledger)]
    BY <1>2, <1>4, <1>8, <1>13
  <2>2. QED
    BY <1>9, <2>1
<1>15. QED
  BY <1>10, <1>11, <1>12, <1>14
-------------------------------------------------------------------------------
(* Sums of sequences of integers that differ in one place. *)

(* The sum of one number. *)
LEMMA TotalOne ==
  ASSUME NEW x \in Int
  PROVE  Total(<<x>>) = x
<1> DEFINE q == <<x>>
<1>1. q \in Seq(Int) /\ Len(q) = 1 /\ q[1] = x
  OBVIOUS
<1> HIDE DEF q
<1>2. IsSum(PartialSums(q), q, 1)
  BY <1>1, PartialSumsType
<1>3. PartialSums(q)[1] = x
  BY <1>1, <1>2 DEF IsSum
<1>4. Total(q) = x
  BY <1>1, <1>3 DEF Total
<1>5. QED
  BY <1>4 DEF q

(* Changing one number of a sequence changes its sum by the difference. *)
LEMMA TotalUpdate ==
  ASSUME NEW p \in Seq(Int), NEW q \in Seq(Int), Len(q) = Len(p), NEW k \in 1..Len(p),
         \A i \in 1..Len(p) : i # k => q[i] = p[i]
  PROVE  Total(q) - q[k] = Total(p) - p[k]
<1> DEFINE P == PartialSums(p)
           Q == PartialSums(q)
           S == {n \in Nat : n <= Len(p) => Q[n] - P[n] = IF n < k THEN 0 ELSE q[k] - p[k]}
<1>1. IsSum(P, p, Len(p)) /\ IsSum(Q, q, Len(p))
  BY PartialSumsType
<1>2. Total(p) = P[Len(p)] /\ Total(q) = Q[Len(p)]
  BY DEF Total
<1>3. Len(p) \in Nat /\ \A i \in 1..Len(p) : p[i] \in Int /\ q[i] \in Int
  BY ElementOfSeq
<1> HIDE DEF P, Q
<1>4. \A i \in 0..Len(p) : P[i] \in Int /\ Q[i] \in Int
  BY <1>1 DEF IsSum
<1>5. S = Nat
  <2>1. 0 \in S
    BY <1>1, <1>3 DEF IsSum
  <2>2. ASSUME NEW n \in S PROVE n + 1 \in S
    <3>1. SUFFICES ASSUME n + 1 <= Len(p)
                   PROVE  Q[n + 1] - P[n + 1] = IF n + 1 < k THEN 0 ELSE q[k] - p[k]
      OBVIOUS
    <3>2. n + 1 \in 1..Len(p) /\ n \in 0..Len(p) /\ (n + 1) - 1 = n
      BY <3>1, <1>3
    <3>3. P[n + 1] = P[n] + p[n + 1] /\ Q[n + 1] = Q[n] + q[n + 1]
      BY <3>2, <1>1 DEF IsSum
    <3>4. Q[n] - P[n] = IF n < k THEN 0 ELSE q[k] - p[k]
      BY <3>1, <1>3
    <3>i. /\ P[n] \in Int /\ Q[n] \in Int /\ p[n + 1] \in Int /\ q[n + 1] \in Int
          /\ n \in Nat /\ k \in Nat
      BY <3>2, <1>3, <1>4
    <3>5. CASE n + 1 = k
      <4>1. Q[n] - P[n] = 0 /\ q[k] = q[n + 1] /\ p[k] = p[n + 1] /\ ~(n + 1 < k)
        BY <3>4, <3>5, <3>i
      <4> DEFINE a == P[n]
                 b == Q[n]
                 c == p[n + 1]
                 d == q[n + 1]
      <4>2. /\ a \in Int /\ b \in Int /\ c \in Int /\ d \in Int
            /\ b - a = 0 /\ P[n + 1] = a + c /\ Q[n + 1] = b + d
        BY <3>3, <3>i, <4>1, Zenon
      <4> HIDE DEF a, b, c, d
      <4>3. (b + d) - (a + c) = d - c
        BY <4>2
      <4>4. Q[n + 1] - P[n + 1] = d - c
        BY <4>2, <4>3, Zenon
      <4>5. q[k] = d /\ p[k] = c
        BY <4>1 DEF c, d
      <4>6. QED
        BY <4>1, <4>4, <4>5, Zenon
    <3>6. CASE n + 1 # k
      <4>1. q[n + 1] = p[n + 1]
        BY <3>2, <3>6
      <4>2. (n + 1 < k) = (n < k)
        BY <3>6, <3>i
      <4>3. Q[n + 1] - P[n + 1] = Q[n] - P[n]
        BY <3>3, <3>i, <4>1
      <4>4. QED
        BY <3>4, <4>2, <4>3, Zenon
    <3>7. QED
      BY <3>5, <3>6
  <2>3. S \subseteq Nat
    OBVIOUS
  <2> HIDE DEF S
  <2>4. QED
    BY <2>1, <2>2, <2>3, NatSetInduction
<1>6. Q[Len(p)] - P[Len(p)] = q[k] - p[k]
  BY <1>3, <1>5
<1>7. P[Len(p)] \in Int /\ Q[Len(p)] \in Int /\ p[k] \in Int /\ q[k] \in Int
  BY <1>3, <1>4
<1>8. QED
  BY <1>2, <1>6, <1>7

(* The sum of zeros, with at most one other number among them. *)
LEMMA TotalZero ==
  ASSUME NEW q \in Seq(Int), \A i \in 1..Len(q) : q[i] = 0
  PROVE  Total(q) = 0
<1> DEFINE Q == PartialSums(q)
           S == {n \in Nat : n <= Len(q) => Q[n] = 0}
<1>1. IsSum(Q, q, Len(q)) /\ Total(q) = Q[Len(q)] /\ Len(q) \in Nat
  BY PartialSumsType, LenProperties DEF Total
<1> HIDE DEF Q
<1>2. S = Nat
  <2>1. 0 \in S
    BY <1>1 DEF IsSum
  <2>2. ASSUME NEW n \in S PROVE n + 1 \in S
    <3>1. SUFFICES ASSUME n + 1 <= Len(q) PROVE Q[n + 1] = 0
      OBVIOUS
    <3>2. n + 1 \in 1..Len(q) /\ (n + 1) - 1 = n /\ Q[n] = 0
      BY <3>1, <1>1
    <3>3. Q[n + 1] = Q[n] + q[n + 1]
      BY <3>2, <1>1 DEF IsSum
    <3>4. QED
      BY <3>2, <3>3
  <2>3. S \subseteq Nat
    OBVIOUS
  <2> HIDE DEF S
  <2>4. QED
    BY <2>1, <2>2, <2>3, NatSetInduction
<1>3. QED
  BY <1>1, <1>2

LEMMA TotalSingle ==
  ASSUME NEW q \in Seq(Int), NEW k \in 1..Len(q), \A i \in 1..Len(q) : i # k => q[i] = 0
  PROVE  Total(q) = q[k]
<1> DEFINE z == [i \in 1..Len(q) |-> 0]
<1>1. Len(q) \in Nat
  BY LenProperties
<1>2. z \in Seq(Int) /\ Len(z) = Len(q) /\ \A i \in 1..Len(q) : z[i] = 0
  BY <1>1
<1>3. q[k] \in Int
  BY ElementOfSeq
<1> HIDE DEF z
<1>4. Total(z) = 0
  BY <1>2, TotalZero
<1>5. Total(q) - q[k] = Total(z) - z[k]
  BY <1>2, TotalUpdate
<1>6. Total(q) \in Int
  BY TotalType
<1>7. QED
  BY <1>2, <1>3, <1>4, <1>5, <1>6

(* The sum of natural numbers is one. *)
LEMMA TotalNat ==
  ASSUME NEW q \in Seq(Int), \A i \in 1..Len(q) : q[i] >= 0
  PROVE  Total(q) \in Nat
<1> DEFINE Q == PartialSums(q)
           S == {n \in Nat : n <= Len(q) => Q[n] >= 0}
<1>1. IsSum(Q, q, Len(q)) /\ Total(q) = Q[Len(q)] /\ Len(q) \in Nat
  BY PartialSumsType, LenProperties DEF Total
<1>2. \A i \in 1..Len(q) : q[i] \in Int
  BY ElementOfSeq
<1> HIDE DEF Q
<1>3. \A i \in 0..Len(q) : Q[i] \in Int
  BY <1>1 DEF IsSum
<1>4. S = Nat
  <2>1. 0 \in S
    BY <1>1 DEF IsSum
  <2>2. ASSUME NEW n \in S PROVE n + 1 \in S
    <3>1. SUFFICES ASSUME n + 1 <= Len(q) PROVE Q[n + 1] >= 0
      OBVIOUS
    <3>2. n + 1 \in 1..Len(q) /\ (n + 1) - 1 = n /\ Q[n] >= 0 /\ n \in 0..Len(q)
      BY <3>1, <1>1
    <3>3. Q[n + 1] = Q[n] + q[n + 1]
      BY <3>2, <1>1 DEF IsSum
    <3>4. QED
      BY <3>2, <3>3, <1>2, <1>3
  <2>3. S \subseteq Nat
    OBVIOUS
  <2> HIDE DEF S
  <2>4. QED
    BY <2>1, <2>2, <2>3, NatSetInduction
<1>5. QED
  BY <1>1, <1>3, <1>4
-------------------------------------------------------------------------------
(* The use of a lot: what is left of it, what the first n reservations     *)
(* took from it and what expired from it.                                  *)

ConsumedAmounts(C, n, i) ==
  [r \in 1..n |-> IF r \in DOMAIN C THEN IF i \in DOMAIN C[r] THEN C[r][i] ELSE 0 ELSE 0]

ExpiredAmounts(s, i) ==
  [j \in 1..Len(s) |-> IF s[j].op = "expiration" /\ s[j].ref = i THEN -s[j].amount ELSE 0]

LotUse(b, n, i) ==
  b.lots[i] + Total(ConsumedAmounts(b.consumptions, n, i)) + Total(ExpiredAmounts(b.ledger, i))

(* Every expiration names a lot, and no lot is used beyond its entry. *)
ExpiresLots(b) ==
  \A j \in 1..Len(b.ledger) : b.ledger[j].op = "expiration" => b.ledger[j].ref \in DOMAIN b.lots

LotsGood(b, n) ==
  /\ DOMAIN b.consumptions \subseteq 1..n
  /\ ExpiresLots(b)
  /\ \A i \in DOMAIN b.lots : LotUse(b, n, i) <= b.ledger[i].amount

KeepsLots(b, c) == \A n \in Nat : LotsGood(b, n) => LotsGood(c, n)

LEMMA ConsumedType ==
  ASSUME NEW b, Sound(b), NEW n \in Nat, NEW i
  PROVE  LET q == ConsumedAmounts(b.consumptions, n, i)
         IN  /\ q \in Seq(Int) /\ Len(q) = n /\ \A r \in 1..n : q[r] >= 0
             /\ Total(q) \in Int
<1> DEFINE C == b.consumptions
           q == ConsumedAmounts(C, n, i)
<1>1. ASSUME NEW r \in 1..n PROVE q[r] \in Nat
  BY DEF ConsumedAmounts, Sound, IsBook
<1>2. q = [r \in 1..n |-> q[r]]
  BY DEF ConsumedAmounts
<1> HIDE DEF q
<1>3. q \in [1..n -> Int]
  BY <1>1, <1>2
<1>4. q \in Seq(Int) /\ Len(q) = n
  BY <1>3
<1>5. QED
  BY <1>1, <1>4, TotalType DEF q

LEMMA ExpiredType ==
  ASSUME NEW s, IsSeq(s), \A j \in 1..Len(s) : s[j].amount \in Int, NEW i
  PROVE  LET q == ExpiredAmounts(s, i)
         IN  q \in Seq(Int) /\ Len(q) = Len(s) /\ Total(q) \in Int
<1> DEFINE q == ExpiredAmounts(s, i)
<1>0. Len(s) \in Nat
  BY SeqConcat
<1>1. ASSUME NEW j \in 1..Len(s) PROVE q[j] \in Int
  BY DEF ExpiredAmounts
<1>2. q = [j \in 1..Len(s) |-> q[j]]
  BY DEF ExpiredAmounts
<1> HIDE DEF q
<1>3. q \in [1..Len(s) -> Int]
  BY <1>1, <1>2
<1>4. q \in Seq(Int) /\ Len(q) = Len(s)
  BY <1>0, <1>3
<1>5. QED
  BY <1>4, TotalType DEF q

(* Expirations are added up like the entries of an account. *)
LEMMA ExpiredConcat ==
  ASSUME NEW s, NEW t, IsSeq(s), IsSeq(t), NEW i,
         \A j \in 1..Len(s) : s[j].amount \in Int,
         \A j \in 1..Len(t) : t[j].amount \in Int
  PROVE  Total(ExpiredAmounts(s \o t, i)) = Total(ExpiredAmounts(s, i)) + Total(ExpiredAmounts(t, i))
<1> DEFINE A == ExpiredAmounts(s, i)
           B == ExpiredAmounts(t, i)
           C == ExpiredAmounts(s \o t, i)
<1>1. /\ IsSeq(s \o t) /\ Len(s) \in Nat /\ Len(t) \in Nat
      /\ Len(s \o t) = Len(s) + Len(t)
      /\ \A j \in 1..Len(s) : (s \o t)[j] = s[j]
      /\ \A j \in (Len(s) + 1)..(Len(s) + Len(t)) : (s \o t)[j] = t[j - Len(s)]
  BY SeqConcat
<1>2. ASSUME NEW j \in 1..Len(s \o t) PROVE (s \o t)[j].amount \in Int
  <2>1. CASE j <= Len(s)
    BY <1>1, <2>1
  <2>2. CASE j > Len(s)
    <3>1. j \in (Len(s) + 1)..(Len(s) + Len(t)) /\ j - Len(s) \in 1..Len(t)
      BY <2>2, <1>1
    <3>2. QED
      BY <3>1, <1>1
  <2>3. QED
    BY <2>1, <2>2, <1>1
<1>3. /\ A \in Seq(Int) /\ Len(A) = Len(s) /\ B \in Seq(Int) /\ Len(B) = Len(t)
      /\ C \in Seq(Int) /\ Len(C) = Len(s) + Len(t)
  BY <1>1, <1>2, ExpiredType
<1>4. C = A \o B
  <2>1. /\ A \o B \in Seq(Int) /\ Len(A \o B) = Len(s) + Len(t)
        /\ \A j \in 1..(Len(s) + Len(t)) :
             (A \o B)[j] = IF j <= Len(s) THEN A[j] ELSE B[j - Len(s)]
    <3> HIDE DEF A, B, C
    <3>0. A \in Seq(Int) /\ B \in Seq(Int)
      BY <1>3
    <3>1. /\ A \o B \in Seq(Int) /\ Len(A \o B) = Len(A) + Len(B)
          /\ \A j \in 1..(Len(A) + Len(B)) :
               (A \o B)[j] = IF j <= Len(A) THEN A[j] ELSE B[j - Len(A)]
      BY <3>0, ConcatProperties
    <3>2. QED
      BY <3>1, <1>3, Zenon
  <2>2. ASSUME NEW j \in 1..(Len(s) + Len(t)) PROVE C[j] = (A \o B)[j]
    <3>1. CASE j <= Len(s)
      <4>1. j \in 1..Len(s) /\ j \in 1..Len(s \o t)
        BY <3>1, <1>1
      <4>2. (A \o B)[j] = A[j]
        BY <2>1, <3>1
      <4>3. C[j] = A[j]
        BY <4>1, <1>1 DEF ExpiredAmounts
      <4>4. QED
        BY <4>2, <4>3
    <3>2. CASE j > Len(s)
      <4>1. /\ j \in (Len(s) + 1)..(Len(s) + Len(t)) /\ j - Len(s) \in 1..Len(t) /\ ~(j <= Len(s))
            /\ j \in 1..Len(s \o t)
        BY <3>2, <1>1
      <4>2. (A \o B)[j] = B[j - Len(s)]
        BY <2>1, <4>1
      <4>3. C[j] = B[j - Len(s)]
        BY <4>1, <1>1 DEF ExpiredAmounts
      <4>4. QED
        BY <4>2, <4>3
    <3>3. j <= Len(s) \/ j > Len(s)
      BY <1>1
    <3>4. QED
      BY <3>1, <3>2, <3>3, Zenon
  <2>3. QED
    <3> HIDE DEF A, B, C
    <3>1. QED
      BY <1>3, <2>1, <2>2, SeqEqual
<1>5. QED
  <2> HIDE DEF A, B, C
  <2>1. Total(C) = Total(A) + Total(B)
    BY <1>3, <1>4, TotalConcat
  <2>2. QED
    BY <2>1 DEF A, B, C

(* Where no entry is an expiration of the lot, nothing expired from it. *)
LEMMA NothingExpired ==
  ASSUME NEW s, IsSeq(s), \A j \in 1..Len(s) : s[j].amount \in Int, NEW i,
         \A j \in 1..Len(s) : s[j].op = "expiration" => s[j].ref # i
  PROVE  Total(ExpiredAmounts(s, i)) = 0
<1> DEFINE q == ExpiredAmounts(s, i)
<1>1. q \in Seq(Int) /\ Len(q) = Len(s)
  BY ExpiredType
<1>2. \A j \in 1..Len(s) : q[j] = 0
  BY DEF ExpiredAmounts
<1> HIDE DEF q
<1>3. Total(q) = 0
  BY <1>1, <1>2, TotalZero
<1>4. QED
  BY <1>3 DEF q

(* Neither did a reservation take from a lot that no consumption names. *)
LEMMA NothingConsumed ==
  ASSUME NEW b, Sound(b), NEW n \in Nat, NEW i,
         \A r \in DOMAIN b.consumptions : i \notin DOMAIN b.consumptions[r]
  PROVE  Total(ConsumedAmounts(b.consumptions, n, i)) = 0
<1> DEFINE q == ConsumedAmounts(b.consumptions, n, i)
<1>1. q \in Seq(Int) /\ Len(q) = n
  BY ConsumedType
<1>2. \A j \in 1..n : q[j] = 0
  BY DEF ConsumedAmounts
<1> HIDE DEF q
<1>3. Total(q) = 0
  BY <1>1, <1>2, TotalZero
<1>4. QED
  BY <1>3 DEF q

(* The operations keep every lot within its entry: addLedger, of entries   *)
(* that are not expirations.                                               *)
LEMMA AddLedgerKeepsLots ==
  ASSUME NEW b, Sound(b), NEW es, IsSeq(es),
         \A j \in 1..Len(es) : IsEntry(es[j]) /\ es[j].op # "expiration"
  PROVE  KeepsLots(b, AddLedger(b, es))
<1> DEFINE c    == AddLedger(b, es)
           k    == Len(b.ledger)
           lots == {k + i : i \in {j \in DOMAIN es : es[j].expires # NoExpiry /\ es[j].amount > 0}}
<1>1. Sound(c) /\ c.ledger = b.ledger \o es
  BY AddLedgerSound
<1>2. /\ c.consumptions = b.consumptions
      /\ c.lots = [i \in DOMAIN b.lots \cup lots |->
                     IF i \in DOMAIN b.lots THEN b.lots[i] ELSE es[i - k].amount]
  BY DEF AddLedger
<1>3. /\ k \in Nat /\ Len(es) \in Nat /\ Len(c.ledger) = k + Len(es)
      /\ \A i \in 1..k : c.ledger[i] = b.ledger[i]
      /\ \A i \in (k + 1)..(k + Len(es)) : c.ledger[i] = es[i - k]
  BY <1>1, SeqConcat DEF Sound, IsBook
<1>4. DOMAIN es = 1..Len(es)
  BY LenProperties DEF IsSeq
<1>5. /\ IsSeq(b.ledger) /\ \A j \in 1..k : b.ledger[j].amount \in Int
      /\ \A j \in 1..Len(es) : es[j].amount \in Int
  BY DEF Sound, IsBook, IsEntry
<1>6. DOMAIN b.lots \subseteq 1..k /\ \A i \in DOMAIN b.lots : b.lots[i] \in Nat
  BY DEF Sound, IsBook
<1> HIDE DEF c
<1>7. SUFFICES ASSUME NEW n \in Nat, LotsGood(b, n) PROVE LotsGood(c, n)
  BY DEF KeepsLots, c
<1>8. ExpiresLots(c)
  <2>1. SUFFICES ASSUME NEW j \in 1..Len(c.ledger), c.ledger[j].op = "expiration"
                 PROVE  c.ledger[j].ref \in DOMAIN c.lots
    BY DEF ExpiresLots
  <2>2. CASE j \in 1..k
    BY <1>2, <1>3, <1>7, <2>1, <2>2 DEF LotsGood, ExpiresLots
  <2>3. CASE j \in (k + 1)..(k + Len(es))
    <3>1. j - k \in 1..Len(es) /\ c.ledger[j] = es[j - k]
      BY <1>3, <2>3
    <3>2. QED
      BY <2>1, <3>1
  <2>4. QED
    BY <1>3, <2>1, <2>2, <2>3
<1>9. ASSUME NEW i \in DOMAIN c.lots PROVE LotUse(c, n, i) <= c.ledger[i].amount
  <2>1. Total(ExpiredAmounts(es, i)) = 0
    BY <1>5, NothingExpired
  <2>2. Total(ExpiredAmounts(c.ledger, i)) = Total(ExpiredAmounts(b.ledger, i)) + Total(ExpiredAmounts(es, i))
    BY <1>1, <1>5, ExpiredConcat
  <2>3. Total(ExpiredAmounts(b.ledger, i)) \in Int
    BY <1>5, ExpiredType
  <2>4. Total(ExpiredAmounts(c.ledger, i)) = Total(ExpiredAmounts(b.ledger, i))
    BY <2>1, <2>2, <2>3
  <2>5. CASE i \in DOMAIN b.lots
    <3>1. c.lots[i] = b.lots[i] /\ c.ledger[i] = b.ledger[i]
      BY <1>2, <1>3, <1>6, <2>5
    <3>2. LotUse(c, n, i) = LotUse(b, n, i)
      BY <1>2, <2>4, <3>1 DEF LotUse
    <3>3. QED
      BY <1>7, <2>5, <3>1, <3>2 DEF LotsGood
  <2>6. CASE i \notin DOMAIN b.lots
    <3>1. PICK j \in DOMAIN es : i = k + j
      BY <1>2, <2>6
    <3>2. j \in 1..Len(es) /\ i \in (k + 1)..(k + Len(es)) /\ i - k = j
      BY <1>3, <1>4, <3>1
    <3>3. c.lots[i] = es[j].amount /\ c.ledger[i] = es[j] /\ es[j].amount \in Int
      BY <1>2, <1>3, <1>5, <2>6, <3>2
    <3>4. Total(ExpiredAmounts(b.ledger, i)) = 0
      <4>1. \A h \in 1..Len(b.ledger) : b.ledger[h].op = "expiration" => b.ledger[h].ref # i
        BY <1>7, <2>6 DEF LotsGood, ExpiresLots
      <4>2. QED
        BY <1>5, <4>1, NothingExpired
    <3>5. Total(ConsumedAmounts(b.consumptions, n, i)) = 0
      <4>1. \A r \in DOMAIN b.consumptions : i \notin DOMAIN b.consumptions[r]
        BY <2>6 DEF Sound, IsBook
      <4>2. QED
        BY <4>1, NothingConsumed
    <3>6. QED
      BY <1>2, <2>4, <3>3, <3>4, <3>5 DEF LotUse
  <2>7. QED
    BY <2>5, <2>6
<1>10. QED
  BY <1>2, <1>7, <1>8, <1>9 DEF LotsGood

(* restorePointLots gives back what it forgets. *)
LEMMA RestoreKeepsLots ==
  ASSUME NEW b, Sound(b), NEW id
  PROVE  KeepsLots(b, RestorePointLots(b, id))
<1>1. CASE id \notin DOMAIN b.consumptions
  BY <1>1 DEF RestorePointLots, KeepsLots
<1>2. CASE id \in DOMAIN b.consumptions
  <2> DEFINE c == RestorePointLots(b, id)
             taken == b.consumptions[id]
  <2>1. /\ c.ledger = b.ledger
        /\ c.consumptions = [r \in DOMAIN b.consumptions \ {id} |-> b.consumptions[r]]
        /\ c.lots = [i \in DOMAIN b.lots |->
                       IF i \in DOMAIN taken THEN b.lots[i] + taken[i] ELSE b.lots[i]]
    BY <1>2 DEF RestorePointLots, WithLots
  <2>2. Sound(c)
    BY RestorePointLotsSound
  <2> HIDE DEF c
  <2>3. SUFFICES ASSUME NEW n \in Nat, LotsGood(b, n) PROVE LotsGood(c, n)
    BY DEF KeepsLots, c
  <2>4. id \in 1..n
    BY <1>2, <2>3 DEF LotsGood
  <2>5. ASSUME NEW i \in DOMAIN c.lots PROVE LotUse(c, n, i) <= c.ledger[i].amount
    <3> DEFINE p == ConsumedAmounts(b.consumptions, n, i)
               q == ConsumedAmounts(c.consumptions, n, i)
    <3>1. p \in Seq(Int) /\ Len(p) = n /\ q \in Seq(Int) /\ Len(q) = n /\ Total(p) \in Int /\ Total(q) \in Int
      BY <2>2, ConsumedType
    <3>2. \A r \in 1..n : r # id => q[r] = p[r]
      BY <2>1 DEF ConsumedAmounts
    <3>3. q[id] = 0 /\ p[id] = IF i \in DOMAIN taken THEN taken[i] ELSE 0
      BY <1>2, <2>1, <2>4 DEF ConsumedAmounts
    <3>4. i \in DOMAIN b.lots /\ b.lots[i] \in Nat /\ (i \in DOMAIN taken => taken[i] \in Nat)
      BY <1>2, <2>1 DEF Sound, IsBook
    <3>5. c.lots[i] = b.lots[i] + p[id] /\ p[id] \in Int
      BY <2>1, <3>3, <3>4
    <3>6. Total(ExpiredAmounts(b.ledger, i)) \in Int
      BY ExpiredType DEF Sound, IsBook, IsEntry
    <3> HIDE DEF p, q, taken
    <3>7. Total(q) - q[id] = Total(p) - p[id]
      BY <2>4, <3>1, <3>2, TotalUpdate
    <3>8. LotUse(c, n, i) = LotUse(b, n, i)
      <4>1. /\ LotUse(c, n, i) = c.lots[i] + Total(q) + Total(ExpiredAmounts(b.ledger, i))
            /\ LotUse(b, n, i) = b.lots[i] + Total(p) + Total(ExpiredAmounts(b.ledger, i))
        BY <2>1 DEF LotUse, p, q
      <4>2. QED
        BY <3>1, <3>3, <3>4, <3>5, <3>6, <3>7, <4>1
    <3>9. QED
      BY <2>1, <2>3, <3>4, <3>8 DEF LotsGood
  <2>6. ExpiresLots(c)
    BY <2>1, <2>3 DEF LotsGood, ExpiresLots
  <2>7. QED
    BY <2>1, <2>3, <2>5, <2>6 DEF LotsGood
<1>3. QED
  BY <1>1, <1>2

(* consumePointLots moves what it takes from a lot to the consumption it   *)
(* remembers, or forgets it.                                               *)
LEMMA ConsumeKeepsLots ==
  ASSUME NEW b, Sound(b), NEW m, NEW debit \in [Units -> Int], NEW id, NEW n \in Nat,
         id = None \/ id \in 1..n, LotsGood(b, n)
  PROVE  LotsGood(ConsumePointLots(b, m, debit, id), n)
<1> DEFINE c     == ConsumePointLots(b, m, debit, id)
           taken == [i \in OpenLots(b, m) |-> TakenFrom(b, m, i, debit[b.ledger[i].unit])]
           used  == {i \in DOMAIN taken : taken[i] > 0}
           same  == id = None \/ used = {}
           T(i)  == IF i \in used THEN taken[i] ELSE 0
<1>1. /\ c.ledger = b.ledger
      /\ c.lots = [i \in DOMAIN b.lots |-> IF i \in used THEN b.lots[i] - taken[i] ELSE b.lots[i]]
      /\ c.consumptions =
           IF same THEN b.consumptions
           ELSE [r \in DOMAIN b.consumptions \cup {id} |->
                   IF r = id THEN [i \in used |-> taken[i]] ELSE b.consumptions[r]]
  BY DEF ConsumePointLots, WithLots
<1>2. Sound(c)
  BY ConsumePointLotsSound
<1>3. ASSUME NEW i \in DOMAIN b.lots PROVE T(i) \in Nat
  <2>1. CASE i \notin used
    BY <2>1
  <2>2. CASE i \in used
    <3>1. b.ledger[i].unit \in Units
      BY DEF Sound, IsBook, IsEntry
    <3>2. TakenFrom(b, m, i, debit[b.ledger[i].unit]) \in 0..b.lots[i] /\ b.lots[i] \in Nat
      BY <3>1, TakenFromType DEF Sound, IsBook
    <3>3. taken[i] = TakenFrom(b, m, i, debit[b.ledger[i].unit])
      BY <2>2
    <3>4. QED
      BY <2>2, <3>2, <3>3
  <2>3. QED
    BY <2>1, <2>2
<1> HIDE DEF c, taken, used
<1>4. ASSUME NEW i \in DOMAIN c.lots PROVE LotUse(c, n, i) <= c.ledger[i].amount
  <2> DEFINE p == ConsumedAmounts(b.consumptions, n, i)
             q == ConsumedAmounts(c.consumptions, n, i)
             e == Total(ExpiredAmounts(b.ledger, i))
             t == T(i)
  <2>1. /\ p \in Seq(Int) /\ Len(p) = n /\ q \in Seq(Int) /\ Len(q) = n /\ Total(p) \in Int /\ Total(q) \in Int
        /\ \A r \in 1..n : p[r] >= 0 /\ p[r] \in Int
    BY <1>2, ConsumedType, ElementOfSeq
  <2>2. i \in DOMAIN b.lots /\ b.lots[i] \in Nat /\ b.ledger[i].amount \in Int
    BY <1>1 DEF Sound, IsBook, IsEntry
  <2>3. c.lots[i] = b.lots[i] - t /\ t \in Nat
    BY <1>1, <1>3, <2>2
  <2>4. e \in Int
    BY ExpiredType DEF Sound, IsBook, IsEntry
  <2>5. Total(q) <= Total(p) + t
    <3>1. CASE same
      <4>1. q = p
        BY <1>1, <3>1
      <4> HIDE DEF p, q, t
      <4>2. QED
        BY <2>1, <2>3, <4>1
    <3>2. CASE ~same
      <4>1. id \in 1..n
        BY <3>2
      <4>2. \A r \in 1..n : r # id => q[r] = p[r]
        BY <1>1, <3>2 DEF ConsumedAmounts
      <4>3. q[id] = t
        BY <1>1, <3>2, <4>1 DEF ConsumedAmounts
      <4> HIDE DEF p, q, t
      <4>4. Total(q) - q[id] = Total(p) - p[id]
        BY <2>1, <4>1, <4>2, TotalUpdate
      <4>5. p[id] >= 0 /\ p[id] \in Int
        BY <2>1, <4>1
      <4>6. QED
        BY <2>1, <2>3, <4>3, <4>4, <4>5
    <3>3. QED
      BY <3>1, <3>2
  <2>6. LotUse(c, n, i) = c.lots[i] + Total(q) + e /\ LotUse(b, n, i) = b.lots[i] + Total(p) + e
    BY <1>1 DEF LotUse
  <2>7. LotUse(b, n, i) <= b.ledger[i].amount /\ c.ledger = b.ledger
    BY <1>1, <2>2 DEF LotsGood
  <2> HIDE DEF p, q, e, t
  <2>8. QED
    BY <2>1, <2>2, <2>3, <2>4, <2>5, <2>6, <2>7
<1>5. ExpiresLots(c)
  BY <1>1 DEF LotsGood, ExpiresLots
<1>6. DOMAIN c.consumptions \subseteq 1..n
  BY <1>1 DEF LotsGood
<1>7. LotsGood(c, n)
  BY <1>4, <1>5, <1>6 DEF LotsGood
<1>8. QED
  BY <1>7 DEF c

LEMMA ConsumeUnnamedKeepsLots ==
  ASSUME NEW b, Sound(b), NEW m, NEW debit \in [Units -> Int]
  PROVE  KeepsLots(b, ConsumePointLots(b, m, debit, None))
BY ConsumeKeepsLots DEF KeepsLots

LEMMA KeepsLotsTwice ==
  ASSUME NEW a, NEW b, NEW c, KeepsLots(a, b), KeepsLots(b, c)
  PROVE  KeepsLots(a, c)
BY DEF KeepsLots

(* One more reservation has taken nothing yet. *)
LEMMA ReserveKeepsLots ==
  ASSUME NEW b, Sound(b), NEW n \in Nat, LotsGood(b, n)
  PROVE  LotsGood(b, n + 1)
<1>1. DOMAIN b.consumptions \subseteq 1..(n + 1) /\ n + 1 \notin DOMAIN b.consumptions
  BY DEF LotsGood
<1>2. ASSUME NEW i PROVE LotUse(b, n + 1, i) = LotUse(b, n, i)
  <2> DEFINE p == ConsumedAmounts(b.consumptions, n, i)
             q == ConsumedAmounts(b.consumptions, n + 1, i)
  <2>1. /\ p \in Seq(Int) /\ Len(p) = n /\ Total(p) \in Int
        /\ q \in Seq(Int) /\ Len(q) = n + 1
    <3>1. n + 1 \in Nat
      OBVIOUS
    <3>2. QED
      BY <3>1, ConsumedType
  <2>2. q[n + 1] = 0 /\ \A r \in 1..n : q[r] = p[r]
    BY <1>1 DEF ConsumedAmounts
  <2> HIDE DEF p, q
  <2>3. /\ p \o <<0>> \in Seq(Int) /\ Len(p \o <<0>>) = n + 1
        /\ \A r \in 1..n : (p \o <<0>>)[r] = p[r]
        /\ (p \o <<0>>)[n + 1] = 0
    BY <2>1
  <2>4. \A r \in 1..(n + 1) : q[r] = (p \o <<0>>)[r]
    BY <2>2, <2>3
  <2>5. q = p \o <<0>>
    BY <2>1, <2>3, <2>4, SeqEqual
  <2>6. Total(q) = Total(p) + Total(<<0>>) /\ Total(<<0>>) = 0
    <3>1. <<0>> \in Seq(Int)
      OBVIOUS
    <3> DEFINE z == <<0>>
    <3> HIDE DEF z
    <3>2. Total(p \o z) = Total(p) + Total(z)
      BY <2>1, <3>1, TotalConcat DEF z
    <3>3. Total(z) = 0
      BY TotalOne DEF z
    <3>4. QED
      BY <2>5, <3>2, <3>3 DEF z
  <2>7. Total(q) = Total(p)
    BY <2>1, <2>6
  <2>8. QED
    BY <2>7 DEF LotUse, p, q
<1>3. QED
  BY <1>1, <1>2 DEF LotsGood

(* The listing of a finite set names every element once. *)
LEMMA ListingOnce ==
  ASSUME NEW S, IsFiniteSet(S)
  PROVE  /\ \A i, j \in 1..Cardinality(S) : Listing(S)[i] = Listing(S)[j] => i = j
         /\ \A x \in S : \E i \in 1..Cardinality(S) : Listing(S)[i] = x
<1> DEFINE n == Cardinality(S)
           f == Listing(S)
<1>1. n \in Nat /\ ExistsBijection(1..n, S)
  BY FS_CardinalityType
<1>2. PICK g \in Bijection(1..n, S) : TRUE
  BY <1>1 DEF ExistsBijection
<1>3. /\ g \in [1..n -> S]
      /\ \A i, j \in 1..n : g[i] = g[j] => i = j
  BY DEF Bijection, Injection, IsInjective
<1>4. f \in [1..n -> S] /\ \A i, j \in 1..n : f[i] = f[j] => i = j
  BY <1>1, <1>3 DEF Listing
<1> HIDE DEF n, f
<1>5. ASSUME NEW x \in S, \A i \in 1..n : f[i] # x PROVE FALSE
  <2>1. f \in Injection(1..n, S \ {x})
    BY <1>4, <1>5 DEF Injection, IsInjective
  <2>2. IsFiniteSet(S \ {x}) /\ Cardinality(S \ {x}) = n - 1
    BY FS_RemoveElement DEF n
  <2>3. IsFiniteSet(1..n) /\ Cardinality(1..n) = n
    BY <1>1, FS_Interval
  <2>4. Cardinality(1..n) <= Cardinality(S \ {x})
    BY <2>1, <2>2, <2>3, FS_Injection DEF ExistsInjection
  <2>5. QED
    BY <1>1, <2>2, <2>3, <2>4
<1>6. QED
  BY <1>4, <1>5 DEF n, f

(* expirePointLots posts for every due lot exactly what was left of it. *)
LEMMA ExpireKeepsLots ==
  ASSUME NEW b, Sound(b), NEW ms, NEW us, NEW t
  PROVE  KeepsLots(b, ExpirePointLots(b, ms, us, t))
<1> DEFINE c   == ExpirePointLots(b, ms, us, t)
           due == DueLots(b, ms, us, t)
           ids == Listing(due)
           k   == Cardinality(due)
           L   == [i \in DOMAIN b.lots |-> IF i \in due THEN 0 ELSE b.lots[i]]
           es  == [j \in 1..k |-> ExpirationEntry(b, ids[j], t)]
<1>1. due \subseteq DOMAIN b.lots /\ DOMAIN b.lots \subseteq 1..Len(b.ledger)
  BY DEF DueLots, Sound, IsBook
<1>2. Len(b.ledger) \in Nat
  BY LenProperties DEF Sound, IsBook, IsSeq
<1>3. IsFiniteSet(due)
  <2> HIDE DEF due
  <2>1. IsFiniteSet(1..Len(b.ledger))
    BY <1>2, FS_Interval
  <2>2. due \in SUBSET (1..Len(b.ledger))
    BY <1>1
  <2>3. QED
    BY <2>1, <2>2, FS_Subset
<1>4. k \in Nat /\ ids \in [1..k -> due]
  BY <1>3, ListingType
<1>5. /\ \A i, j \in 1..k : ids[i] = ids[j] => i = j
      /\ \A x \in due : \E i \in 1..k : ids[i] = x
  BY <1>3, ListingOnce
<1>6. IsSeq(es) /\ Len(es) = k
  BY <1>4, FunctionIsSeq
<1>7. DOMAIN L = DOMAIN b.lots /\ \A i \in DOMAIN b.lots : L[i] = IF i \in due THEN 0 ELSE b.lots[i]
  OBVIOUS
<1> HIDE DEF ids, k
<1>8. ASSUME NEW j \in 1..k
      PROVE  /\ es[j].op = "expiration" /\ es[j].ref = ids[j] /\ es[j].amount = -b.lots[ids[j]]
             /\ es[j].amount \in Int /\ es[j].expires = NoExpiry
             /\ ids[j] \in due
  <2>1. es[j] = ExpirationEntry(b, ids[j], t) /\ ids[j] \in due
    BY <1>4
  <2>2. b.lots[ids[j]] \in Nat
    BY <1>1, <2>1 DEF Sound, IsBook
  <2> HIDE DEF es
  <2>3. QED
    BY <2>1, <2>2 DEF ExpirationEntry
<1>9. c = AddLedger(WithLots(b, L, b.consumptions), es)
  BY DEF ExpirePointLots, ids, k
<1> HIDE DEF es, L, due, c
<1>10. DOMAIN es = 1..k /\ {n \in DOMAIN es : es[n].expires # NoExpiry /\ es[n].amount > 0} = {}
  BY <1>6, <1>8, LenProperties DEF IsSeq
<1>11. /\ c.ledger = b.ledger \o es /\ c.consumptions = b.consumptions
       /\ DOMAIN c.lots = DOMAIN b.lots
       /\ \A i \in DOMAIN b.lots : c.lots[i] = IF i \in due THEN 0 ELSE b.lots[i]
  BY <1>7, <1>9, <1>10 DEF AddLedger, WithLots
<1>12. /\ IsSeq(b.ledger) /\ \A j \in 1..Len(b.ledger) : b.ledger[j].amount \in Int
       /\ \A j \in 1..Len(es) : es[j].amount \in Int
  BY <1>6, <1>8 DEF Sound, IsBook, IsEntry
<1>13. /\ Len(c.ledger) = Len(b.ledger) + k
       /\ \A i \in 1..Len(b.ledger) : c.ledger[i] = b.ledger[i]
       /\ \A i \in (Len(b.ledger) + 1)..(Len(b.ledger) + k) : c.ledger[i] = es[i - Len(b.ledger)]
  <2>1. /\ Len(b.ledger \o es) = Len(b.ledger) + Len(es)
        /\ \A i \in 1..Len(b.ledger) : (b.ledger \o es)[i] = b.ledger[i]
        /\ \A i \in (Len(b.ledger) + 1)..(Len(b.ledger) + Len(es)) :
             (b.ledger \o es)[i] = es[i - Len(b.ledger)]
    BY <1>6, <1>12, SeqConcat
  <2>2. QED
    BY <1>6, <1>11, <2>1, Zenon
<1>14. SUFFICES ASSUME NEW n \in Nat, LotsGood(b, n) PROVE LotsGood(c, n)
  BY DEF KeepsLots, c
<1>15. ExpiresLots(c)
  <2>1. SUFFICES ASSUME NEW j \in 1..Len(c.ledger), c.ledger[j].op = "expiration"
                 PROVE  c.ledger[j].ref \in DOMAIN c.lots
    BY DEF ExpiresLots
  <2>2. CASE j <= Len(b.ledger)
    BY <1>2, <1>11, <1>13, <1>14, <2>1, <2>2 DEF LotsGood, ExpiresLots
  <2>3. CASE j > Len(b.ledger)
    <3>1. /\ j \in (Len(b.ledger) + 1)..(Len(b.ledger) + k)
          /\ j - Len(b.ledger) \in 1..k
      <4>1. Len(c.ledger) = Len(b.ledger) + k
        BY <1>13
      <4>2. QED
        BY <1>2, <1>4, <2>3, <4>1
    <3> DEFINE i == j - Len(b.ledger)
    <3>2. c.ledger[j] = es[i]
      BY <1>13, <3>1, Zenon
    <3>3. es[i].ref = ids[i] /\ ids[i] \in due
      BY <1>8, <3>1, Zenon
    <3>4. ids[i] \in DOMAIN c.lots
      BY <1>1, <1>11, <3>3, Zenon
    <3>5. QED
      BY <3>2, <3>3, <3>4, Zenon
  <2>4. QED
    BY <1>2, <1>4, <1>13, <2>2, <2>3
<1>16. ASSUME NEW i \in DOMAIN c.lots PROVE LotUse(c, n, i) <= c.ledger[i].amount
  <2> DEFINE x == ExpiredAmounts(es, i)
             y == Total(ExpiredAmounts(b.ledger, i))
             z == Total(ConsumedAmounts(b.consumptions, n, i))
  <2>1. i \in DOMAIN b.lots /\ b.lots[i] \in Nat /\ b.ledger[i].amount \in Int /\ c.ledger[i] = b.ledger[i]
    BY <1>1, <1>11, <1>13 DEF Sound, IsBook, IsEntry
  <2>2. x \in Seq(Int) /\ Len(x) = k
    BY <1>6, <1>12, ExpiredType
  <2>3. ASSUME NEW j \in 1..k PROVE x[j] = IF ids[j] = i THEN b.lots[i] ELSE 0
    BY <1>1, <1>6, <1>8, <2>1 DEF ExpiredAmounts
  <2>4. y \in Int /\ z \in Int
    BY <1>12, ExpiredType, ConsumedType
  <2>5. Total(ExpiredAmounts(c.ledger, i)) = y + Total(x)
    BY <1>6, <1>11, <1>12, ExpiredConcat
  <2> HIDE DEF x
  <2>6. c.lots[i] + Total(x) = b.lots[i] /\ Total(x) \in Int /\ c.lots[i] \in Int
    <3>1. CASE i \in due
      <4>1. PICK j \in 1..k : ids[j] = i
        BY <1>5, <3>1
      <4>2. x[j] = b.lots[i] /\ \A h \in 1..k : h # j => x[h] = 0
        BY <1>5, <2>3, <4>1
      <4>3. Total(x) = x[j]
        BY <2>2, <4>2, TotalSingle
      <4>4. QED
        BY <1>11, <2>1, <3>1, <4>2, <4>3
    <3>2. CASE i \notin due
      <4>1. \A h \in 1..k : x[h] = 0
        BY <1>8, <2>3, <3>2
      <4>2. Total(x) = 0
        BY <2>2, <4>1, TotalZero
      <4>3. QED
        BY <1>11, <2>1, <3>2, <4>2
    <3>3. QED
      BY <3>1, <3>2
  <2>7. LotUse(c, n, i) = c.lots[i] + z + (y + Total(x)) /\ LotUse(b, n, i) = b.lots[i] + z + y
    BY <1>11, <2>5 DEF LotUse
  <2>8. LotUse(b, n, i) <= b.ledger[i].amount
    BY <1>14, <2>1 DEF LotsGood
  <2> HIDE DEF y, z
  <2>9. QED
    BY <2>1, <2>4, <2>6, <2>7, <2>8
<1>17. QED
  BY <1>11, <1>14, <1>15, <1>16 DEF LotsGood

(* The sum of a sequence made of two. *)
LEMMA TotalSplit ==
  ASSUME NEW A \in Seq(Int), NEW B \in Seq(Int), NEW C \in Seq(Int), Len(C) = Len(A) + Len(B),
         \A i \in 1..Len(A) : C[i] = A[i], \A i \in 1..Len(B) : C[Len(A) + i] = B[i]
  PROVE  Total(C) = Total(A) + Total(B)
<1>1. /\ A \o B \in Seq(Int) /\ Len(A \o B) = Len(A) + Len(B)
      /\ \A j \in 1..(Len(A) + Len(B)) : (A \o B)[j] = IF j <= Len(A) THEN A[j] ELSE B[j - Len(A)]
  BY ConcatProperties
<1>2. Len(A) \in Nat /\ Len(B) \in Nat
  BY LenProperties
<1>3. ASSUME NEW j \in 1..(Len(A) + Len(B)) PROVE C[j] = (A \o B)[j]
  <2>1. CASE j <= Len(A)
    <3>1. j \in 1..Len(A)
      BY <1>2, <2>1
    <3>2. QED
      BY <1>1, <2>1, <3>1
  <2>2. CASE ~(j <= Len(A))
    <3>1. j - Len(A) \in 1..Len(B) /\ Len(A) + (j - Len(A)) = j
      BY <1>2, <2>2
    <3>2. C[j] = B[j - Len(A)]
      BY <3>1
    <3>3. (A \o B)[j] = B[j - Len(A)]
      BY <1>1, <2>2
    <3>4. QED
      BY <3>2, <3>3
  <2>3. QED
    BY <2>1, <2>2
<1>4. C = A \o B
  BY <1>1, <1>3, SeqEqual
<1>5. QED
  BY <1>4, TotalConcat

-------------------------------------------------------------------------------
(* Which balances an operation raises: those of member m in the units us,  *)
(* and no other.                                                           *)

Credits(b, c, m, us) ==
  \A x \in Members, u \in Units : (x = m /\ u \in us) \/ c.points[x][u] <= b.points[x][u]

Lowers(b, c) == \A x \in Members, u \in Units : c.points[x][u] <= b.points[x][u]

LEMMA LowersCredits ==
  ASSUME NEW b, NEW c, Lowers(b, c), NEW m, NEW us
  PROVE  Credits(b, c, m, us)
BY DEF Lowers, Credits

LEMMA SameLowers == ASSUME NEW b, Sound(b) PROVE Lowers(b, b)
<1>1. \A x \in Members, u \in Units : b.points[x][u] \in Int
  BY DEF Sound, IsBook
<1>2. QED
  BY <1>1 DEF Lowers

LEMMA LowersTwice ==
  ASSUME NEW a, NEW b, NEW c, Sound(a), Sound(b), Sound(c), Lowers(a, b), Lowers(b, c)
  PROVE  Lowers(a, c)
<1>1. \A x \in Members, u \in Units : a.points[x][u] \in Int /\ b.points[x][u] \in Int /\ c.points[x][u] \in Int
  BY DEF Sound, IsBook
<1>2. QED
  BY <1>1 DEF Lowers

LEMMA CreditsTwice ==
  ASSUME NEW a, NEW b, NEW c, Sound(a), Sound(b), Sound(c), NEW m, NEW us,
         Credits(a, b, m, us), Credits(b, c, m, us)
  PROVE  Credits(a, c, m, us)
<1>1. \A x \in Members, u \in Units : a.points[x][u] \in Int /\ b.points[x][u] \in Int /\ c.points[x][u] \in Int
  BY DEF Sound, IsBook
<1>2. QED
  BY <1>1 DEF Credits

(* The sum of numbers that are not positive is not positive. *)
LEMMA TotalNegative ==
  ASSUME NEW q \in Seq(Int), \A i \in 1..Len(q) : q[i] <= 0
  PROVE  Total(q) \in Int /\ Total(q) <= 0
<1> DEFINE Q == PartialSums(q)
           S == {n \in Nat : n <= Len(q) => Q[n] <= 0}
<1>1. IsSum(Q, q, Len(q)) /\ Total(q) = Q[Len(q)] /\ Len(q) \in Nat
  BY PartialSumsType, LenProperties DEF Total
<1>2. \A i \in 1..Len(q) : q[i] \in Int
  BY ElementOfSeq
<1> HIDE DEF Q
<1>3. \A i \in 0..Len(q) : Q[i] \in Int
  BY <1>1 DEF IsSum
<1>4. S = Nat
  <2>1. 0 \in S
    BY <1>1 DEF IsSum
  <2>2. ASSUME NEW n \in S PROVE n + 1 \in S
    <3>1. SUFFICES ASSUME n + 1 <= Len(q) PROVE Q[n + 1] <= 0
      OBVIOUS
    <3>2. n + 1 \in 1..Len(q) /\ (n + 1) - 1 = n /\ Q[n] <= 0 /\ n \in 0..Len(q)
      BY <3>1, <1>1
    <3>3. Q[n + 1] = Q[n] + q[n + 1]
      BY <3>2, <1>1 DEF IsSum
    <3>4. QED
      BY <3>2, <3>3, <1>2, <1>3
  <2>3. S \subseteq Nat
    OBVIOUS
  <2> HIDE DEF S
  <2>4. QED
    BY <2>1, <2>2, <2>3, NatSetInduction
<1>5. QED
  BY <1>1, <1>3, <1>4

(* Entries raise only the accounts that their positive amounts name. *)
LEMMA AddLedgerCredits ==
  ASSUME NEW b, Sound(b), NEW es, IsSeq(es), \A i \in 1..Len(es) : IsEntry(es[i]), NEW m, NEW us,
         \A i \in 1..Len(es) : es[i].amount <= 0 \/ (es[i].member = m /\ es[i].unit \in us)
  PROVE  Credits(b, AddLedger(b, es), m, us)
<1> DEFINE c == AddLedger(b, es)
<1>1. ASSUME NEW x \in Members, NEW u \in Units PROVE c.points[x][u] = b.points[x][u] + AccountTotal(es, x, u)
  BY DEF AddLedger
<1>2. \A x \in Members, u \in Units : b.points[x][u] \in Int
  BY DEF Sound, IsBook
<1>3. Len(es) \in Nat
  BY LenProperties DEF IsSeq
<1>4. ASSUME NEW x \in Members, NEW u \in Units, ~(x = m /\ u \in us)
      PROVE  AccountTotal(es, x, u) \in Int /\ AccountTotal(es, x, u) <= 0
  <2> DEFINE q == AccountAmounts(es, x, u)
  <2>1. \A i \in 1..Len(es) : es[i].amount \in Int
    BY DEF IsEntry
  <2>2. q \in [1..Len(es) -> Int]
    BY <2>1 DEF AccountAmounts
  <2>3. ASSUME NEW i \in 1..Len(es) PROVE q[i] <= 0
    BY <1>4 DEF AccountAmounts
  <2> HIDE DEF q
  <2>4. q \in Seq(Int) /\ Len(q) = Len(es)
    BY <1>3, <2>2
  <2>5. QED
    BY <2>3, <2>4, TotalNegative DEF AccountTotal, q
<1> HIDE DEF c
<1>5. QED
  BY <1>1, <1>2, <1>4 DEF Credits, c

LEMMA ExpireLowers ==
  ASSUME NEW b, Sound(b), NEW ms, NEW us, NEW t
  PROVE  Lowers(b, ExpirePointLots(b, ms, us, t))
<1> DEFINE due == DueLots(b, ms, us, t)
           ids == Listing(due)
           k   == Cardinality(due)
           L   == [i \in DOMAIN b.lots |-> IF i \in due THEN 0 ELSE b.lots[i]]
           d   == WithLots(b, L, b.consumptions)
           es  == [j \in 1..k |-> ExpirationEntry(b, ids[j], t)]
<1>1. due \subseteq DOMAIN b.lots /\ DOMAIN b.lots \subseteq 1..Len(b.ledger)
  BY DEF DueLots, Sound, IsBook
<1>2. Len(b.ledger) \in Nat
  BY LenProperties DEF Sound, IsBook, IsSeq
<1>3. IsFiniteSet(due)
  <2> HIDE DEF due
  <2>1. IsFiniteSet(1..Len(b.ledger))
    BY <1>2, FS_Interval
  <2>2. due \in SUBSET (1..Len(b.ledger))
    BY <1>1
  <2>3. QED
    BY <2>1, <2>2, FS_Subset
<1>4. k \in Nat /\ ids \in [1..k -> due]
  BY <1>3, ListingType
<1>5. DOMAIN L = DOMAIN b.lots /\ \A i \in DOMAIN L : L[i] \in Nat
  BY DEF Sound, IsBook
<1>6. \A r \in DOMAIN b.consumptions : \A i \in DOMAIN b.consumptions[r] :
        i \in DOMAIN L /\ b.consumptions[r][i] \in Nat
  BY DEF Sound, IsBook
<1>7. Sound(d) /\ d.points = b.points
  <2> HIDE DEF L
  <2>1. Sound(d)
    BY <1>5, <1>6, LotsSound
  <2>2. QED
    BY <2>1 DEF WithLots
<1>8. IsSeq(es) /\ Len(es) = k
  BY <1>4, FunctionIsSeq
<1>9. ASSUME NEW j \in 1..Len(es) PROVE IsEntry(es[j]) /\ es[j].amount <= 0
  <2>1. ids[j] \in DOMAIN b.lots /\ ids[j] \in 1..Len(b.ledger)
    BY <1>1, <1>4, <1>8
  <2>2. /\ b.ledger[ids[j]].member \in Members /\ b.ledger[ids[j]].unit \in Units
        /\ b.lots[ids[j]] \in Nat
    BY <2>1 DEF Sound, IsBook, IsEntry
  <2>3. es[j] = ExpirationEntry(b, ids[j], t)
    BY <1>8
  <2> HIDE DEF ids, es
  <2>4. QED
    BY <2>2, <2>3 DEF IsEntry, ExpirationEntry, EntryOps, NoExpiry
<1>10. ExpirePointLots(b, ms, us, t) = AddLedger(d, es)
  BY DEF ExpirePointLots
<1> HIDE DEF d, es
<1>11. Credits(d, AddLedger(d, es), None, {})
  BY <1>7, <1>8, <1>9, AddLedgerCredits
<1>12. QED
  BY <1>7, <1>10, <1>11 DEF Credits, Lowers

LEMMA LotsKeepBalances ==
  ASSUME NEW b
  PROVE  /\ \A m, debit, id : ConsumePointLots(b, m, debit, id).points = b.points
         /\ \A id : RestorePointLots(b, id).points = b.points
BY DEF ConsumePointLots, RestorePointLots, WithLots
===============================================================================
