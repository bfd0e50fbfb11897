----------------------------- MODULE MoneyProofs -----------------------------
(***************************************************************************)
(* The money: what the ledger of commissions keeps of each payment, and    *)
(* what an order costs and is paid for, for every value of the constants.  *)
(***************************************************************************)
EXTENDS FeeLedger, Prices, FiniteSetTheorems, WellFoundedInduction, TLAPS

-----------------------------------------------------------------------------
(* Sums.  The provers know a fold only as the recursive function it is     *)
(* defined by; that there is one, and that the order in which it takes the *)
(* elements does not matter, is shown by the smallest counterexample.      *)

\* A set of naturals has a smallest member: the way every induction here is made.
LEMMA SmallestOf ==
    ASSUME NEW S, S \subseteq Nat, S # {}
    PROVE  \E n \in S : \A m \in S : n <= m
<1> DEFINE Less == {p \in Nat \X Nat : p[1] < p[2]}
<1>1. IsWellFoundedOn(Less, Nat) BY NatLessThanWellFounded DEF OpToRel
<1> HIDE DEF Less
<1>2. PICK n \in S : \A m \in S : ~(<<m, n>> \in Less) BY <1>1, WFMin
<1>3. \A m \in S : n <= m
  <2> TAKE m \in S
  <2>1. ~(m < n) BY <1>2 DEF Less
  <2> QED BY <2>1
<1> QED BY <1>3

\* The element a fold takes first.
First(s) == CHOOSE x \in s : TRUE
Taking(g, f, s) == IF s = {} THEN 0 ELSE f[First(s)] + g[s \ {First(s)}]

\* g has the sums of f over the subsets of S of at most n elements.
Sums(g, f, S, n) ==
    /\ g \in [SUBSET S -> Int]
    /\ \A s \in SUBSET S : Cardinality(s) <= n => g[s] = Taking(g, f, s)

\* Taking the first element off leaves a smaller set.
LEMMA FirstIn ==
    ASSUME NEW S, IsFiniteSet(S), NEW s \in SUBSET S, s # {}
    PROVE  /\ First(s) \in s /\ s \ {First(s)} \in SUBSET S /\ IsFiniteSet(s)
           /\ Cardinality(s) \in Nat \ {0} /\ Cardinality(s \ {First(s)}) = Cardinality(s) - 1
<1>1. First(s) \in s BY DEF First
<1>2. IsFiniteSet(s) /\ Cardinality(s) \in Nat /\ Cardinality(s) # 0
  BY FS_Subset, FS_CardinalityType, FS_EmptySet
<1> QED BY <1>1, <1>2, FS_RemoveElement

\* Sums over the subsets of at most n elements exist, for every n.
LEMMA SumsExist ==
    ASSUME NEW S, IsFiniteSet(S), NEW f, \A x \in S : f[x] \in Int
    PROVE  \A n \in Nat : \E g : Sums(g, f, S, n)
<1> DEFINE Bad == {n \in Nat : ~\E g : Sums(g, f, S, n)}
<1> SUFFICES ASSUME Bad # {} PROVE FALSE OBVIOUS
<1>1. PICK n \in Bad : \A m \in Bad : n <= m BY SmallestOf
<1>2. n # 0
  <2> SUFFICES ASSUME n = 0 PROVE FALSE OBVIOUS
  <2> DEFINE g == [s \in SUBSET S |-> 0]
  <2>1. ASSUME NEW s \in SUBSET S, Cardinality(s) <= 0 PROVE s = {}
    <3> SUFFICES ASSUME s # {} PROVE FALSE OBVIOUS
    <3>1. Cardinality(s) \in Nat \ {0} BY FirstIn
    <3> QED BY <2>1, <3>1
  <2>2. g \in [SUBSET S -> Int] /\ \A s \in SUBSET S : g[s] = 0 OBVIOUS
  <2>3. \A s \in SUBSET S : Cardinality(s) <= 0 => g[s] = Taking(g, f, s) BY <2>1, <2>2 DEF Taking
  <2> HIDE DEF g
  <2>4. Sums(g, f, S, 0) BY <2>2, <2>3 DEF Sums
  <2> QED BY <2>4
<1>3. n - 1 \in Nat /\ n - 1 \notin Bad BY <1>1, <1>2
<1>4. PICK g : Sums(g, f, S, n - 1) BY <1>3
<1> DEFINE h == [s \in SUBSET S |-> Taking(g, f, s)]
<1>5. \A s \in SUBSET S : Taking(g, f, s) \in Int
  <2> TAKE s \in SUBSET S
  <2>1. CASE s = {} BY <2>1 DEF Taking
  <2>2. CASE s # {}
    <3>1. First(s) \in S /\ s \ {First(s)} \in SUBSET S BY <2>2, FirstIn
    <3> QED BY <3>1, <1>4, <2>2 DEF Taking, Sums
  <2> QED BY <2>1, <2>2
<1>6. ASSUME NEW s \in SUBSET S, Cardinality(s) <= n PROVE h[s] = Taking(h, f, s)
  <2>1. CASE s = {} BY <2>1 DEF Taking
  <2>2. CASE s # {}
    <3> DEFINE r == s \ {First(s)}
    <3>1. r \in SUBSET S /\ Cardinality(r) = Cardinality(s) - 1 /\ Cardinality(s) \in Nat
      BY <2>2, FirstIn
    <3>2. Cardinality(r) <= n - 1 BY <3>1, <1>6
    <3>3. g[r] = Taking(g, f, r) BY <1>4, <3>1, <3>2 DEF Sums
    <3>4. h[r] = g[r] BY <3>1, <3>3
    <3> QED BY <2>2, <3>4 DEF Taking
  <2> QED BY <2>1, <2>2
<1>7. Sums(h, f, S, n) BY <1>5, <1>6 DEF Sums
<1> QED BY <1>1, <1>7

\* There is a function that sums f over every subset of S.
Table(g, f, S) == g \in [SUBSET S -> Int] /\ \A s \in SUBSET S : g[s] = Taking(g, f, s)

LEMMA TableExists ==
    ASSUME NEW S, IsFiniteSet(S), NEW f, \A x \in S : f[x] \in Int
    PROVE  \E g : Table(g, f, S)
<1>1. Cardinality(S) \in Nat BY FS_CardinalityType
<1>2. PICK g : Sums(g, f, S, Cardinality(S)) BY <1>1, SumsExist
<1>3. \A s \in SUBSET S : Cardinality(s) <= Cardinality(S) BY FS_Subset
<1> QED BY <1>2, <1>3 DEF Sums, Table

\* Any two of them agree where both are defined.
LEMMA TablesAgree ==
    ASSUME NEW S, IsFiniteSet(S), NEW T, IsFiniteSet(T), NEW f, NEW g, NEW h,
           Table(g, f, S), h = [s \in SUBSET T |-> Taking(h, f, s)]
    PROVE  \A s \in (SUBSET S) \cap (SUBSET T) : g[s] = h[s]
<1> DEFINE Bad == {n \in Nat : \E s \in (SUBSET S) \cap (SUBSET T) : Cardinality(s) = n /\ g[s] # h[s]}
<1>1. ASSUME Bad # {} PROVE FALSE
  <2>1. PICK n \in Bad : \A m \in Bad : n <= m BY <1>1, SmallestOf
  <2>2. PICK s \in (SUBSET S) \cap (SUBSET T) : Cardinality(s) = n /\ g[s] # h[s] BY <2>1
  <2>3. h[s] = Taking(h, f, s) /\ g[s] = Taking(g, f, s) BY <2>2 DEF Table
  <2>4. s # {} BY <2>2, <2>3 DEF Taking
  <2> DEFINE r == s \ {First(s)}
  <2>5. r \in (SUBSET S) \cap (SUBSET T) /\ Cardinality(r) = n - 1 /\ n \in Nat \ {0}
    <3>1. s \in SUBSET S /\ s \in SUBSET T BY <2>2
    <3> QED BY <3>1, <2>2, <2>4, FirstIn
  <2>6. n - 1 \in Nat /\ ~(n <= n - 1) BY <2>5
  <2>7. g[r] = h[r]
    <3>1. n - 1 \notin Bad BY ONLY <2>1, <2>6
    <3> QED BY <2>5, <2>6, <3>1
  <2> QED BY <2>2, <2>3, <2>4, <2>7 DEF Taking
<1>2. ASSUME NEW s \in (SUBSET S) \cap (SUBSET T), g[s] # h[s] PROVE FALSE
  <2>1. Cardinality(s) \in Nat BY FS_Subset, FS_CardinalityType
  <2>2. Cardinality(s) \in Bad BY <1>2, <2>1
  <2> QED BY <1>1, <2>2
<1> QED BY <1>2

\* The function the fold of the community modules is defined by.
Iterated(f, T) == CHOOSE h : h = [s \in SUBSET T |-> Taking(h, f, s)]

\* A sum is that function's value at the whole set.
LEMMA SumIsIterated ==
    ASSUME NEW f, NEW T PROVE SumFunctionOnSet(f, T) = Iterated(f, T)[T]
BY DEF SumFunctionOnSet, FoldFunctionOnSet, MapThenFoldSet, Iterated, Taking, First

\* The sum over a subset is in the table.
LEMMA SumInTable ==
    ASSUME NEW S, IsFiniteSet(S), NEW f, NEW g, Table(g, f, S), NEW T \in SUBSET S
    PROVE  SumFunctionOnSet(f, T) = g[T]
<1> DEFINE k == [s \in SUBSET T |-> g[s]]
<1>1. IsFiniteSet(T) BY FS_Subset
<1>2. \A s \in SUBSET T : s # {} => s \ {First(s)} \in SUBSET T OBVIOUS
<1>3. \A s \in SUBSET T : g[s] = Taking(k, f, s) BY <1>2 DEF Table, Taking
<1>4. k = [s \in SUBSET T |-> Taking(k, f, s)] BY <1>3
<1> HIDE DEF k
<1>5. Iterated(f, T) = [s \in SUBSET T |-> Taking(Iterated(f, T), f, s)] BY <1>4 DEF Iterated
<1>6. PICK h : h = Iterated(f, T) OBVIOUS
<1>7. h = [s \in SUBSET T |-> Taking(h, f, s)] BY <1>5, <1>6
<1>8. \A s \in (SUBSET S) \cap (SUBSET T) : g[s] = h[s] BY <1>1, <1>7, TablesAgree
<1>9. T \in (SUBSET S) \cap (SUBSET T) OBVIOUS
<1>10. g[T] = h[T] BY <1>8, <1>9
<1> QED BY <1>6, <1>10, SumIsIterated

\* A table may take any element first.
LEMMA AnyFirst ==
    ASSUME NEW S, IsFiniteSet(S), NEW f, \A x \in S : f[x] \in Int, NEW g, Table(g, f, S)
    PROVE  \A s \in SUBSET S : \A x \in s : g[s] = f[x] + g[s \ {x}]
<1> DEFINE Wrong(s) == \E x \in s : g[s] # f[x] + g[s \ {x}]
<1> DEFINE Bad == {n \in Nat : \E s \in SUBSET S : Cardinality(s) = n /\ Wrong(s)}
<1>1. ASSUME Bad # {} PROVE FALSE
  <2>1. PICK n \in Bad : \A m \in Bad : n <= m BY <1>1, SmallestOf
  <2>2. PICK s \in SUBSET S : Cardinality(s) = n /\ Wrong(s) BY <2>1
  <2>3. PICK x \in s : g[s] # f[x] + g[s \ {x}] BY <2>2
  <2> DEFINE c == First(s)
             r == s \ {c}
             q == s \ {x}
  <2>4. c \in s /\ r \in SUBSET S /\ Cardinality(r) = n - 1 /\ n \in Nat \ {0} /\ IsFiniteSet(s)
    BY <2>2, <2>3, FirstIn
  <2>5. g[s] = f[c] + g[r] BY <2>3 DEF Table, Taking
  <2>6. x # c BY <2>3, <2>5
  <2>7. q \in SUBSET S /\ Cardinality(q) = n - 1 BY <2>2, <2>3, <2>4, FS_RemoveElement
  <2>8. ~Wrong(r) /\ ~Wrong(q) BY <2>1, <2>4, <2>7
  <2> HIDE DEF c
  <2>9. g[r] = f[x] + g[r \ {x}] /\ g[q] = f[c] + g[q \ {c}] BY <2>3, <2>4, <2>6, <2>8
  <2>10. r \ {x} = q \ {c} /\ r \ {x} \in SUBSET S BY <2>4
  <2>11. f[x] \in Int /\ f[c] \in Int /\ g[r \ {x}] \in Int BY <2>3, <2>4, <2>10 DEF Table
  <2>12. PICK a, b, d : a = f[x] /\ b = f[c] /\ d = g[r \ {x}] OBVIOUS
  <2>13. g[s] = b + (a + d) /\ g[q] = b + d BY <2>5, <2>9, <2>10, <2>12
  <2>14. a \in Int /\ b \in Int /\ d \in Int BY <2>11, <2>12
  <2>15. g[s] = a + (b + d) BY <2>13, <2>14
  <2> QED BY <2>3, <2>12, <2>13, <2>15
<1>2. ASSUME NEW s \in SUBSET S, Wrong(s) PROVE FALSE
  <2>1. Cardinality(s) \in Nat BY FS_Subset, FS_CardinalityType
  <2>2. Cardinality(s) \in Bad BY <1>2, <2>1
  <2> QED BY <1>1, <2>2
<1> QED BY <1>2

\* The sum over nothing.
LEMMA SumOfNone == ASSUME NEW f PROVE SumFunctionOnSet(f, {}) = 0
<1>1. IsFiniteSet({}) BY FS_EmptySet
<1>2. \A x \in {} : f[x] \in Int OBVIOUS
<1>3. PICK g : Table(g, f, {}) BY <1>1, <1>2, TableExists
<1>4. {} \in SUBSET {} OBVIOUS
<1>5. SumFunctionOnSet(f, {}) = g[{}] BY <1>1, <1>3, <1>4, SumInTable
<1> QED BY <1>3, <1>4, <1>5 DEF Table, Taking

\* A sum is an element and the sum of the rest.
LEMMA SumWithout ==
    ASSUME NEW S, IsFiniteSet(S), NEW f, \A x \in S : f[x] \in Int
    PROVE  /\ SumFunctionOnSet(f, S) \in Int
           /\ \A x \in S : /\ SumFunctionOnSet(f, S \ {x}) \in Int
                           /\ SumFunctionOnSet(f, S) = f[x] + SumFunctionOnSet(f, S \ {x})
<1>1. PICK g : Table(g, f, S) BY TableExists
<1>2. \A T \in SUBSET S : SumFunctionOnSet(f, T) = g[T] BY <1>1, SumInTable
<1>3. \A T \in SUBSET S : g[T] \in Int BY <1>1 DEF Table
<1>4. S \in SUBSET S /\ \A x \in S : S \ {x} \in SUBSET S OBVIOUS
<1>5. \A x \in S : g[S] = f[x] + g[S \ {x}] BY <1>1, <1>4, AnyFirst
<1> QED BY <1>2, <1>3, <1>4, <1>5

-----------------------------------------------------------------------------
(* More of sums *)

\* Where the terms of two sums stay within those of a third, so do the sums.
LEMMA SumsWithin ==
    ASSUME NEW S, IsFiniteSet(S), NEW f, NEW h, NEW k,
           \A x \in S : f[x] \in Int /\ h[x] \in Int /\ k[x] \in Int /\ f[x] + h[x] <= k[x]
    PROVE  SumFunctionOnSet(f, S) + SumFunctionOnSet(h, S) <= SumFunctionOnSet(k, S)
<1>1. PICK F : Table(F, f, S) BY TableExists
<1>2. PICK H : Table(H, h, S) BY TableExists
<1>3. PICK K : Table(K, k, S) BY TableExists
<1> DEFINE Bad == {n \in Nat : \E s \in SUBSET S : Cardinality(s) = n /\ ~(F[s] + H[s] <= K[s])}
<1>4. ASSUME Bad # {} PROVE FALSE
  <2>1. PICK n \in Bad : \A m \in Bad : n <= m BY <1>4, SmallestOf
  <2>2. PICK s \in SUBSET S : Cardinality(s) = n /\ ~(F[s] + H[s] <= K[s]) BY <2>1
  <2>3. s # {}
    <3>1. s = {} => F[s] = 0 /\ H[s] = 0 /\ K[s] = 0 BY <1>1, <1>2, <1>3 DEF Table, Taking
    <3> QED BY <3>1, <2>2
  <2> DEFINE x == First(s)
             r == s \ {x}
  <2>4. x \in S /\ r \in SUBSET S /\ Cardinality(r) = n - 1 /\ n \in Nat \ {0}
    BY <2>2, <2>3, FirstIn
  <2>5. F[s] = f[x] + F[r] /\ H[s] = h[x] + H[r] /\ K[s] = k[x] + K[r]
    BY <2>2, <2>3, <1>1, <1>2, <1>3 DEF Table, Taking
  <2>6. F[r] \in Int /\ H[r] \in Int /\ K[r] \in Int BY <2>4, <1>1, <1>2, <1>3 DEF Table
  <2> HIDE DEF x, r
  <2>7. F[r] + H[r] <= K[r] BY <2>1, <2>4
  <2>8. f[x] \in Int /\ h[x] \in Int /\ k[x] \in Int /\ f[x] + h[x] <= k[x] BY <2>4
  <2>9. PICK a, b, c, d, e, m : a = f[x] /\ b = h[x] /\ c = k[x] /\ d = F[r] /\ e = H[r] /\ m = K[r]
    OBVIOUS
  <2>10. ~((a + d) + (b + e) <= c + m) BY <2>2, <2>5, <2>9
  <2> QED BY <2>6, <2>7, <2>8, <2>9, <2>10
<1>5. ASSUME NEW s \in SUBSET S PROVE F[s] + H[s] <= K[s]
  <2>1. Cardinality(s) \in Nat BY FS_Subset, FS_CardinalityType
  <2>2. Cardinality(s) \notin Bad BY <1>4
  <2> QED BY <2>1, <2>2
<1>6. S \in SUBSET S OBVIOUS
<1>7. /\ SumFunctionOnSet(f, S) = F[S] /\ SumFunctionOnSet(h, S) = H[S]
      /\ SumFunctionOnSet(k, S) = K[S]
  BY <1>1, <1>2, <1>3, <1>6, SumInTable
<1> QED BY <1>5, <1>6, <1>7

\* What is added up of naturals is one.
LEMMA SumOfNaturals ==
    ASSUME NEW S, IsFiniteSet(S), NEW f, \A x \in S : f[x] \in Nat
    PROVE  SumFunctionOnSet(f, S) \in Nat
<1>1. \A x \in S : f[x] \in Int OBVIOUS
<1>2. PICK g : Table(g, f, S) BY <1>1, TableExists
<1> DEFINE Bad == {n \in Nat : \E s \in SUBSET S : Cardinality(s) = n /\ g[s] \notin Nat}
<1>3. ASSUME Bad # {} PROVE FALSE
  <2>1. PICK n \in Bad : \A m \in Bad : n <= m BY <1>3, SmallestOf
  <2>2. PICK s \in SUBSET S : Cardinality(s) = n /\ g[s] \notin Nat BY <2>1
  <2>3. g[s] = Taking(g, f, s) BY <1>2 DEF Table
  <2>4. s # {} BY <2>2, <2>3 DEF Taking
  <2> DEFINE r == s \ {First(s)}
  <2>5. First(s) \in S /\ r \in SUBSET S /\ Cardinality(r) = n - 1 /\ n \in Nat \ {0}
    BY <2>2, <2>4, FirstIn
  <2>6. g[r] \in Nat BY <2>1, <2>5
  <2> QED BY <2>2, <2>3, <2>4, <2>5, <2>6 DEF Taking
<1>4. Cardinality(S) \in Nat /\ S \in SUBSET S BY FS_CardinalityType
<1>5. g[S] \in Nat BY <1>3, <1>4
<1> QED BY <1>2, <1>4, <1>5, SumInTable

\* Division rounds down, and keeps the order.
LEMMA DivGrows ==
    ASSUME NEW a \in Int, NEW b \in Int, a <= b, NEW d \in Nat \ {0}
    PROVE  a \div d \in Int /\ b \div d \in Int /\ a \div d <= b \div d
<1>1. a \div d \in Int /\ b \div d \in Int OBVIOUS
<1>2. a \div d <= b \div d OBVIOUS
<1> QED BY <1>1, <1>2

\* So does the rounding of Math.round, which keeps zero.
LEMMA RoundGrows ==
    ASSUME NEW a \in Nat, NEW b \in Nat, a <= b, NEW d \in Nat \ {0}
    PROVE  Round(a, d) \in Nat /\ Round(a, d) <= Round(b, d) /\ Round(0, d) = 0
<1>1. 2 * d \in Nat \ {0} /\ 2 * a + d \in Nat /\ 2 * b + d \in Nat /\ 2 * a + d <= 2 * b + d
  OBVIOUS
<1>2. Round(a, d) <= Round(b, d) BY <1>1, DivGrows DEF Round
<1>3. Round(0, d) = 0 BY DEF Round
<1>4. Round(a, d) \in Nat 
  BY <1>1 DEF Round
<1> QED BY <1>2, <1>3, <1>4

\* Functions that agree on a set have the same sum over it.
LEMMA SumSame ==
    ASSUME NEW S, IsFiniteSet(S), NEW f, NEW h, \A x \in S : f[x] \in Int /\ h[x] = f[x]
    PROVE  SumFunctionOnSet(h, S) = SumFunctionOnSet(f, S)
<1>1. PICK g : Table(g, f, S) BY TableExists
<1>2. Table(g, h, S)
  <2>1. \A s \in SUBSET S : s # {} => First(s) \in S BY FirstIn
  <2> QED BY <1>1, <2>1 DEF Table, Taking
<1>3. S \in SUBSET S OBVIOUS
<1> QED BY <1>1, <1>2, <1>3, SumInTable

\* What was refunded is such a sum.
LEMMA RefundedIsSum ==
    ASSUME NEW p, NEW i PROVE RefundedUpTo(p, i) = SumFunctionOnSet(p.refunds, 1..i)
BY DEF RefundedUpTo, MapThenSumSet, SumFunctionOnSet, FoldFunctionOnSet

-----------------------------------------------------------------------------
(* The ledger: what a reconciliation read is an earlier state of the       *)
(* payment, so the entries it computes are the ones any other computes.    *)

\* The states of a payment, and the keys of a ledger's entries.
Statuses == {"pending", "rejected", "approved", "refunded", "charged_back", "in_mediation"}
RefundOf(i) == <<"refund", i>>
ChargeKey == <<"charge", 0>>
Rest == <<"rest", 0>>
Chargeback == <<"chargeback", 0>>
Reverted == <<"reverted", 0>>

\* The commission given back for the i-th refund of g.
Due(g, i) == GivenBack(g, i) - GivenBack(g, i - 1)

\* What Mercado Pago may say of a payment.
Possible(g) ==
    /\ g = [status |-> g.status, refunds |-> g.refunds, disputes |-> g.disputes]
    /\ g.status \in Statuses /\ g.refunds \in Seq(Parts) /\ g.disputes \in Nat
    /\ Len(g.refunds) + g.disputes <= MaxChanges
    /\ g.status \in {"in_mediation", "charged_back"} => g.disputes > 0

\* r is what g was, now or before.
Earlier(r, g) ==
    /\ Possible(r) /\ r.disputes <= g.disputes
    /\ Len(r.refunds) <= Len(g.refunds) /\ \A i \in 1..Len(r.refunds) : r.refunds[i] = g.refunds[i]
    /\ r.status = "refunded" => g.status = "refunded" /\ r.refunds = g.refunds
    /\ WasApproved(r) => WasApproved(g)

\* The entries a reconciliation that read r adds to a ledger; calm: the payment
\* has had no dispute.
EntriesOf(e, r, calm) ==
    /\ e \in [Keys -> Int]
    /\ ~WasApproved(r) => \A k \in Keys : e[k] = 0
    /\ WasApproved(r) =>
         /\ e[ChargeKey] = fee
         /\ \A i \in 1..MaxChanges :
              e[RefundOf(i)] = IF i <= Len(r.refunds) THEN -Due(r, i) ELSE 0
         /\ e[Rest] = IF r.status = "refunded" THEN GivenBack(r, Len(r.refunds)) - fee ELSE 0
    /\ calm => e[Chargeback] = 0 /\ e[Reverted] = 0

\* The entries a ledger may have of g.
LedgerOf(L, g) ==
    /\ L \in [Keys -> Int]
    /\ L[ChargeKey] \in {0, fee}
    /\ L[ChargeKey] = 0 => \A k \in Keys : L[k] = 0
    /\ L[ChargeKey] # 0 => WasApproved(g)
    /\ \A i \in 1..MaxChanges :
         L[RefundOf(i)] # 0 => i <= Len(g.refunds) /\ L[RefundOf(i)] = -Due(g, i)
    /\ L[Rest] # 0 => g.status = "refunded" /\ L[Rest] = GivenBack(g, Len(g.refunds)) - fee
    /\ g.disputes = 0 => L[Chargeback] = 0 /\ L[Reverted] = 0

\* What a job holds was so when it read it.
Running(j, gates) ==
    \/ j = Idle
    \/ /\ j.at \in {"keys", "post"} /\ j.payment \in Payments
       /\ Earlier(j.read, gates[j.payment])
       /\ j.at = "post" => EntriesOf(j.entries, j.read, gates[j.payment].disputes = 0)

\* The inductive invariant of the ledger.
LedgerInv ==
    /\ gateway = [p \in Payments |-> gateway[p]] /\ ledger = [p \in Payments |-> ledger[p]]
    /\ job = [w \in Workers |-> job[w]] /\ failures \in Nat /\ queued \subseteq Payments
    /\ \A p \in Payments : Possible(gateway[p]) /\ LedgerOf(ledger[p], gateway[p])
    /\ \A w \in Workers : Running(job[w], gateway)

-----------------------------------------------------------------------------
(* What is given back *)

\* What is known of the constants.
LEMMA LedgerConstants ==
    /\ total \in Nat \ {0} /\ fee \in Nat \ {0} /\ fee < total
    /\ Parts \subseteq Nat \ {0} /\ MaxChanges \in Nat
BY FeeAssumption DEF FeeAssumption

\* The keys are told apart.
LEMMA KeysAre ==
    /\ ChargeKey \in Keys /\ Rest \in Keys /\ Chargeback \in Keys /\ Reverted \in Keys
    /\ \A i \in 1..MaxChanges : RefundOf(i) \in Keys
    /\ \A k \in Keys : \/ k \in {ChargeKey, Rest, Chargeback, Reverted}
                     \/ \E i \in 1..MaxChanges : k = RefundOf(i)
    /\ ChargeKey # Rest /\ ChargeKey # Chargeback /\ ChargeKey # Reverted
    /\ Rest # Chargeback /\ Rest # Reverted /\ Chargeback # Reverted
    /\ \A i : RefundOf(i) \notin {ChargeKey, Rest, Chargeback, Reverted}
    /\ \A i, j : RefundOf(i) = RefundOf(j) => i = j
BY DEF Keys, ChargeKey, Rest, Chargeback, Reverted, RefundOf

\* A refund is of some cents.
LEMMA RefundIs ==
    ASSUME NEW f, f \in Seq(Parts)
    PROVE  Len(f) \in Nat /\ \A i \in 1..Len(f) : f[i] \in Nat /\ f[i] \in Int
<1>1. Len(f) \in Nat /\ \A i \in 1..Len(f) : f[i] \in Parts OBVIOUS
<1>2. \A x \in Parts : x \in Nat /\ x \in Int BY LedgerConstants
<1> QED BY <1>1, <1>2

\* Refunds add up.
LEMMA RefundedGrows ==
    ASSUME NEW g, g.refunds \in Seq(Parts), NEW i \in 0..Len(g.refunds)
    PROVE  /\ RefundedUpTo(g, i) \in Nat /\ RefundedUpTo(g, 0) = 0
           /\ i > 0 => RefundedUpTo(g, i - 1) <= RefundedUpTo(g, i)
<1> DEFINE f == g.refunds
           n == Len(f)
           Up(m) == SumFunctionOnSet(f, 1..m)
           Bad == {m \in Nat : m <= n /\ ~(Up(m) \in Nat /\ (m > 0 => Up(m - 1) <= Up(m)))}
<1>1. n \in Nat /\ \A m \in 1..n : f[m] \in Nat /\ f[m] \in Int BY RefundIs
<1> HIDE DEF n, f
<1>2. Up(0) = 0
  <2>1. 1..0 = {} OBVIOUS
  <2> QED BY <2>1, SumOfNone
<1>3. ASSUME NEW m \in 1..n PROVE Up(m) = f[m] + Up(m - 1) /\ f[m] \in Nat
  <2>1. IsFiniteSet(1..m) /\ m \in 1..m /\ \A k \in 1..m : f[k] \in Int BY <1>1, FS_Interval
  <2>2. (1..m) \ {m} = 1..(m - 1) OBVIOUS
  <2>3. Up(m) = f[m] + SumFunctionOnSet(f, (1..m) \ {m}) BY <2>1, SumWithout
  <2> QED BY <2>2, <2>3, <1>1
<1>4. ASSUME Bad # {} PROVE FALSE
  <2>1. PICK m \in Bad : \A k \in Bad : m <= k BY <1>4, SmallestOf
  <2>2. m # 0 BY <1>2, <2>1
  <2>3. m \in 1..n /\ m - 1 \in Nat /\ m - 1 <= n /\ ~(m <= m - 1) BY <2>1, <2>2, <1>1
  <2>4. Up(m - 1) \in Nat BY <2>1, <2>3
  <2>5. Up(m) = f[m] + Up(m - 1) /\ f[m] \in Nat BY <1>3, <2>3
  <2> QED BY <2>1, <2>4, <2>5
<1>5. ASSUME NEW m \in 0..n PROVE Up(m) \in Nat /\ (m > 0 => Up(m - 1) <= Up(m))
  <2>1. m \in Nat /\ m <= n /\ m \notin Bad BY <1>1, <1>4
  <2> QED BY <2>1
<1> QED BY <1>2, <1>5, RefundedIsSum DEF f, n

\* The lower of two numbers.
LEMMA LowerOf ==
    ASSUME NEW a \in Int, NEW b \in Int
    PROVE  Min({a, b}) = IF a <= b THEN a ELSE b
BY DEF Min

\* The commission given back grows with them, from nothing, and stops at the fee.
LEMMA GivenGrows ==
    ASSUME NEW g, g.refunds \in Seq(Parts), NEW i \in 0..Len(g.refunds)
    PROVE  /\ GivenBack(g, i) \in 0..fee /\ GivenBack(g, 0) = 0
           /\ i > 0 => GivenBack(g, i - 1) \in 0..fee /\ GivenBack(g, i - 1) <= GivenBack(g, i)
<1>1. ASSUME NEW j \in 0..Len(g.refunds)
      PROVE  /\ fee * RefundedUpTo(g, j) \in Nat
             /\ Round(fee * RefundedUpTo(g, j), total) \in Nat /\ Round(0, total) = 0
  <2>1. RefundedUpTo(g, j) \in Nat BY RefundedGrows
  <2>2. fee * RefundedUpTo(g, j) \in Nat BY <2>1, LedgerConstants
  <2>3. PICK x : x = fee * RefundedUpTo(g, j) OBVIOUS
  <2>4. x \in Nat /\ x <= x BY <2>2, <2>3
  <2>5. Round(x, total) \in Nat /\ Round(0, total) = 0 BY <2>4, LedgerConstants, RoundGrows
  <2> QED BY <2>2, <2>3, <2>5
<1>2. ASSUME NEW j \in 0..Len(g.refunds) PROVE GivenBack(g, j) \in 0..fee
  <2>1. PICK x \in Nat : x = Round(fee * RefundedUpTo(g, j), total) BY <1>1
  <2>2. GivenBack(g, j) = Min({fee, x}) BY <2>1 DEF GivenBack
  <2> QED BY <2>2, LowerOf, LedgerConstants
<1>3. GivenBack(g, 0) = 0
  <2>1. RefundedUpTo(g, 0) = 0 BY RefundedGrows
  <2>2. fee * 0 = 0 BY LedgerConstants
  <2>3. GivenBack(g, 0) = Min({fee, 0}) BY <2>1, <2>2, <1>1 DEF GivenBack
  <2> QED BY <2>3, LowerOf, LedgerConstants
<1>4. ASSUME i > 0 PROVE GivenBack(g, i - 1) <= GivenBack(g, i)
  <2>1. i \in 0..Len(g.refunds) /\ i - 1 \in 0..Len(g.refunds) BY <1>4
  <2>2. PICK a, b : a = RefundedUpTo(g, i - 1) /\ b = RefundedUpTo(g, i) OBVIOUS
  <2>3. a \in Nat /\ b \in Nat /\ a <= b BY <2>1, <2>2, <1>4, RefundedGrows
  <2>4. fee * a \in Nat /\ fee * b \in Nat /\ fee * a <= fee * b BY <2>3, LedgerConstants
  <2>5. PICK x, y : x = Round(fee * a, total) /\ y = Round(fee * b, total) OBVIOUS
  <2>6. x \in Nat /\ y \in Nat /\ x <= y
    <3>1. x \in Nat /\ x <= y BY <2>4, <2>5, LedgerConstants, RoundGrows
    <3>2. y \in Nat BY <2>4, <2>5, LedgerConstants, RoundGrows
    <3> QED BY <3>1, <3>2
  <2>7. GivenBack(g, i - 1) = Min({fee, x}) /\ GivenBack(g, i) = Min({fee, y})
    BY <2>2, <2>5 DEF GivenBack
  <2> QED BY <2>6, <2>7, LowerOf, LedgerConstants
<1>5. i > 0 => i - 1 \in 0..Len(g.refunds) OBVIOUS
<1> QED BY <1>2, <1>3, <1>4, <1>5

\* Later refunds change nothing for the earlier ones.
LEMMA GivenStays ==
    ASSUME NEW r, NEW g, r.refunds \in Seq(Parts), g.refunds \in Seq(Parts),
           NEW n, n = Len(r.refunds), n <= Len(g.refunds),
           \A i \in 1..n : r.refunds[i] = g.refunds[i]
    PROVE  /\ \A i \in 0..n : GivenBack(r, i) = GivenBack(g, i)
           /\ \A i \in 1..n : Due(r, i) = Due(g, i)
<1>1. n \in Nat /\ \A i \in 1..n : r.refunds[i] \in Int BY RefundIs
<1>2. ASSUME NEW i \in 0..n PROVE GivenBack(r, i) = GivenBack(g, i)
  <2>1. \A k \in 1..i : k \in 1..n BY <1>1
  <2>2. IsFiniteSet(1..i) BY <1>1, FS_Interval
  <2>3. \A k \in 1..i : r.refunds[k] \in Int /\ g.refunds[k] = r.refunds[k] BY <1>1, <2>1
  <2>4. SumFunctionOnSet(g.refunds, 1..i) = SumFunctionOnSet(r.refunds, 1..i)
    BY <2>2, <2>3, SumSame
  <2>5. RefundedUpTo(g, i) = RefundedUpTo(r, i) BY <2>4, RefundedIsSum
  <2> QED BY <2>5 DEF GivenBack
<1>3. \A i \in 1..n : i \in 0..n /\ i - 1 \in 0..n BY <1>1
<1> QED BY <1>2, <1>3 DEF Due

-----------------------------------------------------------------------------
(* The entries *)

\* What is due for each refund is no less than nothing.
LEMMA DueTyped ==
    ASSUME NEW g, g.refunds \in Seq(Parts)
    PROVE  /\ Len(g.refunds) \in Nat /\ GivenBack(g, Len(g.refunds)) \in 0..fee
           /\ \A i \in 1..Len(g.refunds) :
                Due(g, i) \in Nat /\ GivenBack(g, i - 1) \in 0..fee /\ GivenBack(g, i) \in 0..fee
<1>1. Len(g.refunds) \in Nat BY RefundIs
<1>2. Len(g.refunds) \in 0..Len(g.refunds) BY <1>1
<1>3. GivenBack(g, Len(g.refunds)) \in 0..fee BY <1>2, GivenGrows
<1>4. ASSUME NEW i \in 1..Len(g.refunds)
      PROVE  Due(g, i) \in Nat /\ GivenBack(g, i - 1) \in 0..fee /\ GivenBack(g, i) \in 0..fee
  <2>1. i \in 0..Len(g.refunds) /\ i > 0 BY <1>1
  <2>2. /\ GivenBack(g, i) \in 0..fee /\ GivenBack(g, i - 1) \in 0..fee
        /\ GivenBack(g, i - 1) <= GivenBack(g, i)
    BY <2>1, GivenGrows
  <2> QED BY <2>2, LedgerConstants DEF Due
<1> QED BY <1>1, <1>3, <1>4

\* lancamentosEsperados: nothing of a payment that brought no money.
LEMMA ExpectedIs ==
    ASSUME NEW r, Possible(r), NEW known, NEW calm \in BOOLEAN,
           calm => r.disputes = 0 /\ Chargeback \notin known
    PROVE  EntriesOf(Expected(r, known), r, calm)
<1> DEFINE e == Expected(r, known)
           given == GivenBack(r, Len(r.refunds))
<1>1. /\ Len(r.refunds) \in Nat /\ given \in 0..fee
      /\ \A i \in 1..Len(r.refunds) : Due(r, i) \in Nat
  BY DueTyped DEF Possible
<1>2. CASE ~WasApproved(r)
  <2>1. e = [k \in Keys |-> 0] BY <1>2 DEF Expected
  <2> HIDE DEF e
  <2>2. e \in [Keys -> Int] BY <2>1
  <2>3. EntriesOf(e, r, calm) BY <2>1, <2>2, <1>2, KeysAre DEF EntriesOf
  <2> QED BY <2>3 DEF e
<1>3. CASE WasApproved(r)
  <2> DEFINE left == fee - (IF r.status = "refunded" THEN fee ELSE given)
  <2>1. left \in Int BY <1>1, LedgerConstants
  <2>2. /\ DOMAIN e = Keys /\ e = [k \in Keys |-> e[k]]
        /\ e[ChargeKey] = fee
        /\ e[Rest] = IF r.status = "refunded" /\ given < fee THEN given - fee ELSE 0
        /\ e[Chargeback] = IF r.status = "charged_back" THEN -left ELSE 0
        /\ e[Reverted] = IF r.status = "approved" /\ Chargeback \in known THEN left ELSE 0
    BY <1>3, KeysAre DEF Expected, ChargeKey, Rest, Chargeback, Reverted
  <2>3. \A i \in 1..MaxChanges : e[RefundOf(i)] = IF i \in 1..Len(r.refunds) THEN -Due(r, i) ELSE 0
    BY <1>3, KeysAre DEF Expected, RefundOf, Due
  <2> HIDE DEF e, left
  <2>4. \A i \in 1..MaxChanges : e[RefundOf(i)] = IF i <= Len(r.refunds) THEN -Due(r, i) ELSE 0
    BY <2>3, <1>1
  <2>5. \A k \in Keys : e[k] \in Int
    <3>1. e[ChargeKey] \in Int /\ e[Rest] \in Int /\ e[Chargeback] \in Int /\ e[Reverted] \in Int
      BY <2>1, <2>2, <1>1, LedgerConstants
    <3>2. \A i \in 1..MaxChanges : e[RefundOf(i)] \in Int BY <2>3, <1>1
    <3> QED BY <3>1, <3>2, KeysAre
  <2>6. e[Rest] = IF r.status = "refunded" THEN given - fee ELSE 0
    BY <2>2, <1>1, LedgerConstants
  <2>7. calm => e[Chargeback] = 0 /\ e[Reverted] = 0 BY <2>2 DEF Possible
  <2>8. e \in [Keys -> Int] BY <2>2, <2>5
  <2>9. EntriesOf(e, r, calm) BY <1>3, <2>2, <2>4, <2>6, <2>7, <2>8 DEF EntriesOf
  <2> QED BY <2>9 DEF e
<1> QED BY <1>2, <1>3

\* The entries that a ledger of g has once everything is in.
Complete(L, g) ==
    /\ WasApproved(g) =>
         /\ L[ChargeKey] = fee
         /\ \A i \in 1..MaxChanges : L[RefundOf(i)] = IF i <= Len(g.refunds) THEN -Due(g, i) ELSE 0
         /\ L[Rest] = IF g.status = "refunded" THEN GivenBack(g, Len(g.refunds)) - fee ELSE 0
    /\ ~WasApproved(g) => \A k \in Keys : L[k] = 0

\* createMany with skipDuplicates: what is there stays.
Posting(L, e) == [k \in Keys |-> IF L[k] # 0 THEN L[k] ELSE e[k]]

\* Entries computed from an earlier state are right, those from the last complete.
LEMMA EntriesAgree ==
    ASSUME NEW g, NEW r, NEW L, NEW e, Possible(g), Earlier(r, g), LedgerOf(L, g),
           EntriesOf(e, r, g.disputes = 0)
    PROVE  /\ LedgerOf(Posting(L, e), g)
           /\ r = g => Complete(Posting(L, e), g)
<1> DEFINE M == Posting(L, e)
           n == Len(r.refunds)
<1>1. \A k \in Keys : M[k] = IF L[k] # 0 THEN L[k] ELSE e[k] BY DEF Posting
<1>2. M \in [Keys -> Int] BY DEF Posting, LedgerOf, EntriesOf
<1> HIDE DEF M
<1>3. n \in Nat /\ n <= Len(g.refunds) /\ Len(g.refunds) \in Nat BY RefundIs DEF Earlier, Possible
<1>4. GivenBack(r, n) = GivenBack(g, n) /\ \A i \in 1..n : Due(r, i) = Due(g, i)
  <2>1. \A i \in 0..n : GivenBack(r, i) = GivenBack(g, i)
    BY <1>3, GivenStays DEF Earlier, Possible
  <2>2. \A i \in 1..n : Due(r, i) = Due(g, i) BY <1>3, GivenStays DEF Earlier, Possible
  <2> QED BY <2>1, <2>2, <1>3
<1>5. fee # 0 BY LedgerConstants
<1>6. CASE ~WasApproved(r)
  <2>1. \A k \in Keys : e[k] = 0 BY <1>6 DEF EntriesOf
  <2>2. \A k \in Keys : M[k] = L[k] BY <1>1, <2>1
  <2>3. LedgerOf(M, g) BY <1>2, <2>2, KeysAre DEF LedgerOf
  <2>4. r = g => Complete(M, g)
    <3>1. r = g => ~WasApproved(g) BY <1>6
    <3>2. r = g => L[ChargeKey] = 0 BY <3>1 DEF LedgerOf
    <3> QED BY <3>1, <3>2, <2>2 DEF LedgerOf, Complete
  <2> QED BY <2>3, <2>4 DEF M
<1>7. CASE WasApproved(r)
  <2>1. WasApproved(g) BY <1>7 DEF Earlier
  <2>2. /\ e[ChargeKey] = fee
        /\ \A i \in 1..MaxChanges : e[RefundOf(i)] = IF i <= n THEN -Due(r, i) ELSE 0
        /\ e[Rest] = IF r.status = "refunded" THEN GivenBack(r, n) - fee ELSE 0
    BY <1>7 DEF EntriesOf
  <2>3. M[ChargeKey] = fee BY <1>1, <2>2, KeysAre DEF LedgerOf
  <2>4. ASSUME NEW i \in 1..MaxChanges
        PROVE  /\ M[RefundOf(i)] # 0 => i <= Len(g.refunds) /\ M[RefundOf(i)] = -Due(g, i)
               /\ r = g => M[RefundOf(i)] = IF i <= Len(g.refunds) THEN -Due(g, i) ELSE 0
    <3>1. M[RefundOf(i)] = IF L[RefundOf(i)] # 0 THEN L[RefundOf(i)] ELSE e[RefundOf(i)]
      BY <1>1, KeysAre
    <3>2. L[RefundOf(i)] # 0 => i <= Len(g.refunds) /\ L[RefundOf(i)] = -Due(g, i) BY DEF LedgerOf
    <3>3. i <= n => Due(r, i) = Due(g, i) /\ i <= Len(g.refunds) BY <1>3, <1>4
    <3> QED BY <3>1, <3>2, <3>3, <2>2
  <2>5. r.status = "refunded" => g.status = "refunded" /\ n = Len(g.refunds) BY DEF Earlier
  <2>6. /\ M[Rest] # 0 => g.status = "refunded" /\ M[Rest] = GivenBack(g, Len(g.refunds)) - fee
        /\ r = g => M[Rest] = IF g.status = "refunded" THEN GivenBack(g, Len(g.refunds)) - fee ELSE 0
    BY <1>1, <1>4, <2>2, <2>5, KeysAre DEF LedgerOf
  <2>7. g.disputes = 0 => M[Chargeback] = 0 /\ M[Reverted] = 0
    BY <1>1, KeysAre DEF LedgerOf, EntriesOf
  <2>8. LedgerOf(M, g) BY <1>2, <1>5, <2>1, <2>3, <2>4, <2>6, <2>7 DEF LedgerOf
  <2>9. r = g => Complete(M, g) BY <2>1, <2>3, <2>4, <2>6 DEF Complete
  <2> QED BY <2>8, <2>9 DEF M
<1> QED BY <1>6, <1>7

-----------------------------------------------------------------------------
(* The payment moves on *)

\* h may come next after g, without or with a dispute.
NextState(g, h) ==
    /\ Possible(h) /\ g.disputes <= h.disputes
    /\ Len(g.refunds) <= Len(h.refunds) /\ \A i \in 1..Len(g.refunds) : g.refunds[i] = h.refunds[i]
    /\ g.status = "refunded" => h.status = "refunded" /\ g.refunds = h.refunds
    /\ WasApproved(g) => WasApproved(h)

\* What was earlier than g is earlier than what comes next.
LEMMA LaterToo ==
    ASSUME NEW r, NEW g, NEW h, Possible(g), Earlier(r, g), NextState(g, h)
    PROVE  Earlier(r, h)
<1>1. Len(r.refunds) \in Nat /\ Len(g.refunds) \in Nat /\ Len(h.refunds) \in Nat
  BY RefundIs DEF Earlier, Possible, NextState
<1>2. Len(r.refunds) <= Len(h.refunds) BY <1>1 DEF Earlier, NextState
<1>3. \A i \in 1..Len(r.refunds) : r.refunds[i] = h.refunds[i]
  <2> TAKE i \in 1..Len(r.refunds)
  <2>1. i \in 1..Len(g.refunds) BY <1>1 DEF Earlier
  <2> QED BY <2>1 DEF Earlier, NextState
<1>4. r.disputes <= h.disputes BY DEF Earlier, NextState, Possible
<1> QED BY <1>2, <1>3, <1>4 DEF Earlier, NextState

\* And the entries there may be of g may be there still.
LEMMA LedgerKeeps ==
    ASSUME NEW g, NEW h, NEW L, Possible(g), LedgerOf(L, g), NextState(g, h)
    PROVE  LedgerOf(L, h)
<1> DEFINE n == Len(g.refunds)
<1>1. n \in Nat /\ Len(h.refunds) \in Nat /\ n <= Len(h.refunds)
  BY RefundIs DEF Possible, NextState
<1>2. \A i \in 1..n : Due(g, i) = Due(h, i)
  BY <1>1, GivenStays DEF Possible, NextState
<1>3. \A i \in 0..n : GivenBack(g, i) = GivenBack(h, i)
  BY <1>1, GivenStays DEF Possible, NextState
<1>4. ASSUME NEW i \in 1..MaxChanges, L[RefundOf(i)] # 0
      PROVE  i <= Len(h.refunds) /\ L[RefundOf(i)] = -Due(h, i)
  <2>1. i <= n /\ L[RefundOf(i)] = -Due(g, i) BY <1>4 DEF LedgerOf
  <2> QED BY <2>1, <1>1, <1>2
<1>5. L[Rest] # 0 => h.status = "refunded" /\ L[Rest] = GivenBack(h, Len(h.refunds)) - fee
  <2>1. L[Rest] # 0 => g.status = "refunded" /\ L[Rest] = GivenBack(g, n) - fee BY DEF LedgerOf
  <2>2. g.status = "refunded" => h.status = "refunded" /\ n = Len(h.refunds) BY DEF NextState
  <2> QED BY <2>1, <2>2, <1>1, <1>3
<1>6. h.disputes = 0 => g.disputes = 0 BY DEF NextState, Possible
<1> QED BY <1>4, <1>5, <1>6 DEF LedgerOf, NextState

-----------------------------------------------------------------------------
(* Every step *)

\* It holds at the start.
LEMMA LedgerStart == Init => LedgerInv
<1> SUFFICES ASSUME Init PROVE LedgerInv OBVIOUS
<1> USE DEF Init
<1>1. MaxChanges \in Nat BY LedgerConstants
<1>2. ASSUME NEW p \in Payments PROVE Possible(gateway[p]) /\ LedgerOf(ledger[p], gateway[p])
  <2>1. gateway[p] = [status |-> "pending", refunds |-> <<>>, disputes |-> 0] OBVIOUS
  <2>2. <<>> \in Seq(Parts) /\ Len(<<>>) = 0 OBVIOUS
  <2>3. Possible(gateway[p])
    <3>1. PICK g : g = gateway[p] OBVIOUS
    <3>2. g = [status |-> "pending", refunds |-> <<>>, disputes |-> 0] BY <2>1, <3>1
    <3>3. /\ g = [status |-> g.status, refunds |-> g.refunds, disputes |-> g.disputes]
          /\ g.status = "pending" /\ g.refunds = <<>> /\ g.disputes = 0
      BY <3>2
    <3>4. Possible(g) BY ONLY <1>1, <2>2, <3>3 DEF Possible, Statuses
    <3> QED BY <3>1, <3>4
  <2>4. ledger[p] = [k \in Keys |-> 0] OBVIOUS
  <2>5. LedgerOf(ledger[p], gateway[p]) BY <2>4, KeysAre DEF LedgerOf
  <2> QED BY <2>3, <2>5
<1>3. \A w \in Workers : Running(job[w], gateway) BY DEF Running
<1> QED BY <1>2, <1>3 DEF LedgerInv

\* What a job reads is what the payment is.
LEMMA SameIsEarlier == ASSUME NEW g, Possible(g) PROVE Earlier(g, g)
<1>1. Len(g.refunds) \in Nat BY RefundIs DEF Possible
<1> QED BY <1>1 DEF Earlier, Possible

\* A step of a payment at Mercado Pago.
LEMMA PaymentMoves ==
    ASSUME LedgerInv, NEW p \in Payments, NEW h, NextState(gateway[p], h),
           gateway' = [gateway EXCEPT ![p] = h], UNCHANGED <<ledger, queued, job, failures>>
    PROVE  LedgerInv'
<1>1. \A q \in Payments : gateway'[q] = IF q = p THEN h ELSE gateway[q] BY DEF LedgerInv
<1>2. ASSUME NEW q \in Payments PROVE Possible(gateway'[q]) /\ LedgerOf(ledger'[q], gateway'[q])
  <2>1. Possible(gateway[q]) /\ LedgerOf(ledger[q], gateway[q]) BY DEF LedgerInv
  <2>2. CASE q = p
    <3>1. Possible(h) /\ LedgerOf(ledger[p], h) BY <2>1, <2>2, LedgerKeeps DEF NextState
    <3> QED BY <3>1, <2>2, <1>1
  <2>3. CASE q # p BY <2>1, <2>3, <1>1
  <2> QED BY <2>2, <2>3
<1>3. ASSUME NEW w \in Workers PROVE Running(job'[w], gateway')
  <2>1. PICK j, gates : j = job[w] /\ gates = gateway' OBVIOUS
  <2>2. Running(j, gateway) BY <2>1 DEF LedgerInv
  <2>3. CASE j = Idle BY <2>3, <2>1 DEF Running
  <2>4. CASE j # Idle
    <3> DEFINE q == j.payment
    <3>1. /\ j.at \in {"keys", "post"} /\ q \in Payments /\ Earlier(j.read, gateway[q])
          /\ j.at = "post" => EntriesOf(j.entries, j.read, gateway[q].disputes = 0)
      BY <2>2, <2>4 DEF Running
    <3>2. Possible(gateway[p]) /\ Possible(gateway[q]) BY <3>1 DEF LedgerInv
    <3>3. Earlier(j.read, gates[q]) BY <3>1, <3>2, <2>1, <1>1, LaterToo
    <3>4. gates[q].disputes = 0 => gateway[q].disputes = 0
      BY <3>1, <3>2, <2>1, <1>1 DEF NextState, Possible
    <3>5. j.at = "post" => EntriesOf(j.entries, j.read, gates[q].disputes = 0)
      BY <3>1, <3>4 DEF EntriesOf
    <3>6. Running(j, gates) BY <3>1, <3>3, <3>5 DEF Running
    <3> QED BY <3>6, <2>1
  <2> QED BY <2>3, <2>4
<1>4. gateway' = [q \in Payments |-> gateway'[q]] BY DEF LedgerInv
<1> QED BY <1>2, <1>3, <1>4 DEF LedgerInv

\* A step that only puts payments in the queue, writes orders or ends a job.
LEMMA WorkerMoves ==
    ASSUME LedgerInv, NEW w \in Workers, NEW j, Running(j, gateway), job' = [job EXCEPT ![w] = j],
           queued' \subseteq Payments, failures' \in Nat, UNCHANGED <<gateway, ledger>>
    PROVE  LedgerInv'
<1>1. \A v \in Workers : job'[v] = IF v = w THEN j ELSE job[v] BY DEF LedgerInv
<1>2. job' = [v \in Workers |-> job'[v]] BY DEF LedgerInv
<1>3. \A v \in Workers : Running(job'[v], gateway)
  <2> TAKE v \in Workers
  <2>1. Running(job[v], gateway) BY DEF LedgerInv
  <2> QED BY <2>1, <1>1
<1>4. \A v \in Workers : Running(job'[v], gateway')
  <2>1. PICK g : g = gateway OBVIOUS
  <2>2. gateway' = g BY <2>1
  <2> QED BY <1>3, <2>1, <2>2
<1> QED BY <1>2, <1>4 DEF LedgerInv

\* A step of the queue alone.
LEMMA LedgerQueue ==
    ASSUME LedgerInv, queued' \subseteq Payments, UNCHANGED <<gateway, ledger, job, failures>>
    PROVE  LedgerInv'
<1>1. PICK g, b : g = gateway /\ b = job OBVIOUS
<1>2. gateway' = g /\ job' = b BY <1>1
<1>3. \A w \in Workers : Running(b[w], g) BY <1>1 DEF LedgerInv
<1> QED BY <1>1, <1>2, <1>3 DEF LedgerInv

\* A dispute and a refund change two fields.
Disputing(g, x, y) == [g EXCEPT !.status = x, !.disputes = y]
Refunding(g, y, x) == [g EXCEPT !.refunds = y, !.status = x]

\* What those changes leave.
LEMMA GatewayRecord ==
    ASSUME NEW g, Possible(g), NEW x, NEW y
    PROVE  /\ Disputing(g, x, y) = [status |-> x, refunds |-> g.refunds, disputes |-> y]
           /\ Refunding(g, y, x) = [status |-> x, refunds |-> y, disputes |-> g.disputes]
<1>1. PICK a, b, d : a = g.status /\ b = g.refunds /\ d = g.disputes OBVIOUS
<1>2. g = [status |-> a, refunds |-> b, disputes |-> d] BY <1>1 DEF Possible
<1>3. PICK m, n : /\ m = [status |-> x, refunds |-> b, disputes |-> d]
                  /\ n = [status |-> a, refunds |-> y, disputes |-> d]
  OBVIOUS
<1>4. [g EXCEPT !.status = x] = m /\ [g EXCEPT !.refunds = y] = n BY <1>2, <1>3
<1>5. [m EXCEPT !.disputes = y] = [status |-> x, refunds |-> b, disputes |-> y] BY <1>3
<1>6. [n EXCEPT !.status = x] = [status |-> x, refunds |-> y, disputes |-> d] BY <1>3
<1>7. /\ Disputing(g, x, y) = [[g EXCEPT !.status = x] EXCEPT !.disputes = y]
      /\ Refunding(g, y, x) = [[g EXCEPT !.refunds = y] EXCEPT !.status = x]
  BY DEF Disputing, Refunding
<1> QED BY ONLY <1>1, <1>4, <1>5, <1>6, <1>7

\* Each thing that happens at Mercado Pago.
LEMMA MercadoPagoMoves ==
    ASSUME LedgerInv, NEW p \in Payments, Decide(p) \/ Refund(p) \/ Dispute(p) \/ Lose(p) \/ Win(p)
    PROVE  LedgerInv'
<1> DEFINE g == gateway[p]
<1>1. Possible(g) /\ Len(g.refunds) \in Nat /\ MaxChanges \in Nat
  BY RefundIs, LedgerConstants DEF LedgerInv, Possible
<1>2. gateway = [q \in Payments |-> gateway[q]] BY DEF LedgerInv
<1>3. UNCHANGED <<ledger, queued, job, failures>>
  BY DEF Decide, Refund, Dispute, Lose, Win, Elsewhere
<1>4. SUFFICES \E h : NextState(g, h) /\ gateway' = [gateway EXCEPT ![p] = h]
  BY <1>3, PaymentMoves
<1>5. ASSUME NEW s \in Statuses, Become(p, s), s \in {"in_mediation", "charged_back"} => g.disputes > 0,
             g.status # "refunded",
             WasApproved(g) => s \in {"approved", "refunded", "charged_back", "in_mediation"}
      PROVE  \E h : NextState(g, h) /\ gateway' = [gateway EXCEPT ![p] = h]
  <2> DEFINE h == [status |-> s, refunds |-> g.refunds, disputes |-> g.disputes]
  <2>1. [g EXCEPT !.status = s] = h BY <1>1 DEF Possible
  <2>2. gateway' = [gateway EXCEPT ![p] = [g EXCEPT !.status = s]] BY <1>5 DEF Become
  <2>3. h.status = s /\ h.refunds = g.refunds /\ h.disputes = g.disputes OBVIOUS
  <2>4. Possible(h) BY <1>1, <1>5 DEF Possible
  <2>5. WasApproved(g) => WasApproved(h) BY <1>5, <2>3 DEF WasApproved
  <2>6. NextState(g, h) BY <2>3, <2>4, <2>5, <1>1, <1>5 DEF NextState, Possible
  <2> HIDE DEF h
  <2> QED BY <2>1, <2>6, <2>2
<1>6. CASE Decide(p) BY <1>5, <1>6 DEF Decide, Statuses, WasApproved
<1>7. CASE Lose(p)
  <2>1. g.disputes > 0 BY <1>1, <1>7 DEF Lose, Possible
  <2> QED BY <1>5, <1>7, <2>1 DEF Lose, Statuses
<1>8. CASE Win(p) BY <1>5, <1>8 DEF Win, Statuses
<1>9. CASE Dispute(p)
  <2> DEFINE h == [status |-> "in_mediation", refunds |-> g.refunds, disputes |-> g.disputes + 1]
  <2>1. Disputing(g, "in_mediation", g.disputes + 1) = h BY <1>1, GatewayRecord
  <2>2. gateway' = [gateway EXCEPT ![p] = Disputing(g, "in_mediation", g.disputes + 1)]
    BY <1>9 DEF Dispute, Disputing
  <2>3. Len(g.refunds) + g.disputes < MaxChanges BY <1>9 DEF Dispute, Changes
  <2>4. Possible(h) BY <1>1, <2>3 DEF Possible, Statuses
  <2>5. WasApproved(h) BY DEF WasApproved
  <2>6. NextState(g, h) BY <2>4, <2>5, <1>1, <1>9 DEF NextState, Possible, Dispute
  <2> HIDE DEF h
  <2> QED BY <2>1, <2>6, <2>2
<1>10. CASE Refund(p)
  <2> DEFINE refunded == RefundedUpTo(g, Len(g.refunds))
  <2>1. PICK part \in Parts :
          \/ gateway' = [gateway EXCEPT ![p].refunds = Append(@, part),
                 ![p].status = IF refunded + part = total THEN "refunded" ELSE @]
          \/ Become(p, "refunded")
    BY <1>10 DEF Refund
  <2>2. g.status = "approved" /\ Len(g.refunds) + g.disputes < MaxChanges
    BY <1>10 DEF Refund, Changes
  <2>3. CASE Become(p, "refunded") BY <1>5, <2>2, <2>3 DEF Statuses
  <2>4. CASE gateway' = [gateway EXCEPT ![p].refunds = Append(@, part),
                 ![p].status = IF refunded + part = total THEN "refunded" ELSE @]
    <3>1. PICK s : s = (IF refunded + part = total THEN "refunded" ELSE "approved") OBVIOUS
    <3> DEFINE f == Append(g.refunds, part)
    <3> DEFINE h == [status |-> s, refunds |-> f, disputes |-> g.disputes]
    <3>2. Refunding(g, f, s) = h BY <1>1, GatewayRecord
    <3>3. gateway' = [gateway EXCEPT ![p] = Refunding(g, f, s)] BY <2>2, <2>4, <3>1 DEF Refunding
    <3>4. /\ f \in Seq(Parts) /\ Len(f) = Len(g.refunds) + 1
          /\ \A i \in 1..Len(g.refunds) : f[i] = g.refunds[i]
      BY <1>1 DEF Possible
    <3> HIDE DEF f
    <3>5. h.status = s /\ h.refunds = f /\ h.disputes = g.disputes OBVIOUS
    <3>6. s \in {"refunded", "approved"} BY <3>1
    <3>7. Possible(h) BY <1>1, <2>2, <3>4, <3>6 DEF Possible, Statuses
    <3> HIDE DEF h
    <3>8. WasApproved(h) BY <3>5, <3>6 DEF WasApproved
    <3>9. NextState(g, h) BY <3>4, <3>5, <3>7, <3>8, <2>2, <1>1 DEF NextState, Possible
    <3> QED BY <3>2, <3>9, <3>3
  <2> QED BY <2>1, <2>3, <2>4
<1> QED BY <1>6, <1>7, <1>8, <1>9, <1>10

\* Each step of a job but the transaction.
LEMMA JobMoves ==
    ASSUME LedgerInv, NEW w \in Workers, Start(w) \/ ReadKeys(w) \/ JobFails(w)
    PROVE  LedgerInv'
<1> DEFINE j == job[w]
           q == j.payment
<1>1. Running(j, gateway) /\ Running(Idle, gateway) BY DEF LedgerInv, Running
<1>2. CASE Start(w)
  <2>1. PICK p \in queued :
          /\ queued' = queued \ {p}
          /\ job' = [job EXCEPT ![w] = [at |-> "keys", payment |-> p, read |-> gateway[p]]]
    BY <1>2 DEF Start
  <2>2. p \in Payments /\ Possible(gateway[p]) BY DEF LedgerInv
  <2> DEFINE n == [at |-> "keys", payment |-> p, read |-> gateway[p]]
  <2>3. n.at = "keys" /\ n.payment = p /\ n.read = gateway[p] OBVIOUS
  <2> HIDE DEF n
  <2>4. Running(n, gateway) BY <2>2, <2>3, SameIsEarlier DEF Running
  <2>5. queued' \subseteq Payments /\ failures' \in Nat /\ UNCHANGED <<gateway, ledger>>
    BY <1>2, <2>1 DEF LedgerInv, Start
  <2>6. job' = [job EXCEPT ![w] = n] BY <2>1 DEF n
  <2> QED BY <2>4, <2>5, <2>6, WorkerMoves
<1>3. CASE ReadKeys(w)
  <2> DEFINE e == Expected(j.read, Posted(q))
             n == [at |-> "post", payment |-> q, read |-> j.read, entries |-> e]
  <2>1. j.at = "keys" /\ q \in Payments /\ Earlier(j.read, gateway[q])
    BY <1>1, <1>3 DEF Running, Idle, ReadKeys
  <2>2. n.at = "post" /\ n.payment = q /\ n.read = j.read /\ n.entries = e OBVIOUS
  <2>3. job' = [job EXCEPT ![w] = n] BY <1>3 DEF ReadKeys
  <2> HIDE DEF n
  <2>4. PICK calm \in BOOLEAN : calm <=> gateway[q].disputes = 0 OBVIOUS
  <2>5. calm => j.read.disputes = 0 /\ Chargeback \notin Posted(q)
    <3>1. ASSUME calm PROVE j.read.disputes = 0
      <4>1. gateway[q].disputes = 0 BY <3>1, <2>4
      <4>2. j.read.disputes \in Nat /\ j.read.disputes <= gateway[q].disputes
        BY <2>1 DEF Earlier, Possible
      <4> QED BY <4>1, <4>2
    <3>2. ASSUME calm PROVE ledger[q][Chargeback] = 0 BY <3>2, <2>1, <2>4 DEF LedgerInv, LedgerOf
    <3> QED BY <3>1, <3>2 DEF Posted
  <2>6. Possible(j.read) BY <2>1 DEF Earlier
  <2>7. EntriesOf(e, j.read, calm) BY <2>5, <2>6, ExpectedIs
  <2> HIDE DEF e
  <2>8. Running(n, gateway) BY <2>1, <2>2, <2>4, <2>7 DEF Running
  <2>9. queued' \subseteq Payments /\ failures' \in Nat /\ UNCHANGED <<gateway, ledger>>
    BY <1>3 DEF LedgerInv, ReadKeys
  <2> QED BY <2>3, <2>8, <2>9, WorkerMoves
<1>4. CASE JobFails(w)
  <2>1. q \in Payments BY <1>1, <1>4 DEF Running, Idle, JobFails
  <2>2. queued' \subseteq Payments /\ failures' \in Nat /\ UNCHANGED <<gateway, ledger>>
    BY <1>4, <2>1 DEF LedgerInv, JobFails
  <2>3. job' = [job EXCEPT ![w] = Idle] BY <1>4 DEF JobFails
  <2> QED BY <1>1, <2>2, <2>3, WorkerMoves
<1> QED BY <1>2, <1>3, <1>4

\* The transaction of a job that read r.
LEMMA EntriesGoIn ==
    ASSUME LedgerInv, NEW w \in Workers, WriteEntries(w)
    PROVE  LET p == job[w].payment IN
           /\ LedgerInv' /\ p \in Payments
           /\ job[w].read = gateway[p] => Complete(ledger'[p], gateway[p])
<1> DEFINE j == job[w]
           p == j.payment
           M == Posting(ledger[p], j.entries)
<1>1. /\ j.at = "post" /\ p \in Payments /\ Earlier(j.read, gateway[p])
      /\ EntriesOf(j.entries, j.read, gateway[p].disputes = 0)
  BY DEF LedgerInv, Running, Idle, WriteEntries
<1>2. Possible(gateway[p]) /\ LedgerOf(ledger[p], gateway[p]) BY <1>1 DEF LedgerInv
<1>3. /\ LedgerOf(M, gateway[p])
      /\ j.read = gateway[p] => Complete(M, gateway[p])
  BY <1>1, <1>2, EntriesAgree
<1>4. ledger' = [ledger EXCEPT ![p] = M] BY DEF WriteEntries, Post, Posting
<1>5. job' = [job EXCEPT ![w] = Idle] /\ UNCHANGED <<gateway, queued, failures>>
  BY DEF WriteEntries
<1> HIDE DEF M
<1>6. \A q \in Payments : ledger'[q] = IF q = p THEN M ELSE ledger[q] BY <1>4 DEF LedgerInv
<1>7. ledger' = [q \in Payments |-> ledger'[q]] BY <1>4 DEF LedgerInv
<1>8. \A q \in Payments : LedgerOf(ledger'[q], gateway[q])
  <2> TAKE q \in Payments
  <2>1. LedgerOf(ledger[q], gateway[q]) BY DEF LedgerInv
  <2> QED BY <2>1, <1>3, <1>6
<1>9. \A v \in Workers : Running(job'[v], gateway)
  <2> TAKE v \in Workers
  <2>1. Running(job[v], gateway) /\ Running(Idle, gateway) BY DEF LedgerInv, Running
  <2>2. job'[v] = IF v = w THEN Idle ELSE job[v] BY <1>5 DEF LedgerInv
  <2> QED BY <2>1, <2>2
<1>10. job' = [v \in Workers |-> job'[v]] BY <1>5 DEF LedgerInv
<1>11. LedgerInv'
  <2>1. PICK g, L, b : g = gateway /\ L = ledger' /\ b = job' OBVIOUS
  <2>2. gateway' = g BY <2>1, <1>5
  <2>3. \A q \in Payments : LedgerOf(L[q], g[q]) BY <1>8, <2>1
  <2>4. \A v \in Workers : Running(b[v], g) BY <1>9, <2>1
  <2>5. \A q \in Payments : Possible(g[q]) BY <2>1 DEF LedgerInv
  <2>6. /\ g = [q \in Payments |-> g[q]] /\ L = [q \in Payments |-> L[q]] /\ b = [v \in Workers |-> b[v]]
        /\ failures' \in Nat /\ queued' \subseteq Payments
    BY <2>1, <1>5, <1>7, <1>10 DEF LedgerInv
  <2> QED BY <2>1, <2>2, <2>3, <2>4, <2>5, <2>6 DEF LedgerInv
<1> QED BY <1>1, <1>3, <1>6, <1>11

\* Every step keeps the invariant.
LEMMA LedgerStep == LedgerInv /\ [Next]_vars => LedgerInv'
<1> SUFFICES ASSUME LedgerInv, [Next]_vars PROVE LedgerInv' OBVIOUS
<1>1. ASSUME NEW p \in Payments, Webhook(p) \/ ResolveMismatch(p) PROVE LedgerInv'
  <2>1. queued' \subseteq Payments /\ UNCHANGED <<gateway, ledger, job, failures>>
    BY <1>1 DEF LedgerInv, Webhook, ResolveMismatch
  <2> QED BY <2>1, LedgerQueue
<1>2. CASE Sweep
  <2>1. queued' \subseteq Payments /\ UNCHANGED <<gateway, ledger, job, failures>>
    BY <1>2 DEF LedgerInv, Sweep
  <2> QED BY <2>1, LedgerQueue
<1>3. CASE UNCHANGED vars
  <2>1. queued' \subseteq Payments /\ UNCHANGED <<gateway, ledger, job, failures>>
    BY <1>3 DEF LedgerInv, vars
  <2> QED BY <2>1, LedgerQueue
<1>4. ASSUME NEW w \in Workers, WriteEntries(w) PROVE LedgerInv' BY <1>4, EntriesGoIn
<1> QED BY <1>1, <1>2, <1>3, <1>4, MercadoPagoMoves, JobMoves DEF Next, Work

-----------------------------------------------------------------------------
(* What the entries add up to *)

\* The sum of nothing but zeros.
LEMMA SumOfZeros ==
    ASSUME NEW S, IsFiniteSet(S), NEW f, \A x \in S : f[x] = 0
    PROVE  SumFunctionOnSet(f, S) = 0
<1> DEFINE g == [s \in SUBSET S |-> 0]
<1>1. Table(g, f, S)
  <2>1. \A s \in SUBSET S : s # {} => First(s) \in S /\ s \ {First(s)} \in SUBSET S BY FirstIn
  <2> QED BY <2>1 DEF Table, Taking
<1>2. S \in SUBSET S OBVIOUS
<1> QED BY <1>1, <1>2, SumInTable

\* The keys of the first m refunds.
RefundsUpTo(m) == {RefundOf(i) : i \in 1..m}

\* The first m refunds' entries give back no more than was given back by then,
\* and exactly that when they are all in.
LEMMA RefundsAddUp ==
    ASSUME NEW g, Possible(g), NEW L, LedgerOf(L, g), NEW m \in 0..MaxChanges
    PROVE  LET n == Len(g.refunds)
               upTo == IF m <= n THEN m ELSE n
               sum == SumFunctionOnSet(L, RefundsUpTo(m))
           IN  /\ IsFiniteSet(RefundsUpTo(m)) /\ sum \in Int
               /\ sum >= -GivenBack(g, upTo) /\ sum <= 0
               /\ (\A i \in 1..MaxChanges : L[RefundOf(i)] = IF i <= n THEN -Due(g, i) ELSE 0)
                    => sum = -GivenBack(g, upTo)
<1> DEFINE n == Len(g.refunds)
           upTo(k) == IF k <= n THEN k ELSE n
           sum(k) == SumFunctionOnSet(L, RefundsUpTo(k))
           full == \A i \in 1..MaxChanges : L[RefundOf(i)] = IF i <= n THEN -Due(g, i) ELSE 0
           Right(k) == /\ IsFiniteSet(RefundsUpTo(k)) /\ sum(k) \in Int
                       /\ sum(k) >= -GivenBack(g, upTo(k)) /\ sum(k) <= 0
                       /\ full => sum(k) = -GivenBack(g, upTo(k))
           Bad == {k \in Nat : k <= MaxChanges /\ ~Right(k)}
<1>1. n \in Nat /\ MaxChanges \in Nat BY DueTyped, LedgerConstants DEF Possible
<1>2. GivenBack(g, 0) = 0
  <2>1. 0 \in 0..Len(g.refunds) BY <1>1
  <2> QED BY <2>1, GivenGrows DEF Possible
<1>3. \A i \in 1..n : /\ Due(g, i) \in Nat /\ GivenBack(g, i) \in Int /\ GivenBack(g, i - 1) \in Int
                      /\ Due(g, i) = GivenBack(g, i) - GivenBack(g, i - 1)
  <2>1. \A i \in 1..n : Due(g, i) \in Nat /\ GivenBack(g, i - 1) \in 0..fee /\ GivenBack(g, i) \in 0..fee
    BY DueTyped DEF Possible
  <2> QED BY <2>1, LedgerConstants DEF Due
<1>4. GivenBack(g, n) \in Int
  <2>1. GivenBack(g, n) \in 0..fee BY DueTyped DEF Possible
  <2> QED BY <2>1, LedgerConstants
<1>5. ASSUME Bad # {} PROVE FALSE
  <2>1. PICK k \in Bad : \A j \in Bad : k <= j BY <1>5, SmallestOf
  <2>2. k # 0
    <3>1. RefundsUpTo(0) = {} BY DEF RefundsUpTo
    <3>2. sum(0) = 0 BY <3>1, SumOfNone
    <3>3. upTo(0) = 0 BY <1>1
    <3>4. GivenBack(g, upTo(0)) = 0 BY <3>3, <1>2
    <3>5. PICK a, b : a = sum(0) /\ b = GivenBack(g, upTo(0)) OBVIOUS
    <3>6. a \in Int /\ a >= -b /\ a <= 0 /\ a = -b BY <3>2, <3>4, <3>5
    <3>7. IsFiniteSet(RefundsUpTo(0)) BY <3>1, FS_EmptySet
    <3>8. Right(0) BY <3>5, <3>6, <3>7
    <3> QED BY <2>1, <3>8
  <2>3. k \in 1..MaxChanges /\ k - 1 \in Nat /\ k - 1 <= MaxChanges /\ ~(k <= k - 1)
    BY <2>1, <2>2, <1>1
  <2>4. Right(k - 1)
    <3>1. k - 1 \notin Bad BY ONLY <2>1, <2>3
    <3> QED BY <3>1, <2>3
  <2> DEFINE x == RefundOf(k)
             S == RefundsUpTo(k)
  <2>5. S = RefundsUpTo(k - 1) \cup {x} /\ x \notin RefundsUpTo(k - 1) /\ x \in Keys /\ S \subseteq Keys
    <3>1. 1..k = (1..(k - 1)) \cup {k} /\ k \notin 1..(k - 1) BY <2>3
    <3>2. \A i \in 1..k : RefundOf(i) \in Keys BY <2>3, <1>1, KeysAre
    <3> QED BY <3>1, <3>2, KeysAre DEF RefundsUpTo
  <2>6. IsFiniteSet(S) /\ S \ {x} = RefundsUpTo(k - 1) /\ x \in S BY <2>4, <2>5, FS_AddElement
  <2>7. \A y \in S : L[y] \in Int BY <2>5 DEF LedgerOf
  <2>8. sum(k) \in Int /\ sum(k) = L[x] + sum(k - 1)
    <3>1. SumFunctionOnSet(L, S) \in Int BY <2>6, <2>7, SumWithout
    <3>2. SumFunctionOnSet(L, S) = L[x] + SumFunctionOnSet(L, S \ {x}) BY <2>6, <2>7, SumWithout
    <3> QED BY <3>1, <3>2, <2>6
  <2>9. L[x] = 0 \/ (k <= n /\ L[x] = -Due(g, k)) BY <2>3 DEF LedgerOf
  <2>10. full => L[x] = IF k <= n THEN -Due(g, k) ELSE 0 BY <2>3
  <2>11. PICK s, s1, G, G1, d :
           /\ s = sum(k) /\ s1 = sum(k - 1) /\ d = L[x]
           /\ G = GivenBack(g, upTo(k)) /\ G1 = GivenBack(g, upTo(k - 1))
    OBVIOUS
  <2>12. /\ s1 \in Int /\ s1 >= -G1 /\ s1 <= 0 /\ (full => s1 = -G1) /\ s = d + s1 /\ s \in Int
    BY <2>4, <2>8, <2>11
  <2> HIDE DEF full
  <2>13. CASE k <= n
    <3>1. upTo(k) = k /\ upTo(k - 1) = k - 1 /\ k \in 1..n BY <2>3, <2>13, <1>1
    <3>2. Due(g, k) = G - G1 /\ G \in Int /\ G1 \in Int /\ Due(g, k) \in Nat BY <3>1, <2>11, <1>3
    <3>3. d = 0 \/ d = G1 - G BY <3>2, <2>9, <2>11
    <3>4. full => d = G1 - G BY <3>2, <2>10, <2>11, <2>13
    <3>5. s >= -G /\ s <= 0 /\ (full => s = -G) BY <2>12, <3>2, <3>3, <3>4
    <3>6. Right(k) BY <3>5, <2>6, <2>8, <2>11
    <3> QED BY <2>1, <3>6
  <2>14. CASE ~(k <= n)
    <3>1. upTo(k) = n /\ upTo(k - 1) = n BY <2>3, <2>14, <1>1
    <3>2. d = 0 /\ G = G1 /\ G \in Int BY <3>1, <2>9, <2>11, <2>14, <1>4
    <3>3. s >= -G /\ s <= 0 /\ (full => s = -G) BY <2>12, <3>2
    <3>4. Right(k) BY <3>3, <2>6, <2>8, <2>11
    <3> QED BY <2>1, <3>4
  <2> QED BY <2>13, <2>14
<1>6. m \in Nat /\ m <= MaxChanges BY <1>1
<1>7. Right(m) BY <1>5, <1>6
<1> QED BY <1>7

\* With what is left of a refund in full.
LEMMA RefundEntriesAddUp ==
    ASSUME NEW g, Possible(g), NEW L, LedgerOf(L, g)
    PROVE  LET sum == SumFunctionOnSet(L, RefundEntries)
           IN  /\ IsFiniteSet(RefundEntries) /\ sum \in -fee..0
               /\ Complete(L, g) /\ WasApproved(g)
                    => sum = IF g.status = "refunded" THEN -fee ELSE -GivenBack(g, Len(g.refunds))
<1> DEFINE n == Len(g.refunds)
           R == RefundsUpTo(MaxChanges)
           G == GivenBack(g, n)
           s == SumFunctionOnSet(L, R)
<1>1. n \in Nat /\ n <= MaxChanges /\ MaxChanges \in Nat
  <2>1. n \in Nat /\ MaxChanges \in Nat BY DueTyped, LedgerConstants DEF Possible
  <2> QED BY <2>1 DEF Possible
<1>2. G \in 0..fee /\ fee \in Nat BY DueTyped, LedgerConstants DEF Possible
<1>3. /\ IsFiniteSet(R) /\ s \in Int /\ s >= -G /\ s <= 0
      /\ Complete(L, g) /\ WasApproved(g) => s = -G
  <2>1. PICK k : k = MaxChanges OBVIOUS
  <2>2. k \in 0..MaxChanges /\ (IF k <= n THEN k ELSE n) = n BY <1>1, <2>1
  <2>3. /\ IsFiniteSet(RefundsUpTo(k)) /\ SumFunctionOnSet(L, RefundsUpTo(k)) \in Int
        /\ SumFunctionOnSet(L, RefundsUpTo(k)) >= -GivenBack(g, IF k <= n THEN k ELSE n)
        /\ SumFunctionOnSet(L, RefundsUpTo(k)) <= 0
        /\ (\A i \in 1..MaxChanges : L[RefundOf(i)] = IF i <= n THEN -Due(g, i) ELSE 0)
             => SumFunctionOnSet(L, RefundsUpTo(k)) = -GivenBack(g, IF k <= n THEN k ELSE n)
    BY <2>2, RefundsAddUp
  <2> QED BY <2>1, <2>2, <2>3 DEF Complete
<1>4. RefundEntries = R \cup {Rest} /\ Rest \notin R /\ RefundEntries \subseteq Keys
  <2>1. RefundEntries \subseteq Keys BY DEF RefundEntries
  <2>2. \A k \in Keys : k[1] \in {"refund", "rest"} <=> k = Rest \/ \E i \in 1..MaxChanges : k = RefundOf(i)
    BY DEF Keys, Rest, RefundOf
  <2> QED BY <2>1, <2>2, KeysAre DEF RefundEntries, RefundsUpTo
<1>5. IsFiniteSet(RefundEntries) /\ Rest \in RefundEntries /\ RefundEntries \ {Rest} = R
  BY <1>3, <1>4, FS_AddElement
<1>6. \A y \in RefundEntries : L[y] \in Int BY <1>4 DEF LedgerOf
<1>7. SumFunctionOnSet(L, RefundEntries) = L[Rest] + s
  <2>1. SumFunctionOnSet(L, RefundEntries) = L[Rest] + SumFunctionOnSet(L, RefundEntries \ {Rest})
    BY <1>5, <1>6, SumWithout
  <2> QED BY <2>1, <1>5
<1>8. L[Rest] = 0 \/ L[Rest] = G - fee BY DEF LedgerOf
<1>9. Complete(L, g) /\ WasApproved(g) => L[Rest] = IF g.status = "refunded" THEN G - fee ELSE 0
  BY DEF Complete
<1> HIDE DEF s, R, G
<1>10. PICK t, d : t = SumFunctionOnSet(L, RefundEntries) /\ d = L[Rest] OBVIOUS
<1>11. t = d + s /\ t \in -fee..0 BY <1>2, <1>3, <1>7, <1>8, <1>10
<1>12. Complete(L, g) /\ WasApproved(g) => t = IF g.status = "refunded" THEN -fee ELSE -G
  BY <1>2, <1>3, <1>9, <1>10, <1>11
<1> QED BY <1>5, <1>10, <1>11, <1>12 DEF G

\* Of a payment without disputes, the whole ledger.
LEMMA NetIs ==
    ASSUME NEW g, Possible(g), g.disputes = 0, NEW L, LedgerOf(L, g)
    PROVE  SumFunctionOnSet(L, Keys) = L[ChargeKey] + SumFunctionOnSet(L, RefundEntries)
<1> DEFINE s == SumFunctionOnSet(L, RefundEntries)
           A == RefundEntries \cup {ChargeKey}
           B == A \cup {Chargeback}
<1>1. IsFiniteSet(RefundEntries) /\ s \in Int
  <2>1. IsFiniteSet(RefundEntries) /\ s \in -fee..0 BY RefundEntriesAddUp
  <2> QED BY <2>1, LedgerConstants
<1>2. /\ ChargeKey \notin RefundEntries /\ Chargeback \notin A /\ Reverted \notin B
      /\ Keys = B \cup {Reverted}
  <2>1. \A k \in Keys : k[1] \in {"refund", "rest"} <=> k \notin {ChargeKey, Chargeback, Reverted}
    BY DEF Keys, ChargeKey, Chargeback, Reverted
  <2> QED BY <2>1, KeysAre DEF RefundEntries
<1>3. A \subseteq Keys /\ B \subseteq Keys BY <1>2
<1>4. IsFiniteSet(A) BY <1>1, FS_AddElement
<1>5. IsFiniteSet(B) BY <1>4, FS_AddElement
<1>6. IsFiniteSet(Keys) BY <1>2, <1>5, FS_AddElement
<1>7. \A k \in Keys : L[k] \in Int BY DEF LedgerOf
<1>8. ChargeKey \in A /\ Chargeback \in B /\ Reverted \in Keys
      /\ \A k \in A : L[k] \in Int /\ \A j \in B : L[j] \in Int
  BY <1>2, <1>3, <1>7
<1>9. A \ {ChargeKey} = RefundEntries /\ B \ {Chargeback} = A /\ Keys \ {Reverted} = B BY <1>2
<1>10. \A k \in A : L[k] \in Int BY <1>3, <1>7
<1>11. \A k \in B : L[k] \in Int BY <1>3, <1>7
<1>12. SumFunctionOnSet(L, A) = L[ChargeKey] + SumFunctionOnSet(L, A \ {ChargeKey})
       /\ SumFunctionOnSet(L, A) \in Int
  BY <1>4, <1>8, <1>10, SumWithout
<1>13. SumFunctionOnSet(L, B) = L[Chargeback] + SumFunctionOnSet(L, B \ {Chargeback})
       /\ SumFunctionOnSet(L, B) \in Int
  BY <1>5, <1>8, <1>11, SumWithout
<1>14. SumFunctionOnSet(L, Keys) = L[Reverted] + SumFunctionOnSet(L, Keys \ {Reverted})
  BY <1>6, <1>7, <1>8, SumWithout
<1>15. L[Chargeback] = 0 /\ L[Reverted] = 0 BY DEF LedgerOf
<1>16. PICK a, b, k : /\ a = SumFunctionOnSet(L, A) /\ b = SumFunctionOnSet(L, B)
                      /\ k = SumFunctionOnSet(L, Keys)
  OBVIOUS
<1>17. a = L[ChargeKey] + s /\ a \in Int BY <1>9, <1>12, <1>16
<1>18. b = 0 + a /\ b \in Int BY <1>9, <1>13, <1>15, <1>16
<1>19. k = 0 + b BY <1>9, <1>14, <1>15, <1>16
<1>20. k = a BY <1>17, <1>18, <1>19
<1> QED BY <1>16, <1>17, <1>20

\* No entry, no sum.
LEMMA NoEntries ==
    ASSUME NEW g, Possible(g), NEW L, LedgerOf(L, g), \A k \in Keys : L[k] = 0
    PROVE  SumFunctionOnSet(L, RefundEntries) = 0
<1>1. IsFiniteSet(RefundEntries) BY RefundEntriesAddUp
<1>2. \A k \in RefundEntries : L[k] = 0 BY DEF RefundEntries
<1> QED BY <1>1, <1>2, SumOfZeros

\* So it always holds.
LEMMA LedgerInvariance == Spec => []LedgerInv
BY LedgerStart, LedgerStep, PTL DEF Spec

\* The refunds in the ledger never give back more than the commission, however
\* the payment is refunded and whatever jobs repeat, overlap or come late; what
\* is kept of a payment nobody disputed is between nothing and the commission:
\* lancamentosEsperados rounds the running total once (livro.ts).
THEOREM LedgerWithinFee == Spec => []WithinFee
<1>1. LedgerInv => WithinFee
  <2> SUFFICES ASSUME LedgerInv, NEW p \in Payments
               PROVE  /\ SumFunctionOnSet(ledger[p], RefundEntries) >= -fee
                      /\ gateway[p].disputes = 0 => Net(p) \in 0..fee
    BY DEF WithinFee
  <2>1. PICK g, L : g = gateway[p] /\ L = ledger[p] OBVIOUS
  <2>2. Possible(g) /\ LedgerOf(L, g) BY <2>1 DEF LedgerInv
  <2>3. PICK s : s = SumFunctionOnSet(L, RefundEntries) OBVIOUS
  <2>4. s \in -fee..0 /\ fee \in Nat \ {0} BY <2>2, <2>3, RefundEntriesAddUp, LedgerConstants
  <2>5. ASSUME g.disputes = 0 PROVE SumFunctionOnSet(L, Keys) \in 0..fee
    <3>1. SumFunctionOnSet(L, Keys) = L[ChargeKey] + s BY <2>2, <2>3, <2>5, NetIs
    <3>2. CASE L[ChargeKey] = fee BY <3>1, <3>2, <2>4
    <3>3. CASE L[ChargeKey] # fee
      <4>1. L[ChargeKey] = 0 /\ \A k \in Keys : L[k] = 0 BY <3>3, <2>2 DEF LedgerOf
      <4>2. s = 0 BY <4>1, <2>2, <2>3, NoEntries
      <4> QED BY <3>1, <4>1, <4>2, <2>4
    <3> QED BY <3>2, <3>3
  <2> QED BY <2>1, <2>3, <2>4, <2>5 DEF Net
<1> QED BY <1>1, LedgerInvariance, PTL

\* A reconciliation that read the payment as it still is leaves in the ledger
\* what Mercado Pago keeps, however stale what the jobs before it had read
\* (conciliar, conciliacao-comissao.service.ts).
THEOREM ReconciledExactly == Spec => ReconcilesExactly
<1>1. LedgerInv /\ [Next]_vars =>
        \A w \in Workers, p \in Payments :
          /\ job[w].at = "post" /\ job'[w].at = "idle" /\ failures' = failures
          /\ job[w].payment = p /\ job[w].read = gateway[p] /\ gateway[p].disputes = 0
          => Net(p)' = Withheld(gateway[p])
  <2> SUFFICES ASSUME LedgerInv, [Next]_vars, NEW w \in Workers, NEW p \in Payments,
                      job[w].at = "post", job'[w].at = "idle", failures' = failures,
                      job[w].payment = p, job[w].read = gateway[p], gateway[p].disputes = 0
               PROVE  Net(p)' = Withheld(gateway[p])
    OBVIOUS
  <2>1. WriteEntries(w)
    <3>1. job'[w] # job[w] BY DEF Idle
    <3>2. \E v \in Workers : Work(v) \/ JobFails(v)
      BY <3>1 DEF Next, Decide, Refund, Dispute, Lose, Win, Elsewhere, Webhook, ResolveMismatch, Sweep, vars
    <3>3. PICK v \in Workers : Work(v) \/ JobFails(v) BY <3>2
    <3>4. failures \in Nat /\ job = [u \in Workers |-> job[u]] BY DEF LedgerInv
    <3>5. ~JobFails(v) BY <3>4 DEF JobFails
    <3>6. v = w
      <4>1. v # w => job'[w] = job[w] BY <3>3, <3>4, <3>5 DEF Work, Start, ReadKeys, WriteEntries
      <4> QED BY <4>1, <3>1
    <3>7. ~Start(w) /\ ~ReadKeys(w) BY DEF Start, ReadKeys
    <3> QED BY <3>3, <3>5, <3>6, <3>7 DEF Work
  <2>2. LedgerInv' /\ Complete(ledger'[p], gateway[p]) BY <2>1, EntriesGoIn
  <2>3. PICK g, L : g = gateway[p] /\ L = ledger'[p] OBVIOUS
  <2>4. gateway' = gateway BY <2>1 DEF WriteEntries
  <2>5. Possible(g) /\ LedgerOf(L, g)
    <3>1. Possible(gateway'[p]) /\ LedgerOf(ledger'[p], gateway'[p]) BY <2>2 DEF LedgerInv
    <3> QED BY <3>1, <2>3, <2>4
  <2>6. Complete(L, g) /\ g.disputes = 0 BY <2>2, <2>3
  <2>7. Net(p)' = SumFunctionOnSet(L, Keys) BY <2>3 DEF Net
  <2>8. PICK s, G : s = SumFunctionOnSet(L, RefundEntries) /\ G = GivenBack(g, Len(g.refunds))
    OBVIOUS
  <2>9. SumFunctionOnSet(L, Keys) = L[ChargeKey] + s BY <2>5, <2>6, <2>8, NetIs
  <2>10. G \in 0..fee /\ fee \in Nat BY <2>5, <2>8, DueTyped, LedgerConstants DEF Possible
  <2>11. G = Min({fee, Round(fee * RefundedUpTo(g, Len(g.refunds)), total)}) BY <2>8 DEF GivenBack
  <2>12. CASE WasApproved(g)
    <3>1. L[ChargeKey] = fee BY <2>6, <2>12 DEF Complete
    <3>2. s = IF g.status = "refunded" THEN -fee ELSE -G
      BY <2>5, <2>6, <2>8, <2>12, RefundEntriesAddUp
    <3>3. CASE g.status = "refunded"
      <4>1. Withheld(g) = 0 BY <3>3 DEF Withheld
      <4> QED BY <4>1, <3>1, <3>2, <3>3, <2>3, <2>7, <2>9, <2>10
    <3>4. CASE g.status # "refunded"
      <4>1. g.status \in {"approved", "in_mediation"}
        BY <2>5, <2>6, <2>12, <3>4 DEF WasApproved, Possible
      <4>2. Withheld(g) = fee - G BY <4>1, <2>11 DEF Withheld
      <4> QED BY <4>2, <3>1, <3>2, <3>4, <2>3, <2>7, <2>9, <2>10
    <3> QED BY <3>3, <3>4
  <2>13. CASE ~WasApproved(g)
    <3>1. \A k \in Keys : L[k] = 0 BY <2>6, <2>13 DEF Complete
    <3>2. s = 0 BY <3>1, <2>5, <2>8, NoEntries
    <3>3. Withheld(g) = 0 BY <2>13 DEF Withheld, WasApproved
    <3> QED BY <3>1, <3>2, <3>3, <2>3, <2>7, <2>9, KeysAre
  <2> QED BY <2>12, <2>13
<1> QED BY <1>1, LedgerInvariance, PTL DEF Spec, ReconcilesExactly

-----------------------------------------------------------------------------
(* "Compre junto": what the discounts take, and what the units without one *)
(* still cost, never adds up to more than the goods.                       *)

\* Cents of a share of at most the whole.
LEMMA OffWithin ==
    ASSUME NEW price \in Nat, NEW pct \in 0..100
    PROVE  Off(price, pct) \in 0..price
<1>1. price * pct \in Nat /\ price * pct <= price * 100 OBVIOUS
<1>2. (price * 100) \div 100 = price OBVIOUS
<1>3. PICK a \in Nat : a = price * pct /\ a <= price * 100 BY <1>1
<1>4. a \div 100 \in Nat /\ a \div 100 <= price BY <1>3, <1>2
<1> QED BY <1>3, <1>4 DEF Off

\* What the units left would cost.
Worth(lines, left) == SumOver(DOMAIN lines, LAMBDA i : lines[i].price * left[i])

\* acc, what some principals have discounted, leaves the goods at what they cost or above.
Fair(lines, acc) ==
    /\ acc.left \in [DOMAIN lines -> Nat] /\ acc.cents \in Nat
    /\ \A i \in DOMAIN lines : acc.left[i] <= lines[i].quantity
    /\ acc.cents + Worth(lines, acc.left) <= Subtotal(lines)

\* The turn of the last of the principals in s, after those before it.
Turn(lines, g, s) ==
    IF s = {} THEN NoneYet(lines) ELSE Discounting(lines, LastOf(s), g[s \ {LastOf(s)}])

\* What is known of the constants.
LEMMA PriceConstants ==
    /\ \A l \in BagLines : l.price \in Nat /\ l.quantity \in Nat
    /\ Freight \in Nat /\ \A c \in Coupons : c.value \in Nat
    /\ IsFiniteSet(DOMAIN Rules) /\ \A p \in DOMAIN Rules : Rules[p].pct \in Nat
    /\ Percents \subseteq Nat /\ IsFiniteSet(Charges)
BY PricesAreCents DEF PricesAreCents

\* A line has a price and a quantity.
LEMMA LinesAre ==
    ASSUME NEW lines, lines \in Seq(BagLines)
    PROVE  /\ IsFiniteSet(DOMAIN lines)
           /\ \A i \in DOMAIN lines : lines[i].price \in Nat /\ lines[i].quantity \in Nat
<1>1. Len(lines) \in Nat /\ DOMAIN lines = 1..Len(lines) OBVIOUS
<1>2. \A i \in DOMAIN lines : lines[i] \in BagLines BY <1>1
<1> QED BY <1>1, <1>2, FS_Interval, PriceConstants

\* Units of a product are counted.
LEMMA UnitsTyped ==
    ASSUME NEW lines, lines \in Seq(BagLines), NEW p
    PROVE  Units(lines, p) \in Nat
<1> DEFINE S == {i \in DOMAIN lines : lines[i].product = p}
           f == [i \in S |-> lines[i].quantity]
<1>1. IsFiniteSet(S) BY LinesAre, FS_Subset
<1>2. \A i \in S : f[i] \in Nat BY LinesAre
<1>3. SumFunctionOnSet(f, S) \in Nat BY <1>1, <1>2, SumOfNaturals
<1> QED BY <1>3 DEF Units, SumOver

\* A turn uses units there are.
LEMMA UsedWithin ==
    ASSUME NEW lines, lines \in Seq(BagLines), NEW left, left \in [DOMAIN lines -> Nat], NEW p
    PROVE  \A i \in DOMAIN lines : Used(lines, left, p)[i] \in 0..left[i]
<1> TAKE i \in DOMAIN lines
<1> DEFINE S == {j \in DOMAIN lines : Dearer(lines, j, i)}
           f == [j \in S |-> left[j]]
<1>1. IsFiniteSet(S) BY LinesAre, FS_Subset
<1>2. \A j \in S : f[j] \in Nat OBVIOUS
<1>3. SumFunctionOnSet(f, S) \in Nat BY <1>1, <1>2, SumOfNaturals
<1>4. PICK a : a = SumOver(S, LAMBDA j : left[j]) OBVIOUS
<1>5. a \in Nat BY <1>3, <1>4 DEF SumOver
<1>6. Units(lines, p) \in Nat /\ left[i] \in Nat BY UnitsTyped
<1>7. PICK b : b = NotBelowZero(Units(lines, p) - a) OBVIOUS
<1>8. b \in Nat BY <1>5, <1>6, <1>7 DEF NotBelowZero
<1>9. Used(lines, left, p)[i] = IF lines[i].product \in Rules[p].with \ {p} THEN Least(left[i], b) ELSE 0
  BY <1>4, <1>7 DEF Used
<1> QED BY <1>6, <1>8, <1>9 DEF Least

\* A turn pays for its discounts with the units it uses up.
LEMMA TurnIsFair ==
    ASSUME NEW lines, lines \in Seq(BagLines), NEW acc, Fair(lines, acc), NEW p \in DOMAIN Rules
    PROVE  Fair(lines, Discounting(lines, p, acc))
<1> DEFINE D == DOMAIN lines
           used == Used(lines, acc.left, p)
           now == NowLeft(acc.left, used)
           f == [i \in D |-> Off(lines[i].price, Pct(p)) * used[i]]
           h == [i \in D |-> lines[i].price * now[i]]
           k == [i \in D |-> lines[i].price * acc.left[i]]
<1>1. acc.left \in [D -> Nat] /\ acc.cents \in Nat BY DEF Fair
<1>2. \A i \in D : used[i] \in 0..acc.left[i] BY <1>1, UsedWithin
<1>3. Pct(p) \in 0..100
  <2>1. PICK x \in Nat : x = Rules[p].pct BY PriceConstants
  <2>2. Pct(p) = IF x < 30 THEN x ELSE 30 BY <2>1 DEF Pct, Least, MaxComboPct
  <2> QED BY <2>2
<1> HIDE DEF used
<1>4. now = [i \in D |-> acc.left[i] - used[i]] BY <1>1 DEF NowLeft
<1>5. now \in [D -> Nat] BY <1>1, <1>2, <1>4
<1>6. \A i \in D : now[i] <= lines[i].quantity BY <1>1, <1>2, <1>4, LinesAre DEF Fair
<1>7. ASSUME NEW i \in D PROVE f[i] \in Nat /\ h[i] \in Int /\ k[i] \in Int /\ f[i] + h[i] <= k[i]
  <2>1. PICK a, b, u, l : /\ a = lines[i].price /\ b = Off(lines[i].price, Pct(p))
                          /\ u = used[i] /\ l = acc.left[i]
    OBVIOUS
  <2>2. a \in Nat /\ l \in Nat /\ u \in 0..l /\ now[i] = l - u BY <1>1, <1>2, <1>4, <2>1, LinesAre
  <2>3. b \in 0..a BY <1>3, <2>1, <2>2, OffWithin
  <2>4. f[i] = b * u /\ h[i] = a * (l - u) /\ k[i] = a * l BY <2>1, <2>2
  <2>5. b * u \in Nat /\ b * u <= a * u /\ a * (l - u) = a * l - a * u BY <2>2, <2>3
  <2>6. a * l \in Int /\ a * u \in Int BY <2>2
  <2> QED BY <2>4, <2>5, <2>6
<1> DEFINE sf == SumFunctionOnSet(f, D)
           sh == SumFunctionOnSet(h, D)
           sk == SumFunctionOnSet(k, D)
<1> HIDE DEF f, h, k, now
<1>8. IsFiniteSet(D) BY LinesAre
<1>9. sf \in Nat BY <1>7, <1>8, SumOfNaturals
<1>10. sf + sh <= sk
  <2>1. \A i \in D : f[i] \in Int /\ h[i] \in Int /\ k[i] \in Int /\ f[i] + h[i] <= k[i] BY <1>7
  <2> QED BY <2>1, <1>8, SumsWithin
<1>11. sh \in Int /\ sk \in Int
  <2>1. (\A i \in D : h[i] \in Int) /\ (\A i \in D : k[i] \in Int) BY <1>7
  <2> QED BY <2>1, <1>8, SumWithout
<1>12. Worth(lines, now) = sh /\ Worth(lines, acc.left) = sk BY DEF Worth, SumOver, h, k
<1>13. Discounting(lines, p, acc).left = now /\ Discounting(lines, p, acc).cents = acc.cents + sf
  BY DEF Discounting, SumOver, f, now, used
<1>14. Subtotal(lines) \in Int
  <2> DEFINE t == [i \in D |-> lines[i].price * lines[i].quantity]
  <2>1. \A i \in D : t[i] \in Int BY LinesAre
  <2>2. SumFunctionOnSet(t, D) \in Int BY <1>8, <2>1, SumWithout
  <2> QED BY <2>2 DEF Subtotal, SumOver
<1>15. acc.cents + sk <= Subtotal(lines) BY <1>12 DEF Fair
<1>16. acc.cents + sf + sh <= Subtotal(lines) /\ acc.cents + sf \in Nat
  <2> HIDE DEF sf, sh, sk
  <2> QED BY <1>1, <1>9, <1>10, <1>11, <1>14, <1>15
<1> QED BY <1>5, <1>6, <1>12, <1>13, <1>16 DEF Fair

\* g is what the turns of some of the principals of S make.
Turns(lines, g, S, n) ==
    /\ g = [s \in SUBSET S |-> g[s]]
    /\ \A s \in SUBSET S : Cardinality(s) <= n => g[s] = Turn(lines, g, s)

\* The principal that comes last is one of them.
LEMMA LastIn ==
    ASSUME NEW s \in SUBSET DOMAIN Rules, s # {}
    PROVE  LastOf(s) \in s /\ IsFiniteSet(s) /\ Cardinality(s) \in Nat \ {0}
           /\ IsFiniteSet(s \ {LastOf(s)}) /\ Cardinality(s \ {LastOf(s)}) = Cardinality(s) - 1
<1> DEFINE P == {Rules[p].pct : p \in s}
<1>1. P \subseteq Nat /\ P # {} BY PriceConstants
<1>2. PICK m \in P : \A q \in P : m <= q BY <1>1, SmallestOf
<1>3. \E p \in s : \A q \in s : Rules[p].pct <= Rules[q].pct BY <1>2
<1>4. LastOf(s) \in s BY <1>3 DEF LastOf
<1>5. IsFiniteSet(s) /\ Cardinality(s) \in Nat /\ Cardinality(s) # 0
  BY PriceConstants, FS_Subset, FS_CardinalityType, FS_EmptySet
<1> QED BY <1>4, <1>5, FS_RemoveElement

\* Turns of any number of principals can be taken.
LEMMA TurnsExist ==
    ASSUME NEW lines, NEW S \in SUBSET DOMAIN Rules
    PROVE  \A n \in Nat : \E g : Turns(lines, g, S, n)
<1> DEFINE Bad == {n \in Nat : ~\E g : Turns(lines, g, S, n)}
<1> SUFFICES ASSUME Bad # {} PROVE FALSE OBVIOUS
<1>1. PICK n \in Bad : \A m \in Bad : n <= m BY SmallestOf
<1>2. n # 0
  <2> SUFFICES ASSUME n = 0 PROVE FALSE OBVIOUS
  <2> DEFINE g == [s \in SUBSET S |-> NoneYet(lines)]
  <2>1. ASSUME NEW s \in SUBSET S, Cardinality(s) <= 0 PROVE s = {}
    <3> SUFFICES ASSUME s # {} PROVE FALSE OBVIOUS
    <3>1. Cardinality(s) \in Nat \ {0} BY LastIn
    <3> QED BY <2>1, <3>1
  <2>2. g = [s \in SUBSET S |-> g[s]] /\ \A s \in SUBSET S : g[s] = NoneYet(lines) OBVIOUS
  <2> HIDE DEF g
  <2>3. \A s \in SUBSET S : Cardinality(s) <= 0 => g[s] = Turn(lines, g, s) BY <2>1, <2>2 DEF Turn
  <2>4. Turns(lines, g, S, 0) BY <2>2, <2>3 DEF Turns
  <2> QED BY <2>4
<1>3. n - 1 \in Nat /\ n - 1 \notin Bad BY <1>1, <1>2
<1>4. PICK g : Turns(lines, g, S, n - 1) BY <1>3
<1> DEFINE h == [s \in SUBSET S |-> Turn(lines, g, s)]
<1>5. ASSUME NEW s \in SUBSET S, Cardinality(s) <= n PROVE h[s] = Turn(lines, h, s)
  <2>1. CASE s = {} BY <2>1 DEF Turn
  <2>2. CASE s # {}
    <3> DEFINE r == s \ {LastOf(s)}
    <3>1. r \in SUBSET S /\ Cardinality(r) = Cardinality(s) - 1 /\ Cardinality(s) \in Nat
      BY <2>2, LastIn
    <3>2. Cardinality(r) <= n - 1 BY <3>1, <1>5
    <3>3. g[r] = Turn(lines, g, r) BY <1>4, <3>1, <3>2 DEF Turns
    <3>4. h[r] = g[r] BY <3>1, <3>3
    <3>5. h[s] = Turn(lines, g, s) OBVIOUS
    <3> HIDE DEF h
    <3> QED BY <2>2, <3>4, <3>5 DEF Turn
  <2> QED BY <2>1, <2>2
<1>6. h = [s \in SUBSET S |-> h[s]] OBVIOUS
<1> HIDE DEF h
<1>7. Turns(lines, h, S, n) BY <1>5, <1>6 DEF Turns
<1> QED BY <1>1, <1>7

\* The function that the fold over the principals is defined by.
AllTurns(lines, S) == CHOOSE h : h = [s \in SUBSET S |-> Turn(lines, h, s)]

\* The discount of the combo is what that function ends with.
LEMMA ComboIsTurns ==
    ASSUME NEW lines
    PROVE  Combo(lines) = AllTurns(lines, Principals(lines))[Principals(lines)].cents
BY DEF Combo, MapThenFoldSet, AllTurns, Turn

\* There is such a function.
LEMMA AllTurnsIs ==
    ASSUME NEW lines, NEW S \in SUBSET DOMAIN Rules
    PROVE  AllTurns(lines, S) = [s \in SUBSET S |-> Turn(lines, AllTurns(lines, S), s)]
<1>1. Cardinality(S) \in Nat BY PriceConstants, FS_Subset, FS_CardinalityType
<1>2. PICK g : Turns(lines, g, S, Cardinality(S)) BY <1>1, TurnsExist
<1>3. \A s \in SUBSET S : Cardinality(s) <= Cardinality(S) BY PriceConstants, FS_Subset
<1>4. g = [s \in SUBSET S |-> Turn(lines, g, s)] BY <1>2, <1>3 DEF Turns
<1> QED BY <1>4 DEF AllTurns

\* The discount of the combo stays within the goods.
LEMMA ComboWithin ==
    ASSUME NEW lines, lines \in Seq(BagLines)
    PROVE  Subtotal(lines) \in Nat /\ Combo(lines) \in 0..Subtotal(lines)
<1> DEFINE D == DOMAIN lines
           cost == [i \in D |-> lines[i].price * lines[i].quantity]
           S == Principals(lines)
<1>1. IsFiniteSet(D) BY LinesAre
<1>2. \A i \in D : cost[i] \in Nat BY LinesAre
<1>3. Subtotal(lines) \in Nat
  <2>1. SumFunctionOnSet(cost, D) \in Nat BY <1>1, <1>2, SumOfNaturals
  <2> QED BY <2>1 DEF Subtotal, SumOver
<1>4. S \in SUBSET DOMAIN Rules BY DEF Principals
<1>5. Fair(lines, NoneYet(lines))
  <2> DEFINE left == [i \in D |-> lines[i].quantity]
  <2>1. left \in [D -> Nat] /\ \A i \in D : left[i] = lines[i].quantity BY LinesAre
  <2>2. NoneYet(lines).left = left /\ NoneYet(lines).cents = 0 BY DEF NoneYet
  <2> HIDE DEF left
  <2>3. [i \in D |-> lines[i].price * left[i]] = cost BY <2>1
  <2>4. Worth(lines, left) = Subtotal(lines) BY <2>3 DEF Worth, Subtotal, SumOver
  <2>5. \A i \in D : left[i] <= lines[i].quantity BY <2>1, LinesAre
  <2> QED BY <1>3, <2>1, <2>2, <2>4, <2>5 DEF Fair
<1>6. PICK g : g = AllTurns(lines, S) OBVIOUS
<1> HIDE DEF S
<1>7. g = [s \in SUBSET S |-> Turn(lines, g, s)]
  <2>1. AllTurns(lines, S) = [s \in SUBSET S |-> Turn(lines, AllTurns(lines, S), s)]
    BY <1>4, AllTurnsIs
  <2> QED BY ONLY <2>1, <1>6
<1> DEFINE Bad == {n \in Nat : \E s \in SUBSET S : Cardinality(s) = n /\ ~Fair(lines, g[s])}
<1>8. ASSUME Bad # {} PROVE FALSE
  <2>1. PICK n \in Bad : \A m \in Bad : n <= m BY <1>8, SmallestOf
  <2>2. PICK s \in SUBSET S : Cardinality(s) = n /\ ~Fair(lines, g[s]) BY <2>1
  <2>3. g[s] = Turn(lines, g, s) BY <1>7
  <2>4. s # {} BY <2>2, <2>3, <1>5 DEF Turn
  <2> DEFINE r == s \ {LastOf(s)}
  <2>5. LastOf(s) \in s /\ Cardinality(r) = n - 1 /\ n \in Nat \ {0} BY <1>4, <2>2, <2>4, LastIn
  <2>6. r \in SUBSET S /\ LastOf(s) \in DOMAIN Rules BY <1>4, <2>5
  <2>7. Fair(lines, g[r]) BY <2>1, <2>5, <2>6
  <2>8. g[s] = Discounting(lines, LastOf(s), g[r]) BY <2>3, <2>4 DEF Turn
  <2>9. Fair(lines, Discounting(lines, LastOf(s), g[r])) BY <2>6, <2>7, TurnIsFair
  <2> QED BY <2>2, <2>8, <2>9
<1>9. Fair(lines, g[S])
  <2>1. Cardinality(S) \in Nat BY <1>4, PriceConstants, FS_Subset, FS_CardinalityType
  <2>2. Cardinality(S) \notin Bad BY <1>8
  <2>3. S \in SUBSET S OBVIOUS
  <2> QED BY <2>1, <2>2, <2>3
<1>10. Combo(lines) = g[S].cents BY <1>6, ComboIsTurns DEF S
<1>11. PICK acc : acc = g[S] OBVIOUS
<1>12. Fair(lines, acc) /\ Combo(lines) = acc.cents BY <1>9, <1>10, <1>11
<1> DEFINE dear == [i \in D |-> lines[i].price * acc.left[i]]
<1>13. Worth(lines, acc.left) \in Nat
  <2>1. \A i \in D : dear[i] \in Nat
    <3> TAKE i \in D
    <3>1. lines[i].price \in Nat /\ acc.left[i] \in Nat BY <1>12, LinesAre DEF Fair
    <3> QED BY <3>1
  <2>2. SumFunctionOnSet(dear, D) \in Nat BY <1>1, <2>1, SumOfNaturals
  <2> QED BY <2>2 DEF Worth, SumOver
<1> QED BY <1>3, <1>12, <1>13 DEF Fair

-----------------------------------------------------------------------------
(* The checkout and the discount for Pix *)

\* computeDiscount: a coupon takes at most the goods.
LEMMA CouponWithin ==
    ASSUME NEW c \in Coupons, NEW goods \in Nat
    PROVE  CouponDiscount(c, goods) \in 0..goods
<1>1. PICK v \in Nat : v = c.value BY PriceConstants
<1>2. PICK a : a = (goods * v + 50) \div 100 OBVIOUS
<1>3. a \in Nat
  <2>1. goods * v + 50 \in Nat OBVIOUS
  <2>2. PICK b \in Nat : b = goods * v + 50 BY <2>1
  <2> QED BY <2>2, <1>2
<1>4. Least(a, goods) \in 0..goods /\ Least(v, goods) \in 0..goods BY <1>3 DEF Least
<1>5. CouponDiscount(c, goods) \in {Least(a, goods), Least(v, goods), 0}
  BY <1>1, <1>2 DEF CouponDiscount
<1> QED BY <1>4, <1>5

\* descontoPixCentavos: the discount for Pix takes at most what the goods still cost.
LEMMA PixWithin ==
    ASSUME NEW row, row.subtotal \in Int, row.discount \in Int, row.discount <= row.subtotal,
           NEW pct \in Nat
    PROVE  PixDiscount(row, pct) \in 0..(row.subtotal - row.discount)
<1>1. PICK a \in Nat : a = row.subtotal - row.discount OBVIOUS
<1>2. NotBelowZero(row.subtotal - row.discount) = a BY <1>1 DEF NotBelowZero
<1>3. Least(pct, 50) \in 0..100 BY DEF Least
<1> QED BY <1>1, <1>2, <1>3, OffWithin DEF PixDiscount

-----------------------------------------------------------------------------
(* The order's amounts and its payments                                     *)

\* A payment that brought money, and an order that was paid to the cent.
Paid(c) == c.at \in {"approved", "refunded"}
NearlyPaid(a, ch) == \E p \in Charges : Paid(ch[p]) /\ a.total - ch[p].amount \in {0, 1}

\* The order's row, field by field.
Row(m, s, d, t, o, ap, c, r) ==
    [made |-> m, subtotal |-> s, discount |-> d, total |-> t,
     offer |-> o, applied |-> ap, confirmed |-> c, refunded |-> r]

\* What the discounts leave of the goods, the one on offer included.
Amounted(a) ==
    /\ a = Row(a.made, a.subtotal, a.discount, a.total, a.offer, a.applied, a.confirmed, a.refunded)
    /\ a.made \in BOOLEAN /\ a.subtotal \in Int /\ a.discount \in Int
    /\ a.total \in Int /\ a.offer \in Nat
    /\ a.discount <= a.subtotal
    /\ ~a.applied => a.offer <= a.subtotal - a.discount

\* A payment as Mercado Pago has it.
Charged(c) == c = Charge(c.at, c.pix, c.amount, c.refund) /\ c.pix \in BOOLEAN /\ c.amount \in Int

\* No discount under way is more than what the goods still cost.
Calling(j, a) ==
    /\ j = Call(j.at, j.total, j.off, j.pix, j.then)
    /\ j.off \in Nat /\ j.total \in Int /\ j.pix \in BOOLEAN
    /\ ~a.applied => j.off <= a.subtotal - a.discount

\* What was asked: the total, and for Pix the total less the discount, which the
\* order's row has by then.
AskedOf(c, a, O) ==
    c.at # "none" => /\ c.amount = a.total - (IF c.pix THEN O ELSE 0)
                     /\ c.pix /\ O > 0 => a.offer = O

\* While the percentage stays as it was at the checkout: what was paid, and what
\* was asked.
Kept(a, pct, ch) ==
    /\ a.applied => \E p \in Charges : Paid(ch[p]) /\ ch[p].amount = a.total
    /\ a.confirmed /\ ~a.applied => NearlyPaid(a, ch)
    /\ ~a.applied => a.offer \in {0, PixDiscount(a, pct)}
    /\ ~a.applied => \A p \in Charges : AskedOf(ch[p], a, PixDiscount(a, pct))

\* And what a call that is at work on it knows.
Knows(j, a, pct, ch) ==
    /\ j.at = "offer" => j.pix
    /\ j.at \in {"offer", "post"} =>
         j.total = a.total /\ j.off = IF j.pix THEN PixDiscount(a, pct) ELSE 0
    /\ j.at = "post" /\ j.pix /\ j.off > 0 => a.offer = j.off
    /\ j.at = "confirm" => NearlyPaid(a, ch)
    /\ j.at = "apply" => \E p \in Charges : Paid(ch[p]) /\ ch[p].amount = a.total - j.off

\* Nothing has happened before the checkout.
Before(a, ch, js) ==
    /\ a = Amounts(FALSE, 0, 0, 0) /\ \A p \in Charges : ch[p].at = "none"
    /\ \A h \in Calls : js[h] = NoPay

\* The inductive invariant of the prices.
PriceInv ==
    /\ basket \in Seq(BagLines) /\ percent \in Nat /\ changed \in BOOLEAN
    /\ charge = [p \in Charges |-> charge[p]] /\ paying = [h \in Calls |-> paying[h]]
    /\ Amounted(amounts)
    /\ \A p \in Charges : Charged(charge[p])
    /\ \A h \in Calls : Calling(paying[h], amounts)
    /\ ~amounts.made => ~changed /\ Before(amounts, charge, paying)
    /\ turned # {} => changed \/ amounts.applied
    /\ ~changed => Kept(amounts, percent, charge)
    /\ ~changed /\ ~amounts.applied => \A h \in Calls : Knows(paying[h], amounts, percent, charge)

-----------------------------------------------------------------------------
(* Every step of the payments *)

\* It holds at the start.
LEMMA PricesStart == PricesInit => PriceInv
<1> SUFFICES ASSUME PricesInit PROVE PriceInv OBVIOUS
<1> USE DEF PricesInit
<1>1. PICK a : a = amounts OBVIOUS
<1>2. a = Amounts(FALSE, 0, 0, 0) BY <1>1
<1>3. /\ a.made = FALSE /\ a.subtotal = 0 /\ a.discount = 0 /\ a.total = 0 /\ a.offer = 0
      /\ a.applied = FALSE /\ a.confirmed = FALSE /\ a.refunded = FALSE
  BY <1>2 DEF Amounts
<1>4. Amounted(a) BY <1>2, <1>3 DEF Amounted, Amounts, Row
<1>5. ASSUME NEW p \in Charges PROVE Charged(charge[p]) /\ charge[p].at = "none"
  <2>1. PICK c : c = charge[p] OBVIOUS
  <2>2. c = Charge("none", FALSE, 0, 0) BY <2>1
  <2>3. c.at = "none" /\ c.pix \in BOOLEAN /\ c.amount = 0 /\ c.refund = 0 BY <2>2 DEF Charge
  <2>4. c = Charge(c.at, c.pix, c.amount, c.refund) BY <2>2 DEF Charge
  <2>5. Charged(c) BY <2>3, <2>4 DEF Charged
  <2> QED BY <2>1, <2>3, <2>5
<1>6. ASSUME NEW h \in Calls PROVE Calling(paying[h], a) /\ paying[h] = NoPay /\ paying[h].at = "idle"
  <2>1. PICK j : j = paying[h] OBVIOUS
  <2>2. j = NoPay BY <2>1
  <2>3. j.at = "idle" /\ j.total = 0 /\ j.off = 0 /\ j.pix \in BOOLEAN /\ j.then = "nothing"
    BY <2>2 DEF NoPay, Call
  <2>4. j = Call(j.at, j.total, j.off, j.pix, j.then) BY <2>2 DEF NoPay, Call
  <2>5. Calling(j, a) BY <2>3, <2>4, <1>3 DEF Calling
  <2> QED BY <2>1, <2>2, <2>3, <2>5
<1>7. Before(a, charge, paying) BY <1>2, <1>5, <1>6 DEF Before
<1>8. Kept(a, percent, charge) BY <1>3, <1>5 DEF Kept, AskedOf
<1>9. ASSUME NEW h \in Calls PROVE Knows(paying[h], a, percent, charge) BY <1>6 DEF Knows
<1>10. percent \in Nat BY PriceConstants
<1>11. basket \in Seq(BagLines) OBVIOUS
<1> QED BY <1>1, <1>3, <1>4, <1>5, <1>6, <1>7, <1>8, <1>9, <1>10, <1>11 DEF PriceInv

\* A step of a call that leaves the payments alone.
LEMMA CallMoves ==
    ASSUME PriceInv, NEW h \in Calls, NEW j, NEW a,
           amounts.made, a.made, Amounted(a), amounts.applied => a.applied,
           \A g \in Calls : Calling(paying[g], amounts) => Calling(paying[g], a),
           Calling(j, a), ~changed => Kept(a, percent, charge),
           ~changed /\ ~a.applied => Knows(j, a, percent, charge),
           ~changed /\ ~a.applied => \A g \in Calls :
               Knows(paying[g], amounts, percent, charge) => Knows(paying[g], a, percent, charge),
           turned' # {} => changed \/ a.applied,
           amounts' = a, paying' = [paying EXCEPT ![h] = j],
           UNCHANGED <<basket, percent, charge, changed>>
    PROVE  PriceInv'
<1>1. PICK js : js = paying' OBVIOUS
<1>2. \A g \in Calls : js[g] = IF g = h THEN j ELSE paying[g] BY <1>1 DEF PriceInv
<1>3. js = [g \in Calls |-> js[g]] BY <1>1 DEF PriceInv
<1>4. ASSUME NEW g \in Calls PROVE Calling(js[g], a) BY <1>2 DEF PriceInv
<1>5. ASSUME ~changed, ~a.applied, NEW g \in Calls PROVE Knows(js[g], a, percent, charge)
  <2>1. Knows(paying[g], amounts, percent, charge) BY <1>5 DEF PriceInv
  <2> QED BY <2>1, <1>2, <1>5
<1>6. PICK ch, b, pct, cd : ch = charge /\ b = basket /\ pct = percent /\ (cd <=> changed) OBVIOUS
<1>7. charge' = ch /\ basket' = b /\ percent' = pct /\ (changed' <=> cd) BY <1>6
<1>8. /\ b \in Seq(BagLines) /\ pct \in Nat /\ changed' \in BOOLEAN
      /\ ch = [p \in Charges |-> ch[p]] /\ \A p \in Charges : Charged(ch[p])
  BY <1>6 DEF PriceInv
<1>9. ~cd => Kept(a, pct, ch) BY <1>6
<1>10. ~cd /\ ~a.applied => \A g \in Calls : Knows(js[g], a, pct, ch) BY <1>5, <1>6
<1>11. turned' # {} => cd \/ a.applied BY <1>6
<1> QED BY <1>1, <1>3, <1>4, <1>7, <1>8, <1>9, <1>10, <1>11 DEF PriceInv

\* A step that leaves the order's row alone.
LEMMA JustCall ==
    ASSUME PriceInv, NEW h \in Calls, NEW j, amounts.made, Calling(j, amounts),
           ~changed /\ ~amounts.applied => Knows(j, amounts, percent, charge),
           turned' # {} => changed \/ amounts.applied,
           paying' = [paying EXCEPT ![h] = j],
           UNCHANGED <<basket, amounts, percent, charge, changed>>
    PROVE  PriceInv'
<1>1. PICK a : a = amounts OBVIOUS
<1>2. Amounted(a) /\ (~changed => Kept(a, percent, charge)) BY <1>1 DEF PriceInv
<1>3. amounts' = a /\ a.made /\ Calling(j, a) BY <1>1
<1> QED BY <1>1, <1>2, <1>3, CallMoves

\* A call that ended knows nothing.
LEMMA EndedCall ==
    ASSUME PriceInv
    PROVE  Calling(NoPay, amounts) /\ Knows(NoPay, amounts, percent, charge)
<1>1. /\ NoPay.at = "idle" /\ NoPay.total = 0 /\ NoPay.off = 0 /\ NoPay.pix \in BOOLEAN
      /\ NoPay.then = "nothing"
  BY DEF NoPay, Call
<1>2. NoPay = Call(NoPay.at, NoPay.total, NoPay.off, NoPay.pix, NoPay.then) BY DEF NoPay, Call
<1>3. ~amounts.applied => 0 <= amounts.subtotal - amounts.discount
  BY DEF PriceInv, Amounted
<1> HIDE DEF NoPay
<1>4. Calling(NoPay, amounts) BY <1>1, <1>2, <1>3 DEF Calling
<1>5. Knows(NoPay, amounts, percent, charge) BY <1>1 DEF Knows
<1> QED BY <1>4, <1>5

\* The fields of a call.
LEMMA CallHas ==
    ASSUME NEW at, NEW n, NEW off, NEW pix, NEW then, NEW j, j = Call(at, n, off, pix, then)
    PROVE  j.at = at /\ j.total = n /\ j.off = off /\ j.pix = pix /\ j.then = then
           /\ \A x : [j EXCEPT !.at = x] = Call(x, n, off, pix, then)
BY DEF Call

\* A handler at work has an order.
LEMMA AtWork ==
    ASSUME PriceInv, NEW h \in Calls, paying[h].at # "idle"
    PROVE  amounts.made
<1>1. NoPay.at = "idle" BY DEF NoPay, Call
<1>2. ~amounts.made => paying[h] = NoPay BY DEF PriceInv, Before
<1> QED BY <1>1, <1>2

\* A call that is refused or dies.
LEMMA JustEnds ==
    ASSUME PriceInv, NEW h \in Calls, Refused(h) \/ CallDies(h) PROVE PriceInv'
<1>1. amounts.made BY AtWork DEF Refused, CallDies
<1>2. turned' # {} => changed \/ amounts.applied BY DEF PriceInv, Refused, CallDies
<1> QED BY <1>1, <1>2, EndedCall, JustCall DEF Refused, CallDies, Ends

\* processBrickPayment reads the order and offers the discount.
LEMMA PayStarts ==
    ASSUME PriceInv, NEW h \in Calls, StartPay(h) PROVE PriceInv'
<1>1. amounts.made /\ UNCHANGED <<basket, amounts, percent, charge, changed, turned>>
  BY DEF StartPay, Enters
<1>2. PICK pix \in BOOLEAN :
        paying' = [paying EXCEPT ![h] =
            Call(IF (IF pix THEN PixDiscount(amounts, percent) ELSE 0) > 0 THEN "offer" ELSE "post",
                 amounts.total, IF pix THEN PixDiscount(amounts, percent) ELSE 0, pix, "nothing")]
  BY DEF StartPay
<1>3. PICK off, at : /\ off = (IF pix THEN PixDiscount(amounts, percent) ELSE 0)
                     /\ at = (IF off > 0 THEN "offer" ELSE "post")
  OBVIOUS
<1>4. PICK j : j = Call(at, amounts.total, off, pix, "nothing") OBVIOUS
<1>5. /\ j.at = at /\ j.total = amounts.total /\ j.off = off /\ (j.pix <=> pix) /\ j.pix \in BOOLEAN
      /\ j = Call(j.at, j.total, j.off, j.pix, j.then)
  BY <1>4 DEF Call
<1>6. Amounted(amounts) /\ percent \in Nat BY DEF PriceInv
<1>7. PixDiscount(amounts, percent) \in 0..(amounts.subtotal - amounts.discount)
  BY <1>6, PixWithin DEF Amounted
<1>8. off \in Nat /\ off <= amounts.subtotal - amounts.discount BY <1>3, <1>6, <1>7 DEF Amounted
<1>9. Calling(j, amounts) BY <1>5, <1>6, <1>8 DEF Calling, Amounted
<1>10. Knows(j, amounts, percent, charge)
  <2>1. off = IF j.pix THEN PixDiscount(amounts, percent) ELSE 0 BY <1>3, <1>5
  <2>2. at = "offer" => off > 0 BY <1>3
  <2>3. at = "offer" => j.pix BY <2>2, <1>3, <1>5
  <2>4. at = "post" => ~(off > 0) BY <1>3
  <2>5. at \in {"offer", "post"} BY <1>3
  <2> QED BY <1>5, <2>1, <2>3, <2>4, <2>5 DEF Knows
<1>11. turned' # {} => changed \/ amounts.applied BY <1>1 DEF PriceInv
<1>12. paying' = [paying EXCEPT ![h] = j] BY <1>2, <1>3, <1>4
<1> QED BY <1>1, <1>9, <1>10, <1>11, <1>12, JustCall

\* What the webhook's UPDATE changes of the row.
WithDiscount(a, y, z) == [a EXCEPT !.applied = TRUE, !.discount = y, !.total = z]

\* The fields it leaves.
LEMMA DiscountHas ==
    ASSUME NEW r, NEW y, NEW z, NEW a, Amounted(r), a = WithDiscount(r, y, z)
    PROVE  /\ a.made = r.made /\ a.subtotal = r.subtotal /\ a.discount = y /\ a.total = z
           /\ a.offer = r.offer /\ a.applied
           /\ a = Row(a.made, a.subtotal, a.discount, a.total, a.offer, a.applied, a.confirmed, a.refunded)
<1>1. PICK m, s, d, t, o, ap, c, f : r = Row(m, s, d, t, o, ap, c, f) BY DEF Amounted
<1>2. PICK b : b = [r EXCEPT !.applied = TRUE] OBVIOUS
<1>3. PICK e : e = [b EXCEPT !.discount = y] OBVIOUS
<1>4. PICK g : g = [e EXCEPT !.total = z] OBVIOUS
<1>5. a = g BY ONLY <1>2, <1>3, <1>4, a = WithDiscount(r, y, z) DEF WithDiscount
<1>6. b = Row(m, s, d, t, o, TRUE, c, f) BY <1>1, <1>2 DEF Row
<1>7. e = Row(m, s, y, t, o, TRUE, c, f) BY <1>3, <1>6 DEF Row
<1>8. g = Row(m, s, y, z, o, TRUE, c, f) BY <1>4, <1>7 DEF Row
<1> QED BY <1>1, <1>5, <1>8 DEF Row

\* The row is marked: nothing that the discounts or the payments look at changes.
LEMMA RowMarked ==
    ASSUME PriceInv, NEW h \in Calls, paying[h].at # "idle", NEW a, Amounted(a),
           a.made <=> amounts.made, a.subtotal = amounts.subtotal, a.discount = amounts.discount,
           a.total = amounts.total, a.offer = amounts.offer, a.applied <=> amounts.applied,
           ~changed /\ ~amounts.applied /\ a.confirmed => NearlyPaid(amounts, charge),
           amounts' = a, Ends(h), UNCHANGED <<basket, percent, charge, changed, turned>>
    PROVE  PriceInv'
<1>1. amounts.made BY AtWork
<1>2. \A j : Calling(j, amounts) => Calling(j, a) BY DEF Calling
<1>3. PixDiscount(a, percent) = PixDiscount(amounts, percent) BY DEF PixDiscount
<1>4. NearlyPaid(a, charge) <=> NearlyPaid(amounts, charge) BY DEF NearlyPaid
<1>5. \A j : Knows(j, amounts, percent, charge) => Knows(j, a, percent, charge)
  BY <1>3, <1>4 DEF Knows
<1>6. \A c, O : AskedOf(c, amounts, O) => AskedOf(c, a, O) BY DEF AskedOf
<1>7. ~changed => Kept(a, percent, charge)
  <2> HAVE ~changed
  <2>1. Kept(amounts, percent, charge) BY DEF PriceInv
  <2> QED BY <2>1, <1>3, <1>4, <1>6 DEF Kept
<1>8. Calling(NoPay, a) /\ Knows(NoPay, a, percent, charge) BY <1>2, <1>5, EndedCall
<1>9. turned' # {} => changed \/ a.applied BY DEF PriceInv
<1>10. paying' = [paying EXCEPT ![h] = NoPay] BY DEF Ends
<1> QED BY <1>1, <1>2, <1>5, <1>7, <1>8, <1>9, <1>10, CallMoves

\* The order is confirmed, or marked refunded.
LEMMA RowWritten ==
    ASSUME PriceInv, NEW h \in Calls, Confirm(h) \/ MarkRefunded(h) PROVE PriceInv'
<1>1. PICK r, a : r = amounts /\ a = amounts' OBVIOUS
<1>2. Amounted(r) BY <1>1 DEF PriceInv
<1>3. PICK m, s, d, t, o, ap, c, f : r = Row(m, s, d, t, o, ap, c, f) BY <1>2 DEF Amounted
<1>4. CASE Confirm(h)
  <2>1. a = [r EXCEPT !.confirmed = TRUE] /\ paying[h].at = "confirm" BY <1>1, <1>4 DEF Confirm
  <2>2. a = Row(m, s, d, t, o, ap, TRUE, f) BY <1>3, <2>1 DEF Row
  <2>3. /\ a.made = r.made /\ a.subtotal = r.subtotal /\ a.discount = r.discount
        /\ a.total = r.total /\ a.offer = r.offer /\ a.applied = r.applied /\ a.confirmed = TRUE
        /\ a.refunded = r.refunded
    BY <1>3, <2>2 DEF Row
  <2>4. Amounted(a) BY <1>2, <2>2, <2>3 DEF Amounted, Row
  <2>5. ~changed /\ ~r.applied => NearlyPaid(r, charge) BY <1>1, <2>1 DEF PriceInv, Knows
  <2> QED BY <1>1, <1>4, <2>1, <2>3, <2>4, <2>5, RowMarked DEF Confirm
<1>5. CASE MarkRefunded(h)
  <2>1. a = [r EXCEPT !.refunded = TRUE] /\ paying[h].at = "refund" BY <1>1, <1>5 DEF MarkRefunded
  <2>2. a = Row(m, s, d, t, o, ap, c, TRUE) BY <1>3, <2>1 DEF Row
  <2>3. /\ a.made = r.made /\ a.subtotal = r.subtotal /\ a.discount = r.discount
        /\ a.total = r.total /\ a.offer = r.offer /\ a.applied = r.applied
        /\ a.confirmed = r.confirmed /\ a.refunded = TRUE
    BY <1>3, <2>2 DEF Row
  <2>4. Amounted(a) BY <1>2, <2>2, <2>3 DEF Amounted, Row
  <2>5. ~changed /\ ~r.applied /\ a.confirmed => NearlyPaid(r, charge)
    BY <1>1, <2>3 DEF PriceInv, Kept
  <2> QED BY <1>1, <1>5, <2>1, <2>3, <2>4, <2>5, RowMarked DEF MarkRefunded
<1> QED BY <1>4, <1>5

\* The offer is written to the order before the Pix is made.
LEMMA OfferIsSaved ==
    ASSUME PriceInv, NEW h \in Calls, SaveOffer(h) PROVE PriceInv'
<1>1. PICK r, a, j, k : r = amounts /\ a = amounts' /\ j = paying[h] /\ k = [j EXCEPT !.at = "post"]
  OBVIOUS
<1>2. /\ j.at = "offer" /\ a = [r EXCEPT !.offer = j.off] /\ paying' = [paying EXCEPT ![h] = k]
      /\ UNCHANGED <<basket, percent, charge, changed, turned>>
  BY <1>1 DEF SaveOffer, Goto, PriceInv
<1>3. Amounted(r) /\ Calling(j, r) BY <1>1 DEF PriceInv
<1>4. PICK m, s, d, t, o, ap, c, f : r = Row(m, s, d, t, o, ap, c, f) BY <1>3 DEF Amounted
<1>5. PICK x : x = j.off OBVIOUS
<1>6. a = Row(m, s, d, t, x, ap, c, f) BY <1>2, <1>4, <1>5 DEF Row
<1>7. /\ a.made = r.made /\ a.subtotal = r.subtotal /\ a.discount = r.discount
      /\ a.total = r.total /\ a.offer = j.off /\ a.applied = r.applied
      /\ a.confirmed = r.confirmed /\ a.refunded = r.refunded
  BY <1>6, <1>4, <1>5 DEF Row
<1>8. Amounted(a) BY <1>3, <1>6, <1>7 DEF Amounted, Calling, Row
<1>9. /\ k.at = "post" /\ k.total = j.total /\ k.off = j.off /\ k.pix = j.pix /\ k.then = j.then
      /\ k = Call(k.at, k.total, k.off, k.pix, k.then)
  <2>1. PICK n, off, pix, then : j = Call("offer", n, off, pix, then) BY <1>2, <1>3 DEF Calling
  <2>2. j.total = n /\ j.off = off /\ j.pix = pix /\ j.then = then BY <2>1 DEF Call
  <2>3. k = Call("post", n, off, pix, then) BY <1>1, <2>1, CallHas
  <2>4. k.at = "post" /\ k.total = n /\ k.off = off /\ k.pix = pix /\ k.then = then
    BY <2>3 DEF Call
  <2>5. k = Call(k.at, k.total, k.off, k.pix, k.then) BY <2>3, <2>4
  <2> QED BY <2>2, <2>4, <2>5
<1>10. \A g : Calling(g, r) => Calling(g, a) BY <1>7 DEF Calling
<1>11. Calling(k, a) BY <1>3, <1>7, <1>9 DEF Calling
<1>12. PixDiscount(a, percent) = PixDiscount(r, percent) BY <1>7 DEF PixDiscount
<1>13. NearlyPaid(a, charge) <=> NearlyPaid(r, charge) BY <1>7 DEF NearlyPaid
<1>14. ~changed => Kept(r, percent, charge) BY <1>1 DEF PriceInv
<1>15. ~changed /\ ~r.applied => Knows(j, r, percent, charge) BY <1>1 DEF PriceInv
<1>16. ~changed /\ ~r.applied => j.pix /\ j.off = PixDiscount(r, percent) /\ j.total = r.total
  BY <1>15, <1>2 DEF Knows
<1>17. ~changed => Kept(a, percent, charge)
  <2> SUFFICES ASSUME ~changed PROVE Kept(a, percent, charge) OBVIOUS
  <2>1. CASE r.applied BY <2>1, <1>7, <1>14 DEF Kept
  <2>2. CASE ~r.applied
    <3>1. a.offer = PixDiscount(a, percent) BY <2>2, <1>7, <1>12, <1>16
    <3>2. ASSUME NEW p \in Charges PROVE AskedOf(charge[p], a, PixDiscount(a, percent))
      <4>1. AskedOf(charge[p], r, PixDiscount(r, percent)) BY <2>2, <1>14 DEF Kept
      <4> QED BY <4>1, <3>1, <1>7, <1>12 DEF AskedOf
    <3> QED BY <2>2, <3>1, <3>2, <1>7, <1>13, <1>14 DEF Kept
  <2> QED BY <2>1, <2>2
<1>18. ASSUME ~changed, ~a.applied, NEW g, Knows(g, r, percent, charge)
       PROVE  Knows(g, a, percent, charge)
  <2>1. a.offer = PixDiscount(r, percent) /\ ~r.applied BY <1>7, <1>16, <1>18
  <2> QED BY <1>7, <1>12, <1>13, <1>18, <2>1 DEF Knows
<1>19. ~changed /\ ~a.applied => Knows(k, a, percent, charge)
  <2> SUFFICES ASSUME ~changed, ~a.applied PROVE Knows(k, a, percent, charge) OBVIOUS
  <2>1. j.pix /\ j.off = PixDiscount(r, percent) /\ j.total = r.total BY <1>7, <1>16
  <2> QED BY <2>1, <1>7, <1>9, <1>12 DEF Knows
<1>20. amounts.made BY AtWork, <1>1, <1>2
<1>21. turned' # {} => changed \/ a.applied BY <1>1, <1>2, <1>7 DEF PriceInv
<1> QED BY <1>1, <1>2, <1>7, <1>8, <1>10, <1>11, <1>17, <1>18, <1>19, <1>20, <1>21, CallMoves

\* Where a webhook goes on.
Going(at, off, then) == IF at = "nothing" THEN NoPay ELSE Call(at, 0, off, FALSE, then)

\* And what it knows then.
LEMMA GoingHas ==
    ASSUME NEW at, NEW off, NEW then, NEW j, j = Going(at, off, then)
    PROVE  /\ at = "nothing" => j = NoPay
           /\ at # "nothing" => /\ j.at = at /\ j.total = 0 /\ j.off = off /\ j.pix \in BOOLEAN
                                /\ j = Call(j.at, j.total, j.off, j.pix, j.then)
BY DEF Going, Call

\* The discount is taken off the order once, by the one that finds it not applied.
LEMMA DiscountIsApplied ==
    ASSUME PriceInv, NEW h \in Calls, Apply(h) PROVE PriceInv'
<1>1. PICK r, a, j, k : /\ r = amounts /\ a = amounts' /\ j = paying[h]
                        /\ k = Going(j.then, j.off, j.then)
  OBVIOUS
<1>2. /\ j.at = "apply" /\ paying' = [paying EXCEPT ![h] = k]
      /\ UNCHANGED <<basket, percent, charge, changed, turned>>
  BY <1>1 DEF Apply, Proceed, Going
<1>3. a = IF ~r.applied
          THEN [r EXCEPT !.applied = TRUE, !.discount = r.discount + j.off, !.total = r.total - j.off]
          ELSE r
  BY <1>1 DEF Apply, AppliesOnce
<1>4. Amounted(r) /\ Calling(j, r) /\ r.made BY <1>1, <1>2, AtWork DEF PriceInv
<1>5. a.applied /\ Amounted(a) /\ a.made /\ (~changed => Kept(a, percent, charge))
  <2>1. CASE r.applied
    <3>1. a = r BY <2>1, <1>3
    <3> QED BY <2>1, <3>1, <1>1, <1>4 DEF PriceInv
  <2>2. CASE ~r.applied
    <3>1. a = WithDiscount(r, r.discount + j.off, r.total - j.off)
      BY <2>2, <1>3 DEF WithDiscount
    <3>2. PICK y, z : y = r.discount + j.off /\ z = r.total - j.off /\ a = WithDiscount(r, y, z)
      BY <3>1
    <3>3. /\ a.made = r.made /\ a.subtotal = r.subtotal /\ a.discount = y
          /\ a.total = z /\ a.offer = r.offer /\ a.applied
          /\ a = Row(a.made, a.subtotal, a.discount, a.total, a.offer, a.applied, a.confirmed, a.refunded)
      <4>1. a.made = r.made BY <3>2, <1>4, DiscountHas
      <4>2. a.subtotal = r.subtotal BY <3>2, <1>4, DiscountHas
      <4>3. a.discount = y /\ a.total = z BY <3>2, <1>4, DiscountHas
      <4>4. a.offer = r.offer /\ a.applied BY <3>2, <1>4, DiscountHas
      <4>5. a = Row(a.made, a.subtotal, a.discount, a.total, a.offer, a.applied, a.confirmed, a.refunded)
        BY <3>2, <1>4, DiscountHas
      <4> QED BY <4>1, <4>3, <4>4, <4>5, <4>2
    <3>4. a.discount \in Int /\ a.total \in Int /\ a.discount <= a.subtotal
      BY <2>2, <3>2, <3>3, <1>4 DEF Amounted, Calling
    <3>5. Amounted(a) BY <3>3, <3>4, <1>4 DEF Amounted
    <3>6. ~changed => \E p \in Charges : Paid(charge[p]) /\ charge[p].amount = r.total - j.off
      BY <2>2, <1>1, <1>2 DEF PriceInv, Knows
    <3>7. ~changed => Kept(a, percent, charge) BY <3>2, <3>3, <3>6 DEF Kept
    <3> QED BY <3>3, <3>5, <3>7, <1>4
  <2> QED BY <2>1, <2>2
<1>6. Calling(k, a)
  <2>1. CASE j.then = "nothing"
    <3>1. k = NoPay BY <2>1, <1>1, GoingHas
    <3>2. Calling(NoPay, amounts) BY EndedCall
    <3> QED BY <3>1, <3>2, <1>5 DEF Calling
  <2>2. CASE j.then # "nothing"
    <3>1. /\ k.total = 0 /\ k.off = j.off /\ k.pix \in BOOLEAN
          /\ k = Call(k.at, k.total, k.off, k.pix, k.then)
      BY <2>2, <1>1, GoingHas
    <3> QED BY <3>1, <1>4, <1>5 DEF Calling
  <2> QED BY <2>1, <2>2
<1>7. \A g : Calling(g, amounts) => Calling(g, a) BY <1>5 DEF Calling
<1> QED BY <1>1, <1>2, <1>4, <1>5, <1>6, <1>7, CallMoves

\* What was paid stays paid, at the same amount.
LEMMA PaidStays ==
    ASSUME NEW ch, NEW dh, NEW a,
           \A p \in Charges : Paid(ch[p]) => Paid(dh[p]) /\ dh[p].amount = ch[p].amount
    PROVE  /\ NearlyPaid(a, ch) => NearlyPaid(a, dh)
           /\ \A n : (\E p \in Charges : Paid(ch[p]) /\ ch[p].amount = n)
                       => \E p \in Charges : Paid(dh[p]) /\ dh[p].amount = n
<1>1. ASSUME NearlyPaid(a, ch) PROVE NearlyPaid(a, dh)
  <2>1. PICK p \in Charges : Paid(ch[p]) /\ a.total - ch[p].amount \in {0, 1}
    BY <1>1 DEF NearlyPaid
  <2>2. Paid(dh[p]) /\ a.total - dh[p].amount \in {0, 1} BY <2>1
  <2> QED BY <2>2 DEF NearlyPaid
<1>2. ASSUME NEW n, \E p \in Charges : Paid(ch[p]) /\ ch[p].amount = n
      PROVE  \E p \in Charges : Paid(dh[p]) /\ dh[p].amount = n
  <2>1. PICK p \in Charges : Paid(ch[p]) /\ ch[p].amount = n BY <1>2
  <2>2. Paid(dh[p]) /\ dh[p].amount = n BY <2>1
  <2> QED BY <2>2
<1> QED BY <1>1, <1>2

\* A payment is made or moves on; what was paid stays paid.
LEMMA ChargeMoves ==
    ASSUME PriceInv, amounts.made, NEW p \in Charges, NEW c, Charged(c), NEW js,
           js = [h \in Calls |-> js[h]], \A h \in Calls : Calling(js[h], amounts),
           Paid(charge[p]) => Paid(c) /\ c.amount = charge[p].amount,
           ~changed /\ ~amounts.applied => AskedOf(c, amounts, PixDiscount(amounts, percent)),
           NEW dh, dh = [charge EXCEPT ![p] = c],
           ~changed /\ ~amounts.applied =>
               \A h \in Calls : js[h] = paying[h] \/ Knows(js[h], amounts, percent, dh),
           charge' = dh, paying' = js, UNCHANGED <<basket, amounts, percent, changed, turned>>
    PROVE  PriceInv'
<1>1. \A q \in Charges : dh[q] = IF q = p THEN c ELSE charge[q] BY DEF PriceInv
<1>2. dh = [q \in Charges |-> dh[q]] BY DEF PriceInv
<1>3. \A q \in Charges : Charged(dh[q]) BY <1>1 DEF PriceInv
<1>4. \A q \in Charges : Paid(charge[q]) => Paid(dh[q]) /\ dh[q].amount = charge[q].amount BY <1>1
<1>5. NearlyPaid(amounts, charge) => NearlyPaid(amounts, dh) BY <1>4, PaidStays
<1>6. \A n : (\E q \in Charges : Paid(charge[q]) /\ charge[q].amount = n)
               => \E q \in Charges : Paid(dh[q]) /\ dh[q].amount = n
  BY <1>4, PaidStays
<1>7. ~changed => Kept(amounts, percent, dh)
  <2> SUFFICES ASSUME ~changed PROVE Kept(amounts, percent, dh) OBVIOUS
  <2>1. Kept(amounts, percent, charge) BY DEF PriceInv
  <2>2. ASSUME ~amounts.applied, NEW q \in Charges
        PROVE  AskedOf(dh[q], amounts, PixDiscount(amounts, percent))
    <3>1. AskedOf(charge[q], amounts, PixDiscount(amounts, percent)) BY <2>1, <2>2 DEF Kept
    <3> QED BY <3>1, <2>2, <1>1
  <2> QED BY <2>1, <2>2, <1>5, <1>6 DEF Kept
<1>8. ASSUME ~changed, ~amounts.applied, NEW h \in Calls PROVE Knows(js[h], amounts, percent, dh)
  <2>1. CASE js[h] = paying[h]
    <3>1. Knows(paying[h], amounts, percent, charge) BY <1>8 DEF PriceInv
    <3> QED BY <3>1, <2>1, <1>5, <1>6 DEF Knows
  <2>2. CASE js[h] # paying[h] BY <2>2, <1>8
  <2> QED BY <2>1, <2>2
<1>9. PICK a, b, pct, cd, tu :
        a = amounts /\ b = basket /\ pct = percent /\ (cd <=> changed) /\ tu = turned
  OBVIOUS
<1>10. amounts' = a /\ basket' = b /\ percent' = pct /\ (changed' <=> cd) /\ turned' = tu BY <1>9
<1>11. /\ b \in Seq(BagLines) /\ pct \in Nat /\ changed' \in BOOLEAN /\ Amounted(a) /\ a.made
       /\ tu # {} => cd \/ a.applied
  BY <1>9 DEF PriceInv
<1>12. \A h \in Calls : Calling(js[h], a) BY <1>9
<1>13. ~cd => Kept(a, pct, dh) BY <1>7, <1>9
<1>14. ~cd /\ ~a.applied => \A h \in Calls : Knows(js[h], a, pct, dh) BY <1>8, <1>9
<1> QED BY <1>2, <1>3, <1>10, <1>11, <1>12, <1>13, <1>14 DEF PriceInv

\* The fields of a payment.
LEMMA ChargeHas ==
    ASSUME NEW at, NEW pix, NEW n, NEW f, NEW c, pix \in BOOLEAN, c = Charge(at, pix, n, f)
    PROVE  /\ c.at = at /\ (c.pix <=> pix) /\ c.pix \in BOOLEAN /\ c.amount = n /\ c.refund = f
           /\ c = Charge(c.at, c.pix, c.amount, c.refund)
BY DEF Charge

\* A payment asks for what the order costs then.
LEMMA PaymentIsMade ==
    ASSUME PriceInv, NEW h \in Calls, PostPayment(h) PROVE PriceInv'
<1>1. PICK j, a : j = paying[h] /\ a = amounts OBVIOUS
<1>2. PICK p \in Charges, at \in {"pending", "approved"} :
        /\ charge[p].at = "none"
        /\ j.pix => at = "pending"
        /\ charge' = [charge EXCEPT ![p] = Charge(at, j.pix, Asked(j), 0)]
        /\ at = "approved" => Goto(h, "confirm")
        /\ at = "pending" => Ends(h)
  BY <1>1 DEF PostPayment
<1>3. j.at = "post" /\ UNCHANGED <<basket, amounts, percent, changed, turned>>
  BY <1>1 DEF PostPayment
<1>4. Calling(j, a) /\ a.made /\ Amounted(a) BY <1>1, <1>3, AtWork DEF PriceInv
<1>5. PICK c : c = Charge(at, j.pix, Asked(j), 0) OBVIOUS
<1>6. /\ c.at = at /\ (c.pix <=> j.pix) /\ c.pix \in BOOLEAN /\ c.amount = j.total - j.off
      /\ c = Charge(c.at, c.pix, c.amount, c.refund)
  BY <1>4, <1>5, ChargeHas DEF Calling, Asked
<1>7. Charged(c) BY <1>4, <1>6 DEF Charged, Calling
<1>8. PICK dh : dh = [charge EXCEPT ![p] = c] OBVIOUS
<1>9. \A q \in Charges : dh[q] = IF q = p THEN c ELSE charge[q] BY <1>8 DEF PriceInv
<1>10. ~changed /\ ~a.applied =>
         /\ j.total = a.total /\ j.off = IF j.pix THEN PixDiscount(a, percent) ELSE 0
         /\ j.pix /\ j.off > 0 => a.offer = j.off
  BY <1>1, <1>3 DEF PriceInv, Knows
<1>11. ~changed /\ ~a.applied => AskedOf(c, a, PixDiscount(a, percent)) BY <1>6, <1>10 DEF AskedOf
<1>12. ~Paid(charge[p])
  <2>1. charge[p].at = "none" BY <1>2
  <2> QED BY <2>1 DEF Paid
<1>13. PICK k : k = IF at = "approved" THEN [j EXCEPT !.at = "confirm"] ELSE NoPay OBVIOUS
<1>14. PICK js : js = paying' OBVIOUS
<1>15. js = [paying EXCEPT ![h] = k] BY <1>1, <1>2, <1>13, <1>14 DEF Goto, Ends, PriceInv
<1>16. \A g \in Calls : js[g] = IF g = h THEN k ELSE paying[g] BY <1>15 DEF PriceInv
<1>17. js = [g \in Calls |-> js[g]] BY <1>15 DEF PriceInv
<1>18. Calling(k, a) /\ (~changed /\ ~a.applied => Knows(k, a, percent, dh))
  <2>1. CASE at = "approved"
    <3>1. PICK n, off, pix, then : j = Call("post", n, off, pix, then) BY <1>3, <1>4 DEF Calling
    <3>2. k = Call("confirm", n, off, pix, then) BY <2>1, <3>1, <1>13, CallHas
    <3>3. /\ k.at = "confirm" /\ k.total = j.total /\ k.off = j.off /\ k.pix = j.pix
          /\ k = Call(k.at, k.total, k.off, k.pix, k.then)
      BY <3>1, <3>2 DEF Call
    <3>4. Calling(k, a) BY <3>3, <1>4 DEF Calling
    <3>5. ~changed /\ ~a.applied => a.total - dh[p].amount = 0
      <4> HAVE ~changed /\ ~a.applied
      <4>1. ~j.pix
        <5>1. j.pix => at = "pending" BY <1>2
        <5>2. "approved" # "pending" OBVIOUS
        <5> QED BY <5>1, <5>2, <2>1
      <4>2. c.amount = a.total - 0 BY <4>1, <1>6, <1>10
      <4> QED BY <4>2, <1>4, <1>9 DEF Amounted
    <3>6. Paid(dh[p]) BY <2>1, <1>6, <1>9 DEF Paid
    <3>7. ~changed /\ ~a.applied => NearlyPaid(a, dh) BY <3>5, <3>6 DEF NearlyPaid
    <3>8. ~changed /\ ~a.applied => Knows(k, a, percent, dh) BY <3>3, <3>7 DEF Knows
    <3> QED BY <3>4, <3>8
  <2>2. CASE at # "approved"
    <3>1. k = NoPay BY <2>2, <1>13
    <3>2. Calling(NoPay, a) BY <1>1, EndedCall
    <3>3. NoPay.at = "idle" BY DEF NoPay, Call
    <3> QED BY <3>1, <3>2, <3>3 DEF Knows
  <2> QED BY <2>1, <2>2
<1>19. \A g \in Calls : Calling(js[g], a) BY <1>1, <1>16, <1>18 DEF PriceInv
<1>20. ~changed /\ ~a.applied => \A g \in Calls : js[g] = paying[g] \/ Knows(js[g], a, percent, dh)
  BY <1>16, <1>18
<1> QED
  BY <1>1, <1>2, <1>3, <1>4, <1>5, <1>7, <1>8, <1>11, <1>12, <1>14, <1>17, <1>19, <1>20, ChargeMoves

\* A payment is paid or refunded: its amount stays.
LEMMA PaymentMovesOn ==
    ASSUME PriceInv, NEW p \in Charges, NEW at, NEW pix, NEW n, NEW f, NEW c, c = charge[p],
           c = Charge(at, pix, n, f), at \in {"pending", "approved"},
           NEW x \in {"approved", "refunded"}, NEW y,
           charge' = [charge EXCEPT ![p] = Charge(x, pix, n, y)],
           UNCHANGED <<basket, amounts, percent, paying, changed, turned>>
    PROVE  PriceInv'
<1>1. pix \in BOOLEAN /\ n \in Int
  <2>1. Charged(c) BY DEF PriceInv
  <2> QED BY <2>1 DEF Charged, Charge
<1>2. c.at = at /\ (c.pix <=> pix) /\ c.amount = n BY <1>1, ChargeHas
<1>3. PICK d, dh, js : d = Charge(x, pix, n, y) /\ dh = [charge EXCEPT ![p] = d] /\ js = paying
  OBVIOUS
<1>4. /\ d.at = x /\ (d.pix <=> pix) /\ d.pix \in BOOLEAN /\ d.amount = n
      /\ d = Charge(d.at, d.pix, d.amount, d.refund)
  BY <1>1, <1>3, ChargeHas
<1>5. Charged(d) BY <1>1, <1>4 DEF Charged
<1>6. Paid(charge[p]) => Paid(d) /\ d.amount = charge[p].amount BY <1>2, <1>4 DEF Paid
<1>7. ~changed /\ ~amounts.applied => AskedOf(d, amounts, PixDiscount(amounts, percent))
  <2> SUFFICES ASSUME ~changed, ~amounts.applied
               PROVE  AskedOf(d, amounts, PixDiscount(amounts, percent))
    OBVIOUS
  <2>1. AskedOf(c, amounts, PixDiscount(amounts, percent)) BY DEF PriceInv, Kept
  <2>2. c.at # "none" BY <1>2
  <2> QED BY <2>1, <2>2, <1>2, <1>4 DEF AskedOf
<1>8. amounts.made
  <2>1. c.at # "none" BY <1>2
  <2> QED BY <2>1 DEF PriceInv, Before
<1>9. js = [h \in Calls |-> js[h]] /\ \A h \in Calls : Calling(js[h], amounts)
  BY <1>3 DEF PriceInv
<1>10. /\ charge' = dh /\ paying' = js /\ UNCHANGED <<basket, amounts, percent, changed, turned>>
       /\ \A h \in Calls : js[h] = paying[h]
  BY <1>3
<1>11. ~changed /\ ~amounts.applied =>
         \A h \in Calls : js[h] = paying[h] \/ Knows(js[h], amounts, percent, dh)
  BY <1>10
<1>12. PriceInv /\ p \in Charges /\ dh = [charge EXCEPT ![p] = d] BY <1>3
<1> QED BY ONLY <1>12, <1>5, <1>6, <1>7, <1>8, <1>9, <1>10, <1>11, ChargeMoves

\* The customer pays, and the store refunds.
LEMMA AroundPayments ==
    ASSUME PriceInv, NEW p \in Charges, CustomerPays(p) \/ RefundOutside(p) PROVE PriceInv'
<1>1. PICK c : c = charge[p] OBVIOUS
<1>2. UNCHANGED <<basket, amounts, percent, paying, changed, turned>>
  BY DEF CustomerPays, RefundOutside
<1>3. PICK at, pix, n, f : c = Charge(at, pix, n, f) BY <1>1 DEF PriceInv, Charged
<1>4. c.at = at BY <1>3 DEF Charge
<1>5. CASE CustomerPays(p)
  <2>1. charge' = [charge EXCEPT ![p] = [c EXCEPT !.at = "approved"]] /\ c.at = "pending"
    BY <1>1, <1>5 DEF CustomerPays, PriceInv
  <2>2. [c EXCEPT !.at = "approved"] = Charge("approved", pix, n, f) BY <1>3 DEF Charge
  <2>3. charge' = [charge EXCEPT ![p] = Charge("approved", pix, n, f)] BY <2>1, <2>2
  <2>4. at \in {"pending", "approved"} /\ "approved" \in {"approved", "refunded"} BY <1>4, <2>1
  <2> QED BY <1>1, <1>2, <1>3, <2>3, <2>4, PaymentMovesOn
<1>6. CASE RefundOutside(p)
  <2>1. c.at = "approved" BY <1>1, <1>6 DEF RefundOutside
  <2>2. PICK cents : charge' = [charge EXCEPT ![p] =
            Charge(IF cents = c.amount THEN "refunded" ELSE c.at, c.pix, c.amount, cents)]
    BY <1>1, <1>6 DEF RefundOutside, PriceInv
  <2>3. PICK x \in {"approved", "refunded"} : x = IF cents = c.amount THEN "refunded" ELSE c.at
    BY <2>1
  <2>4. Charge(x, c.pix, c.amount, cents) = Charge(x, pix, n, cents) BY <1>3 DEF Charge
  <2>5. charge' = [charge EXCEPT ![p] = Charge(x, pix, n, cents)] BY <2>2, <2>3, <2>4
  <2> QED BY <1>1, <1>2, <1>3, <1>4, <2>1, <2>5, PaymentMovesOn
<1> QED BY <1>5, <1>6

\* While nothing was changed or applied, a payment is short only of the discount
\* for Pix, and one that is not short is as good as the total.
LEMMA ShortOf ==
    ASSUME NEW c, NEW a, NEW O \in Nat, Amounted(a), AskedOf(c, a, O), c.at = "approved",
           a.offer \in {0, O}
    PROVE  /\ Short(c.amount, a.total) = {FALSE} \/ (c.pix /\ O > 0 /\ a.offer = O)
           /\ Short(c.amount, a.total) = {TRUE} \/ a.total - c.amount \in {0, 1}
           /\ c.pix /\ a.offer = O => Short(c.amount, a.total - a.offer) = {FALSE}
<1>1. PICK t, n : t = a.total /\ n = c.amount /\ t \in Int BY DEF Amounted
<1>2. n = t - (IF c.pix THEN O ELSE 0) /\ (c.pix /\ O > 0 => a.offer = O) BY <1>1 DEF AskedOf
<1>3. \A m \in Int : Short(m, m) = {FALSE}
  <2> TAKE m \in Int
  <2>1. ~(m < m - 1) /\ m # m - 1 OBVIOUS
  <2> QED BY <2>1 DEF Short
<1>4. CASE ~(c.pix /\ O > 0)
  <2>1. n = t /\ n \in Int
    <3>1. (IF c.pix THEN O ELSE 0) = 0 BY <1>4
    <3> QED BY <3>1, <1>1, <1>2
  <2>2. Short(n, t) = {FALSE} BY <2>1, <1>3
  <2>3. t - n = 0 BY <1>1, <2>1
  <2>4. c.pix /\ a.offer = O => a.offer = 0 BY <1>4
  <2>5. c.pix /\ a.offer = O => Short(n, t - a.offer) = {FALSE}
    <3>1. c.pix /\ a.offer = O => t - a.offer = n BY <1>1, <2>1, <2>4
    <3> QED BY <3>1, <2>1, <1>3
  <2> QED BY <1>1, <1>4, <2>2, <2>5, <2>3
<1>5. CASE c.pix /\ O > 0
  <2>1. a.offer = O /\ n = t - O /\ n \in Int BY <1>1, <1>2, <1>5
  <2>2. Short(n, t - a.offer) = {FALSE}
    <3>1. t - a.offer = n BY <1>1, <1>5, <2>1
    <3> QED BY <3>1, <2>1, <1>3
  <2>3. O > 1 => n < t - 1 BY <1>1, <2>1
  <2>4. n < t - 1 => Short(n, t) = {TRUE}
    <3>1. n < t - 1 => n # t - 1 BY <1>1, <2>1
    <3> QED BY <3>1 DEF Short
  <2>5. ~(O > 1) => t - n = 1 BY <1>1, <2>1, <1>5
  <2> QED BY <1>1, <1>5, <2>1, <2>2, <2>3, <2>4, <2>5
<1> QED BY <1>4, <1>5

\* The webhook compares what was paid with what the order costs.
LEMMA WebhookMoves ==
    ASSUME PriceInv, NEW h \in Calls, NEW p \in Charges, PaymentWebhook(h, p) PROVE PriceInv'
<1>1. PICK c, a : c = charge[p] /\ a = amounts OBVIOUS
<1>2. a.made /\ c.at # "none" /\ UNCHANGED <<basket, amounts, percent, charge, changed>>
  BY <1>1 DEF PaymentWebhook, Enters
<1>3. Amounted(a) /\ percent \in Nat /\ changed \in BOOLEAN /\ Charged(c) BY <1>1 DEF PriceInv
<1>4. PICK O : O = PixDiscount(a, percent) OBVIOUS
<1>5. O \in Nat BY <1>3, <1>4, PixWithin DEF Amounted
<1>6. ~changed /\ ~a.applied => a.offer \in {0, O} /\ AskedOf(c, a, O)
  BY <1>1, <1>4 DEF PriceInv, Kept
<1>7. turned # {} => changed \/ a.applied BY <1>1 DEF PriceInv
<1>8. ASSUME NEW at, Proceed(h, at, a.offer, Approving(c)), turned' = turned,
             at \in {"refund", "nothing", "confirm", "apply"},
             at = "confirm" /\ ~changed /\ ~a.applied => NearlyPaid(a, charge),
             at = "apply" /\ ~changed /\ ~a.applied =>
                 \E q \in Charges : Paid(charge[q]) /\ charge[q].amount = a.total - a.offer
      PROVE  PriceInv'
  <2>1. PICK k : k = Going(at, a.offer, Approving(c)) OBVIOUS
  <2>2. paying' = [paying EXCEPT ![h] = k] BY <2>1, <1>8 DEF Proceed, Going
  <2>3. Calling(k, a) /\ (~changed /\ ~a.applied => Knows(k, a, percent, charge))
    <3>1. CASE at = "nothing"
      <4>1. k = NoPay BY <3>1, <2>1, GoingHas
      <4> QED BY <4>1, <1>1, EndedCall
    <3>2. CASE at # "nothing"
      <4>1. /\ k.at = at /\ k.total = 0 /\ k.off = a.offer /\ k.pix \in BOOLEAN
            /\ k = Call(k.at, k.total, k.off, k.pix, k.then)
        BY <3>2, <2>1, GoingHas
      <4>2. Calling(k, a) BY <4>1, <1>3 DEF Calling, Amounted
      <4>3. at \notin {"offer", "post"} BY <1>8
      <4>4. ~changed /\ ~a.applied => Knows(k, a, percent, charge) BY <4>1, <4>3, <1>8 DEF Knows
      <4> QED BY <4>2, <4>4
    <3> QED BY <3>1, <3>2
  <2>4. turned' # {} => changed \/ a.applied BY <1>7, <1>8
  <2> QED BY <1>1, <1>2, <2>2, <2>3, <2>4, JustCall
<1>9. CASE Proceed(h, "refund", a.offer, Approving(c)) /\ UNCHANGED turned
  <2>1. "refund" \in {"refund", "nothing", "confirm", "apply"} OBVIOUS
  <2> QED BY <2>1, <1>8, <1>9
<1>10. ASSUME NEW short \in Short(c.amount, a.total), NEW less \in Short(c.amount, a.total - a.offer),
              c.at = "approved", short, TakesOffer(c, less),
              Proceed(h, "apply", a.offer, Approving(c)), UNCHANGED turned
       PROVE  PriceInv'
  <2>1. ~changed /\ ~a.applied =>
          \E q \in Charges : Paid(charge[q]) /\ charge[q].amount = a.total - a.offer
    <3> SUFFICES ASSUME ~changed, ~a.applied
                 PROVE  Paid(charge[p]) /\ charge[p].amount = a.total - a.offer
      OBVIOUS
    <3>1. c.pix /\ a.offer > 0 BY <1>1, <1>10 DEF TakesOffer
    <3>2. a.offer = O BY <1>5, <1>6, <3>1
    <3>3. c.amount = a.total - O BY <1>6, <1>10, <3>1 DEF AskedOf
    <3> QED BY <1>1, <1>10, <3>2, <3>3 DEF Paid
  <2> QED BY <2>1, <1>8, <1>10
<1>11. ASSUME NEW short \in Short(c.amount, a.total), NEW less \in Short(c.amount, a.total - a.offer),
              c.at = "approved", short, ~TakesOffer(c, less), Ends(h)
       PROVE  PriceInv'
  <2>1. changed \/ a.applied
    <3> SUFFICES ASSUME ~changed, ~a.applied PROVE FALSE OBVIOUS
    <3>1. a.offer \in {0, O} /\ AskedOf(c, a, O) BY <1>6
    <3>2. Short(c.amount, a.total) # {FALSE} BY <1>11
    <3>3. c.pix /\ O > 0 /\ a.offer = O BY <3>1, <3>2, <1>3, <1>5, <1>11, ShortOf
    <3>4. Short(c.amount, a.total - a.offer) = {FALSE} BY <3>1, <3>3, <1>3, <1>5, <1>11, ShortOf
    <3>5. ~less BY <3>4, <1>11
    <3> QED BY <3>3, <3>5, <1>1, <1>11 DEF TakesOffer
  <2>2. paying' = [paying EXCEPT ![h] = NoPay] BY <1>11 DEF Ends
  <2>3. turned' # {} => changed \/ amounts.applied BY <1>1, <2>1
  <2> QED BY <1>1, <1>2, <2>2, <2>3, EndedCall, JustCall
<1>12. ASSUME NEW short \in Short(c.amount, a.total), ~(c.at = "approved" /\ short),
              Proceed(h, Approving(c), a.offer, Approving(c)), UNCHANGED turned
       PROVE  PriceInv'
  <2>1. Approving(c) \in {"nothing", "confirm"} /\ (Approving(c) = "confirm" => c.at = "approved")
    BY DEF Approving
  <2>2. Approving(c) = "confirm" /\ ~changed /\ ~a.applied => NearlyPaid(a, charge)
    <3> SUFFICES ASSUME Approving(c) = "confirm", ~changed, ~a.applied PROVE NearlyPaid(a, charge)
      OBVIOUS
    <3>1. c.at = "approved" /\ ~short BY <2>1, <1>12
    <3>2. Short(c.amount, a.total) # {TRUE}
      <4> SUFFICES ASSUME Short(c.amount, a.total) = {TRUE} PROVE FALSE OBVIOUS
      <4>1. short \in {TRUE} BY <1>12
      <4> QED BY <4>1, <3>1
    <3>3. a.total - c.amount \in {0, 1} BY <3>1, <3>2, <1>3, <1>5, <1>6, ShortOf
    <3> QED BY <3>1, <3>3, <1>1 DEF NearlyPaid, Paid
  <2>3. Approving(c) # "apply" /\ Approving(c) \in {"refund", "nothing", "confirm", "apply"}
    BY <2>1
  <2> QED BY <2>2, <2>3, <1>8, <1>12
<1>13. \/ Proceed(h, "refund", a.offer, Approving(c)) /\ UNCHANGED turned
       \/ \E short \in Short(c.amount, a.total), less \in Short(c.amount, a.total - a.offer) :
            \/ /\ c.at = "approved" /\ short /\ TakesOffer(c, less)
               /\ Proceed(h, "apply", a.offer, Approving(c)) /\ UNCHANGED turned
            \/ c.at = "approved" /\ short /\ ~TakesOffer(c, less) /\ Ends(h)
            \/ /\ ~(c.at = "approved" /\ short)
               /\ Proceed(h, Approving(c), a.offer, Approving(c)) /\ UNCHANGED turned
  BY <1>1 DEF PaymentWebhook
<1> QED BY <1>9, <1>10, <1>11, <1>12, <1>13

-----------------------------------------------------------------------------
(* The checkout, the settings, and what follows *)

\* Until the checkout there is no call and no payment.
LEMMA BagMoves ==
    ASSUME PriceInv, ~amounts.made, NEW a, Amounted(a), ~a.applied, ~a.confirmed, a.offer = 0,
           NEW b, b \in Seq(BagLines), NEW pct \in Nat,
           ~a.made => a = Amounts(FALSE, 0, 0, 0),
           amounts' = a, basket' = b, percent' = pct, ~changed', changed' \in BOOLEAN,
           UNCHANGED <<charge, paying, turned>>
    PROVE  PriceInv'
<1>1. PICK ch, js, tu : ch = charge /\ js = paying /\ tu = turned OBVIOUS
<1>2. charge' = ch /\ paying' = js /\ turned' = tu BY <1>1
<1>3. ~changed /\ Before(amounts, ch, js) BY <1>1 DEF PriceInv
<1>4. ~amounts.applied BY <1>3 DEF Before, Amounts
<1>5. tu = {} BY <1>1, <1>3, <1>4 DEF PriceInv
<1>6. ch = [p \in Charges |-> ch[p]] /\ js = [h \in Calls |-> js[h]] BY <1>1 DEF PriceInv
<1>7. \A p \in Charges : Charged(ch[p]) /\ ch[p].at = "none" BY <1>1, <1>3 DEF PriceInv, Before
<1>8. \A h \in Calls : js[h] = NoPay BY <1>3 DEF Before
<1>9. Calling(NoPay, a) /\ Knows(NoPay, a, pct, ch)
  <2>1. PICK j : j = NoPay OBVIOUS
  <2>2. j.at = "idle" /\ j.total = 0 /\ j.off = 0 /\ j.pix \in BOOLEAN /\ j.then = "nothing"
    BY <2>1 DEF NoPay, Call
  <2>3. j = Call(j.at, j.total, j.off, j.pix, j.then) BY <2>1, <2>2 DEF NoPay, Call
  <2>4. j.off <= a.subtotal - a.discount BY <2>2 DEF Amounted
  <2>5. Calling(j, a) BY <2>2, <2>3, <2>4 DEF Calling
  <2>6. Knows(j, a, pct, ch) BY <2>2 DEF Knows
  <2> QED BY <2>1, <2>5, <2>6
<1>10. \A h \in Calls : Calling(js[h], a) /\ Knows(js[h], a, pct, ch) BY <1>8, <1>9
<1>11. Kept(a, pct, ch) BY <1>7 DEF Kept, AskedOf
<1>12. ~a.made => Before(a, ch, js) BY <1>7, <1>8 DEF Before
<1> QED BY <1>2, <1>5, <1>6, <1>7, <1>10, <1>11, <1>12 DEF PriceInv

\* An order just made.
LEMMA AmountsTyped ==
    ASSUME NEW s \in Int, NEW d \in Int, NEW t \in Int, d <= s,
           NEW a, a = Row(TRUE, s, d, t, 0, FALSE, FALSE, FALSE)
    PROVE  Amounted(a)
<1>1. /\ a.subtotal = s /\ a.discount = d /\ a.total = t /\ a.offer = 0 BY DEF Row
<1>2. a.made \in BOOLEAN BY DEF Row
<1>3. a = Row(a.made, a.subtotal, a.discount, a.total, a.offer, a.applied, a.confirmed, a.refunded)
  BY DEF Row
<1>4. s \in Int /\ d \in Int /\ t \in Int /\ d <= s OBVIOUS
<1> QED BY ONLY <1>1, <1>2, <1>3, <1>4 DEF Amounted

\* The bag before the checkout.
LEMMA BagFills ==
    ASSUME PriceInv, NEW l \in BagLines, AddLine(l) PROVE PriceInv'
<1>1. ~amounts.made /\ ~changed /\ Before(amounts, charge, paying) BY DEF AddLine, PriceInv
<1>2. PICK a : a = amounts OBVIOUS
<1>3. a = Amounts(FALSE, 0, 0, 0) BY <1>1, <1>2 DEF Before
<1>4. Amounted(a) BY <1>2 DEF PriceInv
<1>5. ~a.made /\ ~a.applied /\ ~a.confirmed /\ a.offer = 0 BY <1>3 DEF Amounts
<1>6. PICK b : b = Append(basket, l) OBVIOUS
<1>7. b \in Seq(BagLines) BY <1>6 DEF PriceInv
<1>8. PICK pct \in Nat : pct = percent BY DEF PriceInv
<1>9. amounts' = a /\ basket' = b /\ percent' = pct /\ UNCHANGED <<changed, charge, paying, turned>>
  BY <1>2, <1>6, <1>8 DEF AddLine
<1>10. ~changed' /\ changed' \in BOOLEAN BY <1>1, <1>9 DEF PriceInv
<1> QED BY <1>1, <1>3, <1>4, <1>7, <1>9, <1>10, <1>5, BagMoves

\* What combo and coupon take is no more than the goods.
LEMMA OrderIsPlaced ==
    ASSUME PriceInv, NEW c \in Coupons, PlaceOrder(c) PROVE PriceInv'
<1>1. ~amounts.made /\ ~changed BY DEF PlaceOrder, PriceInv
<1>2. basket \in Seq(BagLines) BY DEF PriceInv
<1>3. PICK s \in Nat, combo \in Nat :
        s = Subtotal(basket) /\ combo = Combo(basket) /\ combo <= s
  BY <1>2, ComboWithin
<1>4. PICK goods \in Nat : goods = s - combo BY <1>3
<1>5. PICK off \in Nat : off = CouponDiscount(c, goods) /\ off <= goods BY CouponWithin
<1>6. PICK freight \in Int : freight = IF c.kind = "shipping" THEN 0 ELSE Freight
  BY PriceConstants
<1>7. PICK d \in Int : d = combo + off OBVIOUS
<1>8. PICK t \in Int : t = s - d + freight OBVIOUS
<1>9. d <= s BY <1>3, <1>4, <1>5, <1>7
<1>10. AfterCombo(basket) = goods BY <1>3, <1>4 DEF AfterCombo
<1>11. /\ amounts' = Amounts(TRUE, s, d, t) /\ basket' = <<>>
       /\ UNCHANGED <<percent, charge, paying, changed, turned>>
  BY <1>3, <1>5, <1>6, <1>7, <1>8, <1>10 DEF PlaceOrder
<1>12. PICK a : a = Amounts(TRUE, s, d, t) OBVIOUS
<1>13. Amounted(a) /\ a.made /\ ~a.applied /\ ~a.confirmed /\ a.offer = 0
  <2>1. a.made /\ ~a.applied /\ ~a.confirmed /\ a.offer = 0 BY <1>12 DEF Amounts
  <2>2. a = Row(TRUE, s, d, t, 0, FALSE, FALSE, FALSE) BY <1>12 DEF Amounts, Row
  <2>3. Amounted(a) BY ONLY <2>2, <1>9, AmountsTyped, s \in Int, d \in Int, t \in Int
  <2> QED BY <2>1, <2>3
<1>14. PICK b : b = <<>> OBVIOUS
<1>15. b \in Seq(BagLines) BY <1>14
<1>16. PICK pct \in Nat : pct = percent BY DEF PriceInv
<1>17. amounts' = a /\ basket' = b /\ percent' = pct BY <1>11, <1>12, <1>14, <1>16
<1>18. ~changed' /\ changed' \in BOOLEAN BY <1>1, <1>11 DEF PriceInv
<1> QED BY <1>1, <1>11, <1>13, <1>15, <1>17, <1>18, BagMoves

\* The store changes its percentage: nothing is known of the price from then on.
LEMMA PercentIsSet ==
    ASSUME PriceInv, NEW pct \in Percents, SetPercent(pct) PROVE PriceInv'
<1>1. /\ percent' = pct /\ changed' = amounts.made
      /\ UNCHANGED <<basket, amounts, charge, paying, turned>>
  BY DEF SetPercent
<1>2. pct \in Nat BY PriceConstants
<1>3. PICK a, b, ch, js, tu : a = amounts /\ b = basket /\ ch = charge /\ js = paying /\ tu = turned
  OBVIOUS
<1>4. /\ amounts' = a /\ basket' = b /\ charge' = ch /\ paying' = js /\ turned' = tu
  BY <1>1, <1>3
<1>5. Amounted(a) /\ b \in Seq(BagLines) BY <1>3 DEF PriceInv
<1>6. a.made \in BOOLEAN BY <1>5 DEF Amounted
<1>7. CASE a.made
  <2>1. changed' /\ changed' \in BOOLEAN BY <1>1, <1>3, <1>6, <1>7
  <2>2. /\ ch = [p \in Charges |-> ch[p]] /\ js = [h \in Calls |-> js[h]]
        /\ \A p \in Charges : Charged(ch[p])
        /\ \A h \in Calls : Calling(js[h], a)
    BY <1>3 DEF PriceInv
  <2>3. amounts'.made /\ (\A h \in Calls : Calling(js[h], a)) BY <1>4, <1>7, <2>2
  <2>4. (turned # {} => changed \/ amounts.applied)' BY <2>1
  <2>5. (~changed => Kept(amounts, percent, charge))' BY <2>1
  <2>6. (~changed /\ ~amounts.applied =>
           \A h \in Calls : Knows(paying[h], amounts, percent, charge))'
    BY <2>1
  <2>7. (~amounts.made => ~changed /\ Before(amounts, charge, paying))' BY <2>3
  <2>8. (basket \in Seq(BagLines) /\ percent \in Nat)' BY <1>1, <1>2, <1>4, <1>5
  <2>9. (charge = [p \in Charges |-> charge[p]] /\ paying = [h \in Calls |-> paying[h]])'
    BY <1>4, <2>2
  <2>10. (Amounted(amounts) /\ (\A p \in Charges : Charged(charge[p])))' BY <1>4, <1>5, <2>2
  <2>11. (\A h \in Calls : Calling(paying[h], amounts))' BY <1>4, <2>2
  <2> QED BY <2>1, <2>4, <2>5, <2>6, <2>7, <2>8, <2>9, <2>10, <2>11 DEF PriceInv
<1>8. CASE ~a.made
  <2>1. a = Amounts(FALSE, 0, 0, 0) BY <1>3, <1>8 DEF PriceInv, Before
  <2>2. ~a.applied /\ ~a.confirmed /\ a.offer = 0 BY <2>1 DEF Amounts
  <2>3. ~changed' /\ changed' \in BOOLEAN BY <1>1, <1>3, <1>6, <1>8
  <2>4. ~amounts.made /\ amounts' = a /\ basket' = b BY <1>3, <1>4, <1>8
  <2> QED BY <1>1, <1>2, <1>5, <2>1, <2>2, <2>3, <2>4, BagMoves
<1> QED BY <1>7, <1>8

\* A step that does nothing to the prices.
LEMMA PricesStutter ==
    ASSUME PriceInv, UNCHANGED priceVars PROVE PriceInv'
BY DEF PriceInv, priceVars

\* However checkouts, payments, webhooks, refunds and deaths interleave, the invariant
\* of the prices holds.
THEOREM PricesInvariance == PricesSpec => []PriceInv
<1>1. ASSUME PriceInv, [PricesNext]_priceVars PROVE PriceInv'
  <2>1. CASE \E l \in BagLines : AddLine(l) BY <1>1, <2>1, BagFills
  <2>2. CASE \E c \in Coupons : PlaceOrder(c) BY <1>1, <2>2, OrderIsPlaced
  <2>3. CASE \E pct \in Percents : SetPercent(pct) BY <1>1, <2>3, PercentIsSet
  <2>4. ASSUME NEW h \in Calls,
               \/ StartPay(h) \/ SaveOffer(h) \/ PostPayment(h) \/ Refused(h) \/ Confirm(h)
               \/ Apply(h) \/ MarkRefunded(h) \/ CallDies(h)
               \/ \E p \in Charges : PaymentWebhook(h, p)
        PROVE  PriceInv'
    BY <1>1, <2>4, PayStarts, OfferIsSaved, PaymentIsMade, JustEnds, RowWritten, DiscountIsApplied,
       WebhookMoves
  <2>5. CASE \E p \in Charges : CustomerPays(p) \/ RefundOutside(p) BY <1>1, <2>5, AroundPayments
  <2>6. CASE UNCHANGED priceVars BY <1>1, <2>6, PricesStutter
  <2> QED BY <1>1, <2>1, <2>2, <2>3, <2>4, <2>5, <2>6 DEF PricesNext
<1> QED BY <1>1, PricesStart, PTL DEF PricesSpec

\* The discounts that create, processBrickPayment and handleWebhook give, one after
\* another and of what each has read, never take more than the goods cost.
THEOREM DiscountsWithinGoods == PricesSpec => []DiscountWithinGoods
<1>1. PriceInv => DiscountWithinGoods BY DEF PriceInv, Amounted, DiscountWithinGoods
<1> QED BY <1>1, PricesInvariance, PTL

\* handleWebhook turns no payment of what was asked away while the store keeps its
\* percentage, unless the order had its discount for Pix already (payments.service.ts:985).
THEOREM NoPaymentTurnedAway == PricesSpec => []NoneTurnedAway
<1>1. PriceInv => NoneTurnedAway BY DEF PriceInv, NoneTurnedAway
<1> QED BY <1>1, PricesInvariance, PTL

\* The total of a confirmed order that was paid once is what was paid, to the cent's
\* tolerance of handleWebhook, however webhooks repeat, overlap and die in between.
THEOREM TotalsArePaid == PricesSpec => []TotalIsPaid
<1>1. PriceInv => TotalIsPaid
  <2> DEFINE S == {p \in Charges : charge[p].at \in {"approved", "refunded"}}
  <2> SUFFICES ASSUME PriceInv, amounts.confirmed, ~changed, Cardinality(S) = 1, NEW p \in S
               PROVE  amounts.total - charge[p].amount \in {0, 1}
    BY DEF TotalIsPaid
  <2>1. IsFiniteSet(S) BY PriceConstants, FS_Subset
  <2>2. \A q \in S : q = p BY <2>1, FS_Singleton
  <2>3. Amounted(amounts) /\ Kept(amounts, percent, charge) BY DEF PriceInv
  <2>4. \A q \in Charges : Paid(charge[q]) <=> q \in S BY DEF Paid
  <2>5. CASE amounts.applied
    <3>1. PICK q \in Charges : Paid(charge[q]) /\ charge[q].amount = amounts.total
      BY <2>3, <2>5 DEF Kept
    <3>2. charge[p].amount = amounts.total BY <3>1, <2>2, <2>4
    <3> QED BY <3>2, <2>3 DEF Amounted
  <2>6. CASE ~amounts.applied
    <3>1. PICK q \in Charges : Paid(charge[q]) /\ amounts.total - charge[q].amount \in {0, 1}
      BY <2>3, <2>6 DEF Kept, NearlyPaid
    <3> QED BY <3>1, <2>2, <2>4
  <2> QED BY <2>5, <2>6
<1> QED BY <1>1, PricesInvariance, PTL
=============================================================================
