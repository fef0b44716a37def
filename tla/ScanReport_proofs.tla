-------------------------- MODULE ScanReport_proofs --------------------------
(***************************************************************************)
(* What the rules report and what a scan makes of it, for every            *)
(* environment: findings of the rule that was asked, finitely many; each   *)
(* once in the report, none before one that is worse; as many as the       *)
(* summary counts.  The theorems about ScanRun rest on it.                 *)
(***************************************************************************)
EXTENDS ScanReport, FiniteSetTheorems, WellFoundedInduction, TLAPS

(***************************************************************************)
(* Naturals                                                                *)
(***************************************************************************)
\* A set of naturals that is not empty has a least member.
LEMMA LeastNatural ==
  ASSUME NEW T, T \subseteq Nat, T # {}
  PROVE  \E x \in T : \A y \in T : x <= y
<1> DEFINE R == {ss \in Nat \X Nat : ss[1] < ss[2]}
<1>1. IsWellFoundedOn(R, Nat)
  BY NatLessThanWellFounded DEF OpToRel
<1>2. \A x, y \in Nat : <<y, x>> \in R <=> y < x
  OBVIOUS
<1> HIDE DEF R
<1>3. \E x \in T : \A y \in T : <<y, x>> \notin R
  BY <1>1, WFMin
<1>4. PICK x \in T : \A y \in T : <<y, x>> \notin R
  BY <1>3
<1>5. \A y \in T : x \in Nat /\ y \in Nat /\ ~(y < x)
  BY <1>2, <1>4
<1> QED BY <1>5

\* Induction, for a set instead of a predicate.
LEMMA NatSetInduction ==
  ASSUME NEW S, 0 \in S, \A n \in Nat : n \in S => n + 1 \in S
  PROVE  Nat \subseteq S
<1> SUFFICES ASSUME Nat \ S # {} PROVE FALSE
  OBVIOUS
<1>1. PICK x \in Nat \ S : \A y \in Nat \ S : x <= y
  BY LeastNatural
<1>2. x # 0 /\ x - 1 \in Nat /\ x - 1 \in S
  BY <1>1
<1> QED BY <1>1, <1>2

-----------------------------------------------------------------------------
(***************************************************************************)
(* Folds                                                                   *)
(*                                                                         *)
(* MapThenFoldSet folds by a recursive function on the subsets of its      *)
(* argument, so there is first such a function to show: it is built up by  *)
(* induction on the size of the subsets.                                   *)
(***************************************************************************)
\* What holds of the empty set, and of each subset of F when it holds of the subset
\* less some member, holds of them all.
LEMMA SubsetInduction ==
  ASSUME NEW F, IsFiniteSet(F), NEW G, {} \in G,
         \A s \in SUBSET F : s # {} => \E x \in s : s \ {x} \in G => s \in G
  PROVE  SUBSET F \subseteq G
<1> DEFINE S == {n \in Nat : \A s \in SUBSET F : Cardinality(s) = n => s \in G}
<1>1. 0 \in S
  <2>1. ASSUME NEW s \in SUBSET F, Cardinality(s) = 0 PROVE s \in G
    BY <2>1, FS_Subset, FS_EmptySet
  <2> QED BY <2>1
<1>2. ASSUME NEW n \in Nat, n \in S PROVE n + 1 \in S
  <2>1. ASSUME NEW s \in SUBSET F, Cardinality(s) = n + 1 PROVE s \in G
    <3>1. s # {}
      <4>1. Cardinality({}) = 0
        BY FS_EmptySet
      <4>2. Cardinality(s) # 0
        BY <2>1
      <4> QED BY <4>1, <4>2
    <3>2. PICK x \in s : s \ {x} \in G => s \in G
      BY <3>1
    <3>3. IsFiniteSet(s)
      BY FS_Subset
    <3>4. Cardinality(s \ {x}) = Cardinality(s) - 1
      BY <3>3, FS_RemoveElement
    <3>5. Cardinality(s \ {x}) = n
      BY <2>1, <3>4
    <3> QED BY <1>2, <3>2, <3>5
  <2> QED BY <2>1
<1>3. Nat \subseteq S
  <2> HIDE DEF S
  <2> QED BY <1>1, <1>2, NatSetInduction
<1> QED BY <1>3, FS_Subset, FS_CardinalityType

\* A finite set of naturals has a greatest member.
LEMMA GreatestNatural ==
  ASSUME NEW T, T \subseteq Nat, T # {}, IsFiniteSet(T)
  PROVE  \E x \in T : \A y \in T : x >= y
<1> DEFINE G == {s \in SUBSET T : s # {} => \E x \in s : \A y \in s : x >= y}
<1>1. ASSUME NEW s \in SUBSET T, NEW x \in s, s \ {x} \in G PROVE s \in G
  <2>1. CASE s \ {x} = {}
    <3>1. \A y \in s : y = x
      BY <2>1
    <3> QED BY <3>1
  <2>2. CASE s \ {x} # {}
    <3>1. PICK z \in s \ {x} : \A y \in s \ {x} : z >= y
      BY <1>1, <2>2
    <3>2. CASE x >= z
      BY <3>1, <3>2
    <3>3. CASE ~(x >= z)
      BY <3>1, <3>3
    <3> QED BY <3>2, <3>3
  <2> QED BY <2>1, <2>2
<1>2. {} \in G
  OBVIOUS
<1>3. \A s \in SUBSET T : s # {} => \E x \in s : s \ {x} \in G => s \in G
  <2> HIDE DEF G
  <2> QED BY <1>1
<1>4. SUBSET T \subseteq G
  <2> HIDE DEF G
  <2> QED BY <1>2, <1>3, SubsetInduction
<1> QED BY <1>4

\* it folds with op from base over the sets of D, taking m[s] of s first.
IsFold(it, D, base, op, m) ==
  it = [s \in D |-> IF s = {} THEN base ELSE op[m[s]][it[s \ {m[s]}]]]

UpTo(F, n) == {s \in SUBSET F : Cardinality(s) <= n}

LEMMA FoldExists ==
  ASSUME NEW F, IsFiniteSet(F), NEW base, NEW op,
         NEW m, \A s \in SUBSET F : s # {} => m[s] \in s
  PROVE  \E it : IsFold(it, SUBSET F, base, op, m)
<1> DEFINE S == {n \in Nat : \E h : IsFold(h, UpTo(F, n), base, op, m)}
<1>0. ASSUME NEW n \in Nat, NEW s \in UpTo(F, n + 1), s # {}
      PROVE  s \ {m[s]} \in UpTo(F, n)
  <2>1. IsFiniteSet(s) /\ m[s] \in s /\ Cardinality(s) <= n + 1
    BY <1>0, FS_Subset DEF UpTo
  <2>2. Cardinality(s \ {m[s]}) = Cardinality(s) - 1 /\ Cardinality(s) \in Nat
    BY <2>1, FS_RemoveElement, FS_CardinalityType
  <2> QED BY <2>1, <2>2 DEF UpTo
<1>1. 0 \in S
  <2>1. \A s \in UpTo(F, 0) : s = {}
    <3> TAKE s \in UpTo(F, 0)
    <3>1. IsFiniteSet(s) /\ Cardinality(s) \in Nat /\ Cardinality(s) <= 0
      BY FS_Subset, FS_CardinalityType DEF UpTo
    <3> QED BY <3>1, FS_EmptySet
  <2>2. IsFold([s \in UpTo(F, 0) |-> base], UpTo(F, 0), base, op, m)
    BY <2>1 DEF IsFold
  <2> QED BY <2>2
<1>2. ASSUME NEW n \in Nat, n \in S PROVE n + 1 \in S
  <2>1. PICK h : IsFold(h, UpTo(F, n), base, op, m)
    BY <1>2
  <2> DEFINE Next1(s) == IF s = {} THEN base ELSE op[m[s]][h[s \ {m[s]}]]
             g == [s \in UpTo(F, n + 1) |-> Next1(s)]
  <2>2. \A s \in UpTo(F, n) : h[s] = Next1(s)
    BY <2>1 DEF IsFold
  <2>3. \A s \in UpTo(F, n) : s \in UpTo(F, n + 1)
    <3> TAKE s \in UpTo(F, n)
    <3>1. Cardinality(s) \in Nat
      BY FS_Subset, FS_CardinalityType DEF UpTo
    <3> QED BY <3>1 DEF UpTo
  <2>4. \A s \in UpTo(F, n) : g[s] = h[s]
    BY <2>2, <2>3
  <2>5. ASSUME NEW s \in UpTo(F, n + 1)
        PROVE  g[s] = IF s = {} THEN base ELSE op[m[s]][g[s \ {m[s]}]]
    BY <1>0, <2>4
  <2>6. IsFold(g, UpTo(F, n + 1), base, op, m)
    <3> HIDE DEF Next1
    <3>1. g = [s \in UpTo(F, n + 1) |-> g[s]]
      OBVIOUS
    <3> HIDE DEF g
    <3> QED BY <2>5, <3>1 DEF IsFold
  <2> HIDE DEF g
  <2> QED BY <2>6
<1>3. Cardinality(F) \in S
  <2> HIDE DEF S
  <2> QED BY <1>1, <1>2, NatSetInduction, FS_CardinalityType
<1>4. UpTo(F, Cardinality(F)) = SUBSET F
  BY FS_Subset DEF UpTo
<1>5. PICK h : IsFold(h, UpTo(F, Cardinality(F)), base, op, m)
  BY <1>3
<1> QED BY <1>4, <1>5

-----------------------------------------------------------------------------
(***************************************************************************)
(* Lists                                                                   *)
(***************************************************************************)
\* The members of s, each once, none before one that R puts before it.
Lists(q, s, R) ==
  /\ q \in [1..Cardinality(s) -> s]
  /\ \A f \in s : \E i \in 1..Cardinality(s) : q[i] = f
  /\ \A i, j \in 1..Cardinality(s) : i # j => q[i] # q[j]
  /\ \A i, j \in 1..Cardinality(s) : i < j => <<q[j], q[i]>> \notin R

\* Adding one that nothing comes after at the end keeps all that.
LEMMA AppendLast ==
  ASSUME NEW s, NEW f \in s, NEW R, NEW q, Lists(q, s \ {f}, R),
         Cardinality(s \ {f}) \in Nat, Cardinality(s) = Cardinality(s \ {f}) + 1,
         \A g \in s : <<f, g>> \notin R
  PROVE  Lists(Append(q, f), s, R)
<1> DEFINE n == Cardinality(s \ {f})
           r == Append(q, f)
<1>1. q \in [1..n -> s \ {f}] /\ n \in Nat /\ Cardinality(s) = n + 1
  BY DEF Lists
<1>0. \A i, j \in 1..n : /\ i # j => q[i] # q[j]
                         /\ i < j => <<q[j], q[i]>> \notin R
  BY DEF Lists
<1> HIDE DEF n
<1>2. q \in Seq(s) /\ Len(q) = n /\ f \in s
  <2>1. q \in [1..n -> s]
    BY <1>1
  <2> QED BY <1>1, <2>1
<1>3. r \in Seq(s) /\ Len(r) = n + 1 /\ r[n + 1] = f /\ \A i \in 1..n : r[i] = q[i]
  BY <1>2
<1> HIDE DEF r
<1>4. r \in [1..n + 1 -> s]
  BY <1>3
<1>5. \A g \in s : \E i \in 1..n + 1 : r[i] = g
  <2> TAKE g \in s
  <2>1. CASE g = f
    BY <2>1, <1>1, <1>3
  <2>2. CASE g # f
    <3>1. PICK i \in 1..n : q[i] = g
      BY <2>2 DEF Lists, n
    <3> QED BY <3>1, <1>1, <1>3
  <2> QED BY <2>1, <2>2
<1>6. ASSUME NEW i \in 1..n + 1, NEW j \in 1..n + 1, i < j
      PROVE  r[i] # r[j] /\ <<r[j], r[i]>> \notin R
  <2>1. i \in 1..n /\ r[i] = q[i] /\ q[i] \in s /\ q[i] # f
    BY <1>1, <1>3, <1>6
  <2>2. CASE j = n + 1
    BY <2>1, <2>2, <1>3
  <2>3. CASE j # n + 1
    <3>1. j \in 1..n /\ r[j] = q[j]
      BY <2>3, <1>1, <1>3
    <3>2. q[i] # q[j] /\ <<q[j], q[i]>> \notin R
      <4>1. i # j
        BY <1>6, <1>1
      <4> QED BY <2>1, <3>1, <1>6, <1>0, <4>1
    <3> QED BY <2>1, <3>1, <3>2
  <2> QED BY <2>2, <2>3
<1>7. \A i, j \in 1..n + 1 : i # j => r[i] # r[j]
  <2> TAKE i, j \in 1..n + 1
  <2>1. CASE i < j
    BY <2>1, <1>6
  <2>2. CASE j < i
    <3>1. r[j] # r[i]
      BY <2>2, <1>6
    <3> QED BY <3>1
  <2> QED BY <2>1, <2>2, <1>1
<1> QED BY <1>1, <1>4, <1>5, <1>6, <1>7 DEF Lists, r

\* it lists each subset of F, the one m picks last.
Appends(it, F, m) ==
  it = [s \in SUBSET F |-> IF s = {} THEN <<>> ELSE Append(it[s \ {m[s]}], m[s])]

\* A fold that appends what nothing comes after exists and lists its argument.
LEMMA AppendFold ==
  ASSUME NEW F, IsFiniteSet(F), NEW R, NEW m,
         \A s \in SUBSET F : s # {} => m[s] \in s /\ \A g \in s : <<m[s], g>> \notin R
  PROVE  /\ \E it : Appends(it, F, m)
         /\ \A it : Appends(it, F, m) => Lists(it[F], F, R)
<1>1. \E it : Appends(it, F, m)
  <2> DEFINE op == [x \in F |-> [q \in Seq(F) |-> Append(q, x)]]
  <2>1. PICK it : IsFold(it, SUBSET F, <<>>, op, m)
    <3> HIDE DEF op
    <3> QED BY FoldExists
  <2> DEFINE G == {s \in SUBSET F : it[s] \in Seq(F)}
  <2>2. \A s \in SUBSET F : it[s] = IF s = {} THEN <<>> ELSE op[m[s]][it[s \ {m[s]}]]
    <3> HIDE DEF op
    <3> QED BY <2>1 DEF IsFold
  <2>3. {} \in G
    <3>1. it[{}] = <<>>
      <4> HIDE DEF op
      <4> QED BY <2>2
    <3>2. <<>> \in Seq(F)
      OBVIOUS
    <3> HIDE DEF op
    <3> QED BY <3>1, <3>2
  <2>4. ASSUME NEW s \in SUBSET F, s # {}, s \ {m[s]} \in G
        PROVE  it[s] = Append(it[s \ {m[s]}], m[s]) /\ s \in G
    <3>1. m[s] \in F /\ it[s \ {m[s]}] \in Seq(F)
      BY <2>4
    <3>2. it[s] = op[m[s]][it[s \ {m[s]}]]
      BY <2>2, <2>4, Zenon
    <3>3. it[s] = Append(it[s \ {m[s]}], m[s])
      BY <3>1, <3>2
    <3>4. Append(it[s \ {m[s]}], m[s]) \in Seq(F)
      BY <3>1
    <3> HIDE DEF op
    <3> QED BY <3>3, <3>4
  <2>5. SUBSET F \subseteq G
    <3>1. \A s \in SUBSET F : s # {} => \E x \in s : s \ {x} \in G => s \in G
      <4> TAKE s \in SUBSET F
      <4> HAVE s # {}
      <4> WITNESS m[s] \in s
      <4> HIDE DEF G
      <4> QED BY <2>4
    <3> HIDE DEF G
    <3> QED BY <2>3, <3>1, SubsetInduction
  <2>6. \A s \in SUBSET F : it[s] = IF s = {} THEN <<>> ELSE Append(it[s \ {m[s]}], m[s])
    <3> TAKE s \in SUBSET F
    <3>1. CASE s = {}
      BY <2>2, <3>1
    <3>2. CASE s # {}
      <4>1. s \ {m[s]} \in G
        BY <2>5
      <4> QED BY <2>4, <3>2, <4>1
    <3> QED BY <3>1, <3>2
  <2>7. it = [s \in SUBSET F |-> it[s]]
    BY <2>1 DEF IsFold
  <2> QED BY <2>6, <2>7 DEF Appends
<1>2. ASSUME NEW it, Appends(it, F, m) PROVE Lists(it[F], F, R)
  <2> DEFINE G == {s \in SUBSET F : Lists(it[s], s, R)}
  <2>1. {} \in G
    <3>1. it[{}] = <<>> /\ Cardinality({}) = 0
      BY <1>2, FS_EmptySet DEF Appends
    <3>2. <<>> \in [1..0 -> {}]
      OBVIOUS
    <3>3. Lists(<<>>, {}, R)
      BY <3>1, <3>2 DEF Lists
    <3> QED BY <3>1, <3>3
  <2>2. ASSUME NEW s \in SUBSET F, s # {}, s \ {m[s]} \in G PROVE s \in G
    <3>1. IsFiniteSet(s) /\ m[s] \in s
      BY <2>2, FS_Subset
    <3>2. /\ Cardinality(s) \in Nat /\ Cardinality(s \ {m[s]}) \in Nat
          /\ Cardinality(s \ {m[s]}) = Cardinality(s) - 1
      BY <3>1, FS_RemoveElement, FS_CardinalityType
    <3>3. it[s] = Append(it[s \ {m[s]}], m[s])
      BY <1>2, <2>2 DEF Appends
    <3>4. Lists(Append(it[s \ {m[s]}], m[s]), s, R)
      BY <2>2, <3>1, <3>2, AppendLast
    <3> QED BY <3>3, <3>4
  <2>3. SUBSET F \subseteq G
    <3> HIDE DEF G
    <3> QED BY <2>1, <2>2, SubsetInduction
  <2> QED BY <2>3
<1> QED BY <1>1, <1>2

-----------------------------------------------------------------------------
\* The numbers of a finite set, going up.
LEMMA InOrderLists ==
  ASSUME NEW S, S \subseteq Nat, IsFiniteSet(S)
  PROVE  /\ Cardinality(S) \in Nat
         /\ InOrder(S) \in [1..Cardinality(S) -> S]
         /\ Len(InOrder(S)) = Cardinality(S)
         /\ \A x \in S : \E k \in 1..Cardinality(S) : InOrder(S)[k] = x
         /\ \A j, k \in 1..Cardinality(S) : j < k => InOrder(S)[j] < InOrder(S)[k]
<1> DEFINE m == [s \in SUBSET S |-> Max(s)]
           R == {p \in S \X S : p[1] < p[2]}
           it == CHOOSE iter :
             iter = [s \in SUBSET S |-> IF s = {} THEN <<>> ELSE Append(iter[s \ {Max(s)}], Max(s))]
<1>1. \A s \in SUBSET S : s # {} => m[s] \in s /\ \A g \in s : <<m[s], g>> \notin R
  <2> SUFFICES ASSUME NEW s \in SUBSET S, s # {}
               PROVE  m[s] \in s /\ \A g \in s : <<m[s], g>> \notin R
    OBVIOUS
  <2>1. \E x \in s : \A y \in s : x >= y
    BY GreatestNatural, FS_Subset
  <2>2. Max(s) \in s /\ \A y \in s : Max(s) >= y
    BY <2>1 DEF Max
  <2>3. m[s] = Max(s)
    OBVIOUS
  <2>4. ASSUME NEW g \in s PROVE <<m[s], g>> \notin R
    <3> HIDE DEF m, it
    <3>1. Max(s) \in Nat /\ g \in Nat /\ Max(s) >= g
      <4> HIDE DEF R
      <4> QED BY <2>2
    <3> QED BY <2>3, <3>1
  <2> HIDE DEF m, R, it
  <2> QED BY <2>2, <2>3, <2>4
<1>2. (\E iter : Appends(iter, S, m)) /\ \A iter : Appends(iter, S, m) => Lists(iter[S], S, R)
  <2> HIDE DEF m, R
  <2> QED BY <1>1, AppendFold
<1>3. Appends(it, S, m)
  <2>1. \A iter : Appends(iter, S, m) <=>
          iter = [s \in SUBSET S |-> IF s = {} THEN <<>> ELSE Append(iter[s \ {Max(s)}], Max(s))]
    BY DEF Appends
  <2> HIDE DEF m
  <2> QED BY <1>2, <2>1
<1>4. InOrder(S) = it[S]
  BY DEF InOrder, MapThenFoldSet
<1>5. Lists(InOrder(S), S, R) /\ Cardinality(S) \in Nat
  <2> HIDE DEF it
  <2> QED BY <1>2, <1>3, <1>4, FS_CardinalityType
<1> DEFINE q == InOrder(S)
           n == Cardinality(S)
<1>6. /\ q \in [1..n -> S] /\ n \in Nat
      /\ \A x \in S : \E k \in 1..n : q[k] = x
      /\ \A j, k \in 1..n : j # k => q[j] # q[k]
      /\ \A j, k \in 1..n : j < k => <<q[k], q[j]>> \notin R
  <2> HIDE DEF R
  <2> QED BY <1>5 DEF Lists
<1> HIDE DEF q, n
<1>7. \A j, k \in 1..n : j < k => q[j] < q[k]
  <2> TAKE j, k \in 1..n
  <2> HAVE j < k
  <2>1. q[j] \in S /\ q[k] \in S /\ q[j] # q[k]
    BY <1>6
  <2>2. <<q[k], q[j]>> \in S \X S /\ <<q[k], q[j]>> \notin R
    BY <1>6, <2>1
  <2> HIDE DEF m, it
  <2>3. ~(q[k] < q[j])
    BY <2>2
  <2>4. q[j] \in Nat /\ q[k] \in Nat
    BY <2>1
  <2> HIDE DEF R
  <2> QED BY <2>1, <2>3, <2>4
<1>8. Len(q) = n
  BY <1>6
<1> QED BY <1>6, <1>7, <1>8 DEF q, n

-----------------------------------------------------------------------------
(***************************************************************************)
(* Sums                                                                    *)
(***************************************************************************)
\* it adds up a over the subsets of D.
Sums(it, D, a) ==
  it = [s \in SUBSET D |->
          IF s = {} THEN 0 ELSE a[CHOOSE x \in s : TRUE] + it[s \ {CHOOSE x \in s : TRUE}]]

\* Parts of a set that do not overlap add up to it.
LEMMA SumFold ==
  ASSUME NEW D, IsFiniteSet(D), NEW M, \A k \in D : IsFiniteSet(M[k]),
         \A j, k \in D : j # k => M[j] \cap M[k] = {},
         NEW a, \A k \in D : a[k] = Cardinality(M[k])
  PROVE  /\ \E it : Sums(it, D, a)
         /\ \A it : Sums(it, D, a) => it[D] = Cardinality(UNION {M[k] : k \in D})
<1> DEFINE m == [s \in SUBSET D |-> CHOOSE x \in s : TRUE]
           Parts(s) == UNION {M[k] : k \in s}
<1>0. \A s \in SUBSET D : s # {} => m[s] \in s /\ m[s] = CHOOSE x \in s : TRUE
  OBVIOUS
<1>1. \A k \in D : a[k] \in Nat
  BY FS_CardinalityType
<1>2. \E it : Sums(it, D, a)
  <2> DEFINE op == [x \in D |-> [n \in Nat |-> a[x] + n]]
  <2>1. PICK it : IsFold(it, SUBSET D, 0, op, m)
    <3> HIDE DEF op, m
    <3> QED BY <1>0, FoldExists
  <2> DEFINE G == {s \in SUBSET D : it[s] \in Nat}
  <2>2. \A s \in SUBSET D : it[s] = IF s = {} THEN 0 ELSE op[m[s]][it[s \ {m[s]}]]
    <3> HIDE DEF op, m
    <3> QED BY <2>1 DEF IsFold
  <2>3. {} \in G
    <3>1. it[{}] = 0
      <4> HIDE DEF op, m
      <4> QED BY <2>2
    <3> HIDE DEF op, m
    <3> QED BY <3>1
  <2> HIDE DEF m
  <2>4. ASSUME NEW s \in SUBSET D, s # {}, s \ {m[s]} \in G
        PROVE  it[s] = a[m[s]] + it[s \ {m[s]}] /\ s \in G
    <3>1. m[s] \in D /\ it[s \ {m[s]}] \in Nat /\ a[m[s]] \in Nat
      BY <1>0, <1>1, <2>4
    <3>2. it[s] = op[m[s]][it[s \ {m[s]}]]
      BY <2>2, <2>4, Zenon
    <3>3. it[s] = a[m[s]] + it[s \ {m[s]}]
      BY <3>1, <3>2
    <3> HIDE DEF op
    <3> QED BY <3>1, <3>3
  <2>5. SUBSET D \subseteq G
    <3>1. \A s \in SUBSET D : s # {} => \E x \in s : s \ {x} \in G => s \in G
      <4> TAKE s \in SUBSET D
      <4> HAVE s # {}
      <4>1. m[s] \in s
        BY <1>0
      <4> WITNESS m[s] \in s
      <4> HIDE DEF G, op
      <4> QED BY <2>4
    <3> HIDE DEF G, op
    <3> QED BY <2>3, <3>1, SubsetInduction
  <2>6. \A s \in SUBSET D : it[s] = IF s = {} THEN 0 ELSE a[m[s]] + it[s \ {m[s]}]
    <3> TAKE s \in SUBSET D
    <3>1. CASE s = {}
      <4> HIDE DEF op
      <4> QED BY <2>2, <3>1
    <3>2. CASE s # {}
      <4>1. s \ {m[s]} \in G
        BY <2>5
      <4> HIDE DEF G, op
      <4> QED BY <2>4, <3>2, <4>1
    <3> QED BY <3>1, <3>2
  <2>7. it = [s \in SUBSET D |-> it[s]]
    <3> HIDE DEF op
    <3> QED BY <2>1 DEF IsFold
  <2>8. \A s \in SUBSET D :
          it[s] = IF s = {} THEN 0
                  ELSE a[CHOOSE x \in s : TRUE] + it[s \ {CHOOSE x \in s : TRUE}]
    <3> HIDE DEF op
    <3> QED BY <1>0, <2>6
  <2> DEFINE b == [s \in SUBSET D |->
                    IF s = {} THEN 0
                    ELSE a[CHOOSE x \in s : TRUE] + it[s \ {CHOOSE x \in s : TRUE}]]
  <2>9. it = b
    <3>1. \A s \in SUBSET D : b[s] = it[s]
      <4> HIDE DEF op
      <4> QED BY <2>8
    <3>2. b = [s \in SUBSET D |-> b[s]]
      OBVIOUS
    <3> HIDE DEF op, b
    <3> QED BY <2>7, <3>1, <3>2
  <2> HIDE DEF op
  <2> QED BY <2>9 DEF Sums
<1>3. ASSUME NEW it, Sums(it, D, a) PROVE it[D] = Cardinality(Parts(D))
  <2> DEFINE G == {s \in SUBSET D : IsFiniteSet(Parts(s)) /\ it[s] = Cardinality(Parts(s))}
  <2>1. {} \in G
    <3>1. Parts({}) = {} /\ it[{}] = 0
      BY <1>3 DEF Sums
    <3> HIDE DEF Parts
    <3> QED BY <3>1, FS_EmptySet
  <2>2. ASSUME NEW s \in SUBSET D, s # {}, s \ {m[s]} \in G PROVE s \in G
    <3> DEFINE x == m[s]
    <3>1. x \in s /\ x \in D
      BY <1>0, <2>2
    <3>2. it[s] = a[x] + it[s \ {x}]
      <4>1. x = CHOOSE y \in s : TRUE
        BY <1>0, <2>2
      <4> HIDE DEF x, m
      <4> QED BY <1>3, <2>2, <4>1 DEF Sums
    <3> HIDE DEF x
    <3>3. Parts(s) = Parts(s \ {x}) \cup M[x] /\ Parts(s \ {x}) \cap M[x] = {}
      BY <3>1
    <3>4. /\ IsFiniteSet(Parts(s \ {x})) /\ it[s \ {x}] = Cardinality(Parts(s \ {x}))
          /\ IsFiniteSet(M[x]) /\ a[x] = Cardinality(M[x])
      BY <2>2, <3>1 DEF x
    <3> HIDE DEF Parts
    <3>5. IsFiniteSet(Parts(s)) /\ Cardinality(Parts(s)) = Cardinality(Parts(s \ {x})) + Cardinality(M[x])
      <4>1. Cardinality({}) = 0
        BY FS_EmptySet
      <4> DEFINE A == Parts(s \ {x})
                 B == M[x]
      <4>2. IsFiniteSet(A) /\ IsFiniteSet(B) /\ A \cap B = {} /\ Parts(s) = A \cup B
        BY <3>3, <3>4
      <4> HIDE DEF A, B
      <4>3. /\ IsFiniteSet(A \cup B)
            /\ Cardinality(A \cup B) = Cardinality(A) + Cardinality(B) - Cardinality(A \cap B)
        BY <4>2, FS_Union
      <4>4. Cardinality(A) \in Nat /\ Cardinality(B) \in Nat
        BY <4>2, FS_CardinalityType
      <4>5. Cardinality(A \cup B) = Cardinality(A) + Cardinality(B)
        <5>1. Cardinality(A \cap B) = 0
          BY <4>1, <4>2, Zenon
        <5> QED BY <4>3, <4>4, <5>1
      <4> QED BY <4>2, <4>3, <4>5 DEF A, B
    <3>6. Cardinality(Parts(s \ {x})) \in Nat /\ Cardinality(M[x]) \in Nat
      BY <3>4, FS_CardinalityType
    <3> QED BY <3>2, <3>4, <3>5, <3>6
  <2>3. SUBSET D \subseteq G
    <3>1. \A s \in SUBSET D : s # {} => \E x \in s : s \ {x} \in G => s \in G
      <4> TAKE s \in SUBSET D
      <4> HAVE s # {}
      <4>1. m[s] \in s
        BY <1>0
      <4> HIDE DEF m, G
      <4> WITNESS m[s] \in s
      <4> QED BY <2>2
    <3> HIDE DEF G, m
    <3> QED BY <2>1, <3>1, SubsetInduction
  <2> QED BY <2>3
<1> QED BY <1>2, <1>3

-----------------------------------------------------------------------------
(***************************************************************************)
(* The order                                                               *)
(***************************************************************************)
\* What every finding of a rule is: of that rule, with one of the severities.
IsFinding(f) ==
  f.rule \in AllRules /\ f.severity \in {"INFO", "LOW", "MEDIUM", "HIGH", "CRITICAL"}

LEMMA RulesAre == AllRules = 1..18
BY DEF AllRules, Registry

\* The five ranks tell the five severities apart.
LEMMA RankIs ==
  /\ Rank("INFO") = 0 /\ Rank("LOW") = 1 /\ Rank("MEDIUM") = 2
  /\ Rank("HIGH") = 3 /\ Rank("CRITICAL") = 4
BY DEF Rank, Ranks

\* Where a finding comes in the order, as one number.
Place(f) == (4 - Rank(f.severity)) * 20 + f.rule

LEMMA PlaceOrders ==
  ASSUME NEW f, NEW g, IsFinding(f), IsFinding(g)
  PROVE  /\ Place(f) \in 0..100
         /\ WorstFirst(f, g) <=> Place(f) < Place(g)
BY RankIs, RulesAre DEF IsFinding, WorstFirst, Place

\* Among findings there is one that no other comes after.
LEMMA MildestExists ==
  ASSUME NEW F, F # {}, \A f \in F : IsFinding(f)
  PROVE  Mildest(F) \in F /\ \A g \in F : ~WorstFirst(Mildest(F), g)
<1> DEFINE T == {100 - Place(f) : f \in F}
<1>1. T \subseteq Nat /\ T # {}
  BY PlaceOrders
<1>2. PICK x \in T : \A y \in T : x <= y
  <2> HIDE DEF T
  <2> QED BY <1>1, LeastNatural
<1>3. PICK f \in F : x = 100 - Place(f)
  BY <1>2
<1>4. \A g \in F : Place(g) <= Place(f)
  <2> TAKE g \in F
  <2>1. 100 - Place(f) <= 100 - Place(g)
    BY <1>2, <1>3
  <2> QED BY <2>1, PlaceOrders
<1>5. \A g \in F : ~WorstFirst(f, g)
  BY <1>4, PlaceOrders
<1> QED BY <1>5 DEF Mildest

\* The findings of s, each once, none before a worse one.
IsOrderOf(q, s) ==
  /\ q \in [1..Cardinality(s) -> s]
  /\ \A f \in s : \E i \in 1..Cardinality(s) : q[i] = f
  /\ \A i, j \in 1..Cardinality(s) : i # j => q[i] # q[j]
  /\ \A i, j \in 1..Cardinality(s) : i < j => ~WorstFirst(q[j], q[i])

\* A report lists each finding once, in an order in which none comes before one
\* that is worse (sortFindings).
THEOREM SortedWorstFirst ==
  ASSUME NEW F, IsFiniteSet(F), \A f \in F : IsFinding(f)
  PROVE  IsOrderOf(SortFindings(F), F)
<1> DEFINE m == [s \in SUBSET F |-> Mildest(s)]
           R == {p \in F \X F : WorstFirst(p[1], p[2])}
           it == CHOOSE iter :
             iter = [s \in SUBSET F |->
                       IF s = {} THEN <<>> ELSE Append(iter[s \ {Mildest(s)}], Mildest(s))]
<1>1. \A s \in SUBSET F : s # {} => m[s] \in s /\ \A g \in s : <<m[s], g>> \notin R
  <2> SUFFICES ASSUME NEW s \in SUBSET F, s # {}
               PROVE  m[s] \in s /\ \A g \in s : <<m[s], g>> \notin R
    OBVIOUS
  <2>1. m[s] = Mildest(s)
    OBVIOUS
  <2>2. Mildest(s) \in s /\ \A g \in s : ~WorstFirst(Mildest(s), g)
    BY MildestExists
  <2> HIDE DEF m, it
  <2> QED BY <2>1, <2>2
<1>2. (\E iter : Appends(iter, F, m)) /\ \A iter : Appends(iter, F, m) => Lists(iter[F], F, R)
  <2> HIDE DEF m, R
  <2> QED BY <1>1, AppendFold
<1>3. Appends(it, F, m)
  <2>1. \A iter : Appends(iter, F, m) <=>
          iter = [s \in SUBSET F |->
                    IF s = {} THEN <<>> ELSE Append(iter[s \ {Mildest(s)}], Mildest(s))]
    BY DEF Appends
  <2> HIDE DEF m
  <2> QED BY <1>2, <2>1
<1>4. SortFindings(F) = it[F]
  BY DEF SortFindings, MapThenFoldSet
<1> DEFINE q == SortFindings(F)
           n == Cardinality(F)
<1>5. /\ q \in [1..n -> F]
      /\ \A f \in F : \E i \in 1..n : q[i] = f
      /\ \A i, j \in 1..n : i # j => q[i] # q[j]
      /\ \A i, j \in 1..n : i < j => <<q[j], q[i]>> \notin R
  <2> HIDE DEF it, R, m
  <2>1. Lists(q, F, R)
    BY <1>2, <1>3, <1>4
  <2> HIDE DEF q
  <2> QED BY <2>1 DEF Lists
<1> HIDE DEF q, n, it, m
<1>6. \A i, j \in 1..n : i < j => ~WorstFirst(q[j], q[i])
  BY <1>5
<1> HIDE DEF R
<1> QED BY <1>5, <1>6 DEF IsOrderOf, q, n

-----------------------------------------------------------------------------
(***************************************************************************)
(* Finite sets                                                             *)
(***************************************************************************)
\* What a function makes of a finite set is finite, and as large when it tells its
\* arguments apart.
LEMMA ImageIsFinite ==
  ASSUME NEW S, IsFiniteSet(S), NEW g, DOMAIN g = S
  PROVE  /\ IsFiniteSet({g[x] : x \in S})
         /\ (\A x, y \in S : g[x] = g[y] => x = y) =>
              Cardinality({g[x] : x \in S}) = Cardinality(S)
<1> DEFINE T == {g[x] : x \in S}
           h == [x \in S |-> g[x]]
<1>0. h \in [S -> T] /\ (\A x \in S : h[x] = g[x]) /\ \A t \in T : \E x \in S : t = h[x]
  OBVIOUS
<1> HIDE DEF h
<1>1. h \in Surjection(S, T)
  BY <1>0 DEF Surjection
<1>2. IsFiniteSet(T)
  BY <1>1, FS_Surjection
<1>3. ASSUME \A x, y \in S : g[x] = g[y] => x = y
      PROVE  Cardinality(T) = Cardinality(S)
  <2>1. h \in Injection(S, T)
    BY <1>0, <1>3 DEF Injection, IsInjective
  <2> QED BY <1>1, <2>1, FS_Surjection
<1> QED BY <1>2, <1>3

\* And never larger.
LEMMA ImageIsSmaller ==
  ASSUME NEW S, IsFiniteSet(S), NEW g, DOMAIN g = S
  PROVE  Cardinality({g[x] : x \in S}) <= Cardinality(S)
<1> DEFINE T == {g[x] : x \in S}
           h == [x \in S |-> g[x]]
<1>0. h \in [S -> T] /\ \A t \in T : \E x \in S : t = h[x]
  OBVIOUS
<1> HIDE DEF h
<1>1. h \in Surjection(S, T)
  BY <1>0 DEF Surjection
<1> QED BY <1>1, FS_Surjection

-----------------------------------------------------------------------------
(***************************************************************************)
(* The rules                                                               *)
(***************************************************************************)
LEMMA RegistryIs ==
  \A r \in AllRules :
    Registry[r].severity \in {"INFO", "LOW", "MEDIUM", "HIGH", "CRITICAL"}
<1> SUFFICES ASSUME NEW r \in 1..18
             PROVE  Registry[r].severity \in {"INFO", "LOW", "MEDIUM", "HIGH", "CRITICAL"}
  BY RulesAre
<1> QED BY DEF Registry, Entry

\* What a rule's container record says that the proofs look at.
LEMMA RecordIs ==
  ASSUME NEW e, NEW c
  PROVE  LET b == BuildContainer(e, c)
         IN /\ b.id = c /\ b.state = e.state[c]
            /\ b.ports = ConvertPorts(Config[c].published)
            /\ b.mounts = IF c \in e.inspected THEN Config[c].mounts ELSE {}
BY DEF BuildContainer, Uninspected

\* Every finding of rule r, and what it may differ in from another of them.
Says(f, r) == f.rule = r /\ IsFinding(f)

LEMMA NewFindingSays ==
  ASSUME NEW r \in AllRules, NEW kind, NEW id
  PROVE  Says(NewFinding(r, kind, id), r)
BY RegistryIs DEF Says, IsFinding, NewFinding

\* The rules that judge containers one at a time.
LEMMA OnContainersSays ==
  ASSUME NEW e \in ScanEnvironment, NEW r \in AllRules, NEW these, these \subseteq Built(e)
  PROVE  IsFiniteSet(OnContainers(r, these)) /\ \A f \in OnContainers(r, these) : Says(f, r)
<1>1. IsFiniteSet(e.containers)
  <2>1. e.containers \in SUBSET Ids
    BY DEF ScanEnvironment, Ids
  <2> QED BY <2>1, RulesAssumption, FS_Subset
<1> DEFINE g == [c \in e.containers |-> BuildContainer(e, c)]
           h == [b \in these |-> NewFinding(r, "container", b.id)]
<1>2. Built(e) = {g[c] : c \in e.containers}
  BY DEF Built
<1>0. DOMAIN g = e.containers
  OBVIOUS
<1>3. IsFiniteSet(Built(e))
  <2> HIDE DEF g
  <2> QED BY <1>0, <1>1, <1>2, ImageIsFinite
<1>4. IsFiniteSet(these)
  BY <1>3, FS_Subset
<1>5. OnContainers(r, these) = {h[b] : b \in these}
  BY DEF OnContainers
<1>6. DOMAIN h = these
  OBVIOUS
<1>7. IsFiniteSet(OnContainers(r, these))
  <2> HIDE DEF h
  <2> QED BY <1>4, <1>5, <1>6, ImageIsFinite
<1> QED BY <1>7, NewFindingSays DEF OnContainers

\* Those that judge images, volumes and networks.
LEMMA NewFindingsSay ==
  ASSUME NEW S, IsFiniteSet(S), NEW r \in AllRules, NEW kind
  PROVE  /\ IsFiniteSet({NewFinding(r, kind, id) : id \in S})
         /\ Cardinality({NewFinding(r, kind, id) : id \in S}) = Cardinality(S)
         /\ \A f \in {NewFinding(r, kind, id) : id \in S} : Says(f, r)
<1> DEFINE h == [id \in S |-> NewFinding(r, kind, id)]
           N == {NewFinding(r, kind, id) : id \in S}
<1>1. N = {h[id] : id \in S} /\ DOMAIN h = S
  OBVIOUS
<1>2. \A x, y \in S : h[x] = h[y] => x = y
  <2> TAKE x, y \in S
  <2> HAVE h[x] = h[y]
  <2>1. NewFinding(r, kind, x).resource = x /\ NewFinding(r, kind, y).resource = y
    BY DEF NewFinding
  <2>2. NewFinding(r, kind, x) = NewFinding(r, kind, y)
    OBVIOUS
  <2> HIDE DEF h
  <2> QED BY <2>1, <2>2
<1>3. \A f \in N : Says(f, r)
  BY NewFindingSays
<1> HIDE DEF h, N
<1>4. IsFiniteSet(N) /\ Cardinality(N) = Cardinality(S)
  BY <1>1, <1>2, ImageIsFinite
<1> QED BY <1>3, <1>4 DEF N

\* A machine's resources are finitely many.
LEMMA ResourcesAreFinite ==
  ASSUME NEW e \in ScanEnvironment
  PROVE  /\ IsFiniteSet(e.containers) /\ IsFiniteSet(e.images)
         /\ IsFiniteSet(e.volumes) /\ IsFiniteSet(e.networks)
<1>1. \A S \in SUBSET Ids : IsFiniteSet(S)
  BY RulesAssumption, FS_Subset
<1>2. /\ e.containers \in SUBSET Ids /\ e.images \in SUBSET Ids
      /\ e.volumes \in SUBSET Ids /\ e.networks \in SUBSET Ids
  BY DEF ScanEnvironment, Ids
<1> QED BY <1>1, <1>2

\* One set of findings for each container.
LEMMA PerContainer ==
  ASSUME NEW e \in ScanEnvironment, NEW G, DOMAIN G = e.containers,
         \A c \in e.containers : IsFiniteSet(G[c])
  PROVE  IsFiniteSet(UNION {G[c] : c \in e.containers})
<1>1. IsFiniteSet({G[c] : c \in e.containers})
  BY ResourcesAreFinite, ImageIsFinite
<1> QED BY <1>1, FS_UNION

LEMMA SensitiveHostMountSays ==
  ASSUME NEW e \in ScanEnvironment
  PROVE  IsFiniteSet(SensitiveHostMount(e)) /\ \A f \in SensitiveHostMount(e) : Says(f, 4)
<1> DEFINE F(c, m) == [NewFinding(4, "container", c) EXCEPT
                         !.dest = m.dest,
                         !.severity = IF NormalizeHostPath(m.source) = <<>> /\ ~m.readOnly
                                      THEN "CRITICAL" ELSE @]
           M(c) == {n \in BuildContainer(e, c).mounts : SensitiveMount(n)}
           g(c) == [m \in M(c) |-> F(c, m)]
           G == [c \in e.containers |-> {F(c, m) : m \in M(c)}]
<1>1. ASSUME NEW c \in e.containers PROVE IsFiniteSet(G[c])
  <2>1. c \in Containers
    BY DEF ScanEnvironment
  <2>2. IsFiniteSet(M(c))
    <3>1. IsFiniteSet(BuildContainer(e, c).mounts)
      BY <2>1, RecordIs, RulesAssumption, FS_EmptySet
    <3> QED BY <3>1, FS_Subset
  <2>3. DOMAIN g(c) = M(c) /\ G[c] = {g(c)[m] : m \in M(c)}
    OBVIOUS
  <2> HIDE DEF g, G, M
  <2> QED BY <2>2, <2>3, ImageIsFinite
<1>2. SensitiveHostMount(e) = UNION {G[c] : c \in e.containers} /\ DOMAIN G = e.containers
  BY DEF SensitiveHostMount
<1>3. IsFiniteSet(SensitiveHostMount(e))
  <2> HIDE DEF G
  <2> QED BY <1>1, <1>2, PerContainer
<1>4. ASSUME NEW c, NEW m PROVE Says(F(c, m), 4)
  BY RulesAre DEF Says, IsFinding, NewFinding, Registry, Entry
<1>5. \A f \in SensitiveHostMount(e) : \E c \in e.containers : \E m \in M(c) : f = F(c, m)
  <2> TAKE f \in SensitiveHostMount(e)
  <2>1. PICK c \in e.containers : f \in G[c]
    <3> HIDE DEF G
    <3> QED BY <1>2
  <2>2. f \in {F(c, m) : m \in M(c)}
    BY <2>1
  <2> HIDE DEF F, G, M
  <2> QED BY <2>2
<1> HIDE DEF F, M
<1> QED BY <1>3, <1>4, <1>5

LEMMA DockerSocketMountSays ==
  ASSUME NEW e \in ScanEnvironment
  PROVE  IsFiniteSet(DockerSocketMount(e)) /\ \A f \in DockerSocketMount(e) : Says(f, 5)
<1> DEFINE F(c, m) == [NewFinding(5, "container", c) EXCEPT !.dest = m.dest]
           M(c) == {n \in BuildContainer(e, c).mounts : IsDockerSocket(n)}
           g(c) == [m \in M(c) |-> F(c, m)]
           G == [c \in e.containers |-> {F(c, m) : m \in M(c)}]
<1>1. ASSUME NEW c \in e.containers PROVE IsFiniteSet(G[c])
  <2>1. c \in Containers
    BY DEF ScanEnvironment
  <2>2. IsFiniteSet(M(c))
    <3>1. IsFiniteSet(BuildContainer(e, c).mounts)
      BY <2>1, RecordIs, RulesAssumption, FS_EmptySet
    <3> QED BY <3>1, FS_Subset
  <2>3. DOMAIN g(c) = M(c) /\ G[c] = {g(c)[m] : m \in M(c)}
    OBVIOUS
  <2> HIDE DEF g, G, M
  <2> QED BY <2>2, <2>3, ImageIsFinite
<1>2. DockerSocketMount(e) = UNION {G[c] : c \in e.containers} /\ DOMAIN G = e.containers
  BY DEF DockerSocketMount
<1>3. IsFiniteSet(DockerSocketMount(e))
  <2> HIDE DEF G
  <2> QED BY <1>1, <1>2, PerContainer
<1>4. ASSUME NEW c, NEW m PROVE Says(F(c, m), 5)
  BY RulesAre DEF Says, IsFinding, NewFinding, Registry, Entry
<1>5. \A f \in DockerSocketMount(e) : \E c \in e.containers : \E m \in M(c) : f = F(c, m)
  BY DEF DockerSocketMount
<1> HIDE DEF F, M
<1> QED BY <1>3, <1>4, <1>5

\* Merging the bindings of a dual-stack host leaves at most one for each.
LEMMA PortsAre ==
  ASSUME NEW ports
  PROVE  /\ \A p \in ConvertPorts(ports) : p \in ports
         /\ \A p, q \in ConvertPorts(ports) : PortKey(p) = PortKey(q) => p = q
         /\ IsFiniteSet(ports) => IsFiniteSet(ConvertPorts(ports))
<1> DEFINE K == {PortKey(p) : p \in ports}
           Kept(p, k) == /\ PortKey(p) = k
                         /\ (p.ip \in IPv6 => \A q \in ports : PortKey(q) = k => q.ip \in IPv6)
           g == [k \in K |-> CHOOSE p \in ports : Kept(p, k)]
<1>1. ASSUME NEW k \in K PROVE \E p \in ports : Kept(p, k)
  <2>1. PICK p \in ports : PortKey(p) = k
    OBVIOUS
  <2>2. CASE \E q \in ports : PortKey(q) = k /\ q.ip \notin IPv6
    BY <2>2
  <2>3. CASE ~\E q \in ports : PortKey(q) = k /\ q.ip \notin IPv6
    BY <2>1, <2>3
  <2> QED BY <2>2, <2>3
<1>2. \A k \in K : g[k] \in ports /\ PortKey(g[k]) = k
  <2> TAKE k \in K
  <2>1. (CHOOSE p \in ports : Kept(p, k)) \in ports /\ Kept(CHOOSE p \in ports : Kept(p, k), k)
    <3> HIDE DEF Kept
    <3> QED BY <1>1
  <2> QED BY <2>1
<1>3. ConvertPorts(ports) = {g[k] : k \in K} /\ DOMAIN g = K
  BY DEF ConvertPorts
<1>4. ASSUME IsFiniteSet(ports) PROVE IsFiniteSet(ConvertPorts(ports))
  <2> DEFINE h == [p \in ports |-> PortKey(p)]
  <2>1. K = {h[p] : p \in ports} /\ DOMAIN h = ports
    OBVIOUS
  <2>2. IsFiniteSet(K)
    <3> HIDE DEF h, K
    <3> QED BY <1>4, <2>1, ImageIsFinite
  <2> HIDE DEF g, K
  <2> QED BY <1>3, <2>2, ImageIsFinite
<1> HIDE DEF g, K
<1> QED BY <1>2, <1>3, <1>4

LEMMA ExposedSensitivePortSays ==
  ASSUME NEW e \in ScanEnvironment
  PROVE  IsFiniteSet(ExposedSensitivePort(e)) /\ \A f \in ExposedSensitivePort(e) : Says(f, 6)
<1> DEFINE F(c, p) == [NewFinding(6, "container", c) EXCEPT
                         !.port = <<p.private, p.public, p.proto, p.ip>>,
                         !.severity = IF p.private \in {2375, 2376} THEN "CRITICAL" ELSE @]
           M(c) == {q \in BuildContainer(e, c).ports :
                      IsPublicallyBound(q) /\ q.private \in SensitivePorts}
           g(c) == [p \in M(c) |-> F(c, p)]
           G == [c \in e.containers |-> {F(c, p) : p \in M(c)}]
<1>1. ASSUME NEW c \in e.containers PROVE IsFiniteSet(G[c])
  <2>1. c \in Containers
    BY DEF ScanEnvironment
  <2>2. IsFiniteSet(M(c))
    <3>1. IsFiniteSet(Config[c].published) /\ BuildContainer(e, c).ports = ConvertPorts(Config[c].published)
      BY <2>1, RecordIs, RulesAssumption
    <3>2. IsFiniteSet(BuildContainer(e, c).ports)
      BY <3>1, PortsAre
    <3> QED BY <3>2, FS_Subset
  <2>3. DOMAIN g(c) = M(c) /\ G[c] = {g(c)[p] : p \in M(c)}
    <3> HIDE DEF F, M
    <3> QED OBVIOUS
  <2> HIDE DEF g, G, M
  <2> QED BY <2>2, <2>3, ImageIsFinite
<1>2. ExposedSensitivePort(e) = UNION {G[c] : c \in e.containers} /\ DOMAIN G = e.containers
  <2>1. ExposedSensitivePort(e) = UNION {{F(c, p) : p \in M(c)} : c \in e.containers}
    BY Zenon DEF ExposedSensitivePort
  <2>2. {{F(c, p) : p \in M(c)} : c \in e.containers} = {G[c] : c \in e.containers}
    <3> HIDE DEF F, M
    <3> QED OBVIOUS
  <2> QED BY Zenon, <2>1, <2>2
<1>3. IsFiniteSet(ExposedSensitivePort(e))
  <2> HIDE DEF G
  <2> QED BY <1>1, <1>2, PerContainer
<1>4. ASSUME NEW c, NEW p PROVE Says(F(c, p), 6)
  BY RulesAre DEF Says, IsFinding, NewFinding, Registry, Entry
<1>5. \A f \in ExposedSensitivePort(e) : \E c \in e.containers : \E p \in M(c) : f = F(c, p)
  <2> TAKE f \in ExposedSensitivePort(e)
  <2>1. PICK c \in e.containers : f \in G[c]
    <3> HIDE DEF G
    <3> QED BY <1>2
  <2>2. f \in {F(c, p) : p \in M(c)}
    BY <2>1
  <2> HIDE DEF F, G, M
  <2> QED BY <2>2
<1> HIDE DEF F, M
<1> QED BY <1>3, <1>4, <1>5

LEMMA DangerousCapabilitiesSays ==
  ASSUME NEW e \in ScanEnvironment
  PROVE  IsFiniteSet(DangerousCapabilities(e)) /\ \A f \in DangerousCapabilities(e) : Says(f, 9)
<1> DEFINE S == OnContainers(9, {b \in Built(e) : ~b.privileged /\ b.caps \cap DangerousCaps # {}})
           F(f) == [f EXCEPT !.severity =
                      IF BuildContainer(e, f.resource).caps \cap CriticalCapabilities # {}
                      THEN "CRITICAL" ELSE @]
           g == [f \in S |-> F(f)]
<1>1. IsFiniteSet(S) /\ \A f \in S : Says(f, 9)
  BY OnContainersSays, RulesAre
<1>2. DangerousCapabilities(e) = {g[f] : f \in S} /\ DOMAIN g = S
  BY DEF DangerousCapabilities
<1>3. ASSUME NEW f \in S PROVE Says(g[f], 9)
  <2>1. Says(f, 9)
    BY <1>1
  <2>2. \E b : f = NewFinding(9, "container", b)
    BY DEF OnContainers
  <2> QED BY <2>1, <2>2 DEF Says, IsFinding, NewFinding
<1> HIDE DEF g, S
<1> QED BY <1>1, <1>2, <1>3, ImageIsFinite

\* Check runs the rule of that number.
LEMMA CheckIs ==
  ASSUME NEW e, NEW o
  PROVE  /\ Check(e, o, 1) = RootUser(e) /\ Check(e, o, 2) = PrivilegedContainer(e)
         /\ Check(e, o, 3) = HostNetwork(e) /\ Check(e, o, 4) = SensitiveHostMount(e)
         /\ Check(e, o, 5) = DockerSocketMount(e) /\ Check(e, o, 6) = ExposedSensitivePort(e)
         /\ Check(e, o, 7) = MissingHealthcheck(e) /\ Check(e, o, 8) = MissingRestartPolicy(e)
         /\ Check(e, o, 9) = DangerousCapabilities(e) /\ Check(e, o, 10) = NoMemoryLimit(e)
         /\ Check(e, o, 11) = MutableImageTag(e) /\ Check(e, o, 12) = UnhealthyContainer(e)
         /\ Check(e, o, 13) = RestartLoop(e, o) /\ Check(e, o, 14) = DanglingImage(e)
         /\ Check(e, o, 15) = UnusedImage(e) /\ Check(e, o, 16) = OversizedImage(e, o)
         /\ Check(e, o, 17) = UnusedVolume(e) /\ Check(e, o, 18) = UnusedNetwork(e)
BY DEF Check

\* The thresholds the rules compare with are above zero, and filling in defaults
\* twice, as the config file's and the scanner's calls do, is filling them in once.
THEOREM ThresholdsAreFilledIn ==
  ASSUME NEW o \in [{"large", "restart"} -> Int]
  PROVE  /\ NormalizeOptions(o) \in [{"large", "restart"} -> Nat \ {0}]
         /\ NormalizeOptions(NormalizeOptions(o)) = NormalizeOptions(o)
<1> DEFINE q == NormalizeOptions(o)
<1>1. q \in [{"large", "restart"} -> Nat \ {0}]
  BY DEF NormalizeOptions, DefaultOptions
<1>2. NormalizeOptions(q) = [x \in {"large", "restart"} |-> q[x]]
  <2> HIDE DEF q
  <2> QED BY <1>1 DEF NormalizeOptions
<1> HIDE DEF q
<1>3. NormalizeOptions(q) = q
  BY <1>1, <1>2
<1> QED BY <1>1, <1>3 DEF q

\* Whatever rule is asked, it answers with finitely many findings of its own.
THEOREM RulesSpeakForThemselves ==
  ASSUME NEW e \in ScanEnvironment, NEW o, NEW r \in AllRules
  PROVE  IsFiniteSet(Check(e, o, r)) /\ \A f \in Check(e, o, r) : Says(f, r)
<1> DEFINE Fine(F, n) == IsFiniteSet(F) /\ \A f \in F : Says(f, n)
<1>1. ASSUME NEW n \in AllRules, NEW these, these \subseteq Built(e)
      PROVE  Fine(OnContainers(n, these), n)
  BY <1>1, OnContainersSays
<1>2. /\ Fine(RootUser(e), 1) /\ Fine(PrivilegedContainer(e), 2) /\ Fine(HostNetwork(e), 3)
      /\ Fine(MissingHealthcheck(e), 7) /\ Fine(MissingRestartPolicy(e), 8)
      /\ Fine(NoMemoryLimit(e), 10) /\ Fine(MutableImageTag(e), 11)
      /\ Fine(UnhealthyContainer(e), 12) /\ Fine(RestartLoop(e, o), 13)
  <2> HIDE DEF Fine
  <2>1. Fine(RootUser(e), 1) /\ Fine(PrivilegedContainer(e), 2) /\ Fine(HostNetwork(e), 3)
    BY <1>1, RulesAre DEF RootUser, PrivilegedContainer, HostNetwork
  <2>2. Fine(MissingHealthcheck(e), 7)
    BY <1>1, RulesAre DEF MissingHealthcheck
  <2>0. Fine(MissingRestartPolicy(e), 8)
    <3> DEFINE T == {b \in Built(e) : b.restartPolicy \in {"", "no"}}
    <3>1. T \subseteq Built(e) /\ MissingRestartPolicy(e) = OnContainers(8, T)
      BY DEF MissingRestartPolicy
    <3> HIDE DEF T
    <3> QED BY <1>1, <3>1, RulesAre
  <2>3. Fine(NoMemoryLimit(e), 10) /\ Fine(MutableImageTag(e), 11)
    BY <1>1, RulesAre DEF NoMemoryLimit, MutableImageTag
  <2>4. Fine(UnhealthyContainer(e), 12) /\ Fine(RestartLoop(e, o), 13)
    BY <1>1, RulesAre DEF UnhealthyContainer, RestartLoop
  <2> QED BY <2>0, <2>1, <2>2, <2>3, <2>4
<1>3. /\ Fine(SensitiveHostMount(e), 4) /\ Fine(DockerSocketMount(e), 5)
      /\ Fine(ExposedSensitivePort(e), 6) /\ Fine(DangerousCapabilities(e), 9)
  BY SensitiveHostMountSays, DockerSocketMountSays, ExposedSensitivePortSays,
     DangerousCapabilitiesSays
<1>4. ASSUME NEW T, IsFiniteSet(T), NEW n \in AllRules, NEW kind
      PROVE  Fine({NewFinding(n, kind, id) : id \in T}, n)
  BY <1>4, NewFindingsSay
<1>0. 14 \in AllRules /\ 15 \in AllRules /\ 16 \in AllRules /\ 17 \in AllRules /\ 18 \in AllRules
  BY RulesAre
<1>5. /\ Fine(DanglingImage(e), 14) /\ Fine(UnusedImage(e), 15) /\ Fine(OversizedImage(e, o), 16)
      /\ Fine(UnusedVolume(e), 17) /\ Fine(UnusedNetwork(e), 18)
  <2> HIDE DEF Fine
  <2>1. Fine(DanglingImage(e), 14)
    <3> DEFINE T == {j \in e.images : Dangling(e, j) /\ Unused(e, j)}
    <3>1. IsFiniteSet(T)
      <4>1. T \in SUBSET e.images
        OBVIOUS
      <4> HIDE DEF T
      <4> QED BY <4>1, ResourcesAreFinite, FS_Subset
    <3>2. DanglingImage(e) = {NewFinding(14, "image", id) : id \in T}
      BY DEF DanglingImage
    <3> HIDE DEF T
    <3> QED BY <1>0, <1>4, <3>1, <3>2
  <2>2. Fine(UnusedImage(e), 15)
    <3> DEFINE T == {j \in e.images : Unused(e, j) /\ ~Dangling(e, j)}
    <3>1. IsFiniteSet(T)
      <4>1. T \in SUBSET e.images
        OBVIOUS
      <4> HIDE DEF T
      <4> QED BY <4>1, ResourcesAreFinite, FS_Subset
    <3>2. UnusedImage(e) = {NewFinding(15, "image", id) : id \in T}
      BY DEF UnusedImage
    <3> HIDE DEF T
    <3> QED BY <1>0, <1>4, <3>1, <3>2
  <2>3. Fine(OversizedImage(e, o), 16)
    <3> DEFINE T == {j \in e.images : Size[j] >= o.large}
    <3>1. IsFiniteSet(T)
      <4>1. T \in SUBSET e.images
        OBVIOUS
      <4> HIDE DEF T
      <4> QED BY <4>1, ResourcesAreFinite, FS_Subset
    <3>2. OversizedImage(e, o) = {NewFinding(16, "image", id) : id \in T}
      BY DEF OversizedImage
    <3> HIDE DEF T
    <3> QED BY <1>0, <1>4, <3>1, <3>2
  <2>4. Fine(UnusedVolume(e), 17)
    <3> DEFINE T == {w \in e.volumes : VolumeUsers(e, w) = {}}
    <3>1. IsFiniteSet(T)
      <4>1. T \in SUBSET e.volumes
        OBVIOUS
      <4> HIDE DEF T
      <4> QED BY <4>1, ResourcesAreFinite, FS_Subset
    <3>2. UnusedVolume(e) = {NewFinding(17, "volume", id) : id \in T}
      BY DEF UnusedVolume
    <3> HIDE DEF T
    <3> QED BY <1>0, <1>4, <3>1, <3>2
  <2>5. Fine(UnusedNetwork(e), 18)
    <3> DEFINE T == {m \in e.networks \ Builtin : NetworkUsers(e, m) = {}}
    <3>1. IsFiniteSet(T)
      <4>1. T \in SUBSET e.networks
        OBVIOUS
      <4> HIDE DEF T
      <4> QED BY <4>1, ResourcesAreFinite, FS_Subset
    <3>2. UnusedNetwork(e) = {NewFinding(18, "network", id) : id \in T}
      BY DEF UnusedNetwork
    <3> HIDE DEF T
    <3> QED BY <1>0, <1>4, <3>1, <3>2
  <2> QED BY <2>1, <2>2, <2>3, <2>4, <2>5
<1> HIDE DEF Fine
<1>6. Fine(Check(e, o, r), r)
  BY <1>2, <1>3, <1>5, CheckIs, RulesAre
<1> QED BY <1>6 DEF Fine

-----------------------------------------------------------------------------
(***************************************************************************)
(* The report                                                              *)
(***************************************************************************)
\* An ordered report names the findings and nothing else, each at one place.
LEMMA ReportIsList ==
  ASSUME NEW F, IsFiniteSet(F), NEW fs, IsOrderOf(fs, F)
  PROVE  /\ Cardinality(F) \in Nat
         /\ DOMAIN fs = 1..Cardinality(F)
         /\ Len(fs) = Cardinality(F)
         /\ ToSet(fs) = F
         /\ fs = <<>> <=> F = {}
<1>1. Cardinality(F) \in Nat
  BY FS_CardinalityType
<1>2. /\ fs \in [1..Cardinality(F) -> F]
      /\ \A f \in F : \E i \in 1..Cardinality(F) : fs[i] = f
  BY DEF IsOrderOf
<1>3. fs \in Seq(F) /\ Len(fs) = Cardinality(F)
  BY <1>1, <1>2
<1>4. ToSet(fs) = F
  BY <1>2 DEF ToSet
<1>5. fs = <<>> <=> Cardinality(F) = 0
  BY <1>1, <1>3
<1>6. Cardinality(F) = 0 <=> F = {}
  BY FS_EmptySet
<1> QED BY <1>1, <1>2, <1>3, <1>4, <1>5, <1>6

\* HighestSeverity is the severity of some finding, and of none a worse one.
LEMMA HighestIs ==
  ASSUME NEW F, IsFiniteSet(F), F # {}, \A f \in F : IsFinding(f), NEW fs, IsOrderOf(fs, F)
  PROVE  /\ \E f \in F : f.severity = HighestSeverity(fs)
         /\ \A f \in F : Rank(f.severity) <= Rank(HighestSeverity(fs))
<1> DEFINE R == {Rank(fs[i].severity) : i \in DOMAIN fs}
           T == {4 - r : r \in R}
<1>1. \A f \in F : \E i \in DOMAIN fs : fs[i] = f
  BY ReportIsList DEF ToSet
<1>2. \A i \in DOMAIN fs : fs[i] \in F
  BY DEF IsOrderOf
<1>3. R \subseteq 0..4 /\ R # {}
  BY <1>1, <1>2, RankIs DEF IsFinding
<1>4. \E x \in R : \A y \in R : x >= y
  <2> HIDE DEF R
  <2>0. \A r \in R : 4 - r \in Nat
    BY <1>3
  <2>1. T \subseteq Nat /\ T # {}
    BY <1>3, <2>0
  <2>2. PICK t \in T : \A u \in T : t <= u
    <3> HIDE DEF T
    <3> QED BY <2>1, LeastNatural
  <2>3. PICK x \in R : t = 4 - x
    BY <2>2
  <2>4. \A y \in R : 4 - x <= 4 - y
    BY <2>2, <2>3
  <2> QED BY <1>3, <2>4
<1>5. Max(R) \in R /\ \A y \in R : Max(R) >= y
  <2> HIDE DEF R
  <2> QED BY <1>4 DEF Max
<1>6. PICK i \in DOMAIN fs : Max(R) = Rank(fs[i].severity)
  BY <1>5
<1>7. HighestSeverity(fs) = Severities[Max(R) + 1]
  BY Zenon DEF HighestSeverity
<1>8. \A s \in {"INFO", "LOW", "MEDIUM", "HIGH", "CRITICAL"} : Severities[Rank(s) + 1] = s
  BY RankIs DEF Severities
<1>9. HighestSeverity(fs) = fs[i].severity
  <2> HIDE DEF R
  <2> QED BY <1>2, <1>6, <1>7, <1>8 DEF IsFinding
<1>10. \A f \in F : Rank(f.severity) <= Max(R)
  BY <1>1, <1>3, <1>5
<1> HIDE DEF R
<1> QED BY <1>2, <1>6, <1>9, <1>10

-----------------------------------------------------------------------------
(***************************************************************************)
(* The summary                                                             *)
(***************************************************************************)
\* Two disjoint sets, five: the sizes add up.
LEMMA TwoParts ==
  ASSUME NEW A, NEW B, IsFiniteSet(A), IsFiniteSet(B), A \cap B = {}
  PROVE  /\ IsFiniteSet(A \cup B)
         /\ Cardinality(A \cup B) = Cardinality(A) + Cardinality(B)
         /\ Cardinality(A) \in Nat /\ Cardinality(B) \in Nat
<1>1. Cardinality(A \cap B) = 0
  BY FS_EmptySet
<1>2. Cardinality(A) \in Nat /\ Cardinality(B) \in Nat
  BY FS_CardinalityType
<1>3. Cardinality(A \cup B) = Cardinality(A) + Cardinality(B) - Cardinality(A \cap B)
  BY FS_Union
<1> QED BY <1>1, <1>2, <1>3, FS_Union

\* The part of S that g takes to y.
Fibre(S, g, y) == {x \in S : g[x] = y}

LEMMA FiveParts ==
  ASSUME NEW S, IsFiniteSet(S), NEW g, NEW a, NEW b, NEW c, NEW d, NEW z,
         a \notin {b, c, d, z}, b \notin {c, d, z}, c \notin {d, z}, d # z,
         \A x \in S : g[x] \in {a, b, c, d, z}
  PROVE  Cardinality(S) = Cardinality(Fibre(S, g, a)) + Cardinality(Fibre(S, g, b))
           + Cardinality(Fibre(S, g, c)) + Cardinality(Fibre(S, g, d))
           + Cardinality(Fibre(S, g, z))
<1> DEFINE P(y) == {x \in S : g[x] = y}
           Q1 == P(a) \cup P(b)
           Q2 == Q1 \cup P(c)
           Q3 == Q2 \cup P(d)
<1>1. \A y : IsFiniteSet(P(y))
  BY FS_Subset
<1>2. /\ P(a) \cap P(b) = {} /\ Q1 \cap P(c) = {} /\ Q2 \cap P(d) = {} /\ Q3 \cap P(z) = {}
      /\ S = Q3 \cup P(z)
  OBVIOUS
<1> HIDE DEF P
<1>3. IsFiniteSet(Q1) /\ Cardinality(Q1) = Cardinality(P(a)) + Cardinality(P(b))
  BY <1>1, <1>2, TwoParts
<1> HIDE DEF Q1
<1>4. IsFiniteSet(Q2) /\ Cardinality(Q2) = Cardinality(Q1) + Cardinality(P(c))
  BY <1>1, <1>2, <1>3, TwoParts
<1> HIDE DEF Q2
<1>5. IsFiniteSet(Q3) /\ Cardinality(Q3) = Cardinality(Q2) + Cardinality(P(d))
  BY <1>1, <1>2, <1>4, TwoParts
<1> HIDE DEF Q3
<1>6. Cardinality(S) = Cardinality(Q3) + Cardinality(P(z))
  BY <1>1, <1>2, <1>5, TwoParts
<1>7. Cardinality(S) = Cardinality(P(a)) + Cardinality(P(b)) + Cardinality(P(c))
                         + Cardinality(P(d)) + Cardinality(P(z))
  BY <1>3, <1>4, <1>5, <1>6
<1> QED BY <1>7 DEF P, Fibre

\* What the daemon listed was there.
ListedLive(e) == \A c \in e.containers : e.state[c] \notin {"future", "gone"}

LEMMA ContainersAddUp ==
  ASSUME NEW e \in ScanEnvironment, ListedLive(e)
  PROVE  Cardinality(e.containers) =
           InState(e, {"running"}) + InState(e, {"paused"}) + InState(e, {"restarting"})
             + InState(e, {"created"}) + InState(e, {"exited", "dead", "removing"})
<1> DEFINE S == e.containers
           g == [c \in S |-> IF e.state[c] \in {"exited", "dead", "removing"} THEN "exited"
                             ELSE e.state[c]]
           N(s) == Cardinality(Fibre(S, g, s))
<1>1. \A c \in S : e.state[c] \in Status \ {"future", "gone"}
  BY DEF ListedLive, ScanEnvironment
<1>2. \A c \in S : g[c] \in {"running", "paused", "restarting", "created", "exited"}
  BY <1>1 DEF Status, Stopped, Active
<1>3. /\ \A c \in S : g[c] = "running" <=> e.state[c] \in {"running"}
      /\ \A c \in S : g[c] = "paused" <=> e.state[c] \in {"paused"}
      /\ \A c \in S : g[c] = "restarting" <=> e.state[c] \in {"restarting"}
      /\ \A c \in S : g[c] = "created" <=> e.state[c] \in {"created"}
      /\ \A c \in S : g[c] = "exited" <=> e.state[c] \in {"exited", "dead", "removing"}
  OBVIOUS
<1> HIDE DEF g
<1>4. /\ {c \in S : g[c] = "running"} = {c \in S : e.state[c] \in {"running"}}
      /\ {c \in S : g[c] = "paused"} = {c \in S : e.state[c] \in {"paused"}}
      /\ {c \in S : g[c] = "restarting"} = {c \in S : e.state[c] \in {"restarting"}}
      /\ {c \in S : g[c] = "created"} = {c \in S : e.state[c] \in {"created"}}
      /\ {c \in S : g[c] = "exited"} = {c \in S : e.state[c] \in {"exited", "dead", "removing"}}
  BY <1>3
<1>5. /\ N("running") = InState(e, {"running"}) /\ N("paused") = InState(e, {"paused"})
      /\ N("restarting") = InState(e, {"restarting"}) /\ N("created") = InState(e, {"created"})
      /\ N("exited") = InState(e, {"exited", "dead", "removing"})
  BY <1>4 DEF InState, Fibre
<1>6. Cardinality(S) = N("running") + N("paused") + N("restarting") + N("created") + N("exited")
  <2>1. IsFiniteSet(S)
    BY ResourcesAreFinite
  <2> HIDE DEF S
  <2> QED BY <1>2, <2>1, FiveParts
<1> QED BY <1>5, <1>6

\* Every finding has one severity and one category.
LEMMA FindingsAddUp ==
  ASSUME NEW F, IsFiniteSet(F), \A f \in F : IsFinding(f), NEW fs, IsOrderOf(fs, F), NEW e
  PROVE  LET s == Summarize(e, fs).findings
         IN /\ s.total = s.bySeverity["INFO"] + s.bySeverity["LOW"] + s.bySeverity["MEDIUM"]
                           + s.bySeverity["HIGH"] + s.bySeverity["CRITICAL"]
            /\ s.total = s.byCategory["SECURITY"] + s.byCategory["CONFIGURATION"]
                           + s.byCategory["RESOURCE"] + s.byCategory["PERFORMANCE"]
                           + s.byCategory["CLEANUP"]
<1> DEFINE s == Summarize(e, fs).findings
           D == DOMAIN fs
           g == [i \in D |-> fs[i].severity]
           h == [i \in D |-> Registry[fs[i].rule].category]
           N(y) == Cardinality(Fibre(D, g, y))
           M(y) == Cardinality(Fibre(D, h, y))
<1>1. /\ D = 1..Cardinality(F) /\ Cardinality(F) \in Nat /\ Len(fs) = Cardinality(F)
      /\ \A i \in D : IsFinding(fs[i])
  BY ReportIsList DEF IsOrderOf
<1>2. IsFiniteSet(D) /\ Cardinality(D) = Len(fs)
  BY <1>1, FS_Interval
<1>3. /\ s.total = Len(fs)
      /\ s.bySeverity = CountSeverities(fs)
      /\ s.byCategory = [k \in Categories |->
                           Cardinality({i \in DOMAIN fs : Registry[fs[i].rule].category = k})]
  BY DEF Summarize
<1>4. ToSet(Severities) = {"INFO", "LOW", "MEDIUM", "HIGH", "CRITICAL"}
  BY DEF ToSet, Severities
<1>5. \A y \in {"INFO", "LOW", "MEDIUM", "HIGH", "CRITICAL"} : s.bySeverity[y] = N(y)
  <2> TAKE y \in {"INFO", "LOW", "MEDIUM", "HIGH", "CRITICAL"}
  <2>1. CountSeverities(fs)[y] = Cardinality({i \in DOMAIN fs : fs[i].severity = y})
    BY <1>4 DEF CountSeverities
  <2>2. {i \in DOMAIN fs : fs[i].severity = y} = Fibre(D, g, y)
    BY DEF Fibre
  <2> QED BY <1>3, <2>1, <2>2
<1>6. \A r \in 1..18 : Registry[r].category \in
        {"SECURITY", "CONFIGURATION", "RESOURCE", "PERFORMANCE", "CLEANUP"}
  <2> TAKE r \in 1..18
  <2> QED BY DEF Registry, Entry
<1>7. /\ Registry[1].category = "SECURITY" /\ Registry[7].category = "CONFIGURATION"
      /\ Registry[10].category = "RESOURCE" /\ Registry[12].category = "PERFORMANCE"
      /\ Registry[14].category = "CLEANUP"
  BY DEF Registry, Entry
<1>8. {"SECURITY", "CONFIGURATION", "RESOURCE", "PERFORMANCE", "CLEANUP"} \subseteq Categories
  BY <1>7, RulesAre DEF Categories
<1>9. \A y \in {"SECURITY", "CONFIGURATION", "RESOURCE", "PERFORMANCE", "CLEANUP"} :
        s.byCategory[y] = M(y)
  <2> TAKE y \in {"SECURITY", "CONFIGURATION", "RESOURCE", "PERFORMANCE", "CLEANUP"}
  <2>1. s.byCategory[y] = Cardinality({i \in DOMAIN fs : Registry[fs[i].rule].category = y})
    BY <1>3, <1>8
  <2>2. {i \in DOMAIN fs : Registry[fs[i].rule].category = y} = Fibre(D, h, y)
    BY DEF Fibre
  <2> QED BY <2>1, <2>2
<1>10. \A i \in D : g[i] \in {"INFO", "LOW", "MEDIUM", "HIGH", "CRITICAL"}
  BY <1>1 DEF IsFinding
<1>11. \A i \in D : h[i] \in {"SECURITY", "CONFIGURATION", "RESOURCE", "PERFORMANCE", "CLEANUP"}
  BY <1>1, <1>6, RulesAre DEF IsFinding
<1> HIDE DEF D, g, h, s
<1>12. Cardinality(D) = N("INFO") + N("LOW") + N("MEDIUM") + N("HIGH") + N("CRITICAL")
  BY <1>2, <1>10, FiveParts
<1>13. Cardinality(D) = M("SECURITY") + M("CONFIGURATION") + M("RESOURCE") + M("PERFORMANCE")
                          + M("CLEANUP")
  BY <1>2, <1>11, FiveParts
<1>14. /\ s.total = s.bySeverity["INFO"] + s.bySeverity["LOW"] + s.bySeverity["MEDIUM"]
                      + s.bySeverity["HIGH"] + s.bySeverity["CRITICAL"]
       /\ s.total = s.byCategory["SECURITY"] + s.byCategory["CONFIGURATION"]
                      + s.byCategory["RESOURCE"] + s.byCategory["PERFORMANCE"]
                      + s.byCategory["CLEANUP"]
  <2> HIDE DEF N, M
  <2> QED BY <1>2, <1>3, <1>5, <1>9, <1>12, <1>13
<1> QED BY <1>14 DEF s

\* The loops of the summary count what the rules report.
LEMMA SummaryCounts ==
  ASSUME NEW e \in ScanEnvironment, NEW o, NEW fs
  PROVE  LET s == Summarize(e, fs)
         IN /\ s.containers.unhealthy = Cardinality(Check(e, o, 12))
            /\ s.images.unused = Cardinality(Check(e, o, 14) \cup Check(e, o, 15))
            /\ s.volumes.unused = Cardinality(Check(e, o, 17))
            /\ s.networks.unused = Cardinality(Check(e, o, 18))
<1> DEFINE U == {c \in e.containers : LET b == BuildContainer(e, c) IN IsRunning(b) /\ IsUnhealthy(b)}
           D == {j \in e.images : Dangling(e, j) /\ Unused(e, j)}
           S == {j \in e.images : Unused(e, j) /\ ~Dangling(e, j)}
           V == {w \in e.volumes : VolumeUsers(e, w) = {}}
           N == {m \in e.networks \ Builtin : NetworkUsers(e, m) = {}}
<1>1. IsFiniteSet(U) /\ IsFiniteSet(D) /\ IsFiniteSet(S) /\ IsFiniteSet(V) /\ IsFiniteSet(N)
  <2>1. /\ U \in SUBSET e.containers /\ D \in SUBSET e.images /\ S \in SUBSET e.images
        /\ V \in SUBSET e.volumes /\ N \in SUBSET e.networks
    OBVIOUS
  <2> HIDE DEF U, D, S, V, N
  <2> QED BY <2>1, ResourcesAreFinite, FS_Subset
<1>2. Check(e, o, 12) = {NewFinding(12, "container", id) : id \in U}
  BY CheckIs, RecordIs DEF UnhealthyContainer, OnContainers, Built
<1>3. Check(e, o, 14) = {NewFinding(14, "image", id) : id \in D}
  BY CheckIs DEF DanglingImage
<1>4. Check(e, o, 15) = {NewFinding(15, "image", id) : id \in S}
  BY CheckIs DEF UnusedImage
<1>5. Check(e, o, 17) = {NewFinding(17, "volume", id) : id \in V}
  BY CheckIs DEF UnusedVolume
<1>6. Check(e, o, 18) = {NewFinding(18, "network", id) : id \in N}
  BY CheckIs DEF UnusedNetwork
<1>7. D \cap S = {} /\ {i \in e.images : Unused(e, i)} = D \cup S
  OBVIOUS
<1>8. Check(e, o, 14) \cap Check(e, o, 15) = {}
  BY <1>3, <1>4 DEF NewFinding
<1>9. /\ Summarize(e, fs).containers.unhealthy = Cardinality(U)
      /\ Summarize(e, fs).images.unused = Cardinality(D \cup S)
      /\ Summarize(e, fs).volumes.unused = Cardinality(V)
      /\ Summarize(e, fs).networks.unused = Cardinality(N)
  BY <1>7, Zenon DEF Summarize, UnhealthyNow
<1> HIDE DEF U, D, S, V, N
<1>10. /\ 12 \in AllRules /\ 14 \in AllRules /\ 15 \in AllRules /\ 17 \in AllRules
       /\ 18 \in AllRules
  BY RulesAre
<1>0. ASSUME NEW T, IsFiniteSet(T), NEW r \in AllRules, NEW kind, NEW C,
             C = {NewFinding(r, kind, id) : id \in T}
      PROVE  IsFiniteSet(C) /\ Cardinality(C) = Cardinality(T)
  BY <1>0, NewFindingsSay
<1>11. /\ Cardinality(Check(e, o, 12)) = Cardinality(U)
       /\ Cardinality(Check(e, o, 17)) = Cardinality(V)
       /\ Cardinality(Check(e, o, 18)) = Cardinality(N)
  BY <1>0, <1>1, <1>2, <1>5, <1>6, <1>10
<1>12. /\ Cardinality(Check(e, o, 14)) = Cardinality(D) /\ IsFiniteSet(Check(e, o, 14))
       /\ Cardinality(Check(e, o, 15)) = Cardinality(S) /\ IsFiniteSet(Check(e, o, 15))
  BY <1>0, <1>1, <1>3, <1>4, <1>10
<1>13. Cardinality(Check(e, o, 14) \cup Check(e, o, 15)) = Cardinality(D) + Cardinality(S)
  BY <1>8, <1>12, TwoParts
<1>14. Cardinality(D \cup S) = Cardinality(D) + Cardinality(S)
  BY <1>1, <1>7, TwoParts
<1> QED BY <1>9, <1>11, <1>13, <1>14

-----------------------------------------------------------------------------
(***************************************************************************)
(* What a finding says of its resource                                     *)
(***************************************************************************)
LEMMA MountFindings ==
  ASSUME NEW e
  PROVE  /\ \A f \in SensitiveHostMount(e) :
              /\ f.kind = "container" /\ f.resource \in e.containers
              /\ \E m \in BuildContainer(e, f.resource).mounts : SensitiveMount(m) /\ f.dest = m.dest
         /\ \A f \in DockerSocketMount(e) :
              /\ f.kind = "container" /\ f.resource \in e.containers
              /\ \E m \in BuildContainer(e, f.resource).mounts : IsDockerSocket(m) /\ f.dest = m.dest
<1>1. ASSUME NEW f \in SensitiveHostMount(e)
      PROVE  /\ f.kind = "container" /\ f.resource \in e.containers
             /\ \E m \in BuildContainer(e, f.resource).mounts : SensitiveMount(m) /\ f.dest = m.dest
  <2> DEFINE F(c, m) == [NewFinding(4, "container", c) EXCEPT
                           !.dest = m.dest,
                           !.severity = IF NormalizeHostPath(m.source) = <<>> /\ ~m.readOnly
                                        THEN "CRITICAL" ELSE @]
             M(c) == {n \in BuildContainer(e, c).mounts : SensitiveMount(n)}
  <2>1. f \in UNION {{F(c, m) : m \in M(c)} : c \in e.containers}
    BY Zenon DEF SensitiveHostMount
  <2>2. \A c, m : F(c, m).kind = "container" /\ F(c, m).resource = c /\ F(c, m).dest = m.dest
    BY DEF NewFinding
  <2> HIDE DEF F
  <2>3. PICK c \in e.containers : \E m \in M(c) : f = F(c, m)
    <3> HIDE DEF M
    <3> QED BY <2>1
  <2> QED BY <2>2, <2>3
<1>2. ASSUME NEW f \in DockerSocketMount(e)
      PROVE  /\ f.kind = "container" /\ f.resource \in e.containers
             /\ \E m \in BuildContainer(e, f.resource).mounts : IsDockerSocket(m) /\ f.dest = m.dest
  <2> DEFINE F(c, m) == [NewFinding(5, "container", c) EXCEPT !.dest = m.dest]
             M(c) == {n \in BuildContainer(e, c).mounts : IsDockerSocket(n)}
  <2>1. f \in UNION {{F(c, m) : m \in M(c)} : c \in e.containers}
    BY Zenon DEF DockerSocketMount
  <2>2. \A c, m : F(c, m).kind = "container" /\ F(c, m).resource = c /\ F(c, m).dest = m.dest
    BY DEF NewFinding
  <2> HIDE DEF F
  <2>3. PICK c \in e.containers : \E m \in M(c) : f = F(c, m)
    <3> HIDE DEF M
    <3> QED BY <2>1
  <2> QED BY <2>2, <2>3
<1> QED BY <1>1, <1>2

\* The finding a port makes, and the one port that makes it.
PortFinding(c, p) ==
  [NewFinding(6, "container", c) EXCEPT
     !.port = <<p.private, p.public, p.proto, p.ip>>,
     !.severity = IF p.private \in {2375, 2376} THEN "CRITICAL" ELSE @]

LEMMA PortFindings ==
  ASSUME NEW e, NEW f \in ExposedSensitivePort(e)
  PROVE  /\ f.kind = "container" /\ f.resource \in e.containers
         /\ \E p \in ConvertPorts(Config[f.resource].published) :
              IsPublicallyBound(p) /\ f = PortFinding(f.resource, p)
<1> DEFINE M(c) == {q \in BuildContainer(e, c).ports :
                      IsPublicallyBound(q) /\ q.private \in SensitivePorts}
<1>1. f \in UNION {{PortFinding(c, p) : p \in M(c)} : c \in e.containers}
  BY Zenon DEF ExposedSensitivePort, PortFinding
<1>2. PICK c \in e.containers : \E p \in M(c) : f = PortFinding(c, p)
  <2> HIDE DEF M
  <2> QED BY <1>1
<1>3. \A p : PortFinding(c, p).kind = "container" /\ PortFinding(c, p).resource = c
  BY DEF PortFinding, NewFinding
<1> QED BY <1>2, <1>3, RecordIs

\* A port published on every interface of a dual-stack host is one port.
LEMMA PortsOnce ==
  ASSUME NEW e, NEW f \in ExposedSensitivePort(e), NEW g \in ExposedSensitivePort(e),
         f # g, f.resource = g.resource
  PROVE  SubSeq(f.port, 1, 3) # SubSeq(g.port, 1, 3)
<1> DEFINE c == f.resource
<1>1. PICK p \in ConvertPorts(Config[c].published) :
        IsPublicallyBound(p) /\ f = PortFinding(c, p)
  BY PortFindings
<1>2. PICK q \in ConvertPorts(Config[c].published) :
        IsPublicallyBound(q) /\ g = PortFinding(c, q)
  BY PortFindings
<1>3. PortKey(p) # PortKey(q)
  BY <1>1, <1>2, PortsAre
<1>4. <<p.private, p.public, p.proto>> # <<q.private, q.public, q.proto>>
  BY <1>1, <1>2, <1>3 DEF PortKey
<1>0. \A r : PortFinding(c, r).port = <<r.private, r.public, r.proto, r.ip>>
  <2> HIDE DEF c
  <2> QED BY DEF PortFinding, NewFinding
<1>5. f.port = <<p.private, p.public, p.proto, p.ip>> /\ g.port = <<q.private, q.public, q.proto, q.ip>>
  BY <1>0, <1>1, <1>2
<1>6. ASSUME NEW x, NEW y, NEW z, NEW u
      PROVE  LET t == SubSeq(<<x, y, z, u>>, 1, 3) IN t[1] = x /\ t[2] = y /\ t[3] = z
  <2> DEFINE q4 == <<x, y, z, u>>
             S == {x, y, z, u}
  <2>1. q4 \in Seq(S) /\ Len(q4) = 4 /\ q4[1] = x /\ q4[2] = y /\ q4[3] = z
    OBVIOUS
  <2> HIDE DEF q4, S
  <2>2. \A i \in 1..3 : SubSeq(q4, 1, 3)[i] = q4[i]
    BY <2>1
  <2>3. SubSeq(q4, 1, 3)[1] = x /\ SubSeq(q4, 1, 3)[2] = y /\ SubSeq(q4, 1, 3)[3] = z
    BY <2>1, <2>2
  <2> QED BY <2>3 DEF q4
<1> QED BY <1>4, <1>5, <1>6

LEMMA ContainerFindings ==
  ASSUME NEW e, NEW r, NEW these, these \subseteq Built(e), NEW f \in OnContainers(r, these)
  PROVE  f.resource \in e.containers /\ BuildContainer(e, f.resource) \in these
<1>1. PICK b \in these : f = NewFinding(r, "container", b.id)
  BY DEF OnContainers
<1>2. PICK c \in e.containers : b = BuildContainer(e, c)
  BY DEF Built
<1>3. b.id = c
  BY <1>2, RecordIs
<1>4. f.resource = c
  BY <1>1, <1>3 DEF NewFinding
<1> QED BY <1>2, <1>4

\* Two findings about one resource that are about two exposures of it.
Apart(f, g) ==
  /\ {f.rule, g.rule} = {4, 5} => f.dest # g.dest
  /\ {f.rule, g.rule} \notin {{2, 9}, {14, 15}}
  /\ f.rule = 6 /\ g.rule = 6 => SubSeq(f.port, 1, 3) # SubSeq(g.port, 1, 3)

\* One exposure is one finding, whichever rules looked at it.
LEMMA ExposuresApart ==
  ASSUME NEW e \in ScanEnvironment, NEW o,
         NEW F, \A f \in F : f.rule \in AllRules /\ f \in Check(e, o, f.rule),
         NEW f \in F, NEW g \in F, f # g, f.resource = g.resource
  PROVE  Apart(f, g)
<1>1. ASSUME NEW a \in F, NEW b \in F, a.resource = b.resource, a.rule = 4, b.rule = 5
      PROVE  a.dest # b.dest
  <2>1. a \in SensitiveHostMount(e) /\ b \in DockerSocketMount(e)
    BY <1>1, CheckIs
  <2> DEFINE c == a.resource
  <2>2. PICK m \in BuildContainer(e, c).mounts : SensitiveMount(m) /\ a.dest = m.dest
    BY <2>1, MountFindings
  <2>3. PICK n \in BuildContainer(e, c).mounts : IsDockerSocket(n) /\ b.dest = n.dest
    BY <1>1, <2>1, MountFindings
  <2>4. m # n
    BY <2>2, <2>3 DEF SensitiveMount
  <2>5. c \in Containers
    BY <2>1, MountFindings DEF ScanEnvironment
  <2>6. m \in Config[c].mounts /\ n \in Config[c].mounts
    BY RecordIs
  <2> QED BY <2>2, <2>3, <2>4, <2>5, <2>6, RulesAssumption
<1>2. ASSUME NEW a \in F, NEW b \in F, a.resource = b.resource, a.rule = 2, b.rule = 9
      PROVE  FALSE
  <2>1. a \in PrivilegedContainer(e) /\ b \in DangerousCapabilities(e)
    BY <1>2, CheckIs
  <2> DEFINE P == {k \in Built(e) : k.privileged}
             Q == {k \in Built(e) : ~k.privileged /\ k.caps \cap DangerousCaps # {}}
  <2>2. a \in OnContainers(2, P)
    BY <2>1 DEF PrivilegedContainer
  <2>3. PICK x \in OnContainers(9, Q) : \E s : b = [x EXCEPT !.severity = s]
    BY <2>1 DEF DangerousCapabilities
  <2>4. PICK id : x = NewFinding(9, "container", id)
    BY <2>3 DEF OnContainers
  <2>5. b.resource = x.resource
    BY <2>3, <2>4 DEF NewFinding
  <2>6. P \subseteq Built(e) /\ Q \subseteq Built(e)
    OBVIOUS
  <2> HIDE DEF P, Q
  <2>7. BuildContainer(e, a.resource) \in P /\ BuildContainer(e, b.resource) \in Q
    BY <2>2, <2>3, <2>5, <2>6, ContainerFindings
  <2> QED BY <1>2, <2>7 DEF P, Q
<1>3. ASSUME NEW a \in F, NEW b \in F, a.resource = b.resource, a.rule = 14, b.rule = 15
      PROVE  FALSE
  <2>1. a \in DanglingImage(e) /\ b \in UnusedImage(e)
    BY <1>3, CheckIs
  <2>2. Dangling(e, a.resource)
    <3> DEFINE T == {j \in e.images : Dangling(e, j) /\ Unused(e, j)}
    <3>1. PICK i \in T : a = NewFinding(14, "image", i)
      BY <2>1 DEF DanglingImage
    <3>2. a.resource = i
      BY <3>1 DEF NewFinding
    <3> QED BY <3>2
  <2>3. ~Dangling(e, b.resource)
    <3> DEFINE T == {j \in e.images : Unused(e, j) /\ ~Dangling(e, j)}
    <3>1. PICK i \in T : b = NewFinding(15, "image", i)
      BY <2>1 DEF UnusedImage
    <3>2. b.resource = i
      BY <3>1 DEF NewFinding
    <3> QED BY <3>2
  <2> QED BY <1>3, <2>2, <2>3
<1>4. f.rule = 6 /\ g.rule = 6 => SubSeq(f.port, 1, 3) # SubSeq(g.port, 1, 3)
  <2> HAVE f.rule = 6 /\ g.rule = 6
  <2>1. f \in ExposedSensitivePort(e) /\ g \in ExposedSensitivePort(e)
    BY CheckIs
  <2> QED BY <2>1, PortsOnce
<1>5. \A x, y, k, l : {x, y} = {k, l} => (x = k /\ y = l) \/ (x = l /\ y = k)
  OBVIOUS
<1>6. {f.rule, g.rule} = {4, 5} => f.dest # g.dest
  BY <1>1, <1>5
<1>7. {f.rule, g.rule} # {2, 9} /\ {f.rule, g.rule} # {14, 15}
  BY <1>2, <1>3, <1>5
<1> QED BY <1>4, <1>6, <1>7 DEF Apart

\* A finding is about a resource of the environment, of the kind it names.
LEMMA FindingsPointAtResources ==
  ASSUME NEW e \in ScanEnvironment, NEW o, NEW r \in AllRules, NEW f \in Check(e, o, r)
  PROVE  f.kind \in Kinds /\ f.resource \in Resources(e, f.kind)
<1> DEFINE Points(g, kind) == g.kind = kind /\ g.resource \in Resources(e, kind)
<1>0. /\ Resources(e, "container") = e.containers /\ Resources(e, "image") = e.images
      /\ Resources(e, "volume") = e.volumes /\ Resources(e, "network") = e.networks
      /\ Kinds = {"container", "image", "volume", "network"}
  BY DEF Resources, Kinds
<1>1. ASSUME NEW n, NEW these, these \subseteq Built(e), NEW g \in OnContainers(n, these)
      PROVE  Points(g, "container")
  <2>1. PICK b \in Built(e) : g = NewFinding(n, "container", b.id)
    BY <1>1 DEF OnContainers
  <2>2. b.id \in e.containers
    BY RecordIs DEF Built
  <2>3. g.kind = "container" /\ g.resource = b.id
    BY <2>1 DEF NewFinding
  <2> QED BY <1>0, <2>2, <2>3
<1>2. ASSUME NEW n, NEW kind, NEW S, S \subseteq Resources(e, kind),
             NEW g \in {NewFinding(n, kind, id) : id \in S}
      PROVE  Points(g, kind)
  <2>1. PICK id \in S : g = NewFinding(n, kind, id)
    BY <1>2
  <2>2. g.kind = kind /\ g.resource = id
    BY <2>1 DEF NewFinding
  <2> QED BY <1>2, <2>2
<1>3. CASE r \in {1, 2, 3, 7, 8, 10, 11, 12, 13}
  <2>1. \E these : these \subseteq Built(e) /\ Check(e, o, r) = OnContainers(r, these)
    <3>1. CASE r = 1
      BY <3>1, CheckIs DEF RootUser
    <3>2. CASE r = 2
      BY <3>2, CheckIs DEF PrivilegedContainer
    <3>3. CASE r = 3
      BY <3>3, CheckIs DEF HostNetwork
    <3>7. CASE r = 7
      BY <3>7, CheckIs DEF MissingHealthcheck
    <3>8. CASE r = 8
      <4> DEFINE T == {b \in Built(e) : b.restartPolicy \in {"", "no"}}
      <4>1. T \subseteq Built(e) /\ Check(e, o, r) = OnContainers(8, T)
        BY <3>8, CheckIs DEF MissingRestartPolicy
      <4> HIDE DEF T
      <4> QED BY <3>8, <4>1
    <3>10. CASE r = 10
      BY <3>10, CheckIs DEF NoMemoryLimit
    <3>11. CASE r = 11
      BY <3>11, CheckIs DEF MutableImageTag
    <3>12. CASE r = 12
      BY <3>12, CheckIs DEF UnhealthyContainer
    <3>13. CASE r = 13
      BY <3>13, CheckIs DEF RestartLoop
    <3> QED BY <1>3, <3>1, <3>2, <3>3, <3>7, <3>8, <3>10, <3>11, <3>12, <3>13
  <2>2. Points(f, "container")
    <3>1. PICK these : these \subseteq Built(e) /\ Check(e, o, r) = OnContainers(r, these)
      BY <2>1
    <3> HIDE DEF Points
    <3> QED BY <1>1, <3>1
  <2> QED BY <1>0, <2>2
<1>4. CASE r \in {4, 5, 6}
  <2>1. f.kind = "container" /\ f.resource \in e.containers
    BY <1>4, CheckIs, MountFindings, PortFindings
  <2> QED BY <1>0, <2>1
<1>5. CASE r = 9
  <2> DEFINE T == {b \in Built(e) : ~b.privileged /\ b.caps \cap DangerousCaps # {}}
             F(g) == [g EXCEPT !.severity =
                        IF BuildContainer(e, g.resource).caps \cap CriticalCapabilities # {}
                        THEN "CRITICAL" ELSE @]
  <2>1. f \in {F(g) : g \in OnContainers(9, T)} /\ T \subseteq Built(e)
    BY <1>5, CheckIs DEF DangerousCapabilities
  <2> HIDE DEF T
  <2>2. PICK g \in OnContainers(9, T) : f = F(g)
    <3> HIDE DEF F
    <3> QED BY <2>1
  <2>3. Points(g, "container")
    <3> HIDE DEF Points, F
    <3> QED BY <1>1, <2>1
  <2>4. \E b : g = NewFinding(9, "container", b)
    BY DEF OnContainers
  <2>5. f.kind = g.kind /\ f.resource = g.resource
    BY <2>2, <2>4 DEF NewFinding
  <2> QED BY <1>0, <2>3, <2>5
<1>6. CASE r \in 14..18
  <2>1. CASE r = 14
    <3> DEFINE T == {j \in e.images : Dangling(e, j) /\ Unused(e, j)}
    <3>1. T \subseteq Resources(e, "image") /\ f \in {NewFinding(14, "image", id) : id \in T}
      BY <1>0, <2>1, CheckIs DEF DanglingImage
    <3> HIDE DEF T
    <3>2. Points(f, "image")
      <4> HIDE DEF Points
      <4> QED BY <1>2, <3>1
    <3> QED BY <1>0, <3>2
  <2>2. CASE r = 15
    <3> DEFINE T == {j \in e.images : Unused(e, j) /\ ~Dangling(e, j)}
    <3>1. T \subseteq Resources(e, "image") /\ f \in {NewFinding(15, "image", id) : id \in T}
      BY <1>0, <2>2, CheckIs DEF UnusedImage
    <3> HIDE DEF T
    <3>2. Points(f, "image")
      <4> HIDE DEF Points
      <4> QED BY <1>2, <3>1
    <3> QED BY <1>0, <3>2
  <2>3. CASE r = 16
    <3> DEFINE T == {j \in e.images : Size[j] >= o.large}
    <3>1. T \subseteq Resources(e, "image") /\ f \in {NewFinding(16, "image", id) : id \in T}
      BY <1>0, <2>3, CheckIs DEF OversizedImage
    <3> HIDE DEF T
    <3>2. Points(f, "image")
      <4> HIDE DEF Points
      <4> QED BY <1>2, <3>1
    <3> QED BY <1>0, <3>2
  <2>4. CASE r = 17
    <3> DEFINE T == {w \in e.volumes : VolumeUsers(e, w) = {}}
    <3>1. T \subseteq Resources(e, "volume") /\ f \in {NewFinding(17, "volume", id) : id \in T}
      BY <1>0, <2>4, CheckIs DEF UnusedVolume
    <3> HIDE DEF T
    <3>2. Points(f, "volume")
      <4> HIDE DEF Points
      <4> QED BY <1>2, <3>1
    <3> QED BY <1>0, <3>2
  <2>5. CASE r = 18
    <3> DEFINE T == {m \in e.networks \ Builtin : NetworkUsers(e, m) = {}}
    <3>1. T \subseteq Resources(e, "network") /\ f \in {NewFinding(18, "network", id) : id \in T}
      BY <1>0, <2>5, CheckIs DEF UnusedNetwork
    <3> HIDE DEF T
    <3>2. Points(f, "network")
      <4> HIDE DEF Points
      <4> QED BY <1>2, <3>1
    <3> QED BY <1>0, <3>2
  <2> QED BY <1>6, <2>1, <2>2, <2>3, <2>4, <2>5
<1> QED BY <1>3, <1>4, <1>5, <1>6, RulesAre

-----------------------------------------------------------------------------
(***************************************************************************)
(* The rules and the cleanup                                               *)
(***************************************************************************)
\* The cleanup that asks for images, networks and volumes, as JSON, applies nothing.
EverythingUnused ==
  [flags |-> {"images", "networks", "volumes"}, apply |-> FALSE, yes |-> FALSE,
   keep |-> FALSE, tty |-> FALSE, format |-> "json"]

\* It offers what no listed container uses.
LEMMA PlanOffers ==
  ASSUME NEW e
  PROVE  LET Offered(kind) == {i.id : i \in {j \in Plan(e, EverythingUnused) : j.kind = kind}}
         IN /\ Offered("image") = {i \in e.images : Unused(e, i)}
            /\ Offered("volume") = {v \in e.volumes : VolumeUsers(e, v) = {}}
            /\ Offered("network") = {n \in e.networks \ Builtin : NetworkUsers(e, n) = {}}
<1> DEFINE o == EverythingUnused
<1>1. Targets(o) = {"images", "networks", "volumes", "dangling"}
  BY DEF Targets, EverythingUnused
<1>2. DoomedContainers(e, o) = {} /\ PlanContainers(e, o) = {}
  BY <1>1 DEF DoomedContainers, PlanContainers
<1>3. \A k : ~TooRecent(e, o, k)
  BY DEF TooRecent, EverythingUnused
<1> HIDE DEF o
<1>4. \A users, k : Spare(e, o, users, k) <=> users = {}
  BY <1>2, <1>3 DEF Spare, UsedAfterCleanup
<1>5. \A i : ImageGoes(e, o, i) <=> Unused(e, i)
  BY <1>1, <1>4 DEF ImageGoes, Unused
<1>6. \A n : NetworkGoes(e, o, n) <=> n \notin Builtin /\ NetworkUsers(e, n) = {}
  BY <1>1, <1>4 DEF NetworkGoes
<1>7. \A v : VolumeGoes(e, o, v) <=> VolumeUsers(e, v) = {}
  BY <1>1, <1>4 DEF VolumeGoes
<1>8. /\ {j \in Plan(e, o) : j.kind = "image"} = PlanImages(e, o)
      /\ {j \in Plan(e, o) : j.kind = "network"} = PlanNetworks(e, o)
      /\ {j \in Plan(e, o) : j.kind = "volume"} = PlanVolumes(e, o)
  BY <1>2 DEF Plan, PlanImages, PlanNetworks, PlanVolumes
<1>9. {i.id : i \in PlanImages(e, o)} = {i \in e.images : Unused(e, i)}
  <2> DEFINE T == {i \in e.images : Unused(e, i)}
             I == PlanImages(e, o)
             J(id) == [kind |-> "image", id |-> id, name |-> DisplayName(e, id)]
  <2>0. I = {J(id) : id \in T}
    BY <1>5 DEF PlanImages
  <2>1. \A id : J(id).id = id
    OBVIOUS
  <2> HIDE DEF T, I, J
  <2>2. {i.id : i \in {J(id) : id \in T}} = T
    BY <2>1
  <2>3. {i.id : i \in I} = T
    BY <2>0, <2>2
  <2> QED BY <2>3 DEF T, I
<1>10. {i.id : i \in PlanNetworks(e, o)} = {n \in e.networks \ Builtin : NetworkUsers(e, n) = {}}
  <2> DEFINE T == {n \in e.networks \ Builtin : NetworkUsers(e, n) = {}}
             I == PlanNetworks(e, o)
             J(id) == [kind |-> "network", id |-> id, name |-> NoTag]
  <2>0. I = {J(id) : id \in T}
    BY <1>6 DEF PlanNetworks
  <2>1. \A id : J(id).id = id
    OBVIOUS
  <2> HIDE DEF T, I, J
  <2>2. {i.id : i \in {J(id) : id \in T}} = T
    BY <2>1
  <2>3. {i.id : i \in I} = T
    BY <2>0, <2>2
  <2> QED BY <2>3 DEF T, I
<1>11. {i.id : i \in PlanVolumes(e, o)} = {v \in e.volumes : VolumeUsers(e, v) = {}}
  <2> DEFINE T == {v \in e.volumes : VolumeUsers(e, v) = {}}
             I == PlanVolumes(e, o)
             J(id) == [kind |-> "volume", id |-> id, name |-> NoTag]
  <2>0. I = {J(id) : id \in T}
    BY <1>7 DEF PlanVolumes
  <2>1. \A id : J(id).id = id
    OBVIOUS
  <2> HIDE DEF T, I, J
  <2>2. {i.id : i \in {J(id) : id \in T}} = T
    BY <2>1
  <2>3. {i.id : i \in I} = T
    BY <2>0, <2>2
  <2> QED BY <2>3 DEF T, I
<1> QED BY <1>8, <1>9, <1>10, <1>11 DEF o

\* So do the rules.
LEMMA RulesName ==
  ASSUME NEW e, NEW o
  PROVE  /\ {f.resource : f \in Check(e, o, 14) \cup Check(e, o, 15)} = {i \in e.images : Unused(e, i)}
         /\ {f.resource : f \in Check(e, o, 17)} = {v \in e.volumes : VolumeUsers(e, v) = {}}
         /\ {f.resource : f \in Check(e, o, 18)} =
              {n \in e.networks \ Builtin : NetworkUsers(e, n) = {}}
<1>1. \A r, kind, id : NewFinding(r, kind, id).resource = id
  BY DEF NewFinding
<1>2. {f.resource : f \in Check(e, o, 14) \cup Check(e, o, 15)} = {i \in e.images : Unused(e, i)}
  BY <1>1, CheckIs DEF DanglingImage, UnusedImage
<1>3. {f.resource : f \in Check(e, o, 17)} = {v \in e.volumes : VolumeUsers(e, v) = {}}
  BY <1>1, CheckIs DEF UnusedVolume
<1>4. {f.resource : f \in Check(e, o, 18)} = {n \in e.networks \ Builtin : NetworkUsers(e, n) = {}}
  <2> DEFINE T == {n \in e.networks \ Builtin : NetworkUsers(e, n) = {}}
  <2>1. Check(e, o, 18) = {NewFinding(18, "network", n) : n \in T}
    BY CheckIs DEF UnusedNetwork
  <2> HIDE DEF T
  <2>2. {f.resource : f \in Check(e, o, 18)} = T
    BY <1>1, <2>1
  <2> QED BY <2>2 DEF T
<1> QED BY <1>2, <1>3, <1>4

-----------------------------------------------------------------------------
(***************************************************************************)
(* The screens                                                             *)
(***************************************************************************)
\* A filter on the positions of a list.
LEMMA PositionsKept ==
  ASSUME NEW n \in Nat, NEW S, S \subseteq 1..n
  PROVE  /\ IsFiniteSet(S) /\ Cardinality(S) \in 0..n
         /\ InOrder(S) \in [1..Cardinality(S) -> S]
         /\ DOMAIN InOrder(S) = 1..Cardinality(S)
         /\ Len(InOrder(S)) = Cardinality(S)
         /\ \A x \in S : \E k \in 1..Cardinality(S) : InOrder(S)[k] = x
         /\ \A j, k \in 1..Cardinality(S) : j < k => InOrder(S)[j] < InOrder(S)[k]
<1>1. IsFiniteSet(1..n) /\ Cardinality(1..n) = n
  BY FS_Interval
<1>2. IsFiniteSet(S) /\ Cardinality(S) <= n
  BY <1>1, FS_Subset
<1>3. Cardinality(S) \in Nat
  BY <1>2, FS_CardinalityType
<1>4. S \subseteq Nat
  OBVIOUS
<1> DEFINE c == Cardinality(S)
           q == InOrder(S)
<1>5. /\ q \in [1..c -> S] /\ Len(q) = c
      /\ \A x \in S : \E k \in 1..c : q[k] = x
      /\ \A j, k \in 1..c : j < k => q[j] < q[k]
  BY <1>2, <1>4, InOrderLists
<1>6. c \in 0..n
  BY <1>2, <1>3
<1> HIDE DEF c, q
<1>7. DOMAIN q = 1..c
  BY <1>5
<1> QED BY <1>2, <1>5, <1>6, <1>7 DEF c, q

\* A report goes down in severity.
LEMMA ReportGoesDown ==
  ASSUME NEW F, IsFiniteSet(F), \A f \in F : IsFinding(f), NEW fs, IsOrderOf(fs, F),
         NEW i \in DOMAIN fs, NEW j \in DOMAIN fs, i < j
  PROVE  Rank(fs[j].severity) <= Rank(fs[i].severity)
<1>1. DOMAIN fs = 1..Cardinality(F)
  BY ReportIsList
<1>2. ~WorstFirst(fs[j], fs[i]) /\ fs[i] \in F /\ fs[j] \in F
  BY <1>1 DEF IsOrderOf
<1> QED BY <1>2, RankIs DEF WorstFirst, IsFinding

Heads(fs) == {i \in DOMAIN fs : \A j \in 1..(i - 1) : GroupKey(fs[j]) # GroupKey(fs[i])}
Group(fs, i) == {j \in DOMAIN fs : GroupKey(fs[j]) = GroupKey(fs[i])}

\* Every finding is in the group of exactly one head.
LEMMA GroupsPartition ==
  ASSUME NEW n \in Nat, NEW fs, DOMAIN fs = 1..n
  PROVE  /\ \A i \in 1..n : \E h \in Heads(fs) : GroupKey(fs[h]) = GroupKey(fs[i])
         /\ \A g, h \in Heads(fs) : g # h => Group(fs, g) \cap Group(fs, h) = {}
<1>1. ASSUME NEW i \in 1..n PROVE \E h \in Heads(fs) : GroupKey(fs[h]) = GroupKey(fs[i])
  <2> DEFINE T == {j \in 1..n : GroupKey(fs[j]) = GroupKey(fs[i])}
  <2>1. i \in T /\ T \subseteq Nat
    OBVIOUS
  <2>2. PICK h \in T : \A j \in T : h <= j
    <3> HIDE DEF T
    <3> QED BY <2>1, LeastNatural
  <2>3. \A j \in 1..(h - 1) : GroupKey(fs[j]) # GroupKey(fs[h])
    <3> TAKE j \in 1..(h - 1)
    <3>1. j \in 1..n /\ ~(h <= j)
      OBVIOUS
    <3>2. j \notin T
      BY <2>2, <3>1
    <3> QED BY <3>1, <3>2
  <2> QED BY <2>3 DEF Heads
<1>2. ASSUME NEW g \in Heads(fs), NEW h \in Heads(fs), g # h
      PROVE  Group(fs, g) \cap Group(fs, h) = {}
  <2>1. g \in 1..n /\ h \in 1..n
    BY DEF Heads
  <2>2. GroupKey(fs[g]) # GroupKey(fs[h])
    <3>1. CASE g < h
      <4>1. g \in 1..(h - 1)
        BY <2>1, <3>1
      <4> QED BY <4>1 DEF Heads
    <3>2. CASE h < g
      <4>1. h \in 1..(g - 1)
        BY <2>1, <3>2
      <4> QED BY <4>1 DEF Heads
    <3> QED BY <1>2, <2>1, <3>1, <3>2
  <2> QED BY <2>2 DEF Group
<1> QED BY <1>1, <1>2

\* A line of the scan screen and the findings it stands for.
LEMMA LinesAre ==
  ASSUME NEW n \in Nat, NEW fs, DOMAIN fs = 1..n
  PROVE  LET g == GroupFindings(fs)
             heads == InOrder(Heads(fs))
         IN /\ DOMAIN g = DOMAIN heads
            /\ \A k \in DOMAIN g :
                 /\ heads[k] \in Heads(fs)
                 /\ g[k].rule = fs[heads[k]].rule /\ g[k].severity = fs[heads[k]].severity
                 /\ Len(g[k].named) + g[k].more = Cardinality(Group(fs, heads[k]))
<1> DEFINE g == GroupFindings(fs)
           heads == InOrder(Heads(fs))
           Line(k) == LET ms == InOrder(Group(fs, heads[k]))
                      IN [rule |-> fs[heads[k]].rule, severity |-> fs[heads[k]].severity,
                          named |-> [i \in 1..AtMost(Len(ms), ResourceListLimit) |-> fs[ms[i]].resource],
                          more |-> IF Len(ms) > ResourceListLimit THEN Len(ms) - ResourceListLimit ELSE 0]
<1>1. g = [k \in DOMAIN heads |-> Line(k)]
  BY DEF GroupFindings, Heads, Group
<1>2. ASSUME NEW k \in DOMAIN heads
      PROVE  /\ heads[k] \in Heads(fs)
             /\ g[k].rule = fs[heads[k]].rule /\ g[k].severity = fs[heads[k]].severity
             /\ Len(g[k].named) + g[k].more = Cardinality(Group(fs, heads[k]))
  <2>1. Heads(fs) \subseteq 1..n
    BY DEF Heads
  <2>2. heads[k] \in Heads(fs)
    BY <2>1, PositionsKept
  <2> DEFINE ms == InOrder(Group(fs, heads[k]))
             c == Cardinality(Group(fs, heads[k]))
  <2>3. Len(ms) = c /\ c \in Nat
    <3>1. Group(fs, heads[k]) \subseteq 1..n
      BY DEF Group
    <3> QED BY <3>1, PositionsKept
  <2>4. g[k] = Line(k)
    <3> HIDE DEF g, Line, heads
    <3> QED BY <1>1
  <2>5. /\ g[k].rule = fs[heads[k]].rule /\ g[k].severity = fs[heads[k]].severity
        /\ g[k].named = [i \in 1..AtMost(Len(ms), 5) |-> fs[ms[i]].resource]
        /\ g[k].more = IF Len(ms) > 5 THEN Len(ms) - 5 ELSE 0
    <3> HIDE DEF g, heads
    <3> QED BY <2>4 DEF ResourceListLimit
  <2> HIDE DEF g, heads, ms, c
  <2>6. AtMost(c, 5) \in Nat /\ AtMost(c, 5) + (IF c > 5 THEN c - 5 ELSE 0) = c
    BY <2>3 DEF AtMost
  <2>7. Len(g[k].named) = AtMost(c, 5)
    BY <2>3, <2>5, <2>6
  <2> QED BY <2>2, <2>3, <2>5, <2>6, <2>7 DEF c
<1>3. DOMAIN g = DOMAIN heads
  <2> HIDE DEF Line, heads
  <2> QED BY <1>1
<1> HIDE DEF g, heads, Line
<1> QED BY <1>2, <1>3 DEF g, heads

\* The lines l count n findings between them, show every finding of F under its
\* rule and severity, and go down in severity.
CountAll(l, n) == MapThenSumSet(LAMBDA k : Len(l[k].named) + l[k].more, DOMAIN l) = n
Cover(l, F) == \A f \in F : \E k \in DOMAIN l : l[k].rule = f.rule /\ l[k].severity = f.severity
GoDown(l) == \A k, m \in DOMAIN l : k < m => Rank(l[k].severity) >= Rank(l[m].severity)

\* The lines account for every finding, each under its own rule and severity, and
\* go down in severity.
LEMMA GroupsLoseNothing ==
  ASSUME NEW F, IsFiniteSet(F), \A f \in F : IsFinding(f), NEW fs, IsOrderOf(fs, F)
  PROVE  /\ CountAll(GroupFindings(fs), Len(fs))
         /\ Cover(GroupFindings(fs), F)
         /\ GoDown(GroupFindings(fs))
<1> DEFINE n == Cardinality(F)
           g == GroupFindings(fs)
           heads == InOrder(Heads(fs))
           c == Cardinality(Heads(fs))
<1>1. n \in Nat /\ DOMAIN fs = 1..n /\ Len(fs) = n
  BY ReportIsList
<1>2. Heads(fs) \subseteq 1..n
  BY <1>1 DEF Heads
<1>3. /\ DOMAIN heads = 1..c /\ c \in Nat
      /\ \A k \in 1..c : heads[k] \in Heads(fs)
      /\ \A x \in Heads(fs) : \E k \in 1..c : heads[k] = x
      /\ \A j, k \in 1..c : j < k => heads[j] < heads[k]
  BY <1>1, <1>2, PositionsKept
<1>4. /\ DOMAIN g = 1..c
      /\ \A k \in 1..c :
           /\ g[k].rule = fs[heads[k]].rule /\ g[k].severity = fs[heads[k]].severity
           /\ Len(g[k].named) + g[k].more = Cardinality(Group(fs, heads[k]))
  BY <1>1, <1>3, LinesAre
<1> HIDE DEF n, g, heads, c
<1>5. \A f \in F : \E k \in DOMAIN g : g[k].rule = f.rule /\ g[k].severity = f.severity
  <2> TAKE f \in F
  <2>1. PICK i \in 1..n : fs[i] = f
    BY DEF IsOrderOf, n
  <2>2. PICK h \in Heads(fs) : GroupKey(fs[h]) = GroupKey(fs[i])
    BY <1>1, GroupsPartition
  <2>3. PICK k \in 1..c : heads[k] = h
    BY <1>3
  <2> QED BY <1>4, <2>1, <2>2, <2>3 DEF GroupKey
<1>6. \A k, m \in DOMAIN g : k < m => Rank(g[k].severity) >= Rank(g[m].severity)
  <2> TAKE k, m \in DOMAIN g
  <2> HAVE k < m
  <2>1. heads[k] \in DOMAIN fs /\ heads[m] \in DOMAIN fs /\ heads[k] < heads[m]
    BY <1>1, <1>2, <1>3, <1>4
  <2>2. fs[heads[k]] \in F /\ fs[heads[m]] \in F
    BY <1>1, <2>1 DEF IsOrderOf, n
  <2>3. Rank(fs[heads[m]].severity) <= Rank(fs[heads[k]].severity)
    BY <2>1, ReportGoesDown
  <2>4. Rank(fs[heads[m]].severity) \in 0..4 /\ Rank(fs[heads[k]].severity) \in 0..4
    BY <2>2, RankIs DEF IsFinding
  <2> QED BY <1>4, <2>3, <2>4
<1>7. MapThenSumSet(LAMBDA k : Len(g[k].named) + g[k].more, DOMAIN g) = n
  <2> DEFINE D == 1..c
             M == [k \in D |-> Group(fs, heads[k])]
             a == [k \in D |-> Len(g[k].named) + g[k].more]
             P(iter) ==
               iter = [s \in SUBSET D |->
                         IF s = {} THEN 0
                         ELSE Len(g[CHOOSE x \in s : TRUE].named) + g[CHOOSE x \in s : TRUE].more
                                + iter[s \ {CHOOSE x \in s : TRUE}]]
             it == CHOOSE iter : P(iter)
  <2>1. IsFiniteSet(D) /\ \A k \in D : IsFiniteSet(M[k]) /\ a[k] = Cardinality(M[k])
    <3>1. \A k \in D : Group(fs, heads[k]) \subseteq 1..n
      BY <1>1 DEF Group
    <3>2. \A k \in D : IsFiniteSet(Group(fs, heads[k]))
      BY <1>1, <3>1, PositionsKept
    <3> QED BY <1>3, <1>4, <3>2, FS_Interval
  <2>2. \A j, k \in D : j # k => M[j] \cap M[k] = {}
    <3> TAKE j, k \in D
    <3> HAVE j # k
    <3>1. heads[j] \in Heads(fs) /\ heads[k] \in Heads(fs) /\ heads[j] # heads[k]
      <4>1. heads[j] \in Nat /\ heads[k] \in Nat
        BY <1>2, <1>3
      <4>2. j < k \/ k < j
        BY <1>3
      <4> QED BY <1>3, <4>1, <4>2
    <3>2. Group(fs, heads[j]) \cap Group(fs, heads[k]) = {}
      BY <1>1, <3>1, GroupsPartition
    <3> QED BY <3>2
  <2>3. UNION {M[k] : k \in D} = 1..n
    <3>1. ASSUME NEW i \in 1..n PROVE \E k \in D : i \in M[k]
      <4>1. PICK h \in Heads(fs) : GroupKey(fs[h]) = GroupKey(fs[i])
        BY <1>1, GroupsPartition
      <4>2. PICK k \in D : heads[k] = h
        BY <1>3
      <4>3. i \in Group(fs, heads[k])
        BY <1>1, <4>1, <4>2 DEF Group
      <4> QED BY <4>3
    <3>2. \A k \in D : M[k] \subseteq 1..n
      BY <1>1 DEF Group
    <3> HIDE DEF M, a, it
    <3> QED BY <3>1, <3>2
  <2>4. (\E iter : Sums(iter, D, a)) /\
        \A iter : Sums(iter, D, a) => iter[D] = Cardinality(UNION {M[k] : k \in D})
    <3> HIDE DEF D, M, a, it, P
    <3> QED BY <2>1, <2>2, SumFold
  <2>5. Sums(it, D, a)
    <3>1. \A s \in SUBSET D : s # {} =>
            a[CHOOSE x \in s : TRUE] = Len(g[CHOOSE x \in s : TRUE].named) + g[CHOOSE x \in s : TRUE].more
      OBVIOUS
    <3>2. \A iter : Sums(iter, D, a) <=> P(iter)
      <4> HIDE DEF a, D
      <4> QED BY <3>1 DEF Sums
    <3> HIDE DEF a, D, P
    <3> QED BY <2>4, <3>2
  <2>6. MapThenSumSet(LAMBDA k : Len(g[k].named) + g[k].more, DOMAIN g) = it[D]
    <3>1. DOMAIN g = D
      BY <1>4
    <3>2. MapThenSumSet(LAMBDA k : Len(g[k].named) + g[k].more, D) = it[D]
      BY DEF MapThenSumSet, MapThenFoldSet
    <3> HIDE DEF it, D, P
    <3> QED BY <3>1, <3>2
  <2>7. Cardinality(1..n) = n
    BY <1>1, FS_Interval
  <2> HIDE DEF it, D, M, a, P
  <2> QED BY <2>3, <2>4, <2>5, <2>6, <2>7
<1>8. CountAll(g, n) /\ Cover(g, F) /\ GoDown(g)
  BY <1>5, <1>6, <1>7 DEF CountAll, Cover, GoDown
<1> QED BY <1>1, <1>8 DEF g, n

\* A rule's worst finding is one of its findings.
LEMMA WorstIs ==
  ASSUME NEW n \in Nat, NEW fs, DOMAIN fs = 1..n, \A i \in 1..n : IsFinding(fs[i]),
         NEW r, \E i \in 1..n : fs[i].rule = r
  PROVE  \E i \in 1..n : fs[i].rule = r /\ WorstOf(fs, r) = fs[i].severity
<1> DEFINE R == {Rank(fs[i].severity) : i \in {j \in DOMAIN fs : fs[j].rule = r}}
<1>1. R \subseteq 0..4 /\ R # {}
  BY RankIs DEF IsFinding
<1>2. IsFiniteSet(R)
  <2>1. IsFiniteSet(0..4)
    <3>1. \A m \in Nat : IsFiniteSet(0..m)
      BY FS_Interval
    <3> HIDE DEF R
    <3> QED BY <3>1
  <2> HIDE DEF R
  <2> QED BY <1>1, <2>1, FS_Subset
<1>3. \E x \in R : \A y \in R : x >= y
  <2>1. R \subseteq Nat
    BY <1>1
  <2> HIDE DEF R
  <2> QED BY <1>1, <1>2, <2>1, GreatestNatural
<1>4. Max(R) \in R
  <2> HIDE DEF R
  <2> QED BY <1>3 DEF Max
<1>5. PICK i \in 1..n : fs[i].rule = r /\ Max(R) = Rank(fs[i].severity)
  BY <1>4
<1>6. WorstOf(fs, r) = Severities[Rank(fs[i].severity) + 1]
  BY <1>5 DEF WorstOf
<1>7. Severities[Rank(fs[i].severity) + 1] = fs[i].severity
  BY RankIs DEF Severities, IsFinding
<1> QED BY <1>5, <1>6, <1>7

\* What to fix first leaves out no rule that is worse than one it names.
LEMMA NextStepsAreWorst ==
  ASSUME NEW F, IsFiniteSet(F), \A f \in F : IsFinding(f), NEW fs, IsOrderOf(fs, F)
  PROVE  \A r \in ToSet(NextSteps(fs)), q \in {f.rule : f \in F} \ ToSet(NextSteps(fs)) :
           Rank(WorstOf(fs, q)) <= Rank(WorstOf(fs, r))
<1> DEFINE n == Cardinality(F)
           rules == {fs[i].rule : i \in DOMAIN fs}
           Step(r) == [rule |-> r, severity |-> WorstOf(fs, r)]
           W == {Step(r) : r \in rules}
           w == SortFindings(W)
           limit == AtMost(Len(w), NextStepLimit)
<1>1. n \in Nat /\ DOMAIN fs = 1..n /\ \A i \in 1..n : fs[i] \in F
  BY ReportIsList DEF IsOrderOf
<1>2. \A r \in rules : IsFinding(Step(r)) /\ Step(r).rule = r
  <2> TAKE r \in rules
  <2>1. PICK i \in 1..n : fs[i].rule = r /\ WorstOf(fs, r) = fs[i].severity
    BY <1>1, WorstIs
  <2> QED BY <1>1, <2>1 DEF IsFinding
<1>3. IsFiniteSet(W)
  <2>1. IsFiniteSet(rules)
    <3>1. rules \subseteq 1..18
      BY <1>1, RulesAre DEF IsFinding
    <3>2. IsFiniteSet(1..18)
      <4>1. \A m \in Nat : IsFiniteSet(1..m)
        BY FS_Interval
      <4> HIDE DEF rules
      <4> QED BY <4>1
    <3> HIDE DEF rules
    <3> QED BY <3>1, <3>2, FS_Subset
  <2> DEFINE g == [r \in rules |-> Step(r)]
  <2>2. W = {g[r] : r \in rules} /\ DOMAIN g = rules
    OBVIOUS
  <2> HIDE DEF g, W, rules
  <2> QED BY <2>1, <2>2, ImageIsFinite
<1>4. IsOrderOf(w, W)
  <2>1. \A f \in W : IsFinding(f)
    <3> HIDE DEF Step, rules
    <3> QED BY <1>2
  <2> HIDE DEF W
  <2> QED BY <1>3, <2>1, SortedWorstFirst
<1> DEFINE c == Cardinality(W)
<1>5. c \in Nat /\ Len(w) = c /\ DOMAIN w = 1..c
  <2> HIDE DEF W
  <2> QED BY <1>3, <1>4, ReportIsList
<1>6. /\ \A x \in W : \E i \in 1..c : w[i] = x
      /\ \A i \in 1..c : w[i] \in W
      /\ \A i, j \in 1..c : i < j => ~WorstFirst(w[j], w[i])
  <2> HIDE DEF W, w
  <2> QED BY <1>4 DEF IsOrderOf
<1>7. limit \in Nat /\ limit <= c
  BY <1>5 DEF AtMost, NextStepLimit
<1>8. NextSteps(fs) = [k \in 1..limit |-> w[k].rule]
  BY DEF NextSteps
<1> HIDE DEF w, limit, c, W
<1>9. ToSet(NextSteps(fs)) = {w[k].rule : k \in 1..limit}
  BY <1>8 DEF ToSet
<1>10. \A k \in 1..c : w[k].severity = WorstOf(fs, w[k].rule) /\ IsFinding(w[k])
  <2> TAKE k \in 1..c
  <2>1. PICK r \in rules : w[k] = Step(r)
    <3> HIDE DEF rules, Step
    <3> QED BY <1>6 DEF W
  <2> QED BY <1>2, <2>1
<1>11. ASSUME NEW r \in ToSet(NextSteps(fs)), NEW q \in {f.rule : f \in F} \ ToSet(NextSteps(fs))
       PROVE  Rank(WorstOf(fs, q)) <= Rank(WorstOf(fs, r))
  <2>1. PICK a \in 1..limit : r = w[a].rule
    BY <1>9
  <2>2. q \in rules
    <3>1. PICK f \in F : q = f.rule
      OBVIOUS
    <3>2. PICK i \in 1..n : fs[i] = f
      BY DEF IsOrderOf
    <3> QED BY <1>1, <3>1, <3>2
  <2>3. PICK b \in 1..c : w[b] = Step(q)
    <3>1. Step(q) \in W
      <4> HIDE DEF rules, Step
      <4> QED BY <2>2 DEF W
    <3> HIDE DEF rules, Step
    <3> QED BY <1>6, <3>1
  <2>4. w[b].rule = q
    BY <2>3
  <2>5. b \notin 1..limit
    BY <1>9, <2>4
  <2>6. a \in 1..c /\ a < b
    BY <1>5, <1>7, <2>5
  <2>7. ~WorstFirst(w[b], w[a])
    BY <1>6, <2>6
  <2>8. Rank(w[b].severity) <= Rank(w[a].severity)
    BY <1>10, <2>6, <2>7, RankIs DEF WorstFirst, IsFinding
  <2> QED BY <1>10, <2>1, <2>4, <2>6, <2>8
<1> QED BY <1>11

-----------------------------------------------------------------------------
\* s draws on the places K of the list fs.
Drawn(s, fs, K) ==
  /\ IsFiniteSet(K) /\ Cardinality(K) \in Nat
  /\ DOMAIN s = 1..Cardinality(K) /\ Len(s) = Cardinality(K)
  /\ \A k \in 1..Cardinality(K) : \E i \in K : s[k] = fs[i]

\* What a resource table lists of its kind.
LEMMA OfKindIs ==
  ASSUME NEW n \in Nat, NEW fs, DOMAIN fs = 1..n, NEW kind
  PROVE  Drawn(OfKind(fs, kind), fs, {i \in 1..n : fs[i].kind = kind})
<1> DEFINE K == {i \in 1..n : fs[i].kind = kind}
           q == InOrder(K)
           c == Cardinality(K)
           ks == [k \in DOMAIN q |-> fs[q[k]]]
<1>1. K \in SUBSET (1..n)
  OBVIOUS
<1>2. IsFiniteSet(K) /\ c \in Nat /\ q \in [1..c -> K] /\ DOMAIN q = 1..c
  <2> HIDE DEF K
  <2>1. IsFiniteSet(K) /\ Cardinality(K) \in 0..n
    BY <1>1, PositionsKept
  <2>2. InOrder(K) \in [1..Cardinality(K) -> K] /\ DOMAIN InOrder(K) = 1..Cardinality(K)
    BY <1>1, PositionsKept
  <2> QED BY <2>1, <2>2
<1>3. OfKind(fs, kind) = ks
  BY DEF OfKind
<1> HIDE DEF K, q, c
<1>5. DOMAIN ks = 1..c /\ Len(ks) = c /\ \A k \in 1..c : ks[k] = fs[q[k]] /\ q[k] \in K
  BY <1>2
<1> HIDE DEF ks
<1>6. \A k \in 1..c : \E i \in K : ks[k] = fs[i]
  BY <1>5
<1>7. Drawn(ks, fs, K)
  BY <1>2, <1>5, <1>6 DEF Drawn, c
<1> QED BY <1>3, <1>7 DEF K

\* The table's list hides only what is below HIGH, and says how much.
LEMMA ListedIs ==
  ASSUME NEW n \in Nat, NEW fs, DOMAIN fs = 1..n, Len(fs) = n, NEW all \in BOOLEAN
  PROVE  LET t == SelectFindings(fs, all)
         IN /\ Len(t.shown) + t.hidden = n
            /\ \A i \in 1..n : ~CappedSeverity(fs[i]) => fs[i] \in ToSet(t.shown)
<1> DEFINE Shown(i) == \/ all \/ ~CappedSeverity(fs[i])
                       \/ Cardinality({j \in 1..i : fs[j].rule = fs[i].rule /\ CappedSeverity(fs[j])})
                            <= LowSeverityCap
           K == {i \in DOMAIN fs : Shown(i)}
           q == InOrder(K)
           c == Cardinality(K)
           H == {i \in DOMAIN fs : ~Shown(i)}
           s == [k \in DOMAIN q |-> fs[q[k]]]
<1>1. SelectFindings(fs, all) = [shown |-> s, hidden |-> Cardinality(H)]
  BY DEF SelectFindings
<1>0. H = (1..n) \ K
  OBVIOUS
<1> HIDE DEF H
<1>2. K \subseteq 1..n /\ \A i \in 1..n : ~CappedSeverity(fs[i]) => i \in K
  OBVIOUS
<1> HIDE DEF K
<1>3. /\ c \in 0..n /\ Len(q) = c /\ DOMAIN q = 1..c
      /\ \A x \in K : \E k \in 1..c : q[k] = x
  BY <1>2, PositionsKept
<1>6. Cardinality(H) = n - c
  <2>1. IsFiniteSet(1..n) /\ Cardinality(1..n) = n
    BY FS_Interval
  <2>2. (1..n) \cap K = K
    BY <1>2
  <2>3. Cardinality((1..n) \ K) = Cardinality(1..n) - Cardinality((1..n) \cap K)
    BY <2>1, FS_Difference
  <2>4. QED  BY <1>0, <2>1, <2>2, <2>3
<1> HIDE DEF q, c
<1>4. DOMAIN s = 1..c /\ Len(s) = c /\ \A k \in 1..c : s[k] = fs[q[k]]
  BY <1>3
<1> HIDE DEF s
<1>5. \A i \in K : fs[i] \in ToSet(s)
  BY <1>3, <1>4 DEF ToSet
<1> QED BY <1>1, <1>2, <1>3, <1>4, <1>5, <1>6

\* The lines of an ungrouped screen count one finding each.
LEMMA OneEach ==
  ASSUME NEW n \in Nat, NEW l, DOMAIN l = 1..n,
         \A k \in 1..n : Len(l[k].named) + l[k].more = 1
  PROVE  CountAll(l, n)
<1> DEFINE D == 1..n
           M == [k \in D |-> {k}]
           a == [k \in D |-> Len(l[k].named) + l[k].more]
           it == CHOOSE iter :
             iter = [s \in SUBSET D |->
                       IF s = {} THEN 0
                       ELSE Len(l[CHOOSE x \in s : TRUE].named) + l[CHOOSE x \in s : TRUE].more
                              + iter[s \ {CHOOSE x \in s : TRUE}]]
<1>1. IsFiniteSet(D) /\ Cardinality(D) = n
  BY FS_Interval
<1>2. \A k \in D : IsFiniteSet(M[k]) /\ a[k] = Cardinality(M[k])
  <2>1. \A k \in D : IsFiniteSet({k}) /\ Cardinality({k}) = 1
    BY FS_Singleton
  <2> QED BY <2>1
<1>3. \A j, k \in D : j # k => M[j] \cap M[k] = {}
  OBVIOUS
<1>4. UNION {M[k] : k \in D} = D
  <2>1. UNION {{k} : k \in D} = D
    OBVIOUS
  <2>2. {M[k] : k \in D} = {{k} : k \in D}
    OBVIOUS
  <2> HIDE DEF M, D
  <2> QED BY <2>1, <2>2
<1>5. (\E iter : Sums(iter, D, a)) /\
      \A iter : Sums(iter, D, a) => iter[D] = Cardinality(UNION {M[k] : k \in D})
  <2> HIDE DEF D, M, a, it
  <2> QED BY <1>1, <1>2, <1>3, SumFold
<1>6. Sums(it, D, a)
  <2>1. \A s \in SUBSET D : s # {} =>
          a[CHOOSE x \in s : TRUE] = Len(l[CHOOSE x \in s : TRUE].named) + l[CHOOSE x \in s : TRUE].more
    OBVIOUS
  <2>2. \A iter : Sums(iter, D, a) <=>
          iter = [s \in SUBSET D |->
                    IF s = {} THEN 0
                    ELSE Len(l[CHOOSE x \in s : TRUE].named) + l[CHOOSE x \in s : TRUE].more
                           + iter[s \ {CHOOSE x \in s : TRUE}]]
    <3> HIDE DEF a, D
    <3> QED BY <2>1 DEF Sums
  <2> HIDE DEF a, D
  <2> QED BY <1>5, <2>2
<1>7. MapThenSumSet(LAMBDA k : Len(l[k].named) + l[k].more, DOMAIN l) = it[D]
  <2>1. MapThenSumSet(LAMBDA k : Len(l[k].named) + l[k].more, D) = it[D]
    BY DEF MapThenSumSet, MapThenFoldSet
  <2> HIDE DEF it, D
  <2>2. DOMAIN l = D
    BY DEF D
  <2> QED BY <2>1, <2>2
<1>8. MapThenSumSet(LAMBDA k : Len(l[k].named) + l[k].more, DOMAIN l) = n
  <2> HIDE DEF it, D, M, a
  <2> QED BY <1>1, <1>4, <1>5, <1>6, <1>7
<1> QED BY <1>8 DEF CountAll

\* The rows t count n findings between them.
CountRows(t, n) == MapThenSumSet(LAMBDA id : t[id], DOMAIN t) = n

\* Every finding of a kind is in the row of one of the kind's resources.
LEMMA IssuesAddUp ==
  ASSUME NEW n \in Nat, NEW fs, DOMAIN fs = 1..n, NEW kind, NEW t, IsFiniteSet(DOMAIN t),
         \A id \in DOMAIN t : t[id] = IssueCount(fs, kind, id),
         \A i \in 1..n : fs[i].kind = kind => fs[i].resource \in DOMAIN t
  PROVE  CountRows(t, Len(OfKind(fs, kind)))
<1> DEFINE D == DOMAIN t
           K == {i \in 1..n : fs[i].kind = kind}
           M == [id \in D |-> {i \in 1..n : fs[i].kind = kind /\ fs[i].resource = id}]
           P(iter) ==
             iter = [s \in SUBSET D |->
                       IF s = {} THEN 0
                       ELSE t[CHOOSE x \in s : TRUE] + iter[s \ {CHOOSE x \in s : TRUE}]]
           it == CHOOSE iter : P(iter)
<1>1. Len(OfKind(fs, kind)) = Cardinality(K)
  <2>1. Drawn(OfKind(fs, kind), fs, K)
    BY OfKindIs
  <2> HIDE DEF K
  <2> QED BY <2>1 DEF Drawn
<1>2. \A id \in D : IsFiniteSet(M[id]) /\ t[id] = Cardinality(M[id])
  <2> TAKE id \in D
  <2>1. M[id] \subseteq 1..n
    OBVIOUS
  <2>2. t[id] = Cardinality(M[id])
    BY DEF IssueCount
  <2>3. IsFiniteSet(1..n)
    BY FS_Interval
  <2> HIDE DEF M
  <2> QED BY <2>1, <2>2, <2>3, FS_Subset
<1>3. \A j, k \in D : j # k => M[j] \cap M[k] = {}
  OBVIOUS
<1>4. UNION {M[id] : id \in D} = K
  <2>1. ASSUME NEW i \in K PROVE \E id \in D : i \in M[id]
    OBVIOUS
  <2>2. \A id \in D : M[id] \subseteq K
    OBVIOUS
  <2> HIDE DEF M, K
  <2> QED BY <2>1, <2>2
<1>5. (\E iter : Sums(iter, D, t)) /\
      \A iter : Sums(iter, D, t) => iter[D] = Cardinality(UNION {M[k] : k \in D})
  <2>1. IsFiniteSet(D)
    OBVIOUS
  <2> HIDE DEF D, K, M, P, it
  <2> QED BY <1>2, <1>3, <2>1, SumFold
<1>6. Sums(it, D, t)
  <2>1. \A iter : Sums(iter, D, t) <=> P(iter)
    BY DEF Sums
  <2> HIDE DEF D, P
  <2> QED BY <1>5, <2>1
<1>7. MapThenSumSet(LAMBDA id : t[id], D) = it[D]
  BY DEF MapThenSumSet, MapThenFoldSet
<1>8. MapThenSumSet(LAMBDA id : t[id], DOMAIN t) = Len(OfKind(fs, kind))
  <2> HIDE DEF it, K, M, P
  <2> QED BY <1>1, <1>4, <1>5, <1>6, <1>7
<1> QED BY <1>8 DEF CountRows

\* The scan screen of a report, grouped or not.
LEMMA LinesLoseNothing ==
  ASSUME NEW F, IsFiniteSet(F), \A f \in F : IsFinding(f), NEW fs, IsOrderOf(fs, F),
         NEW all \in BOOLEAN
  PROVE  /\ CountAll(FindingLines(fs, all), Len(fs))
         /\ Cover(FindingLines(fs, all), F)
         /\ GoDown(FindingLines(fs, all))
<1>1. CASE ~all
  <2>1. FindingLines(fs, all) = GroupFindings(fs)
    BY <1>1 DEF FindingLines
  <2> QED BY <2>1, GroupsLoseNothing
<1>2. CASE all
  <2> DEFINE n == Cardinality(F)
             l == FindingLines(fs, all)
             Line(i) == [rule |-> fs[i].rule, severity |-> fs[i].severity,
                         named |-> <<fs[i].resource>>, more |-> 0]
  <2>1. n \in Nat /\ DOMAIN fs = 1..n /\ Len(fs) = n
    BY ReportIsList
  <2>2. l = [i \in DOMAIN fs |-> Line(i)]
    BY <1>2 DEF FindingLines
  <2>3. /\ DOMAIN l = 1..n
        /\ \A k \in 1..n : /\ l[k].rule = fs[k].rule /\ l[k].severity = fs[k].severity
                           /\ Len(l[k].named) + l[k].more = 1
    <3>1. \A k \in 1..n : /\ Line(k).rule = fs[k].rule /\ Line(k).severity = fs[k].severity
                          /\ Line(k).named = <<fs[k].resource>> /\ Line(k).more = 0
      OBVIOUS
    <3> HIDE DEF Line, n, l
    <3>2. DOMAIN l = 1..n /\ \A k \in 1..n : l[k] = Line(k)
      BY <2>1, <2>2
    <3>3. \A r : Len(<<r>>) + 0 = 1
      OBVIOUS
    <3>4. \A k \in 1..n : Len(l[k].named) + l[k].more = 1
      <4> TAKE k \in 1..n
      <4>1. l[k].named = <<fs[k].resource>> /\ l[k].more = 0
        BY <3>1, <3>2
      <4> QED BY <3>3, <4>1
    <3> QED BY <3>1, <3>2, <3>4
  <2> HIDE DEF n, l
  <2>4. CountAll(l, n)
    BY <2>1, <2>3, OneEach
  <2>5. Cover(l, F)
    <3> SUFFICES ASSUME NEW f \in F
                 PROVE  \E k \in DOMAIN l : l[k].rule = f.rule /\ l[k].severity = f.severity
      BY DEF Cover
    <3>1. PICK k \in 1..n : fs[k] = f
      BY DEF IsOrderOf, n
    <3> QED BY <2>3, <3>1
  <2>6. GoDown(l)
    <3> SUFFICES ASSUME NEW k \in DOMAIN l, NEW m \in DOMAIN l, k < m
                 PROVE  Rank(l[k].severity) >= Rank(l[m].severity)
      BY DEF GoDown
    <3>1. fs[k] \in F /\ fs[m] \in F /\ k \in DOMAIN fs /\ m \in DOMAIN fs
      BY <2>1, <2>3 DEF IsOrderOf, n
    <3>2. Rank(fs[m].severity) <= Rank(fs[k].severity)
      BY <3>1, ReportGoesDown
    <3>3. Rank(fs[m].severity) \in 0..4 /\ Rank(fs[k].severity) \in 0..4
      BY <3>1, RankIs DEF IsFinding
    <3> QED BY <2>3, <3>2, <3>3
  <2> QED BY <2>1, <2>4, <2>5, <2>6 DEF l
<1> QED BY <1>1, <1>2

\* A resource table of a report.
LEMMA TableLosesNothing ==
  ASSUME NEW e \in ScanEnvironment, NEW F, IsFiniteSet(F), NEW fs, IsOrderOf(fs, F),
         \A f \in F : IsFinding(f) /\ f.kind \in Kinds /\ f.resource \in Resources(e, f.kind),
         NEW kind \in Kinds, NEW all \in BOOLEAN
  PROVE  LET ks == OfKind(fs, kind)
             t == ResourceTable(e, fs, kind, all)
         IN /\ CountRows(t.issues, Len(ks))
            /\ Len(t.listed.shown) + t.listed.hidden = Len(ks)
            /\ \A f \in ToSet(ks) : Rank(f.severity) >= Rank("HIGH") => f \in ToSet(t.listed.shown)
<1> DEFINE n == Cardinality(F)
           ks == OfKind(fs, kind)
           D == Resources(e, kind)
           t == ResourceTable(e, fs, kind, all)
           x == t.issues
           c == Len(ks)
<1>1. n \in Nat /\ DOMAIN fs = 1..n /\ \A i \in 1..n : fs[i] \in F
  BY ReportIsList DEF IsOrderOf
<1>2. /\ DOMAIN x = D /\ \A id \in D : x[id] = IssueCount(fs, kind, id)
      /\ t.listed = SelectFindings(ks, all)
  BY DEF ResourceTable
<1>3. IsFiniteSet(D)
  BY ResourcesAreFinite DEF Resources, Kinds
<1> HIDE DEF x, ks, c, D, n, t
<1>4. CountRows(x, Len(ks))
  <2>1. \A i \in 1..n : fs[i].kind = kind => fs[i].resource \in D
    BY <1>1 DEF D
  <2>2. IsFiniteSet(DOMAIN x) /\ \A id \in DOMAIN x : x[id] = IssueCount(fs, kind, id)
    BY <1>2, <1>3
  <2>3. \A i \in 1..n : fs[i].kind = kind => fs[i].resource \in DOMAIN x
    BY <1>2, <2>1
  <2> QED BY <1>1, <2>2, <2>3, IssuesAddUp DEF ks
<1>5. /\ c \in Nat /\ DOMAIN ks = 1..c /\ Len(ks) = c
      /\ \A k \in 1..c : ks[k] \in F
  <2> DEFINE K == {i \in 1..n : fs[i].kind = kind}
  <2>1. K \subseteq 1..n
    OBVIOUS
  <2>2. Drawn(ks, fs, K)
    BY <1>1, OfKindIs DEF ks
  <2> HIDE DEF K
  <2> QED BY <1>1, <2>1, <2>2 DEF Drawn, c
<1>6. /\ Len(SelectFindings(ks, all).shown) + SelectFindings(ks, all).hidden = c
      /\ \A i \in 1..c : ~CappedSeverity(ks[i]) => ks[i] \in ToSet(SelectFindings(ks, all).shown)
  BY <1>5, ListedIs
<1>7. \A f \in ToSet(ks) : Rank(f.severity) >= Rank("HIGH") => f \in ToSet(SelectFindings(ks, all).shown)
  <2> TAKE f \in ToSet(ks)
  <2> HAVE Rank(f.severity) >= Rank("HIGH")
  <2>1. PICK i \in 1..c : f = ks[i]
    BY <1>5 DEF ToSet
  <2>2. Rank(f.severity) \in 0..4 /\ Rank("HIGH") = 3
    BY <1>5, <2>1, RankIs DEF IsFinding
  <2>3. ~CappedSeverity(f)
    BY <2>2 DEF CappedSeverity
  <2> QED BY <1>6, <2>1, <2>3
<1> QED BY <1>2, <1>4, <1>5, <1>6, <1>7 DEF ks, t, x

-----------------------------------------------------------------------------
(***************************************************************************)
(* The penalty                                                             *)
(***************************************************************************)
LEMMA WeightIs ==
  ASSUME NEW f, IsFinding(f)
  PROVE  /\ Weight(f) \in {0, 3, 8, 15, 25}
         /\ \A g : IsFinding(g) /\ Rank(f.severity) <= Rank(g.severity) => Weight(f) <= Weight(g)
<1>1. \A h : IsFinding(h) => Weight(h) = IF Rank(h.severity) = 0 THEN 0
                              ELSE IF Rank(h.severity) = 1 THEN 3
                              ELSE IF Rank(h.severity) = 2 THEN 8
                              ELSE IF Rank(h.severity) = 3 THEN 15 ELSE 25
  BY RankIs DEF Weight, Weights, IsFinding
<1>2. \A h : IsFinding(h) => Rank(h.severity) \in 0..4
  BY RankIs DEF IsFinding
<1> QED BY <1>1, <1>2

\* An n-th of more is more.
LEMMA ShareGrows ==
  ASSUME NEW x \in Nat, NEW y \in Nat, x <= y, NEW k \in Nat \ {0}
  PROVE  /\ x \div k \in Nat
         /\ x \div k <= y \div k
         /\ k <= x => 1 <= x \div k
<1> DEFINE p == x \div k
           q == y \div k
<1>1. p \in Int /\ q \in Int /\ k * p <= x /\ x < k * (p + 1) /\ k * q <= y /\ y < k * (q + 1)
  OBVIOUS
<1> HIDE DEF p, q
<1>2. \A a, b \in Int : a < b => k * (a + 1) <= k * b
  OBVIOUS
<1>3. k * 0 = 0 /\ k * 1 = k
  OBVIOUS
<1>4. p >= 0
  <2>1. CASE p < 0
    <3>1. k * (p + 1) <= k * 0
      BY <1>1, <1>2, <2>1
    <3> DEFINE u == k * (p + 1)
    <3>2. u <= 0 /\ x < u /\ u \in Int
      BY <1>1, <1>3, <3>1
    <3> HIDE DEF u
    <3> QED BY <3>2
  <2> QED BY <1>1, <2>1
<1>5. p <= q
  <2>1. CASE q < p
    <3> DEFINE u == k * (q + 1)
               v == k * p
    <3>1. u <= v
      BY <1>1, <1>2, <2>1
    <3>2. y < u /\ v <= x /\ u \in Int /\ v \in Int
      BY <1>1
    <3> HIDE DEF u, v
    <3> QED BY <3>1, <3>2
  <2> QED BY <1>1, <2>1
<1>6. k <= x => 1 <= p
  <2>1. CASE p < 1 /\ k <= x
    <3> DEFINE u == k * (p + 1)
    <3>1. u <= k
      BY <1>1, <1>2, <1>3, <2>1
    <3>2. x < u /\ u \in Int
      BY <1>1
    <3> HIDE DEF u
    <3> QED BY <2>1, <3>1, <3>2
  <2> QED BY <1>1, <2>1
<1> QED BY <1>1, <1>4, <1>5, <1>6 DEF p, q

\* The places of the weighted findings of rule r.
Counted(fs, r) == {j \in DOMAIN fs : fs[j].rule = r /\ Weight(fs[j]) > 0}

\* Which of those of its rule the one at place i is.
Occurrence(fs, i) == Cardinality({j \in 1..i : fs[j].rule = fs[i].rule /\ Weight(fs[j]) > 0})

\* What a finding costs as the k-th of its rule.
Cost(f, k) == (Weight(f) * PenaltyUnit) \div k

\* The findings of rule r that cost t or more there, and the units of a penalty:
\* one for each rule, place and t that as many findings reach.
Dear(F, r, k, t) == {g \in F : g.rule = r /\ Weight(g) > 0 /\ Cost(g, k) >= t}
Reached(F, r, k, t) == Cardinality(Dear(F, r, k, t)) >= k
Units(F) ==
  {u \in (AllRules \X (Nat \ {0})) \X (Nat \ {0}) : Reached(F, u[1][1], u[1][2], u[2])}

LEMMA CostIs ==
  ASSUME NEW f, IsFinding(f), NEW k \in Nat \ {0}
  PROVE  /\ Cost(f, k) \in Nat
         /\ Weight(f) > 0 /\ k <= PenaltyUnit => Cost(f, k) >= 1
         /\ \A g : IsFinding(g) /\ Rank(f.severity) <= Rank(g.severity) => Cost(f, k) <= Cost(g, k)
<1>1. \A h : IsFinding(h) => Weight(h) \in Nat
  BY WeightIs
<1>2. \A h : IsFinding(h) => Weight(h) * PenaltyUnit \in Nat
  BY <1>1, PenaltyUnitAssumption
<1>3. Cost(f, k) \in Nat
  BY <1>2, ShareGrows DEF Cost
<1>4. ASSUME Weight(f) > 0, k <= PenaltyUnit PROVE Cost(f, k) >= 1
  <2> DEFINE x == Weight(f) * PenaltyUnit
  <2>1. x >= PenaltyUnit
    BY <1>4, WeightIs, PenaltyUnitAssumption
  <2>2. x \in Nat /\ k <= x
    BY <1>2, <1>4, <2>1, PenaltyUnitAssumption
  <2>3. Cost(f, k) = x \div k
    BY DEF Cost
  <2> HIDE DEF x
  <2> QED BY <2>2, <2>3, <1>3, ShareGrows
<1>5. ASSUME NEW g, IsFinding(g), Rank(f.severity) <= Rank(g.severity)
      PROVE  Cost(f, k) <= Cost(g, k)
  <2> DEFINE x == Weight(f) * PenaltyUnit
             y == Weight(g) * PenaltyUnit
  <2>1. Weight(f) <= Weight(g) /\ Weight(f) \in {0, 3, 8, 15, 25} /\ Weight(g) \in {0, 3, 8, 15, 25}
    BY <1>5, WeightIs
  <2>2. x <= y
    BY <2>1, PenaltyUnitAssumption
  <2>3. Cost(f, k) = x \div k /\ Cost(g, k) = y \div k /\ x \in Nat /\ y \in Nat
    BY <1>2, <1>5 DEF Cost
  <2> HIDE DEF x, y
  <2> QED BY <2>2, <2>3, ShareGrows
<1> QED BY <1>3, <1>4, <1>5

\* The weighted findings of a rule are counted 1, 2, 3 as they come.
LEMMA OccurrencesAre ==
  ASSUME NEW n \in Nat, NEW fs, DOMAIN fs = 1..n, NEW r
  PROVE  LET q == InOrder(Counted(fs, r))
             c == Cardinality(Counted(fs, r))
         IN /\ c \in Nat
            /\ q \in [1..c -> Counted(fs, r)]
            /\ \A i \in Counted(fs, r) : \E k \in 1..c : q[k] = i
            /\ \A j, k \in 1..c : j < k => q[j] < q[k]
            /\ \A k \in 1..c : Occurrence(fs, q[k]) = k
<1> DEFINE S == Counted(fs, r)
           q == InOrder(S)
           c == Cardinality(S)
<1>1. S \subseteq 1..n
  BY DEF Counted
<1>2. /\ c \in 0..n /\ q \in [1..c -> S]
      /\ \A i \in S : \E k \in 1..c : q[k] = i
      /\ \A j, k \in 1..c : j < k => q[j] < q[k]
  <2> HIDE DEF S
  <2> QED BY <1>1, PositionsKept
<1>3. ASSUME NEW k \in 1..c PROVE Occurrence(fs, q[k]) = k
  <2> DEFINE B == {j \in 1..q[k] : fs[j].rule = fs[q[k]].rule /\ Weight(fs[j]) > 0}
             g == [l \in 1..k |-> q[l]]
  <2> HIDE DEF q, c
  <2>1. q[k] \in S /\ q[k] \in 1..n /\ fs[q[k]].rule = r
    BY <1>1, <1>2 DEF Counted
  <2>2. B = {j \in S : j <= q[k]}
    BY <2>1 DEF Counted
  <2>3. \A l \in 1..k : l \in 1..c /\ q[l] \in S /\ q[l] <= q[k]
    <3> TAKE l \in 1..k
    <3> HIDE DEF S
    <3>1. l \in 1..c /\ q[l] \in S
      BY <1>2
    <3>2. l < k => q[l] < q[k]
      BY <1>2, <3>1
    <3>3. l = k \/ l < k
      BY <1>2
    <3>4. q[l] \in 1..n
      BY <1>1, <3>1
    <3> QED BY <2>1, <3>1, <3>2, <3>3, <3>4
  <2>4. \A i \in S : i <= q[k] => \E l \in 1..k : q[l] = i
    <3> TAKE i \in S
    <3> HAVE i <= q[k]
    <3>1. PICK l \in 1..c : q[l] = i
      BY <1>2
    <3>2. ~(k < l)
      BY <1>1, <1>2, <2>1, <3>1
    <3> QED BY <1>2, <3>1, <3>2
  <2>5. B = {g[l] : l \in 1..k}
    <3> HIDE DEF B, S
    <3> QED BY <2>2, <2>3, <2>4
  <2>6. \A l, m \in 1..k : g[l] = g[m] => l = m
    BY <1>1, <1>2, <2>3
  <2>7. IsFiniteSet(1..k) /\ Cardinality(1..k) = k
    BY <1>2, FS_Interval
  <2>8. DOMAIN g = 1..k
    OBVIOUS
  <2>9. Occurrence(fs, q[k]) = Cardinality(B)
    BY DEF Occurrence
  <2> HIDE DEF B, g
  <2> QED BY <2>5, <2>6, <2>7, <2>8, <2>9, ImageIsFinite
<1> QED BY <1>2, <1>3

\* The k-th finding of a rule costs t or more just when k of them would in its
\* place: those before it cost no less, being no milder.
LEMMA PlaceReached ==
  ASSUME NEW F, IsFiniteSet(F), \A f \in F : IsFinding(f), NEW fs, IsOrderOf(fs, F),
         NEW r, NEW k \in Nat \ {0}, NEW t \in Nat \ {0}
  PROVE  Reached(F, r, k, t) <=>
           \E i \in Counted(fs, r) : Occurrence(fs, i) = k /\ t <= Cost(fs[i], k)
<1> DEFINE n == Cardinality(F)
           S == Counted(fs, r)
           q == InOrder(S)
           c == Cardinality(S)
           D == Dear(F, r, k, t)
<1>1. n \in Nat /\ DOMAIN fs = 1..n
  BY ReportIsList
<1>2. /\ fs \in [1..n -> F]
      /\ \A f \in F : \E i \in 1..n : fs[i] = f
      /\ \A i, j \in 1..n : i # j => fs[i] # fs[j]
  BY DEF IsOrderOf
<1>3. S \subseteq 1..n /\ \A i \in 1..n : i \in S <=> fs[i].rule = r /\ Weight(fs[i]) > 0
  BY <1>1 DEF Counted
<1>4. /\ c \in Nat /\ q \in [1..c -> S]
      /\ \A i \in S : \E l \in 1..c : q[l] = i
      /\ \A j, l \in 1..c : j < l => q[j] < q[l]
      /\ \A l \in 1..c : Occurrence(fs, q[l]) = l
  <2> HIDE DEF n
  <2> QED BY <1>1, OccurrencesAre
<1>5. IsFiniteSet(D) /\ D \subseteq F /\ Cardinality(D) \in Nat
  <2>1. D \subseteq F
    BY DEF Dear
  <2> HIDE DEF D
  <2> QED BY <2>1, FS_Subset, FS_CardinalityType
<1>6. \A f \in F : f \in D <=> f.rule = r /\ Weight(f) > 0 /\ Cost(f, k) >= t
  BY DEF Dear
<1>7. \A i, j \in S : i <= j => Cost(fs[j], k) <= Cost(fs[i], k)
  <2> TAKE i, j \in S
  <2> HAVE i <= j
  <2>0. i \in 1..n /\ j \in 1..n /\ IsFinding(fs[i]) /\ IsFinding(fs[j])
    BY <1>2, <1>3
  <2>1. CASE i = j
    BY <2>0, <2>1, CostIs
  <2>2. CASE i < j
    <3>1. Rank(fs[j].severity) <= Rank(fs[i].severity)
      BY <1>1, <2>0, <2>2, ReportGoesDown
    <3> QED BY <2>0, <3>1, CostIs
  <2> QED BY <1>1, <2>0, <2>1, <2>2
<1>8. \A i \in S : Cost(fs[i], k) \in Nat
  BY <1>2, <1>3, CostIs
<1>9. \A m \in Nat : IsFiniteSet(1..m) /\ Cardinality(1..m) = m
  BY FS_Interval
<1> HIDE DEF n, S, q, c, D
<1>10. ASSUME NEW i \in S, Occurrence(fs, i) = k, t <= Cost(fs[i], k)
       PROVE  k <= Cardinality(D)
  <2> DEFINE g == [l \in 1..k |-> fs[q[l]]]
             T == {g[l] : l \in 1..k}
  <2>1. k \in 1..c /\ q[k] = i
    BY <1>4, <1>10
  <2>2. \A l \in 1..k : l \in 1..c /\ q[l] \in S /\ q[l] <= i
    <3> TAKE l \in 1..k
    <3>0. l \in 1..c
      BY <1>4, <2>1
    <3>1. l \in 1..c /\ q[l] \in S /\ q[l] \in 1..n
      BY <1>3, <1>4, <3>0
    <3>2. l < k => q[l] < q[k]
      BY <1>4, <2>1, <3>1
    <3>3. l = k \/ l < k
      OBVIOUS
    <3> QED BY <1>3, <2>1, <3>1, <3>2, <3>3
  <2>3. \A l \in 1..k : g[l] \in D
    <3> TAKE l \in 1..k
    <3>1. q[l] \in S /\ Cost(fs[i], k) <= Cost(fs[q[l]], k)
      BY <1>7, <2>2
    <3>2. q[l] \in 1..n /\ fs[q[l]] \in F /\ fs[q[l]].rule = r /\ Weight(fs[q[l]]) > 0
      BY <1>2, <1>3, <3>1
    <3>3. Cost(fs[q[l]], k) >= t
      BY <1>8, <1>10, <3>1
    <3> QED BY <1>6, <3>2, <3>3
  <2>4. \A l, m \in 1..k : g[l] = g[m] => l = m
    <3> TAKE l, m \in 1..k
    <3> HAVE g[l] = g[m]
    <3>1. q[l] = q[m]
      BY <1>2, <1>3, <2>2
    <3>2. l \in 1..c /\ m \in 1..c /\ q[l] \in 1..n /\ q[m] \in 1..n
      BY <1>3, <2>2
    <3>3. ~(l < m) /\ ~(m < l)
      BY <1>4, <3>1, <3>2
    <3> QED BY <3>3
  <2>5. DOMAIN g = 1..k /\ T \subseteq D
    BY <2>3
  <2> HIDE DEF g
  <2>6. Cardinality(T) = k
    BY <1>9, <2>4, <2>5, ImageIsFinite
  <2> HIDE DEF T
  <2> QED BY <1>5, <2>5, <2>6, FS_Subset
<1>11. ASSUME k <= Cardinality(D)
       PROVE  \E i \in S : Occurrence(fs, i) = k /\ t <= Cost(fs[i], k)
  <2>1. ASSUME NEW f \in D PROVE \E l \in 1..c : fs[q[l]] = f
    <3>1. f \in F /\ f.rule = r /\ Weight(f) > 0
      BY <1>5, <1>6
    <3>2. PICK i \in 1..n : fs[i] = f
      BY <1>2, <3>1
    <3>3. i \in S
      BY <1>3, <3>1, <3>2
    <3> QED BY <1>4, <3>2, <3>3
  <2>2. ASSUME NEW m \in Nat, m <= c, \A f \in D : \E l \in 1..m : fs[q[l]] = f
        PROVE  Cardinality(D) <= m
    <3> DEFINE g == [l \in 1..m |-> fs[q[l]]]
               T == {g[l] : l \in 1..m}
    <3>1. DOMAIN g = 1..m /\ D \subseteq T
      BY <2>2
    <3> HIDE DEF g
    <3>2. IsFiniteSet(T) /\ Cardinality(T) <= m
      BY <1>9, <3>1, ImageIsFinite, ImageIsSmaller
    <3>3. Cardinality(T) \in Nat
      BY <3>2, FS_CardinalityType
    <3> HIDE DEF T
    <3>4. Cardinality(D) <= Cardinality(T)
      BY <3>1, <3>2, FS_Subset
    <3> QED BY <1>5, <3>2, <3>3, <3>4
  <2>3. Cardinality(D) <= c
    BY <1>4, <2>1, <2>2
  <2>4. k \in 1..c
    BY <1>4, <1>5, <1>11, <2>3
  <2>5. q[k] \in S /\ Occurrence(fs, q[k]) = k
    BY <1>4, <2>4
  <2>6. CASE Cost(fs[q[k]], k) < t
    <3>1. \A f \in D : \E l \in 1..(k - 1) : fs[q[l]] = f
      <4> TAKE f \in D
      <4>1. PICK l \in 1..c : fs[q[l]] = f
        BY <2>1
      <4>2. Cost(fs[q[l]], k) >= t /\ q[l] \in S
        BY <1>4, <1>5, <1>6, <4>1
      <4>3. ~(q[k] <= q[l])
        BY <1>7, <1>8, <2>5, <2>6, <4>2
      <4>4. q[k] \in 1..n /\ q[l] \in 1..n
        BY <1>3, <2>5, <4>2
      <4>5. ~(k < l) /\ k # l
        BY <1>4, <2>4, <4>3, <4>4
      <4>6. l \in 1..(k - 1)
        BY <1>4, <2>4, <4>5
      <4> QED BY <4>1, <4>6
    <3>2. k - 1 \in Nat /\ k - 1 <= c
      BY <1>4, <2>4
    <3>3. Cardinality(D) <= k - 1
      BY <2>2, <3>1, <3>2
    <3> QED BY <1>5, <1>11, <3>3
  <2> QED BY <1>8, <2>5, <2>6
<1> QED BY <1>10, <1>11 DEF Reached, D, S

\* A penalty counts the units that are reached, whatever the order of equals.
LEMMA PenaltyIs ==
  ASSUME NEW F, IsFiniteSet(F), \A f \in F : IsFinding(f), NEW fs, IsOrderOf(fs, F)
  PROVE  IsFiniteSet(Units(F)) /\ Penalty(fs) = Cardinality(Units(F))
<1> DEFINE n == Cardinality(F)
           D == {i \in DOMAIN fs : Weight(fs[i]) > 0}
           k == [i \in D |-> Occurrence(fs, i)]
           a == [i \in D |-> (Weight(fs[i]) * PenaltyUnit) \div Occurrence(fs, i)]
           M == [i \in D |-> {<<fs[i].rule, k[i]>>} \X (1..a[i])]
           P(iter) ==
             iter = [s \in SUBSET D |->
                       IF s = {} THEN 0
                       ELSE ((Weight(fs[CHOOSE x \in s : TRUE]) * PenaltyUnit)
                               \div Occurrence(fs, CHOOSE x \in s : TRUE))
                              + iter[s \ {CHOOSE x \in s : TRUE}]]
           it == CHOOSE iter : P(iter)
<1>1. n \in Nat /\ DOMAIN fs = 1..n /\ fs \in [1..n -> F]
  BY ReportIsList DEF IsOrderOf
<1>2. \A i \in D : i \in 1..n /\ IsFinding(fs[i]) /\ i \in Counted(fs, fs[i].rule)
  BY <1>1 DEF Counted
<1>3. \A i \in D : k[i] \in Nat \ {0} /\ k[i] = Occurrence(fs, i)
  <2> TAKE i \in D
  <2>1. PICK l \in 1..Cardinality(Counted(fs, fs[i].rule)) :
          InOrder(Counted(fs, fs[i].rule))[l] = i /\ Occurrence(fs, i) = l
    <3> HIDE DEF D
    <3> QED BY <1>1, <1>2, OccurrencesAre
  <2>2. Cardinality(Counted(fs, fs[i].rule)) \in Nat
    <3> HIDE DEF D
    <3> QED BY <1>1, OccurrencesAre
  <2> QED BY <2>1, <2>2
<1>4. \A i, j \in D : fs[i].rule = fs[j].rule /\ k[i] = k[j] => i = j
  <2> TAKE i, j \in D
  <2> HAVE fs[i].rule = fs[j].rule /\ k[i] = k[j]
  <2> DEFINE S == Counted(fs, fs[i].rule)
             q == InOrder(S)
  <2>1. i \in S /\ j \in S
    <3> HIDE DEF D
    <3> QED BY <1>2
  <2>2. /\ \A x \in S : \E l \in 1..Cardinality(S) : q[l] = x
        /\ \A l \in 1..Cardinality(S) : Occurrence(fs, q[l]) = l
    <3> HIDE DEF D
    <3> QED BY <1>1, OccurrencesAre
  <2> HIDE DEF S, q, D
  <2> QED BY <1>3, <2>1, <2>2
<1>5. \A i \in D : a[i] = Cost(fs[i], k[i]) /\ a[i] \in Nat
  <2> TAKE i \in D
  <2>1. a[i] = Cost(fs[i], k[i])
    BY DEF Cost
  <2> HIDE DEF a, D, k
  <2> QED BY <1>2, <1>3, <2>1, CostIs
<1>6. \A i \in D : IsFiniteSet(M[i]) /\ a[i] = Cardinality(M[i])
  <2> TAKE i \in D
  <2> DEFINE A == {<<fs[i].rule, k[i]>>}
             B == 1..a[i]
  <2>0. M[i] = A \X B
    OBVIOUS
  <2>1. IsFiniteSet(A) /\ Cardinality(A) = 1
    BY FS_Singleton
  <2>2. IsFiniteSet(B) /\ Cardinality(B) = a[i]
    <3> HIDE DEF a, D
    <3>1. a[i] \in Int /\ 1 \in Int
      BY <1>5
    <3> QED BY <1>5, <3>1, FS_Interval
  <2> HIDE DEF A, B, a, M, D
  <2>3. IsFiniteSet(A \X B) /\ Cardinality(A \X B) = 1 * a[i]
    BY <2>1, <2>2, FS_Product
  <2> QED BY <1>5, <2>0, <2>3
<1>7. \A i, j \in D : i # j => M[i] \cap M[j] = {}
  <2> TAKE i, j \in D
  <2> HAVE i # j
  <2>1. <<fs[i].rule, k[i]>> # <<fs[j].rule, k[j]>>
    <3> HIDE DEF D, k
    <3> QED BY <1>4
  <2> HIDE DEF D, k, a
  <2> QED BY <2>1
<1>8. UNION {M[i] : i \in D} = Units(F)
  <2> DEFINE Pairs == (AllRules \X (Nat \ {0})) \X (Nat \ {0})
  <2>1. ASSUME NEW i \in D, NEW u \in M[i] PROVE u \in Units(F)
    <3>1. u = <<<<fs[i].rule, k[i]>>, u[2]>> /\ u[2] \in 1..a[i]
      <4> HIDE DEF a, k, D
      <4> QED BY <2>1
    <3>2. fs[i].rule \in AllRules /\ k[i] \in Nat \ {0} /\ u[2] \in Nat \ {0} /\ u[2] <= Cost(fs[i], k[i])
      <4> HIDE DEF a, k, D
      <4> QED BY <1>2, <1>3, <1>5, <3>1 DEF IsFinding
    <3>3. Reached(F, fs[i].rule, k[i], u[2])
      <4>1. \A r, kk, t : kk \in Nat \ {0} /\ t \in Nat \ {0} =>
              (Reached(F, r, kk, t) <=> \E j \in Counted(fs, r) : Occurrence(fs, j) = kk /\ t <= Cost(fs[j], kk))
        <5> HIDE DEF a, k, D
        <5> QED BY PlaceReached
      <4> HIDE DEF a, k, D
      <4> QED BY <1>2, <1>3, <3>2, <4>1
    <3> HIDE DEF a, k, D, M
    <3> QED BY <3>1, <3>2, <3>3 DEF Units
  <2>2. ASSUME NEW u \in Units(F) PROVE \E i \in D : u \in M[i]
    <3> DEFINE r == u[1][1]
               kk == u[1][2]
               t == u[2]
    <3>1. u = <<<<r, kk>>, t>> /\ kk \in Nat \ {0} /\ t \in Nat \ {0} /\ Reached(F, r, kk, t)
      BY DEF Units
    <3> HIDE DEF r, kk, t
    <3>2. PICK i \in Counted(fs, r) : Occurrence(fs, i) = kk /\ t <= Cost(fs[i], kk)
      <4> HIDE DEF D, M, a, k
      <4> QED BY <3>1, PlaceReached
    <3>3. i \in D /\ fs[i].rule = r
      BY DEF Counted
    <3>4. k[i] = kk /\ t \in 1..a[i]
      <4>1. k[i] = kk
        BY <3>2, <3>3
      <4> HIDE DEF a, k, D
      <4> QED BY <1>5, <3>1, <3>2, <3>3, <4>1
    <3>5. M[i] = {<<fs[i].rule, k[i]>>} \X (1..a[i])
      <4> HIDE DEF a, k, D
      <4> QED BY <3>3
    <3> HIDE DEF a, k, D, M
    <3>6. u \in M[i]
      BY <3>1, <3>3, <3>4, <3>5
    <3> QED BY <3>3, <3>6
  <2> HIDE DEF D, M, Pairs
  <2> QED BY <2>1, <2>2
<1>9. IsFiniteSet(D)
  <2>1. IsFiniteSet(1..n)
    BY <1>1, FS_Interval
  <2>2. D \subseteq 1..n
    BY <1>1
  <2> HIDE DEF D
  <2> QED BY <2>1, <2>2, FS_Subset
<1>10. (\E iter : Sums(iter, D, a)) /\
       \A iter : Sums(iter, D, a) => iter[D] = Cardinality(UNION {M[i] : i \in D})
  <2> HIDE DEF D, M, a, k, P, it
  <2> QED BY <1>6, <1>7, <1>9, SumFold
<1>11. Sums(it, D, a)
  <2>1. \A iter : Sums(iter, D, a) <=> P(iter)
    BY DEF Sums
  <2> HIDE DEF D, P, a
  <2> QED BY <1>10, <2>1
<1>12. Penalty(fs) = it[D]
  BY DEF Penalty, Occurrence, MapThenSumSet, MapThenFoldSet
<1>13. IsFiniteSet(Units(F))
  <2>1. IsFiniteSet({M[i] : i \in D})
    <3>1. DOMAIN M = D
      OBVIOUS
    <3> HIDE DEF D, M
    <3> QED BY <1>9, <3>1, ImageIsFinite
  <2> DEFINE Z == {M[i] : i \in D}
  <2>2. \A T \in Z : IsFiniteSet(T)
    <3> HIDE DEF D, M
    <3> QED BY <1>6
  <2> HIDE DEF Z, D, M
  <2>3. IsFiniteSet(UNION Z)
    BY <2>1, <2>2, FS_UNION DEF Z
  <2> QED BY <1>8, <2>3 DEF Z
<1> HIDE DEF D, M, a, k, P, it
<1> QED BY <1>8, <1>10, <1>11, <1>12, <1>13

\* More findings reach no fewer units.
LEMMA UnitsGrow ==
  ASSUME NEW F, IsFiniteSet(F), NEW G, G \subseteq F
  PROVE  Units(G) \subseteq Units(F)
<1>1. ASSUME NEW p, NEW k, NEW t
      PROVE  /\ Cardinality(Dear(F, p, k, t)) \in Nat /\ Cardinality(Dear(G, p, k, t)) \in Nat
             /\ Cardinality(Dear(G, p, k, t)) <= Cardinality(Dear(F, p, k, t))
  <2>1. Dear(F, p, k, t) \subseteq F /\ Dear(G, p, k, t) \subseteq Dear(F, p, k, t)
    BY DEF Dear
  <2>2. IsFiniteSet(Dear(F, p, k, t))
    BY <2>1, FS_Subset
  <2>3. IsFiniteSet(Dear(G, p, k, t)) /\ Cardinality(Dear(G, p, k, t)) <= Cardinality(Dear(F, p, k, t))
    BY <2>1, <2>2, FS_Subset
  <2> QED BY <2>2, <2>3, FS_CardinalityType
<1>2. \A x \in Units(G) : Reached(F, x[1][1], x[1][2], x[2])
  <2> TAKE x \in Units(G)
  <2> DEFINE p == x[1][1]
             k == x[1][2]
             t == x[2]
  <2>1. k \in Nat /\ Reached(G, p, k, t)
    BY DEF Units
  <2> HIDE DEF p, k, t
  <2>2. Reached(F, p, k, t)
    BY <1>1, <2>1 DEF Reached
  <2> QED BY <2>2 DEF p, k, t
<1> QED BY <1>2 DEF Units

\* Leaving findings out, as a suppressed rule does, never raises the penalty, and
\* the order of findings that agree in severity and rule does not touch it.
THEOREM FewerCostNoMore ==
  ASSUME NEW F, IsFiniteSet(F), \A f \in F : IsFinding(f), NEW G, G \subseteq F,
         NEW fs, IsOrderOf(fs, F), NEW gs, IsOrderOf(gs, G)
  PROVE  /\ Penalty(gs) <= Penalty(fs)
         /\ \A hs : IsOrderOf(hs, F) => Penalty(hs) = Penalty(fs)
<1>1. IsFiniteSet(G) /\ \A g \in G : IsFinding(g)
  BY FS_Subset
<1>2. IsFiniteSet(Units(F)) /\ Penalty(fs) = Cardinality(Units(F))
  BY PenaltyIs
<1>3. IsFiniteSet(Units(G)) /\ Penalty(gs) = Cardinality(Units(G))
  BY <1>1, PenaltyIs
<1>4. Cardinality(Units(G)) <= Cardinality(Units(F))
  BY <1>2, UnitsGrow, FS_Subset
<1>5. \A hs : IsOrderOf(hs, F) => Penalty(hs) = Cardinality(Units(F))
  BY PenaltyIs
<1> QED BY <1>2, <1>3, <1>4, <1>5

\* Without one finding that costs something the penalty is lower: nobody else takes
\* the last place of its rule, which costs a unit at least however many come before
\* (Weighted.Penalty).
THEOREM FixingLowersPenalty ==
  ASSUME NEW F, IsFiniteSet(F), \A f \in F : IsFinding(f), NEW f \in F, Weight(f) > 0,
         Cardinality({g \in F : g.rule = f.rule}) <= PenaltyUnit,
         NEW fs, IsOrderOf(fs, F), NEW gs, IsOrderOf(gs, F \ {f})
  PROVE  Penalty(gs) < Penalty(fs)
<1> DEFINE G == F \ {f}
           r == f.rule
           W == {g \in F : g.rule = r /\ Weight(g) > 0}
           m == Cardinality(W)
           u == <<<<r, m>>, 1>>
<1>1. IsFiniteSet(G) /\ \A g \in G : IsFinding(g)
  BY FS_Subset
<1>3. IsFiniteSet(W) /\ m \in Nat /\ m <= PenaltyUnit
  <2> DEFINE R == {g \in F : g.rule = r}
  <2>1. W \subseteq R /\ R \subseteq F /\ Cardinality(R) <= PenaltyUnit
    OBVIOUS
  <2> HIDE DEF R, W
  <2>2. IsFiniteSet(R)
    BY <2>1, FS_Subset
  <2>3. IsFiniteSet(W) /\ Cardinality(W) <= Cardinality(R)
    BY <2>1, <2>2, FS_Subset
  <2>4. Cardinality(W) \in Nat /\ Cardinality(R) \in Nat
    BY <2>2, <2>3, FS_CardinalityType
  <2> QED BY <2>1, <2>3, <2>4, PenaltyUnitAssumption
<1>4. f \in W
  OBVIOUS
<1>5. m \in Nat \ {0}
  <2> HIDE DEF W
  <2> QED BY <1>3, <1>4, FS_EmptySet
<1>6. Dear(F, r, m, 1) = W
  <2>1. \A g \in W : Cost(g, m) >= 1
    <3> TAKE g \in W
    <3>1. IsFinding(g) /\ Weight(g) > 0
      OBVIOUS
    <3> HIDE DEF W, m
    <3> QED BY <1>3, <1>5, <3>1, CostIs
  <2> HIDE DEF m
  <2> QED BY <2>1 DEF Dear
<1>7. Dear(G, r, m, 1) = W \ {f}
  <2>1. Dear(G, r, m, 1) = Dear(F, r, m, 1) \ {f}
    BY DEF Dear
  <2> QED BY <1>6, <2>1
<1>8. Cardinality(W \ {f}) < m
  <2> HIDE DEF W
  <2>1. IsFiniteSet(W \ {f}) /\ Cardinality(W \ {f}) <= m /\ Cardinality(W \ {f}) # m
    BY <1>3, <1>4, FS_Subset
  <2>2. Cardinality(W \ {f}) \in Nat
    BY <2>1, FS_CardinalityType
  <2> QED BY <1>3, <2>1, <2>2
<1>9. Units(G) \subseteq Units(F)
  BY UnitsGrow
<1>10. u \in Units(F)
  <2>1. Reached(F, r, m, 1)
    <3> HIDE DEF W
    <3> QED BY <1>3, <1>6 DEF Reached
  <2>2. r \in AllRules
    BY DEF IsFinding
  <2> HIDE DEF m, r
  <2>3. u[1][1] = r /\ u[1][2] = m /\ u[2] = 1
    OBVIOUS
  <2> QED BY <1>5, <2>1, <2>2, <2>3 DEF Units
<1>11. u \notin Units(G)
  <2>1. ~Reached(G, r, m, 1)
    <3> HIDE DEF W
    <3>1. IsFiniteSet(W \ {f})
      BY <1>3, FS_Subset
    <3>2. Cardinality(W \ {f}) \in Nat
      BY <3>1, FS_CardinalityType
    <3> HIDE DEF G
    <3> QED BY <1>3, <1>7, <1>8, <3>2 DEF Reached
  <2> HIDE DEF m, r, G
  <2>2. u[1][1] = r /\ u[1][2] = m /\ u[2] = 1
    OBVIOUS
  <2> QED BY <2>1, <2>2 DEF Units
<1>12. IsFiniteSet(Units(F)) /\ Penalty(fs) = Cardinality(Units(F))
  BY PenaltyIs
<1>13. Penalty(gs) = Cardinality(Units(G))
  <2> HIDE DEF G
  <2>1. IsOrderOf(gs, G)
    BY DEF G
  <2> QED BY <1>1, <2>1, PenaltyIs
<1>14. /\ Cardinality(Units(G)) <= Cardinality(Units(F))
       /\ Cardinality(Units(G)) # Cardinality(Units(F))
       /\ IsFiniteSet(Units(G))
  <2> HIDE DEF G, u
  <2> QED BY <1>9, <1>10, <1>11, <1>12, FS_Subset
<1>15. Cardinality(Units(G)) \in Nat /\ Cardinality(Units(F)) \in Nat
  BY <1>12, <1>14, FS_CardinalityType
<1> QED BY <1>12, <1>13, <1>14, <1>15

LEMMA MachineIsSmall ==
  ASSUME NEW S \in {Ids, AllMounts, AllPorts}
  PROVE  IsFiniteSet(S) /\ Cardinality(S) <= PenaltyUnit
<1>1. ASSUME NEW T, DOMAIN T = Containers, \A c \in Containers : IsFiniteSet(T[c])
      PROVE  IsFiniteSet(UNION {{c} \X T[c] : c \in Containers})
  <2> DEFINE h == [c \in Containers |-> {c} \X T[c]]
  <2>1. IsFiniteSet(Containers)
    <3>1. Containers \in SUBSET Ids
      BY DEF Ids
    <3> QED BY <3>1, RulesAssumption, FS_Subset
  <2>2. \A c \in Containers : IsFiniteSet(h[c])
    BY <1>1, FS_Singleton, FS_Product
  <2>3. {{c} \X T[c] : c \in Containers} = {h[c] : c \in Containers} /\ DOMAIN h = Containers
    OBVIOUS
  <2> HIDE DEF h
  <2>4. IsFiniteSet({h[c] : c \in Containers})
    BY <2>1, <2>3, ImageIsFinite
  <2> QED BY <2>2, <2>3, <2>4, FS_UNION
<1>2. IsFiniteSet(AllMounts)
  <2> DEFINE T == [c \in Containers |-> Config[c].mounts]
  <2>1. DOMAIN T = Containers /\ \A c \in Containers : IsFiniteSet(T[c])
    BY RulesAssumption
  <2>2. AllMounts = UNION {{c} \X T[c] : c \in Containers}
    BY DEF AllMounts
  <2> HIDE DEF T
  <2> QED BY <1>1, <2>1, <2>2
<1>3. IsFiniteSet(AllPorts)
  <2> DEFINE T == [c \in Containers |-> Config[c].published]
  <2>1. DOMAIN T = Containers /\ \A c \in Containers : IsFiniteSet(T[c])
    BY RulesAssumption
  <2>2. AllPorts = UNION {{c} \X T[c] : c \in Containers}
    BY DEF AllPorts
  <2> HIDE DEF T
  <2> QED BY <1>1, <2>1, <2>2
<1>4. IsFiniteSet(S)
  BY <1>2, <1>3, RulesAssumption
<1>5. Cardinality(S) \in Nat
  BY <1>4, FS_CardinalityType
<1>6. \A n \in 1..Cardinality(S) : PenaltyUnit % n = 0
  BY PenaltyUnitAssumption
<1>7. CASE Cardinality(S) = 0
  BY <1>4, <1>7, PenaltyUnitAssumption
<1>8. CASE Cardinality(S) # 0
  <2> DEFINE c == Cardinality(S)
  <2>1. c \in Nat \ {0} /\ PenaltyUnit % c = 0
    BY <1>5, <1>6, <1>8
  <2> HIDE DEF c
  <2>2. CASE PenaltyUnit < c
    <3>1. PenaltyUnit % c = PenaltyUnit
      BY <2>1, <2>2, PenaltyUnitAssumption
    <3> QED BY <2>1, <3>1, PenaltyUnitAssumption
  <2> QED BY <1>4, <2>1, <2>2, PenaltyUnitAssumption DEF c
<1> QED BY <1>7, <1>8

\* Findings that are made one for each thing are no more than the things.
LEMMA NoMoreThan ==
  ASSUME NEW S \in {Ids, AllMounts, AllPorts}, NEW h, DOMAIN h = S,
         NEW F, \A f \in F : \E x \in S : f = h[x]
  PROVE  Cardinality(F) <= PenaltyUnit
<1> DEFINE T == {h[x] : x \in S}
<1>1. IsFiniteSet(S) /\ Cardinality(S) <= PenaltyUnit
  BY MachineIsSmall
<1>2. IsFiniteSet(T) /\ Cardinality(T) <= Cardinality(S)
  BY <1>1, ImageIsFinite, ImageIsSmaller
<1>3. F \subseteq T
  OBVIOUS
<1> HIDE DEF T
<1>4. IsFiniteSet(F) /\ Cardinality(F) <= Cardinality(T)
  BY <1>2, <1>3, FS_Subset
<1>5. Cardinality(F) \in Nat /\ Cardinality(T) \in Nat /\ Cardinality(S) \in Nat
  BY <1>1, <1>2, <1>4, FS_CardinalityType
<1> QED BY <1>1, <1>2, <1>4, <1>5, PenaltyUnitAssumption

LEMMA FewOnContainers ==
  ASSUME NEW e \in ScanEnvironment, NEW r, NEW these, these \subseteq Built(e)
  PROVE  Cardinality(OnContainers(r, these)) <= PenaltyUnit
<1> DEFINE h == [c \in Ids |-> NewFinding(r, "container", c)]
<1>1. \A f \in OnContainers(r, these) : f.resource \in Ids /\ f = NewFinding(r, "container", f.resource)
  <2> TAKE f \in OnContainers(r, these)
  <2>1. PICK b \in these : f = NewFinding(r, "container", b.id)
    BY DEF OnContainers
  <2>2. f.resource = b.id
    BY <2>1 DEF NewFinding
  <2>3. f.resource \in e.containers
    BY ContainerFindings
  <2> QED BY <2>1, <2>2, <2>3 DEF ScanEnvironment, Ids
<1>2. DOMAIN h = Ids /\ \A f \in OnContainers(r, these) : \E c \in Ids : f = h[c]
  BY <1>1
<1> HIDE DEF h
<1> QED BY <1>2, NoMoreThan

LEMMA FewOnResources ==
  ASSUME NEW r, NEW kind, NEW S, S \subseteq Ids
  PROVE  Cardinality({NewFinding(r, kind, id) : id \in S}) <= PenaltyUnit
<1> DEFINE h == [id \in Ids |-> NewFinding(r, kind, id)]
           F == {NewFinding(r, kind, id) : id \in S}
<1>1. DOMAIN h = Ids /\ \A f \in F : \E id \in Ids : f = h[id]
  OBVIOUS
<1> HIDE DEF h, F
<1>2. Cardinality(F) <= PenaltyUnit
  BY <1>1, NoMoreThan
<1> QED BY <1>2 DEF F

LEMMA FewOnMounts ==
  ASSUME NEW e \in ScanEnvironment
  PROVE  /\ Cardinality(SensitiveHostMount(e)) <= PenaltyUnit
         /\ Cardinality(DockerSocketMount(e)) <= PenaltyUnit
<1>0. \A c \in e.containers : \A m \in BuildContainer(e, c).mounts :
        <<c, m>> \in AllMounts
  <2> TAKE c \in e.containers
  <2> TAKE m \in BuildContainer(e, c).mounts
  <2>1. m \in Config[c].mounts
    BY RecordIs
  <2>2. c \in Containers
    BY DEF ScanEnvironment
  <2> QED BY <2>1, <2>2 DEF AllMounts
<1>1. Cardinality(SensitiveHostMount(e)) <= PenaltyUnit
  <2> DEFINE F(c, m) == [NewFinding(4, "container", c) EXCEPT
                           !.dest = m.dest,
                           !.severity = IF NormalizeHostPath(m.source) = <<>> /\ ~m.readOnly
                                        THEN "CRITICAL" ELSE @]
             M(c) == {n \in BuildContainer(e, c).mounts : SensitiveMount(n)}
             h == [x \in AllMounts |-> F(x[1], x[2])]
  <2>1. SensitiveHostMount(e) = UNION {{F(c, m) : m \in M(c)} : c \in e.containers}
    BY Zenon DEF SensitiveHostMount
  <2> HIDE DEF F
  <2>2. ASSUME NEW f \in SensitiveHostMount(e) PROVE \E x \in AllMounts : f = h[x]
    <3>1. PICK c \in e.containers : \E m \in M(c) : f = F(c, m)
      <4> HIDE DEF M
      <4> QED BY <2>1
    <3>2. PICK m \in BuildContainer(e, c).mounts : f = F(c, m)
      BY <3>1
    <3>3. <<c, m>> \in AllMounts
      BY <1>0
    <3> QED BY <3>2, <3>3
  <2>3. DOMAIN h = AllMounts
    OBVIOUS
  <2> HIDE DEF h
  <2> QED BY <2>2, <2>3, NoMoreThan
<1>2. Cardinality(DockerSocketMount(e)) <= PenaltyUnit
  <2> DEFINE F(c, m) == [NewFinding(5, "container", c) EXCEPT !.dest = m.dest]
             M(c) == {n \in BuildContainer(e, c).mounts : IsDockerSocket(n)}
             h == [x \in AllMounts |-> F(x[1], x[2])]
  <2>1. DockerSocketMount(e) = UNION {{F(c, m) : m \in M(c)} : c \in e.containers}
    BY Zenon DEF DockerSocketMount
  <2> HIDE DEF F
  <2>2. ASSUME NEW f \in DockerSocketMount(e) PROVE \E x \in AllMounts : f = h[x]
    <3>1. PICK c \in e.containers : \E m \in M(c) : f = F(c, m)
      <4> HIDE DEF M
      <4> QED BY <2>1
    <3>2. PICK m \in BuildContainer(e, c).mounts : f = F(c, m)
      BY <3>1
    <3>3. <<c, m>> \in AllMounts
      BY <1>0
    <3> QED BY <3>2, <3>3
  <2>3. DOMAIN h = AllMounts
    OBVIOUS
  <2> HIDE DEF h
  <2> QED BY <2>2, <2>3, NoMoreThan
<1> QED BY <1>1, <1>2

LEMMA FewOnPorts ==
  ASSUME NEW e \in ScanEnvironment
  PROVE  Cardinality(ExposedSensitivePort(e)) <= PenaltyUnit
<1> DEFINE h == [x \in AllPorts |-> PortFinding(x[1], x[2])]
<1>1. ASSUME NEW f \in ExposedSensitivePort(e) PROVE \E x \in AllPorts : f = h[x]
  <2>1. PICK p \in ConvertPorts(Config[f.resource].published) : f = PortFinding(f.resource, p)
    BY PortFindings
  <2>2. f.resource \in Containers /\ p \in Config[f.resource].published
    BY PortFindings, PortsAre DEF ScanEnvironment
  <2>3. <<f.resource, p>> \in AllPorts
    BY <2>2 DEF AllPorts
  <2> QED BY <2>1, <2>3
<1>2. DOMAIN h = AllPorts
  OBVIOUS
<1> HIDE DEF h
<1> QED BY <1>1, <1>2, NoMoreThan

\* No rule has more findings than the penalty's unit has room for.
LEMMA RulesSayLittle ==
  ASSUME NEW e \in ScanEnvironment, NEW o, NEW r \in AllRules
  PROVE  Cardinality(Check(e, o, r)) <= PenaltyUnit
<1> DEFINE Few(F) == Cardinality(F) <= PenaltyUnit
<1>1. ASSUME NEW n, NEW these, these \subseteq Built(e)
      PROVE  Few(OnContainers(n, these))
  BY <1>1, FewOnContainers
<1>2. /\ Few(RootUser(e)) /\ Few(PrivilegedContainer(e)) /\ Few(HostNetwork(e))
      /\ Few(MissingHealthcheck(e)) /\ Few(MissingRestartPolicy(e))
      /\ Few(NoMemoryLimit(e)) /\ Few(MutableImageTag(e))
      /\ Few(UnhealthyContainer(e)) /\ Few(RestartLoop(e, o))
  <2> HIDE DEF Few
  <2>1. Few(RootUser(e)) /\ Few(PrivilegedContainer(e)) /\ Few(HostNetwork(e))
    BY <1>1 DEF RootUser, PrivilegedContainer, HostNetwork
  <2>2. Few(MissingHealthcheck(e))
    BY <1>1 DEF MissingHealthcheck
  <2>3. Few(MissingRestartPolicy(e))
    <3> DEFINE T == {b \in Built(e) : b.restartPolicy \in {"", "no"}}
    <3>1. T \subseteq Built(e) /\ MissingRestartPolicy(e) = OnContainers(8, T)
      BY DEF MissingRestartPolicy
    <3> HIDE DEF T
    <3> QED BY <1>1, <3>1
  <2>4. Few(NoMemoryLimit(e)) /\ Few(MutableImageTag(e))
    BY <1>1 DEF NoMemoryLimit, MutableImageTag
  <2>5. Few(UnhealthyContainer(e)) /\ Few(RestartLoop(e, o))
    BY <1>1 DEF UnhealthyContainer, RestartLoop
  <2> QED BY <2>1, <2>2, <2>3, <2>4, <2>5
<1>3. Few(DangerousCapabilities(e))
  <2> DEFINE S == OnContainers(9, {b \in Built(e) : ~b.privileged /\ b.caps \cap DangerousCaps # {}})
             g == [f \in S |->
                     [f EXCEPT !.severity =
                        IF BuildContainer(e, f.resource).caps \cap CriticalCapabilities # {}
                        THEN "CRITICAL" ELSE @]]
             T == {g[f] : f \in S}
  <2>1. IsFiniteSet(S) /\ Few(S)
    BY <1>1, OnContainersSays, RulesAre
  <2>2. DangerousCapabilities(e) = T /\ DOMAIN g = S
    BY DEF DangerousCapabilities
  <2> HIDE DEF g, S
  <2>3. IsFiniteSet(T) /\ Cardinality(T) <= Cardinality(S)
    BY <2>1, <2>2, ImageIsFinite, ImageIsSmaller
  <2>4. Cardinality(T) \in Nat /\ Cardinality(S) \in Nat
    BY <2>1, <2>3, FS_CardinalityType
  <2> HIDE DEF T
  <2> QED BY <2>1, <2>2, <2>3, <2>4, PenaltyUnitAssumption
<1>4. /\ Few(DanglingImage(e)) /\ Few(UnusedImage(e)) /\ Few(OversizedImage(e, o))
      /\ Few(UnusedVolume(e)) /\ Few(UnusedNetwork(e))
  <2>1. e.images \subseteq Ids /\ e.volumes \subseteq Ids /\ e.networks \subseteq Ids
    BY DEF ScanEnvironment, Ids
  <2>2. Few(DanglingImage(e)) /\ Few(UnusedImage(e))
    BY <2>1, FewOnResources DEF DanglingImage, UnusedImage
  <2>3. Few(OversizedImage(e, o)) /\ Few(UnusedVolume(e))
    BY <2>1, FewOnResources DEF OversizedImage, UnusedVolume
  <2>4. Few(UnusedNetwork(e))
    <3> DEFINE S == {m \in e.networks \ Builtin : NetworkUsers(e, m) = {}}
    <3>1. S \subseteq Ids /\ UnusedNetwork(e) = {NewFinding(18, "network", n) : n \in S}
      BY <2>1 DEF UnusedNetwork
    <3> HIDE DEF S
    <3> QED BY <3>1, FewOnResources
  <2> QED BY <2>2, <2>3, <2>4
<1>5. Few(SensitiveHostMount(e)) /\ Few(DockerSocketMount(e)) /\ Few(ExposedSensitivePort(e))
  BY FewOnMounts, FewOnPorts
<1> HIDE DEF Few
<1>6. Few(Check(e, o, r))
  BY <1>2, <1>3, <1>4, <1>5, CheckIs, RulesAre
<1> QED BY <1>6 DEF Few
============================================================================
