------------------------------- MODULE Sums -------------------------------
(***************************************************************************)
(* Sums of a function over a finite set, and what an update of the         *)
(* function or of the set does to them.  The accounting of every component *)
(* rests on these lemmas.  SumFunctionOnSet is a fold that takes one       *)
(* element after the other; the first lemmas show that it is well defined  *)
(* and does not depend on which one it takes.                              *)
(***************************************************************************)
EXTENDS Integers, FiniteSets, Functions, TLAPS, FiniteSetTheorems, WellFoundedInduction

(* Induction *)

\* Every nonempty set of naturals has a least element.
LEMMA LeastNat ==
  ASSUME NEW T \in SUBSET Nat, T # {}
  PROVE  \E n \in T : \A m \in T : n <= m
  <1> DEFINE R == {ss \in Nat \X Nat : ss[1] < ss[2]}
  <1>1. IsWellFoundedOn(R, Nat)
    BY NatLessThanWellFounded DEF OpToRel
  <1>2. \A m, n \in Nat : <<m, n>> \in R <=> m < n
    OBVIOUS
  <1>3. PICK n \in T : \A m \in T : ~(<<m, n>> \in R)
    <2> HIDE DEF R
    <2> QED BY <1>1, WFMin
  <1> HIDE DEF R
  <1>4. ASSUME NEW m \in T
        PROVE  n <= m
    <2>1. m \in Nat /\ n \in Nat /\ ~(<<m, n>> \in R)
      BY <1>3
    <2>2. ~(m < n)
      BY <1>2, <2>1
    <2> QED BY <2>1, <2>2
  <1> QED BY <1>4

\* Of the subsets of a finite set that violate a property, when there are any, one is
\* minimal: taking an element away from it leaves a set that is none.
LEMMA MinimalSubset ==
  ASSUME NEW S, IsFiniteSet(S), NEW Bad \in SUBSET SUBSET S, Bad # {}
  PROVE  \E s \in Bad : \A x \in s : s \ {x} \notin Bad
  <1> DEFINE N == {Cardinality(s) : s \in Bad}
  <1>1. \A s \in Bad : IsFiniteSet(s) /\ Cardinality(s) \in Nat
    BY FS_Subset, FS_CardinalityType
  <1>2. N \in SUBSET Nat /\ N # {}
    BY <1>1
  <1>3. PICK n \in N : \A m \in N : n <= m
    <2> HIDE DEF N
    <2> QED BY <1>2, LeastNat
  <1>4. PICK s \in Bad : Cardinality(s) = n
    BY <1>3
  <1>5. ASSUME NEW x \in s, s \ {x} \in Bad
        PROVE  FALSE
    <2>1. Cardinality(s \ {x}) = Cardinality(s) - 1
      BY <1>1, <1>5, FS_RemoveElement
    <2>2. n <= Cardinality(s \ {x})
      BY <1>3, <1>5
    <2> QED BY <1>1, <1>4, <2>1, <2>2
  <1> QED BY <1>5

----------------------------------------------------------------------------
(* The fold is well defined *)

\* The element that the fold takes.
Pick(s) == CHOOSE x \in s : TRUE

\* One step of the fold, from a table of sums.
Term(f, table, s) == IF s = {} THEN 0 ELSE f[Pick(s)] + table[s \ {Pick(s)}]

\* A table of the sums of f over all subsets of S.
IsTable(f, table, S) == table = [s \in SUBSET S |-> Term(f, table, s)]

LEMMA PickType ==
  ASSUME NEW s, s # {}
  PROVE  Pick(s) \in s
  BY DEF Pick

LEMMA TableExists ==
  ASSUME NEW f, NEW S, IsFiniteSet(S)
  PROVE  \E table : IsTable(f, table, S)
  <1> DEFINE Upto(n) == \E table : \A s \in SUBSET S :
                          Cardinality(s) <= n => table[s] = Term(f, table, s)
             Bad == {n \in Nat : ~Upto(n)}
  <1>0. \A s \in SUBSET S : IsFiniteSet(s) /\ Cardinality(s) \in Nat
    BY FS_Subset, FS_CardinalityType
  <1>1. Upto(0)
    <2> DEFINE g == [s \in SUBSET S |-> 0]
    <2>1. \A s \in SUBSET S : Cardinality(s) <= 0 => s = {}
      BY <1>0, FS_EmptySet
    <2>2. \A s \in SUBSET S : Cardinality(s) <= 0 => g[s] = Term(f, g, s)
      BY <2>1 DEF Term
    <2> HIDE DEF g
    <2> QED BY <2>2
  <1>2. ASSUME NEW n \in Nat, Upto(n)
        PROVE  Upto(n + 1)
    <2>1. PICK g : \A s \in SUBSET S : Cardinality(s) <= n => g[s] = Term(f, g, s)
      BY <1>2
    <2> DEFINE h == [s \in SUBSET S |-> IF Cardinality(s) <= n THEN g[s] ELSE Term(f, g, s)]
    <2>2. ASSUME NEW s \in SUBSET S, Cardinality(s) <= n + 1
          PROVE  Term(f, h, s) = Term(f, g, s)
      <3>1. CASE s = {}
        BY <3>1 DEF Term
      <3>2. CASE s # {}
        <4>1. Pick(s) \in s
          BY <3>2, PickType
        <4>2. Cardinality(s \ {Pick(s)}) = Cardinality(s) - 1
          BY <1>0, <4>1, FS_RemoveElement
        <4>3. Cardinality(s \ {Pick(s)}) <= n
          BY <1>0, <2>2, <4>2
        <4>4. h[s \ {Pick(s)}] = g[s \ {Pick(s)}]
          BY <4>3
        <4> QED BY <3>2, <4>4 DEF Term
      <3> QED BY <3>1, <3>2
    <2>3. ASSUME NEW s \in SUBSET S, Cardinality(s) <= n + 1
          PROVE  h[s] = Term(f, h, s)
      <3>1. h[s] = Term(f, g, s)
        BY <2>1
      <3> QED BY <2>2, <2>3, <3>1
    <2> HIDE DEF h
    <2> QED BY <2>3
  <1>3. Bad = {}
    <2> SUFFICES ASSUME Bad # {} PROVE FALSE
      OBVIOUS
    <2>1. Bad \in SUBSET Nat
      OBVIOUS
    <2>2. PICK n \in Bad : \A m \in Bad : n <= m
      <3> HIDE DEF Bad
      <3> QED BY <2>1, LeastNat
    <2>3. n \in Nat /\ n # 0 /\ ~Upto(n)
      BY <1>1
    <2>4. n - 1 \in Nat /\ (n - 1) + 1 = n /\ ~(n <= n - 1)
      BY <2>3
    <2>5. Upto(n - 1)
      BY <2>2, <2>4
    <2> HIDE DEF Upto
    <2>6. Upto((n - 1) + 1)
      BY <1>2, <2>4, <2>5
    <2> QED BY <2>3, <2>4, <2>6
  <1>4. Cardinality(S) \in Nat /\ \A s \in SUBSET S : Cardinality(s) <= Cardinality(S)
    BY <1>0, FS_Subset
  <1>5. PICK g : \A s \in SUBSET S : g[s] = Term(f, g, s)
    <2>1. Upto(Cardinality(S))
      BY <1>3, <1>4
    <2> QED BY <1>4, <2>1
  <1> DEFINE h == [s \in SUBSET S |-> g[s]]
  <1>6. \A s \in SUBSET S : Term(f, h, s) = Term(f, g, s)
    BY DEF Term
  <1>7. h = [s \in SUBSET S |-> Term(f, h, s)]
    BY <1>5, <1>6
  <1> HIDE DEF h
  <1> QED BY <1>7 DEF IsTable

\* Two tables agree on the subsets that they share, when their functions do there.
LEMMA TablesAgree ==
  ASSUME NEW f, NEW g, NEW S, NEW T, NEW F, NEW G, IsTable(f, F, S), IsTable(g, G, T),
         IsFiniteSet(S), S \subseteq T, \A x \in S : f[x] = g[x]
  PROVE  F[S] = G[S]
  <1> DEFINE Bad == {s \in SUBSET S : F[s] # G[s]}
  <1>1. /\ \A s \in SUBSET S : F[s] = Term(f, F, s)
        /\ \A s \in SUBSET S : G[s] = Term(g, G, s)
    <2>1. \A s \in SUBSET T : G[s] = Term(g, G, s)
      BY DEF IsTable
    <2> QED BY <2>1 DEF IsTable
  <1>2. ASSUME Bad # {}
        PROVE  FALSE
    <2>0. Bad \in SUBSET SUBSET S
      OBVIOUS
    <2>1. PICK s \in Bad : \A x \in s : s \ {x} \notin Bad
      <3> HIDE DEF Bad
      <3> QED BY <1>2, <2>0, MinimalSubset
    <2>2. s \in SUBSET S /\ F[s] # G[s]
      OBVIOUS
    <2>3. s # {}
      BY <1>1, <2>2 DEF Term
    <2>4. Pick(s) \in s
      BY <2>3, PickType
    <2>5. F[s \ {Pick(s)}] = G[s \ {Pick(s)}] /\ f[Pick(s)] = g[Pick(s)]
      BY <2>1, <2>2, <2>4
    <2> QED BY <1>1, <2>2, <2>3, <2>5 DEF Term
  <1> QED BY <1>2

LEMMA SumIsInTable ==
  ASSUME NEW f, NEW S, IsFiniteSet(S)
  PROVE  \E table : IsTable(f, table, S) /\ SumFunctionOnSet(f, S) = table[S]
  <1> DEFINE table == CHOOSE g : IsTable(f, g, S)
  <1>1. IsTable(f, table, S)
    BY TableExists
  <1>2. SumFunctionOnSet(f, S) = table[S]
    BY DEF SumFunctionOnSet, FoldFunctionOnSet, MapThenFoldSet, IsTable, Term, Pick
  <1> QED BY <1>1, <1>2

----------------------------------------------------------------------------
(* Sums over a set *)

LEMMA SumOnEmpty ==
  ASSUME NEW f
  PROVE  SumFunctionOnSet(f, {}) = 0
  <1>1. IsFiniteSet({})
    BY FS_EmptySet
  <1>2. PICK F : IsTable(f, F, {}) /\ SumFunctionOnSet(f, {}) = F[{}]
    BY <1>1, SumIsInTable
  <1> QED BY <1>2 DEF IsTable, Term

\* The sum depends on the values in the set only.
LEMMA SumOnAgree ==
  ASSUME NEW f, NEW g, NEW S, IsFiniteSet(S), \A x \in S : f[x] = g[x]
  PROVE  SumFunctionOnSet(f, S) = SumFunctionOnSet(g, S)
  <1>1. PICK F : IsTable(f, F, S) /\ SumFunctionOnSet(f, S) = F[S]
    BY SumIsInTable
  <1>2. PICK G : IsTable(g, G, S) /\ SumFunctionOnSet(g, S) = G[S]
    BY SumIsInTable
  <1> QED BY <1>1, <1>2, TablesAgree

LEMMA SumTakesPick ==
  ASSUME NEW f, NEW S, IsFiniteSet(S), S # {}
  PROVE  SumFunctionOnSet(f, S) = f[Pick(S)] + SumFunctionOnSet(f, S \ {Pick(S)})
  <1> DEFINE rest == S \ {Pick(S)}
  <1>1. rest \subseteq S /\ IsFiniteSet(rest)
    BY FS_RemoveElement
  <1>2. PICK F : IsTable(f, F, S) /\ SumFunctionOnSet(f, S) = F[S]
    BY SumIsInTable
  <1>3. PICK G : IsTable(f, G, rest) /\ SumFunctionOnSet(f, rest) = G[rest]
    BY <1>1, SumIsInTable
  <1>4. G[rest] = F[rest]
    <2> HIDE DEF rest
    <2> QED BY <1>1, <1>2, <1>3, TablesAgree
  <1>5. F[S] = f[Pick(S)] + F[rest]
    BY <1>2 DEF IsTable, Term
  <1> QED BY <1>2, <1>3, <1>4, <1>5

LEMMA SumOnInt ==
  ASSUME NEW f, NEW S, IsFiniteSet(S), \A y \in S : f[y] \in Int
  PROVE  SumFunctionOnSet(f, S) \in Int
  <1> DEFINE Bad == {s \in SUBSET S : SumFunctionOnSet(f, s) \notin Int}
  <1>1. \A s \in SUBSET S : IsFiniteSet(s)
    BY FS_Subset
  <1>2. ASSUME Bad # {}
        PROVE  FALSE
    <2>0. Bad \in SUBSET SUBSET S
      OBVIOUS
    <2>1. PICK s \in Bad : \A x \in s : s \ {x} \notin Bad
      <3> HIDE DEF Bad
      <3> QED BY <1>2, <2>0, MinimalSubset
    <2>2. s \in SUBSET S /\ SumFunctionOnSet(f, s) \notin Int
      OBVIOUS
    <2>3. s # {}
      BY <2>2, SumOnEmpty
    <2>4. Pick(s) \in s
      BY <2>3, PickType
    <2>5. SumFunctionOnSet(f, s \ {Pick(s)}) \in Int
      BY <2>1, <2>2, <2>4
    <2>6. SumFunctionOnSet(f, s) = f[Pick(s)] + SumFunctionOnSet(f, s \ {Pick(s)})
      BY <1>1, <2>2, <2>3, SumTakesPick
    <2> QED BY <2>2, <2>4, <2>5, <2>6
  <1> QED BY <1>2

\* Any element may be taken out first.
LEMMA SumOnTakeOut ==
  ASSUME NEW f, NEW S, IsFiniteSet(S), \A y \in S : f[y] \in Int, NEW x \in S
  PROVE  SumFunctionOnSet(f, S) = f[x] + SumFunctionOnSet(f, S \ {x})
  <1> DEFINE Sum(s) == SumFunctionOnSet(f, s)
             Good(s) == \A y \in s : Sum(s) = f[y] + Sum(s \ {y})
             Bad == {s \in SUBSET S : ~Good(s)}
  <1>1. \A s \in SUBSET S : IsFiniteSet(s) /\ Sum(s) \in Int
    BY FS_Subset, SumOnInt
  <1>2. ASSUME Bad # {}
        PROVE  FALSE
    <2>0. Bad \in SUBSET SUBSET S
      OBVIOUS
    <2>1. PICK s \in Bad : \A y \in s : s \ {y} \notin Bad
      <3> HIDE DEF Bad
      <3> QED BY <1>2, <2>0, MinimalSubset
    <2>2. s \in SUBSET S /\ ~Good(s)
      OBVIOUS
    <2>3. \A y \in s : Good(s \ {y})
      BY <2>1, <2>2
    <2>4. s # {}
      BY <2>2
    <2> DEFINE p == Pick(s)
    <2>5. p \in s
      BY <2>4, PickType
    <2>6. Sum(s) = f[p] + Sum(s \ {p})
      BY <1>1, <2>2, <2>4, SumTakesPick
    <2> HIDE DEF p, Sum
    <2>7. ASSUME NEW y \in s
          PROVE  Sum(s) = f[y] + Sum(s \ {y})
      <3>1. CASE y = p
        BY <2>6, <3>1
      <3>2. CASE y # p
        <4>1. Sum(s \ {p}) = f[y] + Sum((s \ {p}) \ {y})
          BY <2>3, <2>5, <3>2
        <4>2. Sum(s \ {y}) = f[p] + Sum((s \ {y}) \ {p})
          BY <2>3, <2>5, <3>2
        <4>3. (s \ {y}) \ {p} = (s \ {p}) \ {y}
          OBVIOUS
        <4>4. f[y] \in Int /\ f[p] \in Int /\ Sum((s \ {p}) \ {y}) \in Int
          BY <1>1, <2>2, <2>5
        <4>5. Sum(s \ {y}) = f[p] + Sum((s \ {p}) \ {y})
          BY <4>2, <4>3
        <4> DEFINE rest == Sum((s \ {p}) \ {y})
        <4>6. Sum(s) = f[p] + (f[y] + rest) /\ Sum(s \ {y}) = f[p] + rest /\ rest \in Int
          BY <2>6, <4>1, <4>4, <4>5
        <4> HIDE DEF rest
        <4> QED BY <4>4, <4>6
      <3> QED BY <3>1, <3>2
    <2> QED BY <2>2, <2>7
  <1>3. Good(S)
    BY <1>2
  <1> QED BY <1>3

\* Amounts add up to an amount, and each is part of the sum.
LEMMA SumOnNat ==
  ASSUME NEW f, NEW S, IsFiniteSet(S), \A y \in S : f[y] \in Nat
  PROVE  SumFunctionOnSet(f, S) \in Nat
  <1> DEFINE Bad == {s \in SUBSET S : SumFunctionOnSet(f, s) \notin Nat}
  <1>1. \A s \in SUBSET S : IsFiniteSet(s)
    BY FS_Subset
  <1>2. ASSUME Bad # {}
        PROVE  FALSE
    <2>0. Bad \in SUBSET SUBSET S
      OBVIOUS
    <2>1. PICK s \in Bad : \A x \in s : s \ {x} \notin Bad
      <3> HIDE DEF Bad
      <3> QED BY <1>2, <2>0, MinimalSubset
    <2>2. s \in SUBSET S /\ SumFunctionOnSet(f, s) \notin Nat
      OBVIOUS
    <2>3. s # {}
      BY <2>2, SumOnEmpty
    <2>4. Pick(s) \in s
      BY <2>3, PickType
    <2>5. SumFunctionOnSet(f, s \ {Pick(s)}) \in Nat
      BY <2>1, <2>2, <2>4
    <2>6. SumFunctionOnSet(f, s) = f[Pick(s)] + SumFunctionOnSet(f, s \ {Pick(s)})
      BY <1>1, <2>2, <2>3, SumTakesPick
    <2> QED BY <2>2, <2>4, <2>5, <2>6
  <1> QED BY <1>2

\* The sum of sums.
LEMMA SumOnPlus ==
  ASSUME NEW f, NEW g, NEW h, NEW S, IsFiniteSet(S),
         \A y \in S : f[y] \in Int /\ g[y] \in Int /\ h[y] = f[y] + g[y]
  PROVE  SumFunctionOnSet(h, S) = SumFunctionOnSet(f, S) + SumFunctionOnSet(g, S)
  <1> DEFINE F(s) == SumFunctionOnSet(f, s)
             G(s) == SumFunctionOnSet(g, s)
             H(s) == SumFunctionOnSet(h, s)
             Bad == {s \in SUBSET S : H(s) # F(s) + G(s)}
  <1>1. \A s \in SUBSET S : IsFiniteSet(s) /\ F(s) \in Int /\ G(s) \in Int
    BY FS_Subset, SumOnInt
  <1>2. ASSUME Bad # {}
        PROVE  FALSE
    <2>0. Bad \in SUBSET SUBSET S
      OBVIOUS
    <2>1. PICK s \in Bad : \A x \in s : s \ {x} \notin Bad
      <3> HIDE DEF Bad
      <3> QED BY <1>2, <2>0, MinimalSubset
    <2>2. s \in SUBSET S /\ H(s) # F(s) + G(s)
      OBVIOUS
    <2>3. s # {}
      <3>1. F({}) = 0 /\ G({}) = 0 /\ H({}) = 0
        BY SumOnEmpty
      <3> HIDE DEF F, G, H
      <3> QED BY <2>2, <3>1
    <2> DEFINE p == Pick(s)
    <2>4. p \in s
      BY <2>3, PickType
    <2>5. H(s \ {p}) = F(s \ {p}) + G(s \ {p})
      <3> HIDE DEF p, H, F, G
      <3> QED BY <2>1, <2>2, <2>4
    <2>6. /\ H(s) = h[p] + H(s \ {p}) /\ F(s) = f[p] + F(s \ {p})
          /\ G(s) = g[p] + G(s \ {p})
      BY <1>1, <2>2, <2>3, SumTakesPick
    <2>7. h[p] = f[p] + g[p] /\ f[p] \in Int /\ g[p] \in Int
      BY <2>2, <2>4
    <2>8. F(s \ {p}) \in Int /\ G(s \ {p}) \in Int
      BY <1>1, <2>2
    <2> HIDE DEF p, H, F, G
    <2> QED BY <2>2, <2>5, <2>6, <2>7, <2>8
  <1> QED BY <1>2

\* Sets that share nothing add up.
LEMMA SumOnDisjoint ==
  ASSUME NEW f, NEW S, NEW T, IsFiniteSet(S), IsFiniteSet(T), S \cap T = {},
         \A y \in S \cup T : f[y] \in Int
  PROVE  SumFunctionOnSet(f, S \cup T) = SumFunctionOnSet(f, S) + SumFunctionOnSet(f, T)
  <1> DEFINE Sum(s) == SumFunctionOnSet(f, s)
             Bad == {s \in SUBSET T : Sum(S \cup s) # Sum(S) + Sum(s)}
  <1>1. \A s \in SUBSET T : IsFiniteSet(s) /\ IsFiniteSet(S \cup s)
    BY FS_Subset, FS_Union
  <1>2. Sum(S) \in Int /\ \A s \in SUBSET T : Sum(s) \in Int
    BY <1>1, SumOnInt
  <1>3. ASSUME Bad # {}
        PROVE  FALSE
    <2>0. Bad \in SUBSET SUBSET T
      OBVIOUS
    <2>1. PICK s \in Bad : \A x \in s : s \ {x} \notin Bad
      <3> HIDE DEF Bad
      <3> QED BY <1>3, <2>0, MinimalSubset
    <2>2. s \in SUBSET T /\ Sum(S \cup s) # Sum(S) + Sum(s)
      OBVIOUS
    <2>3. s # {}
      <3>1. S \cup {} = S /\ Sum({}) = 0
        BY SumOnEmpty
      <3>2. Sum(S) + 0 = Sum(S)
        <4> DEFINE total == Sum(S)
        <4>1. total \in Int
          BY <1>2
        <4> HIDE DEF total
        <4>2. total + 0 = total
          BY <4>1
        <4> QED BY <4>2 DEF total
      <3>3. ASSUME s = {} PROVE FALSE
        BY <2>2, <3>1, <3>2, <3>3
      <3> QED BY <3>3
    <2>4. PICK x : x \in s
      BY <2>3
    <2>5. Sum(s) = f[x] + Sum(s \ {x})
      BY <1>1, <2>2, <2>4, SumOnTakeOut
    <2>6. Sum(S \cup s) = f[x] + Sum(S \cup (s \ {x}))
      <3>1. (S \cup s) \ {x} = S \cup (s \ {x}) /\ x \in S \cup s
        BY <2>2, <2>4
      <3>2. Sum(S \cup s) = f[x] + Sum((S \cup s) \ {x})
        BY <1>1, <2>2, <3>1, SumOnTakeOut
      <3> QED BY <3>1, <3>2
    <2>7. Sum(S \cup (s \ {x})) = Sum(S) + Sum(s \ {x}) /\ s \ {x} \in SUBSET T
      BY <2>1, <2>2, <2>4
    <2>8. f[x] \in Int /\ Sum(s \ {x}) \in Int
      BY <1>2, <2>2, <2>4, <2>7
    <2> HIDE DEF Sum
    <2> QED BY <1>2, <2>2, <2>5, <2>6, <2>7, <2>8
  <1>4. T \notin Bad
    BY <1>3
  <1> QED BY <1>4

\* What two sets share counts once.
LEMMA SumOnUnion ==
  ASSUME NEW f, NEW S, NEW T, IsFiniteSet(S), IsFiniteSet(T),
         \A y \in S \cup T : f[y] \in Int
  PROVE  SumFunctionOnSet(f, S \cup T)
           = SumFunctionOnSet(f, S) + SumFunctionOnSet(f, T) - SumFunctionOnSet(f, S \cap T)
  <1> DEFINE Sum(s) == SumFunctionOnSet(f, s)
             more == T \ S
             shared == S \cap T
  <1>1. IsFiniteSet(more) /\ IsFiniteSet(shared) /\ more \subseteq T /\ shared \subseteq T
    BY FS_Subset
  <1>2. S \cup more = S \cup T /\ S \cap more = {} /\ shared \cup more = T /\ shared \cap more = {}
    OBVIOUS
  <1>3. Sum(S) \in Int /\ Sum(T) \in Int /\ Sum(more) \in Int /\ Sum(shared) \in Int
    BY <1>1, SumOnInt
  <1> HIDE DEF more, shared
  <1>4. Sum(S \cup more) = Sum(S) + Sum(more)
    BY <1>1, <1>2, SumOnDisjoint
  <1>5. Sum(shared \cup more) = Sum(shared) + Sum(more)
    BY <1>1, <1>2, SumOnDisjoint
  <1> DEFINE s == Sum(S)  t == Sum(T)  m == Sum(more)  c == Sum(shared)  u == Sum(S \cup T)
  <1>6. u = s + m /\ t = c + m /\ s \in Int /\ t \in Int /\ m \in Int /\ c \in Int
    BY <1>2, <1>3, <1>4, <1>5
  <1>7. u = s + t - c
    <2> HIDE DEF s, t, m, c, u
    <2> QED BY <1>6
  <1> QED BY <1>7 DEF shared

----------------------------------------------------------------------------
(* Sums over the domain of a function *)

\* All of its values are 0: so is the sum.
LEMMA SumZero ==
  ASSUME NEW S, IsFiniteSet(S), NEW f, DOMAIN f = S, \A x \in S : f[x] = 0
  PROVE  SumFunction(f) = 0
  <1> DEFINE Sum(s) == SumFunctionOnSet(f, s)
  <1>1. Sum(S) + Sum(S) = Sum(S) /\ Sum(S) \in Int
    BY SumOnPlus, SumOnInt
  <1>2. Sum(S) = 0
    <2> DEFINE total == Sum(S)
    <2>1. total + total = total /\ total \in Int
      BY <1>1
    <2> HIDE DEF total
    <2>2. total = 0
      BY <2>1
    <2> QED BY <2>2 DEF total
  <1> QED BY <1>2 DEF SumFunction, Sum

LEMMA SumInt ==
  ASSUME NEW S, IsFiniteSet(S), NEW f \in [S -> Int]
  PROVE  SumFunction(f) \in Int
  BY SumOnInt DEF SumFunction

LEMMA SumNat ==
  ASSUME NEW S, IsFiniteSet(S), NEW f \in [S -> Nat]
  PROVE  SumFunction(f) \in Nat
  BY SumOnNat DEF SumFunction

\* One value changes, and the sum by as much.
LEMMA SumUpdate ==
  ASSUME NEW S, IsFiniteSet(S), NEW f \in [S -> Int], NEW g \in [S -> Int], NEW x \in S,
         \A y \in S \ {x} : g[y] = f[y]
  PROVE  SumFunction(g) = SumFunction(f) - f[x] + g[x]
  <1> DEFINE rest == SumFunctionOnSet(f, S \ {x})
  <1>1. IsFiniteSet(S \ {x})
    BY FS_RemoveElement
  <1>2. SumFunctionOnSet(g, S \ {x}) = rest
    BY <1>1, SumOnAgree
  <1>3. rest \in Int
    BY <1>1, SumOnInt
  <1>4. SumFunction(f) = f[x] + rest /\ SumFunction(g) = g[x] + rest
    BY <1>2, SumOnTakeOut DEF SumFunction
  <1>5. f[x] \in Int /\ g[x] \in Int
    OBVIOUS
  <1> HIDE DEF rest
  <1> QED BY <1>3, <1>4, <1>5

\* Each of the amounts is part of the sum.
LEMMA SumAtLeast ==
  ASSUME NEW S, IsFiniteSet(S), NEW f \in [S -> Nat], NEW x \in S
  PROVE  f[x] <= SumFunction(f)
  <1> DEFINE rest == SumFunctionOnSet(f, S \ {x})
  <1>1. IsFiniteSet(S \ {x})
    BY FS_RemoveElement
  <1>2. rest \in Nat
    BY <1>1, SumOnNat
  <1>3. SumFunction(f) = f[x] + rest
    BY SumOnTakeOut DEF SumFunction
  <1> HIDE DEF rest
  <1> QED BY <1>2, <1>3

\* A new argument adds its value.
LEMMA SumExtend ==
  ASSUME NEW S, IsFiniteSet(S), NEW f \in [S -> Int], NEW x, x \notin S,
         NEW g \in [S \cup {x} -> Int], \A y \in S : g[y] = f[y]
  PROVE  SumFunction(g) = SumFunction(f) + g[x]
  <1> DEFINE more == S \cup {x}
  <1>1. IsFiniteSet(more) /\ more \ {x} = S /\ x \in more
    BY FS_AddElement
  <1>2. SumFunctionOnSet(g, S) = SumFunctionOnSet(f, S)
    BY SumOnAgree
  <1>3. SumFunctionOnSet(g, more) = g[x] + SumFunctionOnSet(g, S)
    BY <1>1, SumOnTakeOut
  <1>4. SumFunction(g) = SumFunctionOnSet(g, more) /\ SumFunction(f) = SumFunctionOnSet(f, S)
    BY DEF SumFunction
  <1>5. SumFunctionOnSet(f, S) \in Int /\ g[x] \in Int
    BY SumOnInt
  <1> QED BY <1>2, <1>3, <1>4, <1>5

\* f is a sequence of n numbers.
Summands(f, n) == f \in [1 .. n -> Int]

\* A sequence of summands gets one more.
LEMMA SumAppend ==
  ASSUME NEW n \in Nat, NEW f, NEW g, Summands(f, n), Summands(g, n + 1),
         \A i \in 1 .. n : g[i] = f[i]
  PROVE  SumFunction(g) = SumFunction(f) + g[n + 1]
  <1>1. (1 .. n) \cup {n + 1} = 1 .. n + 1 /\ n + 1 \notin 1 .. n
    OBVIOUS
  <1>2. IsFiniteSet(1 .. n)
    BY FS_Interval
  <1>3. PICK S, x : S = 1 .. n /\ x = n + 1
    OBVIOUS
  <1>4. /\ IsFiniteSet(S) /\ f \in [S -> Int] /\ x \notin S /\ g \in [S \cup {x} -> Int]
        /\ \A y \in S : g[y] = f[y]
    BY <1>1, <1>2, <1>3 DEF Summands
  <1>5. SumFunction(g) = SumFunction(f) + g[x]
    BY <1>4, SumExtend
  <1> QED BY <1>3, <1>5

\* The values of h are those of f and g together.
LEMMA SumPlus ==
  ASSUME NEW S, IsFiniteSet(S), NEW f \in [S -> Int], NEW g \in [S -> Int],
         NEW h \in [S -> Int], \A x \in S : h[x] = f[x] + g[x]
  PROVE  SumFunction(h) = SumFunction(f) + SumFunction(g)
  BY SumOnPlus DEF SumFunction

\* What is 0 outside a part adds up to what it does there.
LEMMA SumOfPart ==
  ASSUME NEW S, IsFiniteSet(S), NEW T \in SUBSET S, NEW f \in [S -> Int], NEW g \in [T -> Int],
         \A x \in T : f[x] = g[x], \A x \in S \ T : f[x] = 0
  PROVE  SumFunction(f) = SumFunction(g)
  <1> DEFINE rest == S \ T
             z == [x \in rest |-> 0]
  <1>1. IsFiniteSet(T) /\ IsFiniteSet(rest) /\ T \cup rest = S /\ T \cap rest = {}
    BY FS_Subset
  <1>2. SumFunctionOnSet(f, S) = SumFunctionOnSet(f, T) + SumFunctionOnSet(f, rest)
    <2> HIDE DEF rest
    <2>1. SumFunctionOnSet(f, T \cup rest) = SumFunctionOnSet(f, T) + SumFunctionOnSet(f, rest)
      BY <1>1, SumOnDisjoint
    <2> QED BY <1>1, <2>1
  <1>3. SumFunctionOnSet(f, T) = SumFunctionOnSet(g, T)
    BY <1>1, SumOnAgree
  <1>4. SumFunctionOnSet(f, rest) = SumFunctionOnSet(z, rest)
    <2>1. \A x \in rest : f[x] = z[x]
      OBVIOUS
    <2> HIDE DEF rest, z
    <2> QED BY <1>1, <2>1, SumOnAgree
  <1>5. SumFunctionOnSet(z, rest) = 0
    <2>1. DOMAIN z = rest /\ \A x \in rest : z[x] = 0
      OBVIOUS
    <2> HIDE DEF rest, z
    <2>2. SumFunction(z) = 0
      BY <1>1, <2>1, SumZero
    <2> QED BY <2>1, <2>2 DEF SumFunction
  <1>6. SumFunctionOnSet(g, T) \in Int
    BY <1>1, SumOnInt
  <1>7. DOMAIN f = S /\ DOMAIN g = T
    OBVIOUS
  <1> HIDE DEF rest, z
  <1> QED BY <1>2, <1>3, <1>4, <1>5, <1>6, <1>7 DEF SumFunction

\* Larger summands make the larger sum.
LEMMA SumMonotone ==
  ASSUME NEW S, IsFiniteSet(S), NEW f \in [S -> Nat], NEW g \in [S -> Nat],
         \A x \in S : f[x] <= g[x]
  PROVE  SumFunction(f) <= SumFunction(g)
  <1> DEFINE h == [x \in S |-> g[x] - f[x]]
  <1>1. h \in [S -> Nat] /\ \A x \in S : g[x] = f[x] + h[x]
    <2>1. \A x \in S : f[x] \in Nat /\ g[x] \in Nat
      OBVIOUS
    <2> QED BY <2>1
  <1>2. f \in [S -> Int] /\ g \in [S -> Int] /\ h \in [S -> Int]
    BY <1>1
  <1> HIDE DEF h
  <1>3. SumFunction(g) = SumFunction(f) + SumFunction(h)
    BY <1>1, <1>2, SumPlus
  <1>4. SumFunction(f) \in Nat /\ SumFunction(h) \in Nat
    BY <1>1, SumNat
  <1>5. PICK k \in Nat, m \in Nat : k = SumFunction(f) /\ m = SumFunction(h)
    BY <1>4
  <1> QED BY <1>3, <1>5

\* Multiples add up.
LEMMA OneMoreTimes ==
  ASSUME NEW k \in Nat, NEW n \in Nat
  PROVE  k * (n + 1) = k * n + k
  OBVIOUS

\* A function that is k on T and zero elsewhere sums up to k for each element of T.
LEMMA SumConstant ==
  ASSUME NEW S, IsFiniteSet(S), NEW T \in SUBSET S, NEW k \in Nat, NEW f, DOMAIN f = S,
         \A x \in S : f[x] = IF x \in T THEN k ELSE 0
  PROVE  SumFunction(f) = k * Cardinality(T)
  <1> DEFINE Sum(s) == SumFunctionOnSet(f, s)
             Bad == {s \in SUBSET T : Sum(s) # k * Cardinality(s)}
  <1>1. \A s \in SUBSET S : IsFiniteSet(s) /\ \A y \in s : f[y] \in Int
    BY FS_Subset
  <1>2. ASSUME Bad # {}
        PROVE  FALSE
    <2>1. Bad \in SUBSET SUBSET S
      OBVIOUS
    <2>2. PICK s \in Bad : \A x \in s : s \ {x} \notin Bad
      <3> HIDE DEF Bad
      <3> QED BY <1>2, <2>1, MinimalSubset
    <2>3. s \in SUBSET T /\ Sum(s) # k * Cardinality(s)
      BY <2>2
    <2>4. s # {}
      BY <2>3, SumOnEmpty, FS_EmptySet
    <2>5. PICK x \in s : TRUE
      BY <2>4
    <2> DEFINE rest == s \ {x}
               n == Cardinality(rest)
    <2>6. IsFiniteSet(s) /\ IsFiniteSet(rest) /\ rest \in SUBSET T
      BY <1>1, <2>3, <2>5
    <2>7. Sum(rest) = k * n
      BY <2>2, <2>5, <2>6
    <2>8. n \in Nat /\ Cardinality(s) = n + 1
      <3>1. Cardinality(s) \in Nat /\ n \in Nat /\ n = Cardinality(s) - 1
        BY <2>5, <2>6, FS_RemoveElement, FS_CardinalityType
      <3> QED BY <3>1
    <2>9. Sum(s) = f[x] + Sum(rest) /\ f[x] = k
      BY <1>1, <2>3, <2>5, SumOnTakeOut
    <2>10. k * (n + 1) = k * n + k /\ k * n \in Nat
      <3> HIDE DEF n
      <3> QED BY <2>8, OneMoreTimes
    <2>11. k + k * n = k * n + k
      <3> DEFINE m == k * n
      <3>1. m \in Nat
        BY <2>10
      <3>2. k + m = m + k
        <4> HIDE DEF m
        <4> QED BY <3>1
      <3> QED BY <3>2
    <2> QED BY <2>3, <2>7, <2>8, <2>9, <2>10, <2>11, Zenon
  <1>3. T \notin Bad
    BY <1>2
  <1>4. Sum(T) = k * Cardinality(T)
    BY <1>3
  <1>5. Sum(S) = Sum(T) + Sum(S \ T)
    <2>1. T \cap (S \ T) = {} /\ T \cup (S \ T) = S
      OBVIOUS
    <2> QED BY <1>1, <2>1, SumOnDisjoint
  <1>6. Sum(S \ T) = 0
    <2> DEFINE U == S \ T
    <2>1. IsFiniteSet(U) /\ \A y \in U : f[y] = 0
      BY <1>1
    <2>2. SumFunction([y \in U |-> f[y]]) = 0
      BY <2>1, SumZero
    <2>3. SumFunctionOnSet([y \in U |-> f[y]], U) = SumFunctionOnSet(f, U)
      BY <2>1, SumOnAgree
    <2> QED BY <2>2, <2>3 DEF SumFunction
  <1>7. Sum(T) \in Int
    BY <1>1, SumOnInt
  <1>8. Sum(T) + 0 = Sum(T)
    <2> HIDE DEF Sum
    <2> QED BY <1>7
  <1> QED BY <1>4, <1>5, <1>6, <1>8 DEF SumFunction

----------------------------------------------------------------------------
(* Remainders *)

\* Division with remainder by a positive number, and that it is the only one.
LEMMA DivMod ==
  ASSUME NEW n \in Int, NEW m \in Nat \ {0}
  PROVE  n = m * (n \div m) + (n % m) /\ n % m \in 0 .. m - 1 /\ n \div m \in Int
  OBVIOUS

LEMMA ModUnique ==
  ASSUME NEW q \in Int, NEW r \in Nat, NEW m \in Nat \ {0}, r < m
  PROVE  (m * q + r) % m = r
  OBVIOUS

\* A multiple of m more leaves the remainder.
LEMMA ModPeriod ==
  ASSUME NEW n \in Int, NEW q \in Int, NEW m \in Nat \ {0}
  PROVE  (n + m * q) % m = n % m
  <1>1. PICK d \in Int : n = m * d + (n % m)
    BY DivMod
  <1>2. PICK r \in 0 .. m - 1 : r = n % m
    BY DivMod
  <1>3. m * (d + q) = m * d + m * q /\ d + q \in Int /\ m * d \in Int /\ m * q \in Int
    OBVIOUS
  <1>4. n + m * q = m * (d + q) + r
    <2> DEFINE x == m * d
               y == m * q
               z == m * (d + q)
    <2>1. n = x + r /\ z = x + y /\ x \in Int /\ y \in Int
      BY <1>1, <1>2, <1>3
    <2> HIDE DEF x, y, z
    <2>2. n + y = z + r
      BY <2>1
    <2> QED BY <2>2 DEF y, z
  <1>5. (m * (d + q) + r) % m = r
    BY <1>2, <1>3, ModUnique
  <1> QED BY <1>2, <1>4, <1>5

\* Taking the remainder of a summand leaves the remainder of the sum.
LEMMA ModPlus ==
  ASSUME NEW n \in Int, NEW k \in Int, NEW m \in Nat \ {0}
  PROVE  ((n % m) + k) % m = (n + k) % m
  <1>1. PICK d \in Int : n = m * d + (n % m)
    BY DivMod
  <1> DEFINE r == n % m
             x == m * d
             y == m * (-d)
  <1>2. r \in Int
    BY DivMod
  <1>3. x \in Int /\ y = -x
    OBVIOUS
  <1>4. n = x + r
    BY <1>1
  <1>5. ((n + k) + m * (-d)) % m = (n + k) % m
    <2>1. n + k \in Int /\ -d \in Int
      OBVIOUS
    <2> DEFINE s == n + k
               e == -d
    <2> HIDE DEF s, e
    <2>2. (s + m * e) % m = s % m
      BY <2>1, ModPeriod DEF s, e
    <2> QED BY <2>2 DEF s, e
  <1>6. (n + k) + y = r + k
    <2> HIDE DEF r, x, y
    <2> QED BY <1>2, <1>3, <1>4
  <1> QED BY <1>5, <1>6

LEMMA ModSmall ==
  ASSUME NEW n \in Nat, NEW m \in Nat \ {0}, n < m
  PROVE  n % m = n
  OBVIOUS

\* Products and quotients grow with what is multiplied and divided.
LEMMA ProductGrows ==
  ASSUME NEW k \in Nat, NEW n \in Nat, NEW m \in Nat, n <= m
  PROVE  k * n \in Nat /\ k * m \in Nat /\ k * n <= k * m
  <1>1. PICK d \in Nat : m = n + d
    OBVIOUS
  <1>2. k * (n + d) = k * n + k * d /\ k * n \in Nat /\ k * d \in Nat
    OBVIOUS
  <1> DEFINE x == k * n
             y == k * d
  <1>3. x \in Nat /\ y \in Nat /\ k * m = x + y
    BY <1>1, <1>2
  <1> HIDE DEF x, y
  <1>4. x + y \in Nat /\ x <= x + y
    BY <1>3
  <1> QED BY <1>3, <1>4 DEF x

LEMMA QuotientGrows ==
  ASSUME NEW n \in Nat, NEW k \in Nat, n <= k, NEW m \in Nat \ {0}
  PROVE  n \div m \in Nat /\ k \div m \in Nat /\ n \div m <= k \div m
  OBVIOUS

\* Quotient and remainder of naturals, and that there is one pair of them.
LEMMA QuotientAndRest ==
  ASSUME NEW n \in Nat, NEW t \in Nat, t # 0
  PROVE  /\ n % t \in 0 .. t - 1 /\ n \div t \in Nat
         /\ n = (n \div t) * t + (n % t)
  OBVIOUS

LEMMA MultiplesApart ==
  ASSUME NEW t \in Nat, t # 0, NEW p \in Nat, NEW q \in Nat, p < q
  PROVE  p * t + t <= q * t
  <1> DEFINE d == q - p - 1
  <1>1. d \in Nat /\ q = p + 1 + d
    OBVIOUS
  <1> HIDE DEF d
  <1>2. q * t = p * t + t + d * t /\ d * t \in Nat /\ p * t \in Nat
    BY <1>1
  <1> QED BY <1>2

LEMMA DivUnique ==
  ASSUME NEW t \in Nat, t # 0, NEW p \in Nat, NEW q \in Nat,
         NEW r \in 0 .. t - 1, NEW s \in 0 .. t - 1, p * t + r = q * t + s
  PROVE  p = q /\ r = s
  <1>0. p * t \in Nat /\ q * t \in Nat
    OBVIOUS
  <1>1. ~(p < q)
    <2>1. p < q => p * t + t <= q * t
      BY MultiplesApart
    <2> QED BY <1>0, <2>1
  <1>2. ~(q < p)
    <2>1. q < p => q * t + t <= p * t
      BY MultiplesApart
    <2> QED BY <1>0, <2>1
  <1> QED BY <1>0, <1>1, <1>2

\* A quotient times the divisor is within what was divided.
LEMMA QuotientTimes ==
  ASSUME NEW n \in Nat, NEW m \in Nat, m # 0
  PROVE  n \div m \in Nat /\ m * (n \div m) \in Nat /\ m * (n \div m) <= n
  <1> DEFINE q == n \div m
             p == q * m
  <1>1. q \in Nat /\ n % m \in Nat /\ n = p + (n % m)
    BY QuotientAndRest
  <1>2. m * q = p /\ p \in Nat
    BY <1>1
  <1> HIDE DEF q, p
  <1>3. p <= n
    BY <1>1, <1>2
  <1> QED BY <1>1, <1>2, <1>3 DEF q

\* What times m is no more, is no more.
LEMMA ProductCancels ==
  ASSUME NEW m \in Nat, m # 0, NEW n \in Nat, NEW k \in Nat, m * n <= m * k
  PROVE  n <= k
  <1> SUFFICES ASSUME k < n PROVE FALSE
    OBVIOUS
  <1>1. k * m + m <= n * m /\ k * m \in Nat /\ n * m \in Nat
    BY MultiplesApart
  <1>2. m * n = n * m /\ m * k = k * m
    OBVIOUS
  <1> DEFINE x == n * m
             y == k * m
  <1>3. x \in Nat /\ y \in Nat /\ y + m <= x /\ x <= y
    BY <1>1, <1>2
  <1> HIDE DEF x, y
  <1> QED BY <1>3

\* A common factor goes out of a quotient.
LEMMA QuotientCancels ==
  ASSUME NEW f \in Nat, f # 0, NEW n \in Nat, NEW m \in Nat, m # 0
  PROVE  (f * n) \div (f * m) = n \div m
  <1> DEFINE q == n \div m
             r == n % m
             t == f * m
  <1>1. q \in Nat /\ r \in 0 .. m - 1 /\ n = q * m + r
    BY QuotientAndRest
  <1>2. t \in Nat /\ f * r \in Nat /\ t # 0
    BY <1>1
  <1>3. f * r < t
    <2>1. r < m /\ r \in Nat
      BY <1>1
    <2>2. r * f + f <= m * f /\ r * f \in Nat
      BY <2>1, MultiplesApart
    <2>3. f * r = r * f /\ f * m = m * f
      BY <2>1
    <2> DEFINE x == r * f
               y == m * f
    <2>4. x \in Nat /\ y \in Nat /\ x + f <= y
      BY <2>2
    <2> HIDE DEF x, y
    <2>5. x < y
      BY <2>4
    <2> QED BY <2>3, <2>5 DEF x, y
  <1>4. f * n = q * t + f * r
    <2> HIDE DEF q, r
    <2>1. f * (q * m + r) = f * (q * m) + f * r
      BY <1>1
    <2>2. f * (q * m) = q * (f * m)
      BY <1>1
    <2> QED BY <1>1, <2>1, <2>2
  <1>5. f * n \in Nat
    OBVIOUS
  <1>6. PICK u \in Nat : u = f * n
    BY <1>5
  <1>7. PICK v \in Nat : v = f * r
    BY <1>2
  <1> HIDE DEF q, r, t
  <1>8. u \div t \in Nat /\ u % t \in 0 .. t - 1 /\ u = (u \div t) * t + (u % t)
    BY <1>2, QuotientAndRest
  <1>9. u = q * t + v /\ v \in 0 .. t - 1
    BY <1>2, <1>3, <1>4, <1>6, <1>7
  <1>10. u \div t = q
    BY <1>1, <1>2, <1>8, <1>9, DivUnique
  <1> QED BY <1>6, <1>10 DEF q, t

----------------------------------------------------------------------------
(* Shares *)

\* The part p of w of something that is at most an amount.
LEMMA PartIsWithin ==
  ASSUME NEW amount \in Nat, NEW p \in Nat, NEW w \in Nat, w # 0, p <= w,
         NEW n \in Nat, n <= amount * p
  PROVE  n \div w \in Nat /\ n \div w <= amount
  <1>1. amount * p \in Nat /\ amount * w \in Nat /\ amount * p <= amount * w
    BY ProductGrows
  <1>2. PICK k \in Nat, m \in Nat : k = amount * p /\ m = amount * w
    BY <1>1
  <1>3. n <= m
    <2>1. n <= k /\ k <= m
      BY <1>1, <1>2
    <2> QED BY <2>1
  <1>4. n \div w \in Nat /\ m \div w \in Nat /\ n \div w <= m \div w
    BY <1>3, QuotientGrows
  <1>5. (w * amount) \div (w * 1) = amount \div 1 /\ amount \div 1 = amount
    BY QuotientCancels
  <1>6. w * amount = amount * w /\ w * 1 = w
    OBVIOUS
  <1> QED BY <1>2, <1>4, <1>5, <1>6

LEMMA DistributePlus ==
  ASSUME NEW k \in Nat, NEW n \in Nat, NEW m \in Nat
  PROVE  k * (n + m) = k * n + k * m /\ k * n \in Nat /\ k * m \in Nat
  OBVIOUS

\* A factor goes out of a sum.
LEMMA SumTimes ==
  ASSUME NEW S, IsFiniteSet(S), NEW k \in Nat, NEW f \in [S -> Nat], NEW g \in [S -> Nat],
         \A x \in S : g[x] = k * f[x]
  PROVE  SumFunction(g) = k * SumFunction(f)
  <1> DEFINE F(s) == SumFunctionOnSet(f, s)
             G(s) == SumFunctionOnSet(g, s)
             Bad == {s \in SUBSET S : G(s) # k * F(s)}
  <1>1. \A s \in SUBSET S :
          IsFiniteSet(s) /\ (\A y \in s : f[y] \in Int /\ g[y] \in Int)
          /\ F(s) \in Nat /\ G(s) \in Nat
    BY FS_Subset, SumOnNat
  <1>2. ASSUME Bad # {}
        PROVE  FALSE
    <2>1. Bad \in SUBSET SUBSET S
      OBVIOUS
    <2>2. PICK s \in Bad : \A x \in s : s \ {x} \notin Bad
      <3> HIDE DEF Bad
      <3> QED BY <1>2, <2>1, MinimalSubset
    <2>3. s \in SUBSET S /\ G(s) # k * F(s)
      BY <2>2
    <2>4. s # {}
      <3>1. F({}) = 0 /\ G({}) = 0 /\ k * 0 = 0
        BY SumOnEmpty
      <3> HIDE DEF F, G
      <3> QED BY <2>3, <3>1
    <2>5. PICK x \in s : TRUE
      BY <2>4
    <2> DEFINE rest == s \ {x}
    <2>6. rest \in SUBSET S
      BY <2>3
    <2>7. G(rest) = k * F(rest)
      BY <2>2, <2>5, <2>6
    <2>8. F(s) = f[x] + F(rest) /\ G(s) = g[x] + G(rest)
      BY <1>1, <2>3, <2>5, SumOnTakeOut
    <2>9. f[x] \in Nat /\ F(rest) \in Nat /\ g[x] = k * f[x]
      BY <1>1, <2>3, <2>5, <2>6
    <2> HIDE DEF F, G, rest
    <2>10. k * (f[x] + F(rest)) = k * f[x] + k * F(rest)
      BY <2>9, DistributePlus
    <2> QED BY <2>3, <2>7, <2>8, <2>9, <2>10, Zenon
  <1>3. S \notin Bad
    BY <1>2
  <1> QED BY <1>3 DEF SumFunction

\* An amount that is split by stake, no share being more than its part, is not exceeded.
LEMMA SharesWithin ==
  ASSUME NEW S, IsFiniteSet(S), NEW amount \in Nat, NEW stakes \in [S -> Nat],
         SumFunction(stakes) # 0, NEW shares \in [S -> Nat],
         \A x \in S : SumFunction(stakes) * shares[x] <= amount * stakes[x]
  PROVE  SumFunction(shares) \in Nat /\ SumFunction(shares) <= amount
  <1> DEFINE total == SumFunction(stakes)
             sum == SumFunction(shares)
             whole == [x \in S |-> amount * stakes[x]]
             kept == [x \in S |-> total * shares[x]]
  <1>1. total \in Nat /\ total # 0 /\ sum \in Nat
    BY SumNat
  <1>2. whole \in [S -> Nat]
    OBVIOUS
  <1>3. ASSUME NEW x \in S
        PROVE  kept[x] \in Nat /\ kept[x] <= whole[x]
    <2>1. kept[x] = total * shares[x] /\ whole[x] = amount * stakes[x] /\ shares[x] \in Nat
          /\ total * shares[x] <= amount * stakes[x]
      OBVIOUS
    <2> HIDE DEF whole, kept, total
    <2>2. total * shares[x] \in Nat
      BY <1>1, <2>1
    <2> QED BY <2>1, <2>2
  <1>4. kept \in [S -> Nat]
    BY <1>3
  <1>5. SumFunction(whole) = amount * total
    <2>1. \A x \in S : whole[x] = amount * stakes[x]
      OBVIOUS
    <2> HIDE DEF whole
    <2> QED BY <1>2, <2>1, SumTimes
  <1>6. SumFunction(kept) = total * sum
    <2>1. \A x \in S : kept[x] = total * shares[x]
      OBVIOUS
    <2> HIDE DEF kept, total
    <2> QED BY <1>1, <1>4, <2>1, SumTimes
  <1>7. SumFunction(kept) <= SumFunction(whole)
    <2> HIDE DEF kept, whole
    <2> QED BY <1>2, <1>3, <1>4, SumMonotone
  <1> HIDE DEF total, sum, whole, kept
  <1>8. total * sum <= amount * total /\ amount * total = total * amount
    BY <1>1, <1>5, <1>6, <1>7
  <1>9. sum <= amount
    BY <1>1, <1>8, ProductCancels
  <1> QED BY <1>1, <1>9 DEF sum

LEMMA FiniteImage ==
  ASSUME NEW S, IsFiniteSet(S), NEW e
  PROVE  IsFiniteSet({e[x] : x \in S})
  <1> DEFINE T == {e[x] : x \in S}
             h == [x \in S |-> e[x]]
  <1>1. h \in Surjection(S, T)
    BY DEF Surjection
  <1> HIDE DEF T, h
  <1>2. IsFiniteSet(T)
    BY <1>1, FS_Surjection
  <1> QED BY <1>2 DEF T

\* A sum over the values of an injection is one over its arguments.
LEMMA SumOfImage ==
  ASSUME NEW S, IsFiniteSet(S), NEW e, NEW f \in [S -> Int], NEW T,
         NEW g \in [T -> Int],
         T = {e[x] : x \in S}, \A x \in S, y \in S : e[x] = e[y] => x = y,
         \A x \in S : g[e[x]] = f[x]
  PROVE  SumFunction(g) = SumFunction(f)
  <1> DEFINE F(s) == SumFunctionOnSet(f, s)
             G(s) == SumFunctionOnSet(g, {e[x] : x \in s})
             Bad == {s \in SUBSET S : G(s) # F(s)}
  <1>1. \A s \in SUBSET S :
          /\ IsFiniteSet(s) /\ (\A y \in s : f[y] \in Int) /\ IsFiniteSet({e[x] : x \in s})
          /\ \A y \in {e[x] : x \in s} : g[y] \in Int
    <2> TAKE s \in SUBSET S
    <2>1. IsFiniteSet(s) /\ \A y \in s : f[y] \in Int
      BY FS_Subset
    <2>2. IsFiniteSet({e[x] : x \in s})
      BY <2>1, FiniteImage
    <2>3. {e[x] : x \in s} \subseteq T
      OBVIOUS
    <2> QED BY <2>1, <2>2, <2>3
  <1>2. ASSUME Bad # {}
        PROVE  FALSE
    <2>1. Bad \in SUBSET SUBSET S
      OBVIOUS
    <2>2. PICK s \in Bad : \A x \in s : s \ {x} \notin Bad
      <3> HIDE DEF Bad
      <3> QED BY <1>2, <2>1, MinimalSubset
    <2>3. s \in SUBSET S /\ G(s) # F(s)
      BY <2>2
    <2>4. s # {}
      <3>1. s = {} => {e[x] : x \in s} = {}
        OBVIOUS
      <3> QED BY <2>3, <3>1, SumOnEmpty
    <2>5. PICK x \in s : TRUE
      BY <2>4
    <2> DEFINE rest == s \ {x}
               image == {e[y] : y \in s}
    <2>6. rest \in SUBSET S /\ G(rest) = F(rest)
      BY <2>2, <2>3, <2>5
    <2>7. F(s) = f[x] + F(rest)
      BY <1>1, <2>3, <2>5, SumOnTakeOut
    <2>8. {e[y] : y \in rest} = image \ {e[x]} /\ e[x] \in image
      BY <2>3, <2>5
    <2>9. SumFunctionOnSet(g, image) = g[e[x]] + SumFunctionOnSet(g, image \ {e[x]})
      <3>1. IsFiniteSet(image) /\ \A y \in image : g[y] \in Int
        BY <1>1, <2>3
      <3> HIDE DEF image
      <3> QED BY <2>8, <3>1, SumOnTakeOut
    <2>10. g[e[x]] = f[x]
      BY <2>3, <2>5
    <2> QED BY <2>3, <2>6, <2>7, <2>8, <2>9, <2>10
  <1>3. G(S) = F(S)
    BY <1>2
  <1> QED BY <1>3 DEF SumFunction
=============================================================================
