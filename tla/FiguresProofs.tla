---------------------------- MODULE FiguresProofs ----------------------------
(***************************************************************************)
(* Sums over finite sets, and the waterfall of Figures as a sum over the   *)
(* accounts that is one over the rows in effect.  ApprovalChainProofs and  *)
(* CrmBookProofs bring what their handlers do to charges and rows.         *)
(***************************************************************************)
EXTENDS Figures, FiniteSetTheorems, WellFoundedInduction, TLAPS

\* Among the subsets of a finite set with something wrong, one has no smaller such.
LEMMA LeastSubset ==
  ASSUME NEW S, IsFiniteSet(S), NEW Bad \in SUBSET (SUBSET S), Bad # {}
  PROVE  \E U \in Bad : \A V \in Bad : V \subseteq U => V = U
<1>1. IsWellFoundedOn(StrictSubsetOrdering(S), FiniteSubsetsOf(S))
  BY FS_StrictSubsetOrderingWellFounded
<1>2. Bad \subseteq FiniteSubsetsOf(S)
  BY FS_Subset DEF FiniteSubsetsOf
<1>3. PICK U \in Bad : \A V \in Bad : ~(<<V, U>> \in StrictSubsetOrdering(S))
  BY <1>1, <1>2, WFMin
<1>4. QED
  BY <1>3 DEF StrictSubsetOrdering

\* Induction over finite sets, one element at a time.
LEMMA SubsetInduction ==
  ASSUME NEW S, IsFiniteSet(S), NEW G, {} \in G,
         \A U \in SUBSET S : \A x \in S \ U : U \in G => U \cup {x} \in G
  PROVE  S \in G
<1> DEFINE Bad == {U \in SUBSET S : U \notin G}
<1> SUFFICES ASSUME S \notin G PROVE FALSE
  OBVIOUS
<1>1. PICK U \in Bad : \A V \in Bad : V \subseteq U => V = U
  <2>1. Bad \in SUBSET (SUBSET S) /\ Bad # {}
    OBVIOUS
  <2> HIDE DEF Bad
  <2> QED BY <2>1, LeastSubset
<1>2. PICK x : x \in U
  BY <1>1
<1>3. U \ {x} \in SUBSET S /\ x \in S \ (U \ {x}) /\ (U \ {x}) \cup {x} = U
  <2>1. U \in SUBSET S /\ x \in U
    BY <1>1, <1>2
  <2> HIDE DEF Bad
  <2>2. U \ {x} \in SUBSET S
    BY ONLY <2>1
  <2>3. x \in S \ (U \ {x})
    BY ONLY <2>1
  <2>4. \A y : y \in (U \ {x}) \cup {x} <=> y \in U
    BY ONLY <2>1
  <2>5. QED
    BY <2>2, <2>3, <2>4
<1>4. U \ {x} \notin Bad
  <2>1. U \ {x} \subseteq U /\ U \ {x} # U
    BY <1>2
  <2> HIDE DEF Bad
  <2>2. QED
    BY <1>1, <2>1
<1>5. U \ {x} \in G /\ U \notin G
  BY <1>1, <1>3, <1>4
<1> HIDE DEF Bad
<1>6. (U \ {x}) \cup {x} \in G
  BY <1>3, <1>5
<1>7. QED
  BY <1>3, <1>5, <1>6

\* The recursion behind a sum: g adds up f over the subsets of S, taking the
\* elements of each in the order CHOOSE picks them.
Pick(s) == CHOOSE x \in s : TRUE

Adds(g, f, S) ==
  g = [s \in SUBSET S |-> IF s = {} THEN 0 ELSE f[Pick(s)] + g[s \ {Pick(s)}]]

LEMMA SumUnfolds ==
  ASSUME NEW f, NEW S
  PROVE  SumFunctionOnSet(f, S) = (CHOOSE g : Adds(g, f, S))[S]
BY DEF SumFunctionOnSet, FoldFunctionOnSet, MapThenFoldSet, Adds, Pick

LEMMA PickOne == ASSUME NEW s, s # {} PROVE Pick(s) \in s
BY DEF Pick

LEMMA AddsOnSmaller ==
  ASSUME NEW f, NEW S, NEW g, Adds(g, f, S), NEW T \in SUBSET S
  PROVE  Adds([s \in SUBSET T |-> g[s]], f, T)
<1> DEFINE h == [s \in SUBSET T |-> g[s]]
<1>1. \A s \in SUBSET T : h[s] = IF s = {} THEN 0 ELSE f[Pick(s)] + h[s \ {Pick(s)}]
  <2> TAKE s \in SUBSET T
  <2>1. s \in SUBSET S /\ s \ {Pick(s)} \in SUBSET T
    OBVIOUS
  <2>2. g[s] = IF s = {} THEN 0 ELSE f[Pick(s)] + g[s \ {Pick(s)}]
    BY <2>1 DEF Adds
  <2>3. QED
    BY <2>1, <2>2
<1>2. h = [s \in SUBSET T |-> h[s]]
  OBVIOUS
<1> HIDE DEF h
<1>3. Adds(h, f, T)
  BY <1>1, <1>2 DEF Adds
<1>4. QED
  BY <1>3 DEF h

LEMMA AddsOnce ==
  ASSUME NEW f, NEW S, IsFiniteSet(S), NEW g, NEW h, Adds(g, f, S), Adds(h, f, S)
  PROVE  g = h
<1> DEFINE Bad == {s \in SUBSET S : g[s] # h[s]}
<1>1. Bad = {}
  <2> SUFFICES ASSUME Bad # {} PROVE FALSE
    OBVIOUS
  <2>1. PICK U \in Bad : \A V \in Bad : V \subseteq U => V = U
    <3>1. Bad \in SUBSET (SUBSET S)
      OBVIOUS
    <3> HIDE DEF Bad
    <3> QED BY <3>1, LeastSubset
  <2>2. /\ g[U] = IF U = {} THEN 0 ELSE f[Pick(U)] + g[U \ {Pick(U)}]
        /\ h[U] = IF U = {} THEN 0 ELSE f[Pick(U)] + h[U \ {Pick(U)}]
    BY <2>1 DEF Adds
  <2>3. U # {} => U \ {Pick(U)} \notin Bad
    BY <2>1, PickOne
  <2>4. QED
    BY <2>1, <2>2, <2>3
<1>2. \A s \in SUBSET S : g[s] = h[s]
  BY <1>1
<1>3. g = [s \in SUBSET S |-> g[s]] /\ h = [s \in SUBSET S |-> h[s]]
  BY DEF Adds
<1>4. QED
  BY <1>2, <1>3

\* One step of the recursion, where the recursion is well defined.
LEMMA SumStep ==
  ASSUME NEW f, NEW S, IsFiniteSet(S), NEW g, Adds(g, f, S), S # {}
  PROVE  SumFunctionOnSet(f, S) = f[Pick(S)] + SumFunctionOnSet(f, S \ {Pick(S)})
<1> DEFINE T == S \ {Pick(S)}
           h == [s \in SUBSET T |-> g[s]]
<1>1. SumFunctionOnSet(f, S) = g[S]
  <2>1. Adds(CHOOSE k : Adds(k, f, S), f, S)
    OBVIOUS
  <2>2. QED
    BY <2>1, AddsOnce, SumUnfolds
<1>2. Adds(h, f, T)
  BY AddsOnSmaller
<1>3. SumFunctionOnSet(f, T) = h[T]
  <2> HIDE DEF h, T
  <2>1. Adds(CHOOSE k : Adds(k, f, T), f, T)
    BY <1>2
  <2>2. IsFiniteSet(T)
    BY FS_Subset DEF T
  <2>3. QED
    BY <1>2, <2>1, <2>2, AddsOnce, SumUnfolds
<1>4. g[S] = f[Pick(S)] + g[T]
  BY DEF Adds
<1>5. QED
  BY <1>1, <1>3, <1>4

LEMMA SumEmpty == ASSUME NEW f PROVE SumFunctionOnSet(f, {}) = 0
<1> DEFINE g == [s \in SUBSET {} |-> 0]
<1>1. Adds(g, f, {})
  BY DEF Adds
<1>2. Adds(CHOOSE k : Adds(k, f, {}), f, {})
  BY <1>1
<1>3. QED
  BY <1>2, SumUnfolds DEF Adds

LEMMA SumIsDefined ==
  ASSUME NEW f, NEW S, IsFiniteSet(S)
  PROVE  \E g : Adds(g, f, S)
<1> DEFINE Bad == {s \in SUBSET S : ~\E g : Adds(g, f, s)}
<1> SUFFICES ASSUME Bad # {} PROVE FALSE
  OBVIOUS
<1>1. PICK U \in Bad : \A V \in Bad : V \subseteq U => V = U
  <2>1. Bad \in SUBSET (SUBSET S)
    OBVIOUS
  <2> HIDE DEF Bad
  <2> QED BY <2>1, LeastSubset
<1> DEFINE Sum(s) == SumFunctionOnSet(f, s)
           g == [s \in SUBSET U |-> IF s = {} THEN 0 ELSE f[Pick(s)] + Sum(s \ {Pick(s)})]
<1>2. ASSUME NEW s \in SUBSET U, s # {}
      PROVE  Sum(s \ {Pick(s)}) = g[s \ {Pick(s)}]
  <2> DEFINE t == s \ {Pick(s)}
  <2>1. t \in SUBSET U /\ t # U /\ IsFiniteSet(t)
    BY <1>1, <1>2, PickOne, FS_Subset
  <2>2. CASE t = {}
    BY <2>1, <2>2, SumEmpty
  <2>3. CASE t # {}
    <3>1. \E k : Adds(k, f, t)
      BY <1>1, <2>1
    <3> HIDE DEF t
    <3>2. Sum(t) = f[Pick(t)] + Sum(t \ {Pick(t)})
      BY <2>1, <2>3, <3>1, SumStep
    <3>3. QED
      BY <2>1, <2>3, <3>2 DEF t
  <2>4. QED
    BY <2>2, <2>3
<1>3. Adds(g, f, U)
  <2>1. \A s \in SUBSET U : g[s] = IF s = {} THEN 0 ELSE f[Pick(s)] + g[s \ {Pick(s)}]
    BY <1>2
  <2>2. g = [s \in SUBSET U |-> g[s]]
    OBVIOUS
  <2> HIDE DEF g
  <2>3. QED
    BY <2>1, <2>2 DEF Adds
<1>4. QED
  BY <1>1, <1>3

LEMMA SumPicks ==
  ASSUME NEW f, NEW S, IsFiniteSet(S), S # {}
  PROVE  SumFunctionOnSet(f, S) = f[Pick(S)] + SumFunctionOnSet(f, S \ {Pick(S)})
BY SumIsDefined, SumStep

LEMMA SumIsInt ==
  ASSUME NEW f, NEW S, IsFiniteSet(S), \A x \in S : f[x] \in Int
  PROVE  SumFunctionOnSet(f, S) \in Int
<1> DEFINE Bad == {s \in SUBSET S : SumFunctionOnSet(f, s) \notin Int}
<1> SUFFICES ASSUME Bad # {} PROVE FALSE
  OBVIOUS
<1>1. PICK U \in Bad : \A V \in Bad : V \subseteq U => V = U
  <2>1. Bad \in SUBSET (SUBSET S)
    OBVIOUS
  <2> HIDE DEF Bad
  <2> QED BY <2>1, LeastSubset
<1>2. IsFiniteSet(U) /\ U # {}
  <2>1. SumFunctionOnSet(f, {}) \in Int
    BY SumEmpty
  <2>2. QED
    BY <1>1, <2>1, FS_Subset
<1>3. Pick(U) \in U /\ U \ {Pick(U)} \notin Bad
  BY <1>1, <1>2, PickOne
<1>4. f[Pick(U)] \in Int /\ SumFunctionOnSet(f, U \ {Pick(U)}) \in Int
  BY <1>1, <1>3
<1>5. QED
  BY <1>1, <1>2, <1>4, SumPicks

\* The order of the elements does not matter.
LEMMA SumTakesOut ==
  ASSUME NEW f, NEW S, IsFiniteSet(S), \A x \in S : f[x] \in Int, NEW x \in S
  PROVE  SumFunctionOnSet(f, S) = f[x] + SumFunctionOnSet(f, S \ {x})
<1> DEFINE Sum(s) == SumFunctionOnSet(f, s)
           Bad == {s \in SUBSET S : \E y \in s : Sum(s) # f[y] + Sum(s \ {y})}
<1> SUFFICES ASSUME Bad # {} PROVE FALSE
  OBVIOUS
<1>1. PICK U \in Bad : \A V \in Bad : V \subseteq U => V = U
  <2>1. Bad \in SUBSET (SUBSET S)
    OBVIOUS
  <2> HIDE DEF Bad
  <2> QED BY <2>1, LeastSubset
<1>2. PICK y \in U : Sum(U) # f[y] + Sum(U \ {y})
  BY <1>1
<1> DEFINE p == Pick(U)
<1>3. p \in U /\ Sum(U) = f[p] + Sum(U \ {p})
  BY <1>1, <1>2, FS_Subset, PickOne, SumPicks
<1>4. p # y
  BY <1>2, <1>3
<1>5. U \ {p} \notin Bad /\ U \ {y} \notin Bad
  BY <1>1, <1>2, <1>3
<1> HIDE DEF p
<1> DEFINE R == U \ {p, y}
<1>6. (U \ {p}) \ {y} = R /\ (U \ {y}) \ {p} = R
  OBVIOUS
<1>7. Sum(U \ {p}) = f[y] + Sum(R) /\ Sum(U \ {y}) = f[p] + Sum(R)
  <2>1. U \ {p} \in SUBSET S /\ U \ {y} \in SUBSET S /\ y \in U \ {p} /\ p \in U \ {y}
    BY <1>1, <1>2, <1>3, <1>4
  <2>2. QED
    BY <1>5, <1>6, <2>1
<1>8. f[p] \in Int /\ f[y] \in Int /\ Sum(R) \in Int
  BY <1>1, <1>2, <1>3, FS_Subset, SumIsInt
<1>9. QED
  BY <1>2, <1>3, <1>7, <1>8

LEMMA SumAdds ==
  ASSUME NEW f, NEW S, IsFiniteSet(S), NEW x, x \notin S, \A y \in S \cup {x} : f[y] \in Int
  PROVE  SumFunctionOnSet(f, S \cup {x}) = f[x] + SumFunctionOnSet(f, S)
<1>1. IsFiniteSet(S \cup {x}) /\ (S \cup {x}) \ {x} = S
  BY FS_AddElement
<1>2. QED
  BY <1>1, SumTakesOut

\* Sums of functions that agree, of a constant, over disjoint sets.
LEMMA SumAgrees ==
  ASSUME NEW S, IsFiniteSet(S), NEW f, NEW g, \A x \in S : f[x] \in Int /\ f[x] = g[x]
  PROVE  SumFunctionOnSet(f, S) = SumFunctionOnSet(g, S)
<1> DEFINE Good == {s \in SUBSET S : SumFunctionOnSet(f, s) = SumFunctionOnSet(g, s)}
<1>1. {} \in Good
  BY SumEmpty
<1>2. \A U \in SUBSET S : \A x \in S \ U : U \in Good => U \cup {x} \in Good
  BY FS_Subset, SumAdds
<1>3. S \in Good
  <2> HIDE DEF Good
  <2> QED BY <1>1, <1>2, SubsetInduction
<1>4. QED
  BY <1>3

LEMMA SumOfConstant ==
  ASSUME NEW S, IsFiniteSet(S), NEW f, NEW k \in Int, \A x \in S : f[x] = k
  PROVE  SumFunctionOnSet(f, S) = k * Cardinality(S)
<1> DEFINE Good == {s \in SUBSET S : SumFunctionOnSet(f, s) = k * Cardinality(s)}
<1>1. {} \in Good
  BY SumEmpty, FS_EmptySet
<1>2. ASSUME NEW U \in SUBSET S, NEW x \in S \ U, U \in Good PROVE U \cup {x} \in Good
  <2>1. IsFiniteSet(U) /\ Cardinality(U) \in Nat /\ Cardinality(U \cup {x}) = Cardinality(U) + 1
    BY FS_Subset, FS_CardinalityType, FS_AddElement
  <2>2. SumFunctionOnSet(f, U \cup {x}) = k + SumFunctionOnSet(f, U)
    BY <2>1, SumAdds
  <2>3. k * (Cardinality(U) + 1) = k + k * Cardinality(U)
    BY <2>1
  <2>4. QED
    BY <1>2, <2>1, <2>2, <2>3
<1>3. S \in Good
  <2> HIDE DEF Good
  <2> QED BY <1>1, <1>2, SubsetInduction
<1>4. QED
  BY <1>3

LEMMA SumOfUnion ==
  ASSUME NEW S, IsFiniteSet(S), NEW T, IsFiniteSet(T), S \cap T = {},
         NEW f, \A x \in S \cup T : f[x] \in Int
  PROVE  SumFunctionOnSet(f, S \cup T) = SumFunctionOnSet(f, S) + SumFunctionOnSet(f, T)
<1> DEFINE Sum(s) == SumFunctionOnSet(f, s)
           Good == {s \in SUBSET T : Sum(S \cup s) = Sum(S) + Sum(s)}
<1>1. {} \in Good
  BY SumEmpty, SumIsInt
<1>2. ASSUME NEW U \in SUBSET T, NEW x \in T \ U, U \in Good PROVE U \cup {x} \in Good
  <2>1. IsFiniteSet(U) /\ IsFiniteSet(S \cup U) /\ x \notin S \cup U /\ S \cup (U \cup {x}) = (S \cup U) \cup {x}
    BY FS_Subset, FS_Union
  <2>2. Sum((S \cup U) \cup {x}) = f[x] + Sum(S \cup U) /\ Sum(U \cup {x}) = f[x] + Sum(U)
    BY <2>1, SumAdds
  <2>3. f[x] \in Int /\ Sum(S) \in Int /\ Sum(U) \in Int
    BY <2>1, SumIsInt
  <2>4. Sum(S \cup U) = Sum(S) + Sum(U)
    BY <1>2
  <2>5. Sum(S \cup (U \cup {x})) = Sum((S \cup U) \cup {x})
    BY <2>1
  <2> HIDE DEF Sum
  <2>6. Sum(S \cup (U \cup {x})) = Sum(S) + Sum(U \cup {x})
    BY ONLY <2>2, <2>3, <2>4, <2>5
  <2>7. QED
    BY <2>6
<1>3. T \in Good
  <2> HIDE DEF Good
  <2> QED BY <1>1, <1>2, SubsetInduction
<1>4. QED
  BY <1>3

LEMMA SumOfDifference ==
  ASSUME NEW S, IsFiniteSet(S), NEW f, NEW g, NEW d,
         \A x \in S : f[x] \in Int /\ g[x] \in Int /\ d[x] = f[x] - g[x]
  PROVE  SumFunctionOnSet(d, S) = SumFunctionOnSet(f, S) - SumFunctionOnSet(g, S)
<1> DEFINE Good == {s \in SUBSET S : SumFunctionOnSet(d, s) = SumFunctionOnSet(f, s) - SumFunctionOnSet(g, s)}
<1>1. {} \in Good
  BY SumEmpty
<1>2. ASSUME NEW U \in SUBSET S, NEW x \in S \ U, U \in Good PROVE U \cup {x} \in Good
  <2>1. IsFiniteSet(U) /\ (\A y \in U \cup {x} : d[y] \in Int /\ f[y] \in Int /\ g[y] \in Int)
    BY FS_Subset
  <2>2. /\ SumFunctionOnSet(d, U \cup {x}) = d[x] + SumFunctionOnSet(d, U)
        /\ SumFunctionOnSet(f, U \cup {x}) = f[x] + SumFunctionOnSet(f, U)
        /\ SumFunctionOnSet(g, U \cup {x}) = g[x] + SumFunctionOnSet(g, U)
    BY <2>1, SumAdds
  <2>3. SumFunctionOnSet(f, U) \in Int /\ SumFunctionOnSet(g, U) \in Int
    BY <2>1, SumIsInt
  <2>4. QED
    BY <1>2, <2>1, <2>2, <2>3
<1>3. S \in Good
  <2> HIDE DEF Good
  <2> QED BY <1>1, <1>2, SubsetInduction
<1>4. QED
  BY <1>3

\* A sum over accounts, of what the rows of each bring, is the sum over the rows.
LEMMA SumByAccount ==
  ASSUME NEW A, IsFiniteSet(A), NEW R, IsFiniteSet(R), NEW acct, NEW rows, NEW g, NEW h,
         \A c \in R : acct[c] \in A /\ g[c] \in Int,
         \A a \in A : \A c : c \in rows[a] <=> c \in R /\ acct[c] = a,
         \A a \in A : h[a] = SumFunctionOnSet(g, rows[a])
  PROVE  SumFunctionOnSet(h, A) = SumFunctionOnSet(g, R)
<1> DEFINE Of(s) == {c \in R : acct[c] \in s}
           On(a) == {c \in R : acct[c] = a}
           Good == {s \in SUBSET A : SumFunctionOnSet(h, s) = SumFunctionOnSet(g, Of(s))}
<1>a. \A a \in A : IsFiniteSet(On(a)) /\ h[a] = SumFunctionOnSet(g, On(a)) /\ h[a] \in Int
  <2> SUFFICES ASSUME NEW a \in A
               PROVE  IsFiniteSet(On(a)) /\ h[a] = SumFunctionOnSet(g, On(a)) /\ h[a] \in Int
    OBVIOUS
  <2>1. IsFiniteSet(On(a)) /\ (\A c \in On(a) : g[c] \in Int) /\ h[a] = SumFunctionOnSet(g, On(a))
    <3>1. On(a) = rows[a]
      OBVIOUS
    <3>2. QED
      BY <3>1, FS_Subset
  <2> HIDE DEF On
  <2>2. QED
    BY <2>1, SumIsInt
<1>1. {} \in Good
  <2>1. Of({}) = {}
    OBVIOUS
  <2> QED BY <2>1, SumEmpty
<1>2. ASSUME NEW U \in SUBSET A, NEW x \in A \ U, U \in Good PROVE U \cup {x} \in Good
  <2>1. /\ Of(U \cup {x}) = Of(U) \cup On(x) /\ Of(U) \cap On(x) = {}
        /\ IsFiniteSet(Of(U)) /\ IsFiniteSet(U)
        /\ \A c \in Of(U) \cup On(x) : g[c] \in Int
    BY FS_Subset
  <2>2. SumFunctionOnSet(h, U) = SumFunctionOnSet(g, Of(U))
    BY <1>2
  <2> HIDE DEF Of, On
  <2>3. SumFunctionOnSet(g, Of(U) \cup On(x)) = SumFunctionOnSet(g, Of(U)) + SumFunctionOnSet(g, On(x))
    BY <1>a, <2>1, SumOfUnion
  <2>4. SumFunctionOnSet(h, U \cup {x}) = h[x] + SumFunctionOnSet(h, U)
    BY <1>a, <2>1, SumAdds
  <2>5. SumFunctionOnSet(g, Of(U)) \in Int
    BY <2>1, SumIsInt
  <2>6. SumFunctionOnSet(g, Of(U \cup {x})) = SumFunctionOnSet(g, Of(U)) + h[x]
    BY <1>a, <2>1, <2>3
  <2>7. SumFunctionOnSet(h, U \cup {x}) = SumFunctionOnSet(g, Of(U \cup {x}))
    BY ONLY <1>a, x \in A, <2>2, <2>4, <2>5, <2>6
  <2>8. QED
    BY <2>7
<1>3. A \in Good
  <2> HIDE DEF Good
  <2> QED BY <1>1, <1>2, SubsetInduction
<1>4. Of(A) = R
  OBVIOUS
<1>5. QED
  BY <1>3, <1>4

-----------------------------------------------------------------------------
(* The waterfall                                                           *)

LEMMA BooksAreFinite ==
  ASSUME NEW kitty \in {"BASE", "NEW"}
  PROVE  /\ Book(kitty) \subseteq Accounts /\ IsFiniteSet(Book(kitty))
         /\ Cardinality(Book(kitty)) \in Nat
         /\ IsFiniteSet(Changes)
<1>1. Book(kitty) \subseteq Accounts
  BY DomainAssumption DEF Book
<1>2. IsFiniteSet(Book(kitty)) /\ Cardinality(Book(kitty)) \in Nat
  BY <1>1, FiguresAssumption, FS_Subset, FS_CardinalityType
<1>3. IsFiniteSet(Changes)
  <2>1. MaxChanges \in Int /\ 1 \in Int
    BY DomainAssumption
  <2>2. QED
    BY <2>1, FS_Interval DEF Changes
<1>4. QED
  BY <1>1, <1>2, <1>3

\* The kind of the contract a type of row comes down to.
KindOf(type) == IF type \in ChargeTypes THEN "ARC_CHANGE" ELSE type

LEMMA Kinds ==
  /\ \A type \in ChargeTypes : KindOf(type) = "ARC_CHANGE"
  /\ KindOf("DISCONNECTION") = "DISCONNECTION" /\ KindOf("NONE") = "NONE"
  /\ "DISCONNECTION" \notin ChargeTypes /\ "NONE" \notin ChargeTypes
  BY DEF KindOf, ChargeTypes

\* What account a adds to the charges of today: nothing once it is closed.
Carried(a) == IF status[a] = "TERMINATED" THEN 0 ELSE arc[a]

RowsInEffect(kitty) == {c \in RowsOf(kitty) : change[c].applied}

\* The change of charge that row c brings when it takes effect.
Delta ==
  [c \in Changes |-> IF change[c].type \in ChargeTypes THEN change[c].newArc - change[c].oldArc
                                                        ELSE 0 - change[c].oldArc]

LEMMA RowNumbers ==
  ASSUME LedgerTypeOK, NEW c \in Changes
  PROVE  /\ change[c].oldArc \in Nat /\ change[c].newArc \in Nat
         /\ change[c].type \in ChangeTypes \cup {"NONE"}
         /\ change[c].applied \in BOOLEAN
BY DEF LedgerTypeOK, Row

\* Account a is charged what its changes in effect make of its opening charge.
SumsUp(a) == Carried(a) = OpeningArc + SumFunctionOnSet(Delta, EffectsOn(a))

LEMMA EffectsAreRows ==
  ASSUME LedgerTypeOK, NEW a
  PROVE  /\ EffectsOn(a) \subseteq Changes /\ IsFiniteSet(EffectsOn(a))
         /\ \A c \in EffectsOn(a) : Delta[c] \in Int
         /\ SumFunctionOnSet(Delta, EffectsOn(a)) \in Int
<1>1. EffectsOn(a) \subseteq Changes /\ IsFiniteSet(Changes)
  BY BooksAreFinite DEF EffectsOn, Raised
<1>2. IsFiniteSet(EffectsOn(a))
  BY <1>1, FS_Subset
<1>3. \A c \in EffectsOn(a) : Delta[c] \in Int
  BY <1>1, RowNumbers DEF Delta
<1>4. QED
  BY <1>1, <1>2, <1>3, SumIsInt

\* The charges of a book have moved by what its rows in effect bring.
LEMMA ChargesMoveByRows ==
  ASSUME LedgerTypeOK, NEW kitty \in {"BASE", "NEW"}, \A a \in Book(kitty) : SumsUp(a)
  PROVE  SumFunctionOnSet([a \in Book(kitty) |-> Carried(a)], Book(kitty))
           = StartArc(kitty) + SumFunctionOnSet(Delta, RowsInEffect(kitty))
<1> DEFINE A == Book(kitty)
           E == RowsInEffect(kitty)
           now == [a \in A |-> Carried(a)]
           first == [a \in A |-> OpeningArc]
           gain == [a \in A |-> Carried(a) - OpeningArc]
           acct == [c \in Changes |-> change[c].acct]
           rows == [a \in A |-> EffectsOn(a)]
<1>1. /\ A \subseteq Accounts /\ IsFiniteSet(A) /\ Cardinality(A) \in Nat
      /\ E \subseteq Changes /\ IsFiniteSet(E)
  BY BooksAreFinite, FS_Subset DEF RowsInEffect, RowsOf, Raised
<1>2. \A a \in A : Carried(a) \in Nat /\ OpeningArc \in Nat
  BY <1>1, FiguresAssumption DEF Carried, LedgerTypeOK
<1>3. \A c \in E : Delta[c] \in Int /\ acct[c] \in A
  BY <1>1, RowNumbers DEF Delta, RowsInEffect, RowsOf
<1>4. SumFunctionOnSet(gain, A) = SumFunctionOnSet(Delta, E)
  <2>1. \A a \in A : \A c : c \in rows[a] <=> c \in E /\ acct[c] = a
    BY <1>1 DEF EffectsOn, RowsInEffect, RowsOf, Raised
  <2>2. \A a \in A : gain[a] = SumFunctionOnSet(Delta, rows[a])
    BY <1>2, EffectsAreRows DEF SumsUp
  <2> HIDE DEF A, E, gain, acct, rows
  <2>3. QED
    BY <1>1, <1>3, <2>1, <2>2, SumByAccount
<1>5. SumFunctionOnSet(gain, A) = SumFunctionOnSet(now, A) - SumFunctionOnSet(first, A)
  <2>1. \A a \in A : now[a] \in Int /\ first[a] \in Int /\ gain[a] = now[a] - first[a]
    BY <1>2
  <2> HIDE DEF A, now, first, gain
  <2>2. QED
    BY <1>1, <2>1, SumOfDifference
<1>6. SumFunctionOnSet(first, A) = OpeningArc * Cardinality(A)
  <2>1. \A a \in A : first[a] = OpeningArc
    OBVIOUS
  <2>2. OpeningArc \in Int
    BY FiguresAssumption
  <2> HIDE DEF A, first
  <2>3. QED
    BY <1>1, <2>1, <2>2, SumOfConstant
<1>7. SumFunctionOnSet(now, A) \in Int /\ SumFunctionOnSet(first, A) \in Int
  <2>1. \A a \in A : now[a] \in Int /\ first[a] \in Int
    BY <1>2
  <2> HIDE DEF A, now, first
  <2>2. QED
    BY <1>1, <2>1, SumIsInt
<1>8. SumFunctionOnSet(Delta, E) \in Int
  BY <1>1, <1>3, SumIsInt
<1>9. QED
  BY <1>4, <1>5, <1>6, <1>7, <1>8 DEF StartArc

\* What the rows in effect bring is what the buckets of the waterfall hold.
LEMMA RowsFillBuckets ==
  ASSUME LedgerTypeOK, NEW kitty \in {"BASE", "NEW"},
         \A c \in RowsInEffect(kitty) : c \in CountedRows(kitty),
         \A c \in CountedRows(kitty) : change[c].stage \in {"APPROVED", "NOT_REQUIRED"},
         Unsettled(kitty) \subseteq CountedRows(kitty)
  PROVE  /\ Moved(ArcChanges(kitty)) \in Int /\ Moved(Unsettled(kitty)) \in Int
         /\ Moved(Revisions(kitty)) \in Int /\ OldCharges(Terminations(kitty)) \in Int
         /\ SumFunctionOnSet(Delta, RowsInEffect(kitty))
              = Moved(ArcChanges(kitty)) - Moved(Unsettled(kitty))
                  + Moved(Revisions(kitty)) - OldCharges(Terminations(kitty))
<1> DEFINE E == RowsInEffect(kitty)
           EA == {c \in E : change[c].type = "ARC_CHANGE"}
           D == Terminations(kitty)
           U == Unsettled(kitty)
           R == Revisions(kitty)
           C == EA \cup R
           move == [c \in Changes |-> change[c].newArc - change[c].oldArc]
           old == [c \in Changes |-> change[c].oldArc]
           none == [c \in Changes |-> 0]
<1>1. CountedRows(kitty) \subseteq RowsOf(kitty) /\ RowsOf(kitty) \subseteq Raised /\ Raised \subseteq Changes
  BY DEF CountedRows, RowsOf, Raised
<1>2. /\ E \subseteq Changes /\ EA \subseteq Changes /\ R \subseteq Changes
      /\ D \subseteq Changes /\ U \subseteq Changes /\ C \subseteq Changes
      /\ IsFiniteSet(E) /\ IsFiniteSet(EA) /\ IsFiniteSet(R)
      /\ IsFiniteSet(D) /\ IsFiniteSet(U) /\ IsFiniteSet(C)
  BY <1>1, BooksAreFinite, FS_Subset DEF RowsInEffect, Terminations, Unsettled, Revisions
<1>3. /\ \A c \in Changes : move[c] \in Int /\ old[c] \in Int /\ none[c] \in Int /\ Delta[c] \in Int
      /\ \A c \in C : Delta[c] = move[c]
      /\ \A c \in D : Delta[c] = none[c] - old[c]
  BY <1>2, RowNumbers DEF Delta, Terminations, Revisions, ChargeTypes
<1>4. C \cup D = E /\ C \cap D = {} /\ EA \cap R = {}
  BY <1>1, RowNumbers DEF RowsInEffect, Terminations, Revisions, Raised, ChangeTypes, ChargeTypes
<1>5. ArcChanges(kitty) = EA \cup U /\ EA \cap U = {}
  BY <1>1 DEF ArcChanges, RowsInEffect, Unsettled
<1> HIDE DEF E, EA, R, D, U, none
<1>6. /\ Moved(EA \cup U) = SumFunctionOnSet(move, EA \cup U)
      /\ Moved(U) = SumFunctionOnSet(move, U)
      /\ Moved(R) = SumFunctionOnSet(move, R)
      /\ OldCharges(D) = SumFunctionOnSet(old, D)
  BY DEF Moved, OldCharges
<1> HIDE DEF move, old
<1>14. SumFunctionOnSet(move, C) = SumFunctionOnSet(move, EA) + SumFunctionOnSet(move, R)
  BY <1>2, <1>3, <1>4, SumOfUnion
<1> HIDE DEF C
<1>7. SumFunctionOnSet(Delta, E) = SumFunctionOnSet(Delta, C) + SumFunctionOnSet(Delta, D)
  BY <1>2, <1>3, <1>4, SumOfUnion
<1>8. SumFunctionOnSet(Delta, C) = SumFunctionOnSet(move, C)
  BY <1>2, <1>3, SumAgrees
<1>9. SumFunctionOnSet(Delta, D) = 0 - SumFunctionOnSet(old, D)
  <2>1. SumFunctionOnSet(Delta, D) = SumFunctionOnSet(none, D) - SumFunctionOnSet(old, D)
    BY <1>2, <1>3, SumOfDifference
  <2>2. SumFunctionOnSet(none, D) = 0 * Cardinality(D) /\ Cardinality(D) \in Nat
    <3>1. \A c \in D : none[c] = 0
      BY <1>2 DEF none
    <3>2. QED
      BY <1>2, <3>1, SumOfConstant, FS_CardinalityType
  <2>3. QED
    BY <2>1, <2>2
<1>10. SumFunctionOnSet(move, EA \cup U) = SumFunctionOnSet(move, EA) + SumFunctionOnSet(move, U)
  BY <1>2, <1>3, <1>5, SumOfUnion
<1>11. /\ SumFunctionOnSet(move, EA) \in Int /\ SumFunctionOnSet(move, U) \in Int
       /\ SumFunctionOnSet(move, R) \in Int /\ SumFunctionOnSet(old, D) \in Int
  BY <1>2, <1>3, SumIsInt
<1>12. /\ Moved(ArcChanges(kitty)) = SumFunctionOnSet(move, EA) + SumFunctionOnSet(move, U)
       /\ Moved(Unsettled(kitty)) = SumFunctionOnSet(move, U)
       /\ Moved(Revisions(kitty)) = SumFunctionOnSet(move, R)
       /\ OldCharges(Terminations(kitty)) = SumFunctionOnSet(old, D)
  BY <1>5, <1>6, <1>10 DEF U, D, R
<1>13. QED
  BY <1>7, <1>8, <1>9, <1>11, <1>12, <1>14 DEF E

\* So a dashboard reconciles when every account is charged its opening charge and its
\* changes in effect, closed accounts have their disconnection row, and the buckets
\* hold the rows in effect and the unsettled ones: for any number of accounts and rows,
\* rate revisions that move a charge and accounts the page does not list included.
THEOREM SummedBookReconciles ==
  ASSUME LedgerTypeOK, NEW kitty \in {"BASE", "NEW"},
         \A a \in Book(kitty) : SumsUp(a),
         \A a \in Terminated(kitty) : \E c \in EffectsOn(a) : change[c].type = "DISCONNECTION",
         \A c \in RowsInEffect(kitty) : c \in CountedRows(kitty),
         \A c \in CountedRows(kitty) : change[c].stage \in {"APPROVED", "NOT_REQUIRED"},
         Unsettled(kitty) \subseteq CountedRows(kitty)
  PROVE  Reconciles(kitty)
<1> DEFINE A == Book(kitty)
           T == Terminated(kitty)
           K == CurrentAccounts(kitty)
           P == ChurningAccounts(kitty)
           X == Unlisted(kitty)
           L == K \cup P
           now == [a \in A |-> Carried(a)]
<1>1. IsFiniteSet(A) /\ A \subseteq Accounts /\ Cardinality(A) \in Nat
  BY BooksAreFinite
<1>2. /\ T \subseteq A /\ K \subseteq A /\ P \subseteq A /\ X \subseteq A /\ L \subseteq A
      /\ K \cap P = {} /\ L \cap X = {} /\ (L \cup X) \cap T = {}
      /\ A = (L \cup X) \cup T
  BY DEF Terminated, CurrentAccounts, ChurningAccounts, Unlisted
<1>3. /\ IsFiniteSet(T) /\ IsFiniteSet(K) /\ IsFiniteSet(P) /\ IsFiniteSet(X)
      /\ IsFiniteSet(L) /\ IsFiniteSet(L \cup X)
  BY <1>1, <1>2, FS_Subset
<1>4. /\ \A a \in A : now[a] \in Int /\ arc[a] \in Int
      /\ \A a \in L \cup X : now[a] = arc[a]
      /\ \A a \in T : now[a] = 0
  BY <1>1, <1>2 DEF Carried, LedgerTypeOK, Terminated
<1>5. /\ SumFunctionOnSet(now, A) = Charges(K) + Charges(P) + Charges(X)
      /\ Charges(K) \in Int /\ Charges(P) \in Int /\ Charges(X) \in Int
  <2>7. SumFunctionOnSet(arc, L) = SumFunctionOnSet(arc, K) + SumFunctionOnSet(arc, P)
    <3> HIDE DEF A, K, P
    <3> QED BY <1>2, <1>3, <1>4, SumOfUnion
  <2> HIDE DEF A, T, K, P, X, L, now
  <2>1. SumFunctionOnSet(now, A) = SumFunctionOnSet(now, L \cup X) + SumFunctionOnSet(now, T)
    BY <1>1, <1>2, <1>3, <1>4, SumOfUnion
  <2>2. SumFunctionOnSet(now, L \cup X) = SumFunctionOnSet(arc, L \cup X)
    BY <1>2, <1>3, <1>4, SumAgrees
  <2>3. SumFunctionOnSet(arc, L \cup X) = SumFunctionOnSet(arc, L) + SumFunctionOnSet(arc, X)
    BY <1>2, <1>3, <1>4, SumOfUnion
  <2>4. SumFunctionOnSet(now, T) = 0
    <3>1. SumFunctionOnSet(now, T) = 0 * Cardinality(T) /\ Cardinality(T) \in Nat
      BY <1>3, <1>4, SumOfConstant, FS_CardinalityType
    <3>2. QED
      BY <3>1
  <2>5. /\ SumFunctionOnSet(arc, K) \in Int /\ SumFunctionOnSet(arc, P) \in Int
        /\ SumFunctionOnSet(arc, X) \in Int
    BY <1>2, <1>3, <1>4, SumIsInt
  <2>6. QED
    BY <2>1, <2>2, <2>3, <2>4, <2>5, <2>7 DEF Charges
<1>6. SumFunctionOnSet(now, A) = StartArc(kitty) + SumFunctionOnSet(Delta, RowsInEffect(kitty))
  BY ChargesMoveByRows
<1>7. ImportTerminated(kitty) = {}
  <2> SUFFICES ASSUME NEW a \in T PROVE a \in {change[c].acct : c \in Terminations(kitty)}
    BY DEF ImportTerminated
  <2>1. a \in A
    BY DEF Terminated
  <2>2. PICK c \in EffectsOn(a) : change[c].type = "DISCONNECTION"
    OBVIOUS
  <2>3. c \in RowsInEffect(kitty) /\ change[c].acct = a /\ change[c].applied
    BY <2>1 DEF EffectsOn, RowsInEffect, RowsOf
  <2>4. QED
    BY <2>2, <2>3 DEF Terminations
<1>8. Lost(kitty) = OldCharges(Terminations(kitty)) + 0 /\ StartArc(kitty) \in Int
  <2>1. OpeningArc * Cardinality({}) = 0 /\ OpeningArc * Cardinality(A) \in Int
    BY <1>1, FS_EmptySet, FiguresAssumption
  <2>2. QED
    BY <1>7, <2>1 DEF Lost, StartArc
<1>9. /\ Moved(ArcChanges(kitty)) \in Int /\ Moved(Unsettled(kitty)) \in Int
      /\ Moved(Revisions(kitty)) \in Int /\ OldCharges(Terminations(kitty)) \in Int
      /\ SumFunctionOnSet(Delta, RowsInEffect(kitty))
           = Moved(ArcChanges(kitty)) - Moved(Unsettled(kitty))
               + Moved(Revisions(kitty)) - OldCharges(Terminations(kitty))
  BY RowsFillBuckets
<1>10. QED
  BY <1>5, <1>6, <1>8, <1>9 DEF Reconciles, PendingNet, WaterfallEnd

\* Where account a stands follows from its one change in effect, if it has one.
Traced(a) ==
  /\ EffectsOn(a) = {} => Carried(a) = OpeningArc /\ status[a] # "TERMINATED"
  /\ \A c \in EffectsOn(a) :
       /\ change[c].oldArc = OpeningArc
       /\ Carried(a) = IF change[c].type \in ChargeTypes THEN change[c].newArc ELSE 0
       /\ change[c].type \in ChargeTypes => status[a] # "TERMINATED"

LEMMA TracedSumsUp ==
  ASSUME LedgerTypeOK, NEW a, Traced(a), \A c, d \in EffectsOn(a) : c = d
  PROVE  SumsUp(a)
<1> DEFINE sum == SumFunctionOnSet(Delta, EffectsOn(a))
<1>1. CASE EffectsOn(a) = {}
  <2>1. sum = 0
    BY <1>1, SumEmpty
  <2>2. QED
    BY <1>1, <2>1, FiguresAssumption DEF Traced, SumsUp
<1>2. CASE EffectsOn(a) # {}
  <2>1. PICK c \in EffectsOn(a) : EffectsOn(a) = {} \cup {c}
    BY <1>2
  <2>2. Delta[c] \in Int /\ c \in Changes
    BY <2>1, EffectsAreRows
  <2>3. SumFunctionOnSet(Delta, {} \cup {c}) = Delta[c] + SumFunctionOnSet(Delta, {})
    BY <2>2, SumAdds, FS_EmptySet
  <2>4. sum = Delta[c]
    BY <2>1, <2>2, <2>3, SumEmpty
  <2>5. Carried(a) = OpeningArc + Delta[c]
    BY <2>1, <2>2, RowNumbers, FiguresAssumption DEF Traced, Delta
  <2>6. QED
    BY <2>4, <2>5 DEF SumsUp
<1>3. QED
  BY <1>1, <1>2

\* So a book whose accounts are all traced reconciles.
LEMMA TracedBookReconciles ==
  ASSUME LedgerTypeOK, NEW kitty \in {"BASE", "NEW"}, OneEffectEach(kitty),
         \A a \in Book(kitty) : Traced(a),
         \A c \in RowsInEffect(kitty) : c \in CountedRows(kitty),
         \A c \in CountedRows(kitty) : change[c].stage \in {"APPROVED", "NOT_REQUIRED"},
         Unsettled(kitty) \subseteq CountedRows(kitty)
  PROVE  Reconciles(kitty)
<1>1. \A a \in Book(kitty) : SumsUp(a)
  BY TracedSumsUp DEF OneEffectEach
<1>2. ASSUME NEW a \in Terminated(kitty)
      PROVE  \E c \in EffectsOn(a) : change[c].type = "DISCONNECTION"
  <2>1. PICK c \in EffectsOn(a) : change[c].type \notin ChargeTypes
    BY DEF Terminated, Traced
  <2>2. change[c].type = "DISCONNECTION"
    BY <2>1, RowNumbers DEF EffectsOn, Raised, ChangeTypes
  <2>3. QED
    BY <2>1, <2>2
<1>3. QED
  BY <1>1, <1>2, SummedBookReconciles

-----------------------------------------------------------------------------
(* How an account stays traced                                             *)

\* A step keeps the rows that are there, and a row it inserts names the charge its
\* handler has read.
RowsMove ==
  /\ \A c \in Raised : /\ c \in Raised'
                       /\ change'[c].acct = change[c].acct
                       /\ change'[c].type = change[c].type
                       /\ change'[c].oldArc = change[c].oldArc
                       /\ change'[c].newArc = change[c].newArc
                       /\ change[c].applied => change'[c].applied
  /\ \A c \in Raised' \ Raised :
       \E s \in Inserting : req[s].a = change'[c].acct /\ req[s].arc = change'[c].oldArc

\* A handler about to insert a row has read the charge in this step, or had it.
ReadsMove ==
  \A s \in Inserting' : \/ s \in Inserting /\ req'[s] = req[s]
                        \/ req'[s].arc = arc[req'[s].a]

\* One handler goes on, and is about to insert a row only if it has just read the
\* charge.
LEMMA CallReads ==
  ASSUME req \in [Slots -> Request], NEW t \in Slots, NEW call, Resume(t, call),
         call.pc \in {"commitTx", "backfillTx"} => call.arc = arc[call.a]
  PROVE  ReadsMove
<1> SUFFICES ASSUME NEW s \in Inserting'
             PROVE  \/ s \in Inserting /\ req'[s] = req[s]
                    \/ req'[s].arc = arc[req'[s].a]
  BY DEF ReadsMove
<1>1. s \in Writers /\ s \in Slots /\ req'[s].pc \in {"commitTx", "backfillTx"}
  BY DEF Inserting, Slots
<1>2. CASE s = t
  BY <1>1, <1>2 DEF Resume
<1>3. CASE s # t
  BY <1>1, <1>3 DEF Resume, Inserting
<1>4. QED
  BY <1>2, <1>3

\* The charge of account a moves to what a row in effect asks for, and a row of one
\* of these types takes effect with it.
ChargeMoves(a, types) ==
  /\ arc'[a] # arc[a] => \E c \in EffectsOn(a)' : arc'[a] = TermsOf(c)'.charge
  /\ \A c \in EffectsOn(a)' \ EffectsOn(a) :
       change'[c].type \in types => arc'[a] = TermsOf(c)'.charge

LEMMA StaysTraced ==
  ASSUME NEW a, NEW types, IsTraced(a, types), RowsMove, ReadsMove, ChargeMoves(a, types)
  PROVE  IsTraced(a, types)'
<1>1. EffectsOn(a) \subseteq EffectsOn(a)'
  BY DEF RowsMove, EffectsOn
<1>2. ASSUME AtOpening(a)
      PROVE  \A c \in Raised' : change'[c].acct = a => change'[c].oldArc = OpeningArc
  BY <1>2 DEF AtOpening, RowsMove
<1>3. EffectsOn(a)' = {} => AtOpening(a)'
  <2> SUFFICES ASSUME EffectsOn(a)' = {} PROVE AtOpening(a)'
    OBVIOUS
  <2>1. AtOpening(a)
    BY <1>1 DEF IsTraced
  <2>2. arc'[a] = OpeningArc
    BY <2>1 DEF ChargeMoves, AtOpening
  <2>3. \A s \in Inserting' : req'[s].a = a => req'[s].arc = OpeningArc
    BY <2>1 DEF AtOpening, ReadsMove
  <2>4. QED
    BY <1>2, <2>1, <2>2, <2>3 DEF AtOpening
<1>4. ASSUME NEW c \in EffectsOn(a)', EffectsOn(a)' = {c} PROVE MovedOnce(a, c, types)'
  <2>1. c \in Raised' /\ change'[c].acct = a
    BY <1>4 DEF EffectsOn
  <2>2. CASE EffectsOn(a) = {}
    <3>1. AtOpening(a)
      BY <2>2 DEF IsTraced
    <3>2. QED
      BY <1>2, <1>4, <2>1, <2>2, <3>1 DEF ChargeMoves, MovedOnce
  <2>3. CASE EffectsOn(a) = {c}
    <3>1. MovedOnce(a, c, types) /\ c \in Raised
      BY <2>3 DEF IsTraced, EffectsOn
    <3>2. /\ change'[c].oldArc = change[c].oldArc /\ change'[c].type = change[c].type
          /\ TermsOf(c)'.charge = TermsOf(c).charge
      BY <3>1 DEF RowsMove, TermsOf
    <3>3. arc'[a] # arc[a] => arc'[a] = TermsOf(c)'.charge
      BY <1>4 DEF ChargeMoves
    <3>4. QED
      BY <3>1, <3>2, <3>3 DEF MovedOnce
  <2>4. QED
    BY <1>1, <1>4, <2>2, <2>3
<1>5. QED
  BY <1>3, <1>4 DEF IsTraced

\* One change at a time takes effect on account a, none twice, and each on the charge
\* it was raised on.
TakesEffectLive(a) ==
  /\ arc'[a] # arc[a] => EffectsOn(a)' # EffectsOn(a)
  /\ \A c \in EffectsOn(a)' \ EffectsOn(a) : change'[c].oldArc = arc[a]

OneAtATime(a) == \A c, d \in EffectsOn(a)' \ EffectsOn(a) : c = d

ChargeSumsUp(a) == arc[a] = OpeningArc + SumFunctionOnSet(Delta, EffectsOn(a))

LEMMA StaysSummed ==
  ASSUME LedgerTypeOK, LedgerTypeOK', NEW a \in Accounts, ChargeSumsUp(a),
         RowsMove, ChargeMoves(a, ChangeTypes), OneAtATime(a), TakesEffectLive(a)
  PROVE  ChargeSumsUp(a)'
<1> DEFINE E == EffectsOn(a)
           sum == SumFunctionOnSet(Delta, E)
<1>1. /\ E \subseteq Changes /\ IsFiniteSet(E) /\ sum \in Int
      /\ \A c \in E : Delta[c] \in Int
  BY EffectsAreRows
<1>2. E \subseteq E' /\ \A c \in E : Delta'[c] = Delta[c]
  BY <1>1 DEF RowsMove, EffectsOn, Delta
<1>3. SumFunctionOnSet(Delta', E) = sum
  <2> HIDE DEF E
  <2> QED BY <1>1, <1>2, SumAgrees
<1>4. arc[a] \in Nat /\ arc'[a] \in Nat /\ arc[a] = OpeningArc + sum /\ OpeningArc \in Int
  BY FiguresAssumption DEF LedgerTypeOK, ChargeSumsUp
<1>5. CASE E' = E
  <2>1. arc'[a] = arc[a]
    BY <1>5 DEF TakesEffectLive
  <2>2. SumFunctionOnSet(Delta', E') = sum
    BY <1>3, <1>5
  <2>3. QED
    BY <1>4, <2>1, <2>2 DEF ChargeSumsUp
<1>6. CASE E' # E
  <2>1. PICK c \in E' \ E : E' = E \cup {c}
    BY <1>2, <1>6 DEF OneAtATime
  <2>2. /\ c \in Raised' /\ c \in Changes /\ change'[c].oldArc = arc[a]
        /\ arc'[a] = TermsOf(c)'.charge
        /\ change'[c].newArc \in Nat
    <3>1. c \in Raised' /\ c \in Changes
      BY <2>1 DEF EffectsOn, Raised
    <3>2. change'[c].newArc \in Nat /\ change'[c].type \in ChangeTypes
      BY <3>1 DEF LedgerTypeOK, Row, Raised
    <3>3. QED
      BY <2>1, <3>1, <3>2 DEF TakesEffectLive, ChargeMoves
  <2>3. Delta'[c] = arc'[a] - arc[a]
    BY <1>4, <2>2 DEF Delta, TermsOf
  <2>4. Delta'[c] \in Int /\ \A y \in E : Delta'[y] \in Int
    BY <1>1, <1>2, <1>4, <2>3
  <2> HIDE DEF E
  <2>5. SumFunctionOnSet(Delta', E \cup {c}) = Delta'[c] + SumFunctionOnSet(Delta', E)
    BY <1>1, <2>1, <2>4, SumAdds
  <2>6. SumFunctionOnSet(Delta', E') = arc'[a] - arc[a] + sum
    BY <1>3, <2>1, <2>3, <2>5
  <2>7. arc'[a] = OpeningArc + SumFunctionOnSet(Delta', E')
    BY <1>1, <1>4, <2>6
  <2>8. QED
    BY <2>7 DEF ChargeSumsUp, E
<1>7. QED
  BY <1>5, <1>6
=============================================================================
