---------------------------- MODULE TotalsProofs ----------------------------
(***************************************************************************)
(* Facts about sums over finite sets.  Each is proved for the smallest set *)
(* that could refute it, since the subset ordering of a finite set is well *)
(* founded.                                                                *)
(***************************************************************************)
EXTENDS Totals, FiniteSetTheorems, WellFoundedInduction, TLAPS

\* A collection of subsets of a finite set has a smallest member.
LEMMA SmallestSet ==
  ASSUME NEW S, IsFiniteSet(S), NEW B \in SUBSET (SUBSET S), B # {}
  PROVE  \E T \in B : \A U \in SUBSET T : U # T => U \notin B
  <1>1. IsWellFoundedOn(StrictSubsetOrdering(S), SUBSET S)
    BY FS_StrictSubsetOrderingWellFounded, FS_FiniteSubsetsOfFinite, Zenon
  <1>2. PICK T \in B : \A U \in B : ~(<<U, T>> \in StrictSubsetOrdering(S))
    BY <1>1, WFMin, Zenon
  <1> QED
    BY <1>2 DEF StrictSubsetOrdering

-----------------------------------------------------------------------------
(* The function behind a sum.                                              *)

Chosen(s) == CHOOSE x \in s : TRUE

IsIter(h, f, S) ==
  h = [s \in SUBSET S |-> IF s = {} THEN 0 ELSE f[Chosen(s)] + h[s \ {Chosen(s)}]]

Iter(f, S) == CHOOSE h : IsIter(h, f, S)

LEMMA TotalIsIter ==
  ASSUME NEW f, NEW S
  PROVE  Total(f, S) = Iter(f, S)[S]
  BY DEF Total, MapThenSumSet, MapThenFoldSet, Iter, IsIter, Chosen

LEMMA ChosenIsIn ==
  ASSUME NEW s, s # {}
  PROVE  Chosen(s) \in s
  BY DEF Chosen

\* What such a function says of one set.
LEMMA IterAt ==
  ASSUME NEW f, NEW S, NEW h, IsIter(h, f, S), NEW s \in SUBSET S
  PROVE  h[s] = IF s = {} THEN 0 ELSE f[Chosen(s)] + h[s \ {Chosen(s)}]
  BY Zenon DEF IsIter

\* Two of them agree where both are defined.
LEMMA IterAgrees ==
  ASSUME NEW f, NEW S, IsFiniteSet(S), NEW T \in SUBSET S,
         NEW g, IsIter(g, f, S), NEW h, IsIter(h, f, T), NEW t \in SUBSET T
  PROVE  g[t] = h[t]
  <1> DEFINE B == {s \in SUBSET T : g[s] # h[s]}
  <1> SUFFICES ASSUME B # {} PROVE FALSE
    OBVIOUS
  <1>1. IsFiniteSet(T)
    BY FS_Subset
  <1>2. PICK s \in B : \A u \in SUBSET s : u # s => u \notin B
    BY <1>1, SmallestSet
  <1> DEFINE u == s \ {Chosen(s)}
  <1>3. s # {} => u \in SUBSET s /\ u # s /\ u \in SUBSET T
    BY ChosenIsIn
  <1>4. s # {} => g[u] = h[u]
    BY <1>2, <1>3
  <1>5. s \in SUBSET S /\ s \in SUBSET T
    OBVIOUS
  <1>6. /\ g[s] = IF s = {} THEN 0 ELSE f[Chosen(s)] + g[u]
        /\ h[s] = IF s = {} THEN 0 ELSE f[Chosen(s)] + h[u]
    BY <1>5, IterAt
  <1> QED
    BY <1>4, <1>6

\* Every finite set has one.
LEMMA IterExists ==
  ASSUME NEW f, NEW S, IsFiniteSet(S)
  PROVE  IsIter(Iter(f, S), f, S)
  <1> DEFINE B == {T \in SUBSET S : ~ \E h : IsIter(h, f, T)}
  <1> SUFFICES B = {}
    BY DEF Iter
  <1> SUFFICES ASSUME B # {} PROVE FALSE
    OBVIOUS
  <1>1. PICK T \in B : \A U \in SUBSET T : U # T => U \notin B
    <2>1. B \in SUBSET (SUBSET S)
      OBVIOUS
    <2> HIDE DEF B
    <2> QED
      BY <2>1, SmallestSet
  <1>2. \A U \in SUBSET T : U # T => IsIter(Iter(f, U), f, U) /\ IsFiniteSet(U)
    <2> SUFFICES ASSUME NEW U \in SUBSET T, U # T
                 PROVE  IsIter(Iter(f, U), f, U) /\ IsFiniteSet(U)
      OBVIOUS
    <2>1. U \in SUBSET S /\ U \notin B
      BY <1>1
    <2>2. \E h : IsIter(h, f, U)
      BY <2>1
    <2> QED
      BY <2>1, <2>2, FS_Subset DEF Iter
  <1> DEFINE rest(s) == s \ {Chosen(s)}
             value(s) == IF s = {} THEN 0 ELSE f[Chosen(s)] + Iter(f, rest(s))[rest(s)]
             h == [s \in SUBSET T |-> value(s)]
  <1>3. \A s \in SUBSET T : s # {} => rest(s) \in SUBSET s /\ rest(s) \in SUBSET T /\ rest(s) # s /\ rest(s) # T
    BY ChosenIsIn
  <1>4. \A s \in SUBSET T : s # {} => h[rest(s)] = Iter(f, rest(s))[rest(s)]
    <2> SUFFICES ASSUME NEW s \in SUBSET T, s # {}
                 PROVE  h[rest(s)] = Iter(f, rest(s))[rest(s)]
      OBVIOUS
    <2> DEFINE u == rest(s)
    <2>1. u \in SUBSET T /\ u # T
      BY <1>3
    <2>2. IsIter(Iter(f, u), f, u) /\ IsFiniteSet(u)
      BY <1>2, <2>1
    <2>3. h[u] = value(u)
      BY <2>1
    <2>4. Iter(f, u)[u] = IF u = {} THEN 0 ELSE f[Chosen(u)] + Iter(f, u)[rest(u)]
      <3> HIDE DEF u
      <3> QED
        BY <2>2, IterAt
    <2>5. u # {} => Iter(f, u)[rest(u)] = Iter(f, rest(u))[rest(u)]
      <3> SUFFICES ASSUME u # {}
                   PROVE  Iter(f, u)[rest(u)] = Iter(f, rest(u))[rest(u)]
        OBVIOUS
      <3>1. rest(u) \in SUBSET u /\ rest(u) \in SUBSET T /\ rest(u) # T
        BY <1>3, <2>1
      <3>2. IsIter(Iter(f, rest(u)), f, rest(u))
        BY <1>2, <3>1
      <3> HIDE DEF rest
      <3> QED
        BY <2>2, <3>1, <3>2, IterAgrees
    <2> HIDE DEF u, h, rest
    <2> QED
      BY <2>3, <2>4, <2>5 DEF u
  <1>5. \A s \in SUBSET T :
          value(s) = IF s = {} THEN 0 ELSE f[Chosen(s)] + h[s \ {Chosen(s)}]
    BY <1>4
  <1>6. IsIter(h, f, T)
    BY <1>5 DEF IsIter
  <1> QED
    BY <1>6

-----------------------------------------------------------------------------
(* Sums.                                                                   *)

\* A sum is that of a chosen element and the rest.
LEMMA TotalStep ==
  ASSUME NEW f, NEW S, IsFiniteSet(S)
  PROVE  Total(f, S) = IF S = {} THEN 0 ELSE f[Chosen(S)] + Total(f, S \ {Chosen(S)})
  <1> DEFINE rest == S \ {Chosen(S)}
  <1>1. Total(f, S) = IF S = {} THEN 0 ELSE f[Chosen(S)] + Iter(f, S)[rest]
    <2>1. IsIter(Iter(f, S), f, S) /\ S \in SUBSET S
      BY IterExists
    <2>2. Iter(f, S)[S] = IF S = {} THEN 0 ELSE f[Chosen(S)] + Iter(f, S)[rest]
      BY <2>1, IterAt, SMTT(30)
    <2> QED
      BY <2>2, TotalIsIter
  <1>2. rest \in SUBSET S /\ IsFiniteSet(rest)
    BY FS_Subset
  <1>3. Iter(f, S)[rest] = Iter(f, rest)[rest]
    <2> HIDE DEF rest
    <2> QED
      BY <1>2, IterExists, IterAgrees
  <1> QED
    BY <1>1, <1>3, TotalIsIter

\* Nothing adds up to zero.
LEMMA TotalOfNone ==
  ASSUME NEW f
  PROVE  Total(f, {}) = 0
  BY TotalStep, FS_EmptySet

\* A sum of integers is one.
LEMMA TotalType ==
  ASSUME NEW f, NEW S, IsFiniteSet(S), \A x \in S : f[x] \in Int
  PROVE  Total(f, S) \in Int
  <1> DEFINE B == {T \in SUBSET S : Total(f, T) \notin Int}
  <1> SUFFICES ASSUME B # {} PROVE FALSE
    OBVIOUS
  <1>1. PICK T \in B : \A U \in SUBSET T : U # T => U \notin B
    <2>1. B \in SUBSET (SUBSET S)
      OBVIOUS
    <2> HIDE DEF B
    <2> QED
      BY <2>1, SmallestSet
  <1>2. T \in SUBSET S /\ IsFiniteSet(T)
    BY FS_Subset
  <1> DEFINE x == Chosen(T)
  <1>3. T # {} => x \in T /\ f[x] \in Int /\ Total(f, T \ {x}) \in Int
    BY <1>1, ChosenIsIn
  <1>4. Total(f, T) = IF T = {} THEN 0 ELSE f[x] + Total(f, T \ {x})
    BY <1>2, TotalStep
  <1>5. Total(f, T) \notin Int
    OBVIOUS
  <1> HIDE DEF B, x
  <1> QED
    BY <1>3, <1>4, <1>5

\* Any element may be taken out of a sum.
LEMMA TotalRemove ==
  ASSUME NEW f, NEW S, IsFiniteSet(S), \A x \in S : f[x] \in Int, NEW a \in S
  PROVE  Total(f, S) = f[a] + Total(f, S \ {a})
  <1> DEFINE B == {T \in SUBSET S : \E x \in T : Total(f, T) # f[x] + Total(f, T \ {x})}
  <1> SUFFICES ASSUME B # {} PROVE FALSE
    OBVIOUS
  <1>1. PICK T \in B : \A U \in SUBSET T : U # T => U \notin B
    <2>1. B \in SUBSET (SUBSET S)
      OBVIOUS
    <2> HIDE DEF B
    <2> QED
      BY <2>1, SmallestSet
  <1>2. PICK x \in T : Total(f, T) # f[x] + Total(f, T \ {x})
    OBVIOUS
  <1> DEFINE c == Chosen(T)
  <1>3. \A U \in SUBSET T : IsFiniteSet(U) /\ Total(f, U) \in Int
    <2> SUFFICES ASSUME NEW U \in SUBSET T
                 PROVE  IsFiniteSet(U) /\ Total(f, U) \in Int
      OBVIOUS
    <2>1. U \in SUBSET S /\ IsFiniteSet(U)
      BY FS_Subset
    <2> QED
      BY <2>1, TotalType
  <1>4. c \in T /\ f[c] \in Int /\ f[x] \in Int
    BY ChosenIsIn
  <1>5. Total(f, T) = f[c] + Total(f, T \ {c})
    BY <1>3, TotalStep
  <1>6. x # c
    BY <1>2, <1>5
  <1> HIDE DEF c
  <1>7. \A U \in SUBSET T : U # T => \A y \in U : Total(f, U) = f[y] + Total(f, U \ {y})
    BY <1>1
  <1>8. Total(f, T \ {c}) = f[x] + Total(f, (T \ {c}) \ {x})
    BY <1>4, <1>6, <1>7
  <1>9. Total(f, T \ {x}) = f[c] + Total(f, (T \ {c}) \ {x})
    <2>1. Total(f, T \ {x}) = f[c] + Total(f, (T \ {x}) \ {c})
      BY <1>4, <1>6, <1>7
    <2>2. (T \ {c}) \ {x} = (T \ {x}) \ {c}
      OBVIOUS
    <2> QED
      BY <2>1, <2>2, Zenon
  <1>10. Total(f, (T \ {c}) \ {x}) \in Int
    BY <1>3
  <1> HIDE DEF B
  <1> QED
    BY <1>2, <1>4, <1>5, <1>8, <1>9, <1>10

\* A new element adds its value.
LEMMA TotalAdd ==
  ASSUME NEW f, NEW S, IsFiniteSet(S), NEW a, \A x \in S \cup {a} : f[x] \in Int, a \notin S
  PROVE  Total(f, S \cup {a}) = Total(f, S) + f[a]
  <1>1. IsFiniteSet(S \cup {a}) /\ (S \cup {a}) \ {a} = S /\ a \in S \cup {a}
    BY FS_AddElement
  <1>2. Total(f, S) \in Int /\ f[a] \in Int
    BY TotalType
  <1>3. Total(f, S \cup {a}) = f[a] + Total(f, (S \cup {a}) \ {a})
    BY <1>1, TotalRemove
  <1>4. Total(f, S \cup {a}) = f[a] + Total(f, S)
    BY <1>1, <1>3, Zenon
  <1> QED
    BY <1>2, <1>4

\* Functions with the same values have the same sum.
LEMMA TotalOfEqual ==
  ASSUME NEW f, NEW g, NEW S, IsFiniteSet(S), \A x \in S : f[x] = g[x]
  PROVE  Total(f, S) = Total(g, S)
  <1> DEFINE B == {T \in SUBSET S : Total(f, T) # Total(g, T)}
  <1> SUFFICES ASSUME B # {} PROVE FALSE
    OBVIOUS
  <1>1. PICK T \in B : \A U \in SUBSET T : U # T => U \notin B
    <2>1. B \in SUBSET (SUBSET S)
      OBVIOUS
    <2> HIDE DEF B
    <2> QED
      BY <2>1, SmallestSet
  <1>2. T \in SUBSET S /\ IsFiniteSet(T)
    BY FS_Subset
  <1> DEFINE x == Chosen(T)
  <1>3. T # {} => f[x] = g[x] /\ Total(f, T \ {x}) = Total(g, T \ {x})
    BY <1>1, ChosenIsIn
  <1>4. /\ Total(f, T) = IF T = {} THEN 0 ELSE f[x] + Total(f, T \ {x})
        /\ Total(g, T) = IF T = {} THEN 0 ELSE g[x] + Total(g, T \ {x})
    BY <1>2, TotalStep
  <1> QED
    BY <1>3, <1>4

\* A change of one value changes the sum alike.
LEMMA TotalOfChanged ==
  ASSUME NEW f, NEW g, NEW S, IsFiniteSet(S), NEW a \in S,
         \A x \in S : f[x] \in Int /\ g[x] \in Int,
         \A x \in S \ {a} : f[x] = g[x]
  PROVE  Total(g, S) = Total(f, S) - f[a] + g[a]
  <1>1. IsFiniteSet(S \ {a})
    BY FS_RemoveElement
  <1>2. Total(f, S \ {a}) = Total(g, S \ {a}) /\ Total(f, S \ {a}) \in Int
    BY <1>1, TotalOfEqual, TotalType
  <1>3. Total(f, S) = f[a] + Total(f, S \ {a}) /\ Total(g, S) = g[a] + Total(g, S \ {a})
    BY TotalRemove
  <1>4. f[a] \in Int /\ g[a] \in Int
    OBVIOUS
  <1> QED
    BY <1>2, <1>3, <1>4

\* Disjoint sets are summed apart.
LEMMA TotalUnion ==
  ASSUME NEW f, NEW S, NEW T, IsFiniteSet(S), IsFiniteSet(T), S \cap T = {},
         \A x \in S \cup T : f[x] \in Int
  PROVE  Total(f, S \cup T) = Total(f, S) + Total(f, T)
  <1> DEFINE B == {U \in SUBSET T : Total(f, S \cup U) # Total(f, S) + Total(f, U)}
  <1> SUFFICES ASSUME B # {} PROVE FALSE
    OBVIOUS
  <1>1. PICK U \in B : \A V \in SUBSET U : V # U => V \notin B
    <2>1. B \in SUBSET (SUBSET T)
      OBVIOUS
    <2> HIDE DEF B
    <2> QED
      BY <2>1, SmallestSet
  <1>2. U \in SUBSET T /\ IsFiniteSet(U) /\ IsFiniteSet(S \cup U)
    BY FS_Subset, FS_Union
  <1>3. Total(f, S) \in Int
    BY TotalType
  <1>4. U # {}
    <2> SUFFICES ASSUME U = {} PROVE FALSE
      OBVIOUS
    <2>1. S \cup U = S
      OBVIOUS
    <2>2. Total(f, S \cup U) = Total(f, S) /\ Total(f, U) = 0
      BY <2>1, TotalOfNone, Zenon
    <2> QED
      BY <1>3, <2>2
  <1> DEFINE x == Chosen(U)
             V == U \ {x}
  <1>5. x \in U /\ x \notin S /\ f[x] \in Int
    BY <1>4, ChosenIsIn
  <1>6. V \in SUBSET U /\ V # U /\ IsFiniteSet(V)
    BY <1>2, <1>5, FS_Subset
  <1>7. Total(f, S \cup V) = Total(f, S) + Total(f, V)
    BY <1>1, <1>6
  <1>8. Total(f, U) = f[x] + Total(f, V)
    BY <1>2, <1>5, TotalRemove
  <1>9. Total(f, S \cup U) = f[x] + Total(f, S \cup V)
    <2>1. (S \cup U) \ {x} = S \cup V
      BY <1>5
    <2>2. x \in S \cup U /\ \A y \in S \cup U : f[y] \in Int
      BY <1>5
    <2>3. Total(f, S \cup U) = f[x] + Total(f, (S \cup U) \ {x})
      <3> HIDE DEF x
      <3> QED
        BY <1>2, <2>2, TotalRemove
    <2> QED
      BY <2>1, <2>3, Zenon
  <1>10. Total(f, V) \in Int
    <2>1. \A y \in V : f[y] \in Int
      OBVIOUS
    <2> HIDE DEF V
    <2> QED
      BY <1>6, <2>1, TotalType
  <1>11. Total(f, S \cup U) # Total(f, S) + Total(f, U)
    OBVIOUS
  <1> HIDE DEF B, x, V
  <1> QED
    BY <1>3, <1>5, <1>7, <1>8, <1>9, <1>10, <1>11

\* What is counted with a minus is subtracted.
LEMMA TotalNegated ==
  ASSUME NEW f, NEW g, NEW S, IsFiniteSet(S), \A x \in S : f[x] \in Int /\ g[x] = - f[x]
  PROVE  Total(g, S) = - Total(f, S)
  <1> DEFINE B == {T \in SUBSET S : Total(g, T) # - Total(f, T)}
  <1> SUFFICES ASSUME B # {} PROVE FALSE
    OBVIOUS
  <1>1. PICK T \in B : \A U \in SUBSET T : U # T => U \notin B
    <2>1. B \in SUBSET (SUBSET S)
      OBVIOUS
    <2> HIDE DEF B
    <2> QED
      BY <2>1, SmallestSet
  <1>2. T \in SUBSET S /\ IsFiniteSet(T)
    BY FS_Subset
  <1> DEFINE x == Chosen(T)
             U == T \ {x}
  <1>3. /\ Total(f, T) = IF T = {} THEN 0 ELSE f[x] + Total(f, U)
        /\ Total(g, T) = IF T = {} THEN 0 ELSE g[x] + Total(g, U)
    BY <1>2, TotalStep
  <1>4. T # {} => x \in T /\ f[x] \in Int /\ g[x] = - f[x] /\ Total(g, U) = - Total(f, U)
    BY <1>1, ChosenIsIn
  <1>5. Total(f, U) \in Int
    <2>1. IsFiniteSet(U) /\ \A y \in U : f[y] \in Int
      BY <1>2, FS_Subset
    <2> HIDE DEF U
    <2> QED
      BY <2>1, TotalType
  <1>6. Total(g, T) # - Total(f, T)
    OBVIOUS
  <1> HIDE DEF B, x, U
  <1> QED
    BY <1>3, <1>4, <1>5, <1>6

\* Credits count for and the other entries against.
LEMMA TotalSigned ==
  ASSUME NEW f, NEW g, NEW P, NEW M, IsFiniteSet(P), IsFiniteSet(M), P \cap M = {},
         \A x \in P \cup M : f[x] \in Int,
         \A x \in P : g[x] = f[x],
         \A x \in M : g[x] = - f[x]
  PROVE  Total(g, P \cup M) = Total(f, P) - Total(f, M)
  <1>1. \A x \in P \cup M : g[x] \in Int
    OBVIOUS
  <1>2. Total(g, P \cup M) = Total(g, P) + Total(g, M)
    BY <1>1, TotalUnion
  <1>3. Total(g, P) = Total(f, P)
    BY TotalOfEqual
  <1>4. Total(g, M) = - Total(f, M)
    BY TotalNegated
  <1>5. Total(f, P) \in Int /\ Total(f, M) \in Int
    BY TotalType
  <1> QED
    BY <1>2, <1>3, <1>4, <1>5

-----------------------------------------------------------------------------
(* Orders.                                                                 *)

\* A set ordered by R has an element that R puts before all others.
LEMMA FirstOfFinite ==
  ASSUME NEW R, NEW S, IsFiniteSet(S), S # {},
         \A x \in S, y \in S : x = y \/ <<x, y>> \in R \/ <<y, x>> \in R,
         \A x \in S, y \in S, z \in S : <<x, y>> \in R /\ <<y, z>> \in R => <<x, z>> \in R
  PROVE  \E x \in S : \A y \in S : y = x \/ <<x, y>> \in R
  <1> DEFINE B == {T \in SUBSET S : T # {} /\ ~ \E x \in T : \A y \in T : y = x \/ <<x, y>> \in R}
  <1> SUFFICES ASSUME B # {} PROVE FALSE
    OBVIOUS
  <1>1. PICK T \in B : \A U \in SUBSET T : U # T => U \notin B
    <2>1. B \in SUBSET (SUBSET S)
      OBVIOUS
    <2> HIDE DEF B
    <2> QED
      BY <2>1, SmallestSet
  <1>2. PICK x \in T : TRUE
    OBVIOUS
  <1>3. CASE T = {x}
    BY <1>3
  <1>4. CASE T # {x}
    <2>1. T \ {x} \in SUBSET T /\ T \ {x} # T /\ T \ {x} # {} /\ T \ {x} \in SUBSET S
      BY <1>4
    <2>2. PICK z \in T \ {x} : \A y \in T \ {x} : y = z \/ <<z, y>> \in R
      BY <1>1, <2>1
    <2>3. CASE <<x, z>> \in R
      BY <2>2, <2>3
    <2>4. CASE <<z, x>> \in R
      BY <2>2, <2>4
    <2> QED
      BY <2>2, <2>3, <2>4
  <1> QED
    BY <1>3, <1>4
=============================================================================
