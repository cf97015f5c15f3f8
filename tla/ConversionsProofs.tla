------------------------- MODULE ConversionsProofs --------------------------
(***************************************************************************)
(* What the conversions yield for digits of any number: an amount is a     *)
(* natural number of cents, a conversion rounds to the nearest cent, and   *)
(* the check digits of an IBAN tell it from any other that differs in one  *)
(* character or in two neighbours swapped.                                 *)
(***************************************************************************)
EXTENDS Conversions, TotalsProofs, SequenceTheorems

-----------------------------------------------------------------------------
(* Folds over digits.  Value, Mod97 and the expansion of an IBAN's letters *)
(* are folds from the left; Step is what each of them does with a digit.   *)

Step(kind, n, d) ==
  CASE kind = "value" -> 10 * n + d
    [] kind = "remainder" -> (10 * n + d) % 97
    [] kind = "places" -> n \o Places(d)

\* All places but the last.
Rest(s) == s \ {Max(s)}

\* h folds the places of f in each subset of S.
IsFold(h, kind, base, f, S) ==
  h = [s \in SUBSET S |-> IF s = {} THEN base ELSE Step(kind, h[Rest(s)], f[Max(s)])]

Folded(kind, base, f, S) == CHOOSE h : IsFold(h, kind, base, f, S)

\* A set of places of a sequence.
Bounded(S) == \E n \in Nat : S \in SUBSET (1 .. n)

LEMMA BoundedSets ==
  ASSUME NEW S, Bounded(S)
  PROVE  IsFiniteSet(S) /\ \A T \in SUBSET S : Bounded(T)
  <1>1. PICK n \in Nat : S \in SUBSET (1 .. n)
    BY DEF Bounded
  <1>2. IsFiniteSet(1 .. n)
    BY FS_Interval
  <1>3. IsFiniteSet(S)
    BY <1>1, <1>2, FS_Subset
  <1>4. \A T \in SUBSET S : T \in SUBSET (1 .. n)
    BY <1>1
  <1> QED
    BY <1>3, <1>4 DEF Bounded

\* If it is not empty it has a last one.
LEMMA LastPlace ==
  ASSUME NEW s, Bounded(s), s # {}
  PROVE  /\ Max(s) \in s /\ \A y \in s : Max(s) >= y
         /\ Rest(s) \in SUBSET s /\ Rest(s) # s
  <1> DEFINE R == {p \in s \X s : p[1] > p[2]}
  <1>1. IsFiniteSet(s) /\ \A x \in s : x \in Int
    <2>1. IsFiniteSet(s)
      BY BoundedSets
    <2>2. \A x \in s : x \in Int
      BY DEF Bounded
    <2> QED
      BY <2>1, <2>2
  <1>2. \A x \in s, y \in s : x = y \/ <<x, y>> \in R \/ <<y, x>> \in R
    BY <1>1
  <1>3. \A x \in s, y \in s, z \in s : <<x, y>> \in R /\ <<y, z>> \in R => <<x, z>> \in R
    BY <1>1
  <1>4. \A x \in s, y \in s : y = x \/ <<x, y>> \in R => x >= y
    BY <1>1
  <1> HIDE DEF R
  <1>5. \E x \in s : \A y \in s : y = x \/ <<x, y>> \in R
    BY <1>1, <1>2, <1>3, FirstOfFinite
  <1>6. \E x \in s : \A y \in s : x >= y
    BY <1>4, <1>5
  <1>7. Max(s) \in s /\ \A y \in s : Max(s) >= y
    BY <1>6, Zenon DEF Max
  <1> QED
    BY <1>7 DEF Rest

\* What such a function says of one set.
LEMMA FoldAt ==
  ASSUME NEW kind, NEW base, NEW f, NEW S, NEW h, IsFold(h, kind, base, f, S), NEW s \in SUBSET S
  PROVE  h[s] = IF s = {} THEN base ELSE Step(kind, h[Rest(s)], f[Max(s)])
  BY Zenon DEF IsFold

\* Two of them agree where both are defined and fold the same digits.
LEMMA FoldAgrees ==
  ASSUME NEW kind, NEW base, NEW S, Bounded(S), NEW T \in SUBSET S,
         NEW f, NEW g, IsFold(g, kind, base, f, S),
         NEW e, NEW h, IsFold(h, kind, base, e, T),
         \A i \in T : f[i] = e[i], NEW t \in SUBSET T
  PROVE  g[t] = h[t]
  <1> DEFINE B == {s \in SUBSET T : g[s] # h[s]}
  <1> SUFFICES ASSUME B # {} PROVE FALSE
    OBVIOUS
  <1>1. IsFiniteSet(T)
    BY BoundedSets
  <1>2. PICK s \in B : \A u \in SUBSET s : u # s => u \notin B
    <2>1. B \in SUBSET (SUBSET T)
      OBVIOUS
    <2> HIDE DEF B
    <2> QED
      BY <1>1, <2>1, SmallestSet
  <1> DEFINE u == Rest(s)
  <1>3. s # {} => Max(s) \in s /\ u \in SUBSET s /\ u # s
    BY BoundedSets, LastPlace
  <1>4. s # {} => u \in SUBSET T /\ f[Max(s)] = e[Max(s)]
    BY <1>3
  <1>5. s # {} => g[u] = h[u]
    BY <1>2, <1>3, <1>4
  <1>6. s \in SUBSET S /\ s \in SUBSET T /\ g[s] # h[s]
    OBVIOUS
  <1> HIDE DEF B
  <1>7. g[s] = IF s = {} THEN base ELSE Step(kind, g[u], f[Max(s)])
    BY <1>6, FoldAt
  <1>8. h[s] = IF s = {} THEN base ELSE Step(kind, h[u], e[Max(s)])
    BY <1>6, FoldAt
  <1> HIDE DEF u
  <1> QED
    BY <1>4, <1>5, <1>6, <1>7, <1>8

\* There is one for every sequence.
LEMMA FoldExists ==
  ASSUME NEW kind, NEW base, NEW S, Bounded(S), NEW f
  PROVE  IsFold(Folded(kind, base, f, S), kind, base, f, S)
  <1> DEFINE F(T) == Folded(kind, base, f, T)
             B == {T \in SUBSET S : ~ \E h : IsFold(h, kind, base, f, T)}
  <1> SUFFICES B = {}
    BY DEF Folded
  <1> SUFFICES ASSUME B # {} PROVE FALSE
    OBVIOUS
  <1>1. PICK T \in B : \A U \in SUBSET T : U # T => U \notin B
    <2>1. B \in SUBSET (SUBSET S)
      OBVIOUS
    <2>2. IsFiniteSet(S)
      BY BoundedSets
    <2> HIDE DEF B
    <2> QED
      BY <2>1, <2>2, SmallestSet
  <1>2. \A U \in SUBSET T : U # T => IsFold(F(U), kind, base, f, U)
    <2> SUFFICES ASSUME NEW U \in SUBSET T, U # T
                 PROVE  IsFold(F(U), kind, base, f, U)
      OBVIOUS
    <2>1. U \in SUBSET S /\ U \notin B
      BY <1>1
    <2>2. \E h : IsFold(h, kind, base, f, U)
      BY <2>1
    <2> QED
      BY <2>2 DEF Folded
  <1> DEFINE value(s) == IF s = {} THEN base ELSE Step(kind, F(Rest(s))[Rest(s)], f[Max(s)])
             h == [s \in SUBSET T |-> value(s)]
  <1>3. \A s \in SUBSET T : s # {} => Rest(s) \in SUBSET s /\ Rest(s) \in SUBSET T /\ Rest(s) # T
    <2> SUFFICES ASSUME NEW s \in SUBSET T, s # {}
                 PROVE  Rest(s) \in SUBSET s /\ Rest(s) \in SUBSET T /\ Rest(s) # T
      OBVIOUS
    <2>1. Rest(s) \in SUBSET s /\ Rest(s) # s
      BY BoundedSets, LastPlace
    <2> QED
      BY <2>1
  <1>4. \A s \in SUBSET T : s # {} => h[Rest(s)] = F(Rest(s))[Rest(s)]
    <2> SUFFICES ASSUME NEW s \in SUBSET T, s # {}
                 PROVE  h[Rest(s)] = F(Rest(s))[Rest(s)]
      OBVIOUS
    <2> DEFINE u == Rest(s)
    <2>1. u \in SUBSET T /\ u # T /\ u \in SUBSET u
      BY <1>3
    <2>2. IsFold(F(u), kind, base, f, u)
      BY <1>2, <2>1
    <2>3. h[u] = value(u)
      BY <2>1
    <2> HIDE DEF u, h, F, value
    <2>4. F(u)[u] = IF u = {} THEN base ELSE Step(kind, F(u)[Rest(u)], f[Max(u)])
      BY <2>1, <2>2, FoldAt
    <2>5. u # {} => F(u)[Rest(u)] = F(Rest(u))[Rest(u)]
      <3> SUFFICES ASSUME u # {}
                   PROVE  F(u)[Rest(u)] = F(Rest(u))[Rest(u)]
        OBVIOUS
      <3>1. Rest(u) \in SUBSET u /\ Rest(u) \in SUBSET T /\ Rest(u) # T
        BY <1>3, <2>1
      <3>2. IsFold(F(Rest(u)), kind, base, f, Rest(u))
        BY <1>2, <3>1
      <3>3. Bounded(u) /\ Rest(u) \in SUBSET Rest(u)
        BY <2>1, BoundedSets
      <3> QED
        BY <2>2, <3>1, <3>2, <3>3, FoldAgrees, SMTT(30)
    <2> QED
      BY <2>3, <2>4, <2>5 DEF u, value
  <1>5. \A s \in SUBSET T :
          value(s) = IF s = {} THEN base ELSE Step(kind, h[Rest(s)], f[Max(s)])
    BY <1>4
  <1>6. IsFold(h, kind, base, f, T)
    BY <1>5 DEF IsFold
  <1> QED
    BY <1>6

\* The fold of a whole sequence.
Fold(kind, base, s) == Folded(kind, base, s, DOMAIN s)[DOMAIN s]

\* Nothing is folded to the base.
LEMMA FoldOfNone ==
  ASSUME NEW kind, NEW base, NEW s, DOMAIN s = {}
  PROVE  Fold(kind, base, s) = base
  <1>1. IsFold(Folded(kind, base, s, {}), kind, base, s, {})
    <2>1. Bounded({})
      BY DEF Bounded
    <2> QED
      BY <2>1, FoldExists
  <1>2. Folded(kind, base, s, {})[{}] = base
    BY <1>1, FoldAt, SMTT(30)
  <1> QED
    BY <1>2 DEF Fold

\* A digit more is a step more.
LEMMA FoldAppend ==
  ASSUME NEW kind, NEW base, NEW D, NEW s \in Seq(D), NEW d \in D
  PROVE  Fold(kind, base, Append(s, d)) = Step(kind, Fold(kind, base, s), d)
  <1> DEFINE t == Append(s, d)
             n == Len(s)
             S == 1 .. n
             T == 1 .. n + 1
  <1>1. /\ n \in Nat /\ DOMAIN s = S /\ DOMAIN t = T
        /\ t[n + 1] = d /\ \A i \in S : t[i] = s[i]
    OBVIOUS
  <1> DEFINE g == Folded(kind, base, t, T)
             h == Folded(kind, base, s, S)
  <1>2. IsFold(g, kind, base, t, T) /\ IsFold(h, kind, base, s, S)
    <2>1. Bounded(S) /\ Bounded(T)
      BY <1>1 DEF Bounded
    <2> HIDE DEF t, n, S, T
    <2> QED
      BY <1>1, <2>1, FoldExists
  <1> HIDE DEF t, n
  <1>3. S \in SUBSET T /\ S \in SUBSET S /\ T \in SUBSET T /\ T # {} /\ n + 1 \in Nat
    <2>1. n + 1 \in T /\ \A i \in S : i \in T
      BY <1>1
    <2> HIDE DEF S, T
    <2> QED
      BY <1>1, <2>1
  <1> HIDE DEF g, h, S
  <1>4. g[S] = h[S]
    <2>1. n + 1 \in Nat /\ T \in SUBSET (1 .. n + 1)
      BY <1>3
    <2> HIDE DEF T
    <2>2. Bounded(T)
      BY <2>1 DEF Bounded
    <2>3. \A i \in S : t[i] = s[i]
      BY <1>1
    <2> QED
      BY <1>2, <1>3, <2>2, <2>3, FoldAgrees, SMTT(30)
  <1>5. Max(T) = n + 1 /\ Rest(T) = S
    <2>1. Max(T) \in T /\ \A y \in T : Max(T) >= y
      BY <1>1, <1>3, LastPlace DEF Bounded
    <2>2. Max(T) = n + 1
      <3> DEFINE m == Max(T)
      <3>1. m \in T /\ m >= n + 1
        BY <1>1, <2>1
      <3> HIDE DEF m
      <3> QED
        BY <1>1, <3>1 DEF m
    <2> QED
      BY <1>1, <2>2 DEF Rest, S
  <1> HIDE DEF T
  <1>6. g[T] = Step(kind, g[S], d)
    <2>1. g[T] = Step(kind, g[Rest(T)], t[Max(T)])
      BY <1>2, <1>3, FoldAt
    <2> QED
      BY <1>1, <1>5, <2>1
  <1>7. Fold(kind, base, t) = g[T] /\ Fold(kind, base, s) = h[S]
    BY <1>1 DEF Fold, g, h
  <1> QED
    BY <1>4, <1>6, <1>7 DEF t
-----------------------------------------------------------------------------
(* The folds of the conversions.                                           *)

\* Where a letter becomes two digits.
Expand(s) == FoldLeft(LAMBDA t, v : t \o Places(v), <<>>, s)

LEMMA ValueIsFold ==
  ASSUME NEW D, NEW s \in Seq(D)
  PROVE  Value(s) = Fold("value", 0, s)
  <1> DEFINE S == DOMAIN s
             P(h) == h = [t \in SUBSET S |->
                            IF t = {} THEN 0 ELSE 10 * h[t \ {Max(t)}] + s[Max(t)]]
             c == CHOOSE h : P(h)
  <1>1. Bounded(S) /\ S \in SUBSET S
    BY DEF Bounded
  <1>2. \A h : P(h) <=> IsFold(h, "value", 0, s, S)
    BY DEF IsFold, Step, Rest
  <1>3. Value(s) = c[S]
    BY DEF Value, FoldLeft, MapThenFoldSet
  <1> HIDE DEF S, P
  <1>4. IsFold(Folded("value", 0, s, S), "value", 0, s, S)
    BY <1>1, FoldExists
  <1>5. P(c)
    BY <1>2, <1>4
  <1>6. IsFold(c, "value", 0, s, S)
    BY <1>2, <1>5
  <1> HIDE DEF c
  <1>7. c[S] = Folded("value", 0, s, S)[S]
    BY <1>1, <1>4, <1>6, FoldAgrees
  <1> QED
    BY <1>3, <1>7 DEF Fold, S

LEMMA Mod97IsFold ==
  ASSUME NEW D, NEW s \in Seq(D)
  PROVE  Mod97(s) = Fold("remainder", 0, s)
  <1> DEFINE S == DOMAIN s
             P(h) == h = [t \in SUBSET S |->
                            IF t = {} THEN 0 ELSE (10 * h[t \ {Max(t)}] + s[Max(t)]) % 97]
             c == CHOOSE h : P(h)
  <1>1. Bounded(S) /\ S \in SUBSET S
    BY DEF Bounded
  <1>2. \A h : P(h) <=> IsFold(h, "remainder", 0, s, S)
    BY DEF IsFold, Step, Rest
  <1>3. Mod97(s) = c[S]
    BY DEF Mod97, FoldLeft, MapThenFoldSet
  <1> HIDE DEF S, P
  <1>4. IsFold(Folded("remainder", 0, s, S), "remainder", 0, s, S)
    BY <1>1, FoldExists
  <1>5. P(c)
    BY <1>2, <1>4
  <1>6. IsFold(c, "remainder", 0, s, S)
    BY <1>2, <1>5
  <1> HIDE DEF c
  <1>7. c[S] = Folded("remainder", 0, s, S)[S]
    BY <1>1, <1>4, <1>6, FoldAgrees
  <1> QED
    BY <1>3, <1>7 DEF Fold, S

LEMMA ExpandIsFold ==
  ASSUME NEW D, NEW s \in Seq(D)
  PROVE  Expand(s) = Fold("places", <<>>, s)
  <1> DEFINE S == DOMAIN s
             P(h) == h = [t \in SUBSET S |->
                            IF t = {} THEN <<>> ELSE h[t \ {Max(t)}] \o Places(s[Max(t)])]
             c == CHOOSE h : P(h)
  <1>1. Bounded(S) /\ S \in SUBSET S
    BY DEF Bounded
  <1>2. \A h : P(h) <=> IsFold(h, "places", <<>>, s, S)
    BY DEF IsFold, Step, Rest
  <1>3. Expand(s) = c[S]
    BY DEF Expand, FoldLeft, MapThenFoldSet
  <1> HIDE DEF S, P
  <1>4. IsFold(Folded("places", <<>>, s, S), "places", <<>>, s, S)
    BY <1>1, FoldExists
  <1>5. P(c)
    BY <1>2, <1>4
  <1>6. IsFold(c, "places", <<>>, s, S)
    BY <1>2, <1>5
  <1> HIDE DEF c
  <1>7. c[S] = Folded("places", <<>>, s, S)[S]
    BY <1>1, <1>4, <1>6, FoldAgrees
  <1> QED
    BY <1>3, <1>7 DEF Fold, S

LEMMA ValueSteps ==
  /\ Value(<<>>) = 0
  /\ \A D : \A s \in Seq(D), d \in D : Value(Append(s, d)) = 10 * Value(s) + d
  <1>1. Value(<<>>) = 0
    <2>1. <<>> \in Seq({}) /\ DOMAIN <<>> = {}
      OBVIOUS
    <2>2. Value(<<>>) = Fold("value", 0, <<>>)
      BY <2>1, ValueIsFold
    <2>3. Fold("value", 0, <<>>) = 0
      BY <2>1, FoldOfNone
    <2> QED
      BY <2>2, <2>3
  <1>2. ASSUME NEW D, NEW s \in Seq(D), NEW d \in D
        PROVE  Value(Append(s, d)) = 10 * Value(s) + d
    <2>1. Append(s, d) \in Seq(D)
      OBVIOUS
    <2>2. Value(Append(s, d)) = Fold("value", 0, Append(s, d)) /\ Value(s) = Fold("value", 0, s)
      BY <2>1, ValueIsFold
    <2>3. Fold("value", 0, Append(s, d)) = Step("value", Fold("value", 0, s), d)
      BY FoldAppend
    <2> QED
      BY <2>2, <2>3 DEF Step
  <1> QED
    BY <1>1, <1>2

LEMMA Mod97Steps ==
  /\ Mod97(<<>>) = 0
  /\ \A D : \A s \in Seq(D), d \in D : Mod97(Append(s, d)) = (10 * Mod97(s) + d) % 97
  <1>1. Mod97(<<>>) = 0
    <2>1. <<>> \in Seq({}) /\ DOMAIN <<>> = {}
      OBVIOUS
    <2>2. Mod97(<<>>) = Fold("remainder", 0, <<>>)
      BY <2>1, Mod97IsFold
    <2>3. Fold("remainder", 0, <<>>) = 0
      BY <2>1, FoldOfNone
    <2> QED
      BY <2>2, <2>3
  <1>2. ASSUME NEW D, NEW s \in Seq(D), NEW d \in D
        PROVE  Mod97(Append(s, d)) = (10 * Mod97(s) + d) % 97
    <2>1. Append(s, d) \in Seq(D)
      OBVIOUS
    <2>2. /\ Mod97(Append(s, d)) = Fold("remainder", 0, Append(s, d))
          /\ Mod97(s) = Fold("remainder", 0, s)
      BY <2>1, Mod97IsFold
    <2>3. Fold("remainder", 0, Append(s, d)) = Step("remainder", Fold("remainder", 0, s), d)
      BY FoldAppend
    <2> QED
      BY <2>2, <2>3 DEF Step
  <1> QED
    BY <1>1, <1>2

LEMMA ExpandSteps ==
  /\ Expand(<<>>) = <<>>
  /\ \A D : \A s \in Seq(D), d \in D : Expand(Append(s, d)) = Expand(s) \o Places(d)
  <1>1. Expand(<<>>) = <<>>
    <2>1. <<>> \in Seq({}) /\ DOMAIN <<>> = {}
      OBVIOUS
    <2>2. Expand(<<>>) = Fold("places", <<>>, <<>>)
      BY <2>1, ExpandIsFold
    <2>3. Fold("places", <<>>, <<>>) = <<>>
      BY <2>1, FoldOfNone
    <2> QED
      BY <2>2, <2>3
  <1>2. ASSUME NEW D, NEW s \in Seq(D), NEW d \in D
        PROVE  Expand(Append(s, d)) = Expand(s) \o Places(d)
    <2>1. Append(s, d) \in Seq(D)
      OBVIOUS
    <2>2. /\ Expand(Append(s, d)) = Fold("places", <<>>, Append(s, d))
          /\ Expand(s) = Fold("places", <<>>, s)
      BY <2>1, ExpandIsFold
    <2>3. Fold("places", <<>>, Append(s, d)) = Step("places", Fold("places", <<>>, s), d)
      BY FoldAppend
    <2> QED
      BY <2>2, <2>3 DEF Step
  <1> QED
    BY <1>1, <1>2

-----------------------------------------------------------------------------
(* What holds of the empty sequence and of every sequence with one more    *)
(* element holds of all: a shortest one would refute it otherwise.         *)

LEMMA SmallestNumber ==
  ASSUME NEW B \in SUBSET Nat, B # {}
  PROVE  \E n \in B : \A m \in B : n <= m
  <1>1. PICK b \in B : TRUE
    OBVIOUS
  <1> DEFINE C == B \cap (0 .. b)
             R == {p \in C \X C : p[1] < p[2]}
  <1>2. b \in Nat /\ b \in C /\ \A x \in C : x \in Int
    OBVIOUS
  <1>3. IsFiniteSet(C)
    <2>1. IsFiniteSet(0 .. b)
      BY FS_Interval
    <2> QED
      BY <2>1, FS_Subset
  <1>4. \A m \in B : m \in C \/ b < m
    OBVIOUS
  <1>5. C \subseteq B
    OBVIOUS
  <1> HIDE DEF C
  <1>6. \A x \in C, y \in C : x = y \/ <<x, y>> \in R \/ <<y, x>> \in R
    BY <1>2
  <1>7. \A x \in C, y \in C, z \in C : <<x, y>> \in R /\ <<y, z>> \in R => <<x, z>> \in R
    BY <1>2
  <1>8. \A x \in C, y \in C : y = x \/ <<x, y>> \in R => x <= y
    BY <1>2
  <1> HIDE DEF R
  <1>9. PICK n \in C : \A y \in C : y = n \/ <<n, y>> \in R
    <2>1. C # {}
      BY <1>2
    <2> QED
      BY <1>3, <1>6, <1>7, <2>1, FirstOfFinite, Zenon
  <1>10. n \in B /\ n <= b /\ \A y \in C : n <= y
    BY <1>2, <1>5, <1>8, <1>9
  <1>11. \A m \in B : m \in Int
    OBVIOUS
  <1> QED
    BY <1>2, <1>4, <1>10, <1>11

LEMMA NoShortest ==
  ASSUME NEW D, NEW B, B \subseteq Seq(D), <<>> \notin B,
         \A t \in Seq(D), d \in D : Append(t, d) \in B => t \in B
  PROVE  B = {}
  <1> SUFFICES ASSUME B # {} PROVE FALSE
    OBVIOUS
  <1> DEFINE N == {n \in Nat : \E s \in B : Len(s) = n}
  <1>1. N \in SUBSET Nat /\ N # {}
    <2>1. \A s \in B : Len(s) \in Nat
      BY LenProperties
    <2> QED
      BY <2>1
  <1>2. PICK n \in N : \A m \in N : n <= m
    <2> HIDE DEF N
    <2> QED
      BY <1>1, SmallestNumber
  <1>3. PICK s \in B : Len(s) = n
    OBVIOUS
  <1>4. s \in Seq(D) /\ s # <<>>
    OBVIOUS
  <1>5. PICK t \in Seq(D), d \in D : s = Append(t, d)
    BY <1>4, SequenceEmptyOrAppend
  <1>6. t \in B
    BY <1>3, <1>5
  <1>7. n <= Len(t)
    BY <1>2, <1>6
  <1>8. Len(s) = Len(t) + 1 /\ Len(t) \in Nat
    BY <1>5, AppendProperties, LenProperties
  <1> QED
    BY <1>3, <1>7, <1>8

-----------------------------------------------------------------------------
(* What they yield.                                                        *)

LEMMA ValueType ==
  ASSUME NEW s \in Seq(Nat)
  PROVE  Value(s) \in Nat
  <1> DEFINE B == {t \in Seq(Nat) : Value(t) \notin Nat}
  <1>1. <<>> \notin B
    BY ValueSteps
  <1>2. ASSUME NEW t \in Seq(Nat), NEW d \in Nat, Value(t) \in Nat
        PROVE  Value(Append(t, d)) \in Nat
    <2>1. Value(Append(t, d)) = 10 * Value(t) + d
      BY ValueSteps
    <2> QED
      BY <1>2, <2>1
  <1>3. \A t \in Seq(Nat), d \in Nat : Append(t, d) \in B => t \in B
    BY <1>2
  <1>4. B \subseteq Seq(Nat)
    OBVIOUS
  <1>5. B = {}
    <2> HIDE DEF B
    <2> QED
      BY <1>1, <1>3, <1>4, NoShortest
  <1> QED
    BY <1>5

LEMMA Mod97Type ==
  ASSUME NEW s \in Seq(Nat)
  PROVE  Mod97(s) \in 0 .. 96
  <1> DEFINE B == {t \in Seq(Nat) : Mod97(t) \notin 0 .. 96}
  <1>1. <<>> \notin B
    BY Mod97Steps
  <1>2. ASSUME NEW t \in Seq(Nat), NEW d \in Nat, Mod97(t) \in 0 .. 96
        PROVE  Mod97(Append(t, d)) \in 0 .. 96
    <2> DEFINE r == Mod97(t)
    <2>1. Mod97(Append(t, d)) = (10 * r + d) % 97
      BY Mod97Steps
    <2>2. r \in 0 .. 96
      BY <1>2
    <2> HIDE DEF r
    <2>3. (10 * r + d) % 97 \in 0 .. 96
      BY <2>2
    <2> QED
      BY <2>1, <2>3
  <1>3. \A t \in Seq(Nat), d \in Nat : Append(t, d) \in B => t \in B
    BY <1>2
  <1>4. B \subseteq Seq(Nat)
    OBVIOUS
  <1>5. B = {}
    <2> HIDE DEF B
    <2> QED
      BY <1>1, <1>3, <1>4, NoShortest
  <1> QED
    BY <1>5

\* The characters of an IBAN.
Chars == 0 .. 35

LEMMA ExpandType ==
  ASSUME NEW s \in Seq(Chars)
  PROVE  Expand(s) \in Seq(Nat)
  <1> DEFINE B == {t \in Seq(Chars) : Expand(t) \notin Seq(Nat)}
  <1>1. <<>> \notin B
    <2>1. Expand(<<>>) = <<>>
      BY ExpandSteps
    <2>2. <<>> \in Seq(Nat)
      OBVIOUS
    <2> QED
      BY <2>1, <2>2
  <1>2. ASSUME NEW t \in Seq(Chars), NEW d \in Chars, Expand(t) \in Seq(Nat)
        PROVE  Expand(Append(t, d)) \in Seq(Nat)
    <2>1. Expand(Append(t, d)) = Expand(t) \o Places(d)
      BY ExpandSteps
    <2>2. Places(d) \in Seq(Nat)
      BY DEF Places, Chars
    <2> QED
      BY <1>2, <2>1, <2>2
  <1>3. \A t \in Seq(Chars), d \in Chars : Append(t, d) \in B => t \in B
    BY <1>2
  <1>4. B \subseteq Seq(Chars)
    OBVIOUS
  <1>5. B = {}
    <2> HIDE DEF B
    <2> QED
      BY <1>1, <1>3, <1>4, NoShortest
  <1> QED
    BY <1>5

-----------------------------------------------------------------------------
(* Amounts and currencies.                                                 *)

\* An amount that passes the pattern is a natural number of cents.
LEMMA AmountIsNatural ==
  ASSUME NEW a \in Amount, WellFormed(a)
  PROVE  ParseAmountToCents(a) \in Nat
  <1>1. a.whole \in Seq(Digits) /\ a.fraction \in Seq(Digits) /\ Digits \subseteq Nat
    BY DEF Amount, Digits
  <1>2. Value(a.whole) \in Nat
    <2>1. a.whole \in Seq(Nat)
      BY <1>1, SeqMonotonic
    <2> QED
      BY <2>1, ValueType
  <1>3. \A i \in 1 .. Len(a.fraction) : a.fraction[i] \in Nat
    <2>1. \A i \in 1 .. Len(a.fraction) : a.fraction[i] \in Digits
      BY <1>1, ElementOfSeq
    <2> QED
      BY <1>1, <2>1
  <1>4. Len(a.fraction) \in Nat
    BY <1>1
  <1>5. (IF Len(a.fraction) >= 1 THEN a.fraction[1] ELSE 0) \in Nat
    BY <1>3, <1>4
  <1>6. (IF Len(a.fraction) = 2 THEN a.fraction[2] ELSE 0) \in Nat
    BY <1>3, <1>4
  <1> DEFINE v == Value(a.whole)
             x == IF Len(a.fraction) >= 1 THEN a.fraction[1] ELSE 0
             y == IF Len(a.fraction) = 2 THEN a.fraction[2] ELSE 0
  <1>7. ParseAmountToCents(a) = 100 * v + 10 * x + y
    BY DEF ParseAmountToCents
  <1>8. v \in Nat /\ x \in Nat /\ y \in Nat
    BY <1>2, <1>5, <1>6
  <1> HIDE DEF v, x, y
  <1> QED
    BY <1>7, <1>8

\* The rates of the pairs.
LEMMA FxRates ==
  ASSUME NEW from \in Currencies, NEW to \in Currencies
  PROVE  FxRate(from, to) \in {<<1, 1>>, <<109, 100>>, <<86, 100>>, <<79, 100>>,
                               <<100, 109>>, <<100, 86>>, <<100, 79>>}
  BY DEF FxRate, Rates, Currencies

\* A conversion is a natural number of cents, and the nearest one to the exact product.
LEMMA ConversionRounds ==
  ASSUME NEW from \in Currencies, NEW to \in Currencies, NEW cents \in Nat
  PROVE  /\ ConvertFx(from, to, cents) \in Nat
         /\ LET rate == FxRate(from, to)
            IN 2 * (ConvertFx(from, to, cents) * rate[2] - cents * rate[1]) \in 1 - rate[2] .. rate[2]
  <1>1. CASE FxRate(from, to) = <<1, 1>>
    BY <1>1 DEF ConvertFx
  <1>2. CASE FxRate(from, to) = <<109, 100>>
    BY <1>2 DEF ConvertFx
  <1>3. CASE FxRate(from, to) = <<86, 100>>
    BY <1>3 DEF ConvertFx
  <1>4. CASE FxRate(from, to) = <<79, 100>>
    BY <1>4 DEF ConvertFx
  <1>5. CASE FxRate(from, to) = <<100, 109>>
    BY <1>5 DEF ConvertFx
  <1>6. CASE FxRate(from, to) = <<100, 86>>
    BY <1>6 DEF ConvertFx
  <1>7. CASE FxRate(from, to) = <<100, 79>>
    BY <1>7 DEF ConvertFx
  <1> QED
    BY <1>1, <1>2, <1>3, <1>4, <1>5, <1>6, <1>7, FxRates

-----------------------------------------------------------------------------
(* Remainders.                                                             *)

\* What a digit, and what a character, does to the remainder.
DigitStep(r, d) == (10 * r + d) % 97
CharStep(r, v) ==
  IF v >= 10 THEN DigitStep(DigitStep(r, v \div 10), v % 10) ELSE DigitStep(r, v)

\* The remainder of a number that letters stand in.
Rem(s) == Mod97(Expand(s))

LEMMA DigitSteps ==
  ASSUME NEW r \in 0 .. 96, NEW d \in Nat
  PROVE  /\ DigitStep(r, d) \in 0 .. 96
         /\ \A q \in 0 .. 96 : DigitStep(r, d) = DigitStep(q, d) => r = q
  <1>1. DigitStep(r, d) \in 0 .. 96
    BY DEF DigitStep
  <1>2. ASSUME NEW q \in 0 .. 96, (10 * r + d) % 97 = (10 * q + d) % 97
        PROVE  r = q
    BY <1>2, SMTT(60)
  <1> QED
    BY <1>1, <1>2 DEF DigitStep

\* A character tells remainders apart that were apart.
LEMMA CharSteps ==
  ASSUME NEW r \in 0 .. 96, NEW v \in Chars
  PROVE  /\ CharStep(r, v) \in 0 .. 96
         /\ \A q \in 0 .. 96 : CharStep(r, v) = CharStep(q, v) => r = q
  <1>1. v \in Nat /\ v \div 10 \in Nat /\ v % 10 \in Nat
    BY DEF Chars
  <1> DEFINE x == v \div 10
             y == v % 10
  <1>2. DigitStep(r, v) \in 0 .. 96 /\ DigitStep(r, x) \in 0 .. 96
    BY <1>1, DigitSteps
  <1>3. DigitStep(DigitStep(r, x), y) \in 0 .. 96
    BY <1>1, <1>2, DigitSteps
  <1>4. CharStep(r, v) \in 0 .. 96
    BY <1>2, <1>3 DEF CharStep
  <1>5. ASSUME NEW q \in 0 .. 96, CharStep(r, v) = CharStep(q, v)
        PROVE  r = q
    <2>1. DigitStep(q, x) \in 0 .. 96
      BY <1>1, DigitSteps
    <2>2. CASE v >= 10
      <3>1. DigitStep(DigitStep(r, x), y) = DigitStep(DigitStep(q, x), y)
        BY <1>5, <2>2 DEF CharStep
      <3>2. DigitStep(r, x) = DigitStep(q, x)
        BY <1>1, <1>2, <2>1, <3>1, DigitSteps
      <3> QED
        BY <1>1, <3>2, DigitSteps
    <2>3. CASE ~(v >= 10)
      <3>1. DigitStep(r, v) = DigitStep(q, v)
        BY <1>5, <2>3 DEF CharStep
      <3> QED
        BY <1>1, <3>1, DigitSteps
    <2> QED
      BY <2>2, <2>3
  <1> QED
    BY <1>4, <1>5

\* Another digit is another remainder.
LEMMA OtherDigit ==
  ASSUME NEW r \in 0 .. 96, NEW d \in Digits, NEW e \in Digits, d # e
  PROVE  CharStep(r, d) # CharStep(r, e)
  <1>1. (10 * r + d) % 97 # (10 * r + e) % 97
    BY SMTT(60) DEF Digits
  <1> QED
    BY <1>1 DEF CharStep, DigitStep, Digits

\* And so are two digits swapped.
LEMMA SwappedDigits ==
  ASSUME NEW r \in 0 .. 96, NEW d \in Digits, NEW e \in Digits, d # e
  PROVE  CharStep(CharStep(r, d), e) # CharStep(CharStep(r, e), d)
  <1>1. PICK m \in Nat, a \in 0 .. 96 : 10 * r + d = 97 * m + a /\ (10 * r + d) % 97 = a
    BY SMTT(60) DEF Digits
  <1>2. PICK n \in Nat, b \in 0 .. 96 : 10 * r + e = 97 * n + b /\ (10 * r + e) % 97 = b
    BY SMTT(60) DEF Digits
  <1>3. ASSUME (10 * a + e) % 97 = (10 * b + d) % 97
        PROVE  FALSE
    <2>1. PICK p \in Nat, c \in 0 .. 96 : 10 * a + e = 97 * p + c /\ (10 * a + e) % 97 = c
      BY SMTT(60) DEF Digits
    <2>2. PICK q \in Nat, f \in 0 .. 96 : 10 * b + d = 97 * q + f /\ (10 * b + d) % 97 = f
      BY SMTT(60) DEF Digits
    <2>3. c = f
      BY <1>3, <2>1, <2>2
    <2>4. 9 * (d - e) = 97 * (p - q + 10 * m - 10 * n)
      BY <1>1, <1>2, <2>1, <2>2, <2>3 DEF Digits
    <2> DEFINE k == p - q + 10 * m - 10 * n
    <2>5. k \in Int /\ 9 * (d - e) = 97 * k
      BY <2>4
    <2> HIDE DEF k
    <2>6. k = 0
      BY <2>5 DEF Digits
    <2> QED
      BY <2>5, <2>6 DEF Digits
  <1> QED
    BY <1>1, <1>2, <1>3 DEF CharStep, DigitStep, Digits

LEMMA RemSteps ==
  ASSUME NEW s \in Seq(Chars)
  PROVE  /\ Rem(s) \in 0 .. 96
         /\ \A v \in Chars : Rem(Append(s, v)) = CharStep(Rem(s), v)
  <1> DEFINE t == Expand(s)
  <1>1. t \in Seq(Nat)
    BY ExpandType
  <1>2. Rem(s) \in 0 .. 96
    BY <1>1, Mod97Type DEF Rem
  <1>3. ASSUME NEW v \in Chars
        PROVE  Rem(Append(s, v)) = CharStep(Rem(s), v)
    <2>1. Expand(Append(s, v)) = t \o Places(v)
      BY ExpandSteps
    <2>2. v \in Nat /\ v \div 10 \in Nat /\ v % 10 \in Nat
      BY DEF Chars
    <2> HIDE DEF t
    <2>3. CASE v >= 10
      <3> DEFINE x == v \div 10
                 y == v % 10
                 u == Append(t, x)
      <3>1. x \in Nat /\ y \in Nat /\ u \in Seq(Nat)
        BY <1>1, <2>2
      <3>2. Places(v) = <<x, y>>
        BY <2>3 DEF Places
      <3> HIDE DEF x, y
      <3>3. t \o Places(v) = Append(u, y)
        BY <1>1, <3>1, <3>2
      <3> HIDE DEF u
      <3>4. Mod97(Append(u, y)) = DigitStep(Mod97(u), y)
        BY <3>1, Mod97Steps DEF DigitStep
      <3>5. Mod97(u) = DigitStep(Mod97(t), x)
        BY <1>1, <3>1, Mod97Steps DEF DigitStep, u
      <3> QED
        BY <2>1, <2>3, <3>3, <3>4, <3>5 DEF CharStep, Rem, t, x, y
    <2>4. CASE ~(v >= 10)
      <3>1. Places(v) = <<v>>
        BY <2>4 DEF Places
      <3>2. t \o Places(v) = Append(t, v)
        BY <1>1, <2>2, <3>1
      <3>3. Mod97(Append(t, v)) = DigitStep(Mod97(t), v)
        BY <1>1, <2>2, Mod97Steps DEF DigitStep
      <3> QED
        BY <2>1, <2>4, <3>2, <3>3 DEF CharStep, Rem, t
    <2> QED
      BY <2>3, <2>4
  <1> QED
    BY <1>2, <1>3

\* What comes after two numbers does not make their remainders the same.
LEMMA SameSuffix ==
  ASSUME NEW s \in Seq(Chars), NEW t \in Seq(Chars), Rem(s) # Rem(t), NEW u \in Seq(Chars)
  PROVE  Rem(s \o u) # Rem(t \o u)
  <1> DEFINE B == {w \in Seq(Chars) : Rem(s \o w) = Rem(t \o w)}
  <1>1. <<>> \notin B
    BY ConcatEmptySeq
  <1>2. ASSUME NEW w \in Seq(Chars), NEW v \in Chars, Rem(s \o Append(w, v)) = Rem(t \o Append(w, v))
        PROVE  Rem(s \o w) = Rem(t \o w)
    <2>1. s \o Append(w, v) = Append(s \o w, v) /\ t \o Append(w, v) = Append(t \o w, v)
      OBVIOUS
    <2>2. s \o w \in Seq(Chars) /\ t \o w \in Seq(Chars)
      BY ConcatProperties
    <2> DEFINE x == s \o w
               y == t \o w
    <2>3. Rem(Append(x, v)) = Rem(Append(y, v))
      BY <1>2, <2>1
    <2>4. x \in Seq(Chars) /\ y \in Seq(Chars)
      BY <2>2
    <2> HIDE DEF x, y
    <2>5. CharStep(Rem(x), v) = CharStep(Rem(y), v)
      <3>1. Rem(Append(x, v)) = CharStep(Rem(x), v)
        BY <2>4, RemSteps
      <3>2. Rem(Append(y, v)) = CharStep(Rem(y), v)
        BY <2>4, RemSteps
      <3> QED
        BY <2>3, <3>1, <3>2
    <2>6. Rem(x) \in 0 .. 96 /\ Rem(y) \in 0 .. 96
      BY <2>4, RemSteps
    <2> QED
      <3>1. Rem(x) = Rem(y)
        BY <2>5, <2>6, CharSteps
      <3> QED
        BY <3>1 DEF x, y
  <1>3. \A w \in Seq(Chars), v \in Chars : Append(w, v) \in B => w \in B
    <2>1. \A w \in Seq(Chars), v \in Chars : Append(w, v) \in Seq(Chars)
      OBVIOUS
    <2> QED
      BY <1>2, <2>1
  <1>4. B \subseteq Seq(Chars)
    OBVIOUS
  <1>5. B = {}
    <2> HIDE DEF B
    <2> QED
      BY <1>1, <1>3, <1>4, NoShortest
  <1> QED
    BY <1>5

\* Two numbers with the same characters after the first k are told apart by those.
LEMMA SameAfter ==
  ASSUME NEW s \in Seq(Chars), NEW t \in Seq(Chars), Len(s) = Len(t), NEW k \in 1 .. Len(s),
         \A j \in k + 1 .. Len(s) : s[j] = t[j],
         Rem(SubSeq(s, 1, k)) # Rem(SubSeq(t, 1, k))
  PROVE  Rem(s) # Rem(t)
  <1> DEFINE n == Len(s)
             u == SubSeq(s, k + 1, n)
             a == SubSeq(s, 1, k)
             b == SubSeq(t, 1, k)
  <1>1. n \in Nat /\ k \in 1 .. n /\ n = Len(t)
    BY LenProperties
  <1>2. s = a \o u /\ t = b \o SubSeq(t, k + 1, n)
    <2>1. SubSeq(s, 1, n) = s /\ SubSeq(t, 1, n) = t
      BY <1>1, SubSeqFull
    <2>2. SubSeq(s, 1, n) = a \o u
      BY <1>1, ConcatAdjacentSubSeq
    <2>3. SubSeq(t, 1, n) = b \o SubSeq(t, k + 1, n)
      BY <1>1, ConcatAdjacentSubSeq
    <2> QED
      BY <2>1, <2>2, <2>3
  <1>3. /\ a \in Seq(Chars) /\ b \in Seq(Chars) /\ u \in Seq(Chars)
        /\ SubSeq(t, k + 1, n) \in Seq(Chars)
    <2>1. \A j \in 1 .. n : s[j] \in Chars /\ t[j] \in Chars
      BY <1>1, ElementOfSeq
    <2> QED
      BY <1>1, <2>1, SubSeqProperties
  <1>4. u = SubSeq(t, k + 1, n)
    <2>1. /\ Len(u) = Len(SubSeq(t, k + 1, n))
          /\ \A j \in 1 .. Len(u) : u[j] = SubSeq(t, k + 1, n)[j]
      BY <1>1
    <2> QED
      BY <1>3, <2>1, SeqEqual
  <1>5. Rem(a) # Rem(b)
    OBVIOUS
  <1> HIDE DEF a, b, u
  <1> QED
    BY <1>2, <1>3, <1>4, <1>5, SameSuffix

\* One more character of a number.
LEMMA PrefixSteps ==
  ASSUME NEW s \in Seq(Chars), NEW k \in 1 .. Len(s)
  PROVE  /\ Rem(SubSeq(s, 1, k - 1)) \in 0 .. 96
         /\ Rem(SubSeq(s, 1, k)) = CharStep(Rem(SubSeq(s, 1, k - 1)), s[k])
  <1> DEFINE a == SubSeq(s, 1, k - 1)
  <1>1. Len(s) \in Nat /\ \A j \in 1 .. Len(s) : s[j] \in Chars
    BY LenProperties, ElementOfSeq
  <1>2. a \in Seq(Chars)
    BY <1>1, SubSeqProperties
  <1>3. SubSeq(s, 1, k) = Append(a, s[k])
    <2>1. SubSeq(s, 1, k) = a \o <<s[k]>>
      BY <1>1, SubSeqRecursiveSecond
    <2>2. Append(a, s[k]) = a \o <<s[k]>>
      BY <1>1, <1>2, AppendIsConcat
    <2> QED
      BY <2>1, <2>2
  <1> HIDE DEF a
  <1>4. Rem(a) \in 0 .. 96 /\ Rem(Append(a, s[k])) = CharStep(Rem(a), s[k])
    BY <1>1, <1>2, RemSteps
  <1> QED
    BY <1>3, <1>4 DEF a

LEMMA SamePrefix ==
  ASSUME NEW s \in Seq(Chars), NEW t \in Seq(Chars), Len(s) = Len(t), NEW k \in 0 .. Len(s),
         \A j \in 1 .. k : s[j] = t[j]
  PROVE  SubSeq(s, 1, k) = SubSeq(t, 1, k)
  <1>1. Len(s) \in Nat /\ \A j \in 1 .. Len(s) : s[j] \in Chars /\ t[j] \in Chars
    BY LenProperties, ElementOfSeq
  <1>2. SubSeq(s, 1, k) \in Seq(Chars) /\ SubSeq(t, 1, k) \in Seq(Chars)
    BY <1>1, SubSeqProperties
  <1>3. /\ Len(SubSeq(s, 1, k)) = Len(SubSeq(t, 1, k))
        /\ \A j \in 1 .. Len(SubSeq(s, 1, k)) : SubSeq(s, 1, k)[j] = SubSeq(t, 1, k)[j]
    BY <1>1
  <1> QED
    BY <1>2, <1>3, SeqEqual

\* Division by 97 finds one wrong digit ...
LEMMA OneDigitWrong ==
  ASSUME NEW s \in Seq(Chars), NEW t \in Seq(Chars), Len(s) = Len(t), NEW k \in 1 .. Len(s),
         \A j \in 1 .. Len(s) : j # k => s[j] = t[j],
         s[k] \in Digits, t[k] \in Digits, s[k] # t[k]
  PROVE  Rem(s) # Rem(t)
  <1>1. Len(s) \in Nat
    BY LenProperties
  <1>2. SubSeq(s, 1, k - 1) = SubSeq(t, 1, k - 1)
    BY <1>1, SamePrefix
  <1> DEFINE r == Rem(SubSeq(s, 1, k - 1))
  <1>3. Rem(SubSeq(s, 1, k)) # Rem(SubSeq(t, 1, k))
    <2>1. /\ r \in 0 .. 96
          /\ Rem(SubSeq(s, 1, k)) = CharStep(r, s[k])
          /\ Rem(SubSeq(t, 1, k)) = CharStep(r, t[k])
      BY <1>1, <1>2, PrefixSteps
    <2> HIDE DEF r
    <2> QED
      BY <2>1, OtherDigit
  <1>4. \A j \in k + 1 .. Len(s) : s[j] = t[j]
    BY <1>1
  <1> QED
    BY <1>3, <1>4, SameAfter

\* ... and two neighbours swapped.
LEMMA NeighboursSwapped ==
  ASSUME NEW s \in Seq(Chars), NEW t \in Seq(Chars), Len(s) = Len(t),
         NEW k \in 1 .. Len(s), k + 1 \in 1 .. Len(s),
         \A j \in 1 .. Len(s) : j # k /\ j # k + 1 => s[j] = t[j],
         s[k] \in Digits, t[k] \in Digits, s[k] # t[k], s[k] = t[k + 1], s[k + 1] = t[k]
  PROVE  Rem(s) # Rem(t)
  <1>1. Len(s) \in Nat
    BY LenProperties
  <1> DEFINE r == Rem(SubSeq(s, 1, k - 1))
  <1>2. SubSeq(s, 1, k - 1) = SubSeq(t, 1, k - 1)
    BY <1>1, SamePrefix
  <1>3. /\ r \in 0 .. 96
        /\ Rem(SubSeq(s, 1, k)) = CharStep(r, s[k])
        /\ Rem(SubSeq(t, 1, k)) = CharStep(r, t[k])
    BY <1>1, <1>2, PrefixSteps
  <1>4. k + 1 - 1 = k
    BY <1>1
  <1>5. /\ Rem(SubSeq(s, 1, k + 1)) = CharStep(CharStep(r, s[k]), s[k + 1])
        /\ Rem(SubSeq(t, 1, k + 1)) = CharStep(CharStep(r, t[k]), t[k + 1])
    BY <1>3, <1>4, PrefixSteps
  <1> HIDE DEF r
  <1>6. Rem(SubSeq(s, 1, k + 1)) # Rem(SubSeq(t, 1, k + 1))
    BY <1>3, <1>5, SwappedDigits
  <1>7. \A j \in k + 1 + 1 .. Len(s) : s[j] = t[j]
    BY <1>1
  <1> QED
    BY <1>6, <1>7, SameAfter

-----------------------------------------------------------------------------
(* IBANs.                                                                  *)

LEMMA Countries ==
  /\ Country("EUR") = <<13, 14>>
  /\ Country("GBP") = <<16, 11>>
  /\ Country("USD") = <<30, 28>>
  BY DEF Country

\* The characters of two strings one after the other, and of two pairs.
LEMMA Joined ==
  ASSUME NEW s \in Seq(Chars), NEW t \in Seq(Chars)
  PROVE  /\ s \o t \in Seq(Chars)
         /\ Len(s \o t) = Len(s) + Len(t)
         /\ \A i \in 1 .. Len(s) : (s \o t)[i] = s[i]
         /\ \A i \in 1 .. Len(t) : (s \o t)[Len(s) + i] = t[i]
  OBVIOUS

LEMMA Pair ==
  ASSUME NEW x \in Chars, NEW y \in Chars
  PROVE  <<x, y>> \in Seq(Chars) /\ Len(<<x, y>>) = 2
  OBVIOUS

LEMMA PairsJoined ==
  ASSUME NEW x \in Chars, NEW y \in Chars, NEW z \in Chars, NEW w \in Chars
  PROVE  LET s == <<x, y>> \o <<z, w>> IN
         s \in Seq(Chars) /\ Len(s) = 4 /\ s[1] = x /\ s[2] = y /\ s[3] = z /\ s[4] = w
  <1> DEFINE a == <<x, y>>
             b == <<z, w>>
  <1>1. a \in Seq(Chars) /\ Len(a) = 2 /\ b \in Seq(Chars) /\ Len(b) = 2
    BY Pair
  <1>2. a[1] = x /\ a[2] = y /\ b[1] = z /\ b[2] = w
    OBVIOUS
  <1> HIDE DEF a, b
  <1>3. /\ a \o b \in Seq(Chars) /\ Len(a \o b) = 4
        /\ (a \o b)[1] = a[1] /\ (a \o b)[2] = a[2]
        /\ (a \o b)[2 + 1] = b[1] /\ (a \o b)[2 + 2] = b[2]
    <2>1. /\ a \o b \in Seq(Chars)
          /\ Len(a \o b) = Len(a) + Len(b)
          /\ \A i \in 1 .. Len(a) : (a \o b)[i] = a[i]
          /\ \A i \in 1 .. Len(b) : (a \o b)[Len(a) + i] = b[i]
      BY <1>1, Joined
    <2> QED
      BY <1>1, <2>1
  <1>4. 2 + 1 = 3 /\ 2 + 2 = 4
    OBVIOUS
  <1> QED
    BY <1>2, <1>3, <1>4 DEF a, b

LEMMA CountryIsPair ==
  ASSUME NEW c \in Currencies
  PROVE  \E x \in Chars, y \in Chars : Country(c) = <<x, y>>
  <1>1. /\ 13 \in Chars /\ 14 \in Chars /\ 16 \in Chars /\ 11 \in Chars
        /\ 30 \in Chars /\ 28 \in Chars
    BY DEF Chars
  <1>2. CASE c = "EUR"
    BY <1>1, <1>2, Countries
  <1>3. CASE c = "GBP"
    BY <1>1, <1>3, Countries
  <1>4. CASE c = "USD"
    BY <1>1, <1>4, Countries
  <1> QED
    BY <1>2, <1>3, <1>4 DEF Currencies

\* The digits an IBAN ends in.
LEMMA PadStartType ==
  ASSUME NEW number \in Seq(Digits)
  PROVE  PadStart(number, 14) \in Seq(Digits)
  <1> DEFINE m == 14 - Len(number)
             z == [i \in 1 .. m |-> 0]
  <1>1. m \in Int
    BY LenProperties
  <1>2. z \in Seq(Digits)
    <2>1. CASE m >= 0
      BY <1>1, <2>1 DEF Digits
    <2>2. CASE m < 0
      <3>1. 1 .. m = {} /\ 1 .. 0 = {}
        BY <1>1, <2>2
      <3>2. z = [i \in 1 .. 0 |-> 0]
        BY <3>1
      <3> QED
        BY <3>2 DEF Digits
    <2> QED
      BY <1>1, <2>1, <2>2
  <1> QED
    BY <1>2, ConcatProperties DEF PadStart

\* What the check digits are made from: the bank and the number, the country and two zeroes.
Bban(number) == <<18, 16, 11, 0>> \o PadStart(number, 14)
Rearranged(currency, number) == Bban(number) \o (Country(currency) \o <<0, 0>>)

LEMMA RearrangedType ==
  ASSUME NEW c \in Currencies, NEW number \in Seq(Digits)
  PROVE  LET P == PadStart(number, 14)
             s == Rearranged(c, number)
         IN /\ P \in Seq(Digits)
            /\ Bban(number) \in Seq(Chars) /\ Len(Bban(number)) = 4 + Len(P)
            /\ s \in Seq(Chars) /\ Len(s) = Len(P) + 8
            /\ \A j \in 1 .. Len(P) : s[4 + j] = P[j]
            /\ s[1] = 18 /\ s[2] = 16 /\ s[3] = 11 /\ s[4] = 0
            /\ s[Len(P) + 5] = Country(c)[1] /\ s[Len(P) + 6] = Country(c)[2]
            /\ s[Len(P) + 7] = 0 /\ s[Len(P) + 8] = 0
  <1> DEFINE P == PadStart(number, 14)
             a == <<18, 16, 11, 0>>
             b == a \o P
             e == Country(c) \o <<0, 0>>
             s == b \o e
             n == Len(P)
  <1>1. P \in Seq(Digits)
    BY PadStartType
  <1>2. P \in Seq(Chars) /\ n \in Nat
    <2>1. Digits \subseteq Chars
      BY DEF Digits, Chars
    <2> QED
      BY <1>1, <2>1, SeqMonotonic, LenProperties
  <1>3. a \in Seq(Chars) /\ Len(a) = 4 /\ a[1] = 18 /\ a[2] = 16 /\ a[3] = 11 /\ a[4] = 0
    BY DEF Chars
  <1>4. /\ e \in Seq(Chars) /\ Len(e) = 4 /\ e[1] = Country(c)[1] /\ e[2] = Country(c)[2]
        /\ e[3] = 0 /\ e[4] = 0
    <2>1. PICK x \in Chars, y \in Chars : Country(c) = <<x, y>>
      BY CountryIsPair
    <2>2. 0 \in Chars
      BY DEF Chars
    <2>3. /\ e \in Seq(Chars) /\ Len(e) = 4 /\ e[1] = x /\ e[2] = y
          /\ e[3] = 0 /\ e[4] = 0
      BY <2>1, <2>2, PairsJoined
    <2> HIDE DEF e
    <2> QED
      BY <2>1, <2>3
  <1>5. Rearranged(c, number) = s /\ Bban(number) = b
    BY DEF Rearranged, Bban
  <1> HIDE DEF P, a, e
  <1>6. /\ b \in Seq(Chars) /\ Len(b) = 4 + n
        /\ \A i \in 1 .. 4 : b[i] = a[i]
        /\ \A i \in 1 .. n : b[4 + i] = P[i]
    <2>1. /\ a \o P \in Seq(Chars)
          /\ Len(a \o P) = Len(a) + Len(P)
          /\ \A i \in 1 .. Len(a) : (a \o P)[i] = a[i]
          /\ \A i \in 1 .. Len(P) : (a \o P)[Len(a) + i] = P[i]
      BY <1>2, <1>3, Joined
    <2> QED
      BY <1>2, <1>3, <2>1
  <1> HIDE DEF b
  <1>7. /\ s \in Seq(Chars) /\ Len(s) = 4 + n + 4
        /\ \A i \in 1 .. 4 + n : s[i] = b[i]
        /\ \A i \in 1 .. 4 : s[4 + n + i] = e[i]
    <2>1. /\ b \o e \in Seq(Chars)
          /\ Len(b \o e) = Len(b) + Len(e)
          /\ \A i \in 1 .. Len(b) : (b \o e)[i] = b[i]
          /\ \A i \in 1 .. Len(e) : (b \o e)[Len(b) + i] = e[i]
      BY <1>4, <1>6, Joined
    <2> QED
      BY <1>2, <1>4, <1>6, <2>1
  <1> HIDE DEF s
  <1>8. \A j \in 1 .. n : s[4 + j] = P[j]
    <2> SUFFICES ASSUME NEW j \in 1 .. n
                 PROVE  s[4 + j] = P[j]
      OBVIOUS
    <2>1. 4 + j \in 1 .. 4 + n
      BY <1>2
    <2> QED
      BY <1>6, <1>7, <2>1
  <1>9. s[1] = 18 /\ s[2] = 16 /\ s[3] = 11 /\ s[4] = 0
    BY <1>2, <1>3, <1>6, <1>7
  <1>10. \A j \in 1 .. 4 : s[4 + n + j] = e[j]
    BY <1>7
  <1>11. 4 + n + 1 = n + 5 /\ 4 + n + 2 = n + 6 /\ 4 + n + 3 = n + 7 /\ 4 + n + 4 = n + 8
    BY <1>2
  <1>12. /\ s[n + 5] = Country(c)[1] /\ s[n + 6] = Country(c)[2]
         /\ s[n + 7] = 0 /\ s[n + 8] = 0 /\ Len(s) = n + 8
    BY <1>4, <1>7, <1>10, <1>11
  <1> QED
    BY <1>1, <1>5, <1>6, <1>7, <1>8, <1>9, <1>12 DEF P

\* The check digits are 98 less the remainder.
LEMMA CheckDigitsAre ==
  ASSUME NEW c \in Currencies, NEW number \in Seq(Digits)
  PROVE  /\ CheckDigits(Bban(number), Country(c)) = 98 - Rem(Rearranged(c, number))
         /\ Rem(Rearranged(c, number)) \in 0 .. 96
  <1> DEFINE b == Bban(number)
             e == <<0, 0>>
  <1>1. b \in Seq(Chars) /\ Country(c) \in Seq(Chars) /\ e \in Seq(Chars)
    <2>1. Country(c) \in Seq(Chars) /\ e \in Seq(Chars)
      <3>1. PICK x \in Chars, y \in Chars : Country(c) = <<x, y>>
        BY CountryIsPair
      <3>2. 0 \in Chars
        BY DEF Chars
      <3> QED
        BY <3>1, <3>2, Pair
    <2> QED
      BY <2>1, RearrangedType
  <1> HIDE DEF b, e
  <1>2. (b \o Country(c)) \o e = b \o (Country(c) \o e)
    BY <1>1, ConcatAssociative
  <1>3. CheckDigits(b, Country(c)) = 98 - Rem((b \o Country(c)) \o <<0, 0>>)
    BY DEF CheckDigits, Rem, Expand
  <1>4. Rem(Rearranged(c, number)) \in 0 .. 96
    BY RearrangedType, RemSteps
  <1> QED
    BY <1>2, <1>3, <1>4 DEF Rearranged, b, e

\* The characters of an IBAN, one by one.
LEMMA IbanParts ==
  ASSUME NEW c \in Currencies, NEW number \in Seq(Digits)
  PROVE  LET P == PadStart(number, 14)
             v == GenerateIban(c, number)
             check == 98 - Rem(Rearranged(c, number))
         IN /\ v \in Seq(Chars) /\ Len(v) = Len(P) + 8
            /\ v[1] = Country(c)[1] /\ v[2] = Country(c)[2]
            /\ v[3] = check \div 10 /\ v[4] = check % 10
            /\ v[5] = 18 /\ v[6] = 16 /\ v[7] = 11 /\ v[8] = 0
            /\ \A j \in 1 .. Len(P) : v[8 + j] = P[j]
  <1> DEFINE P == PadStart(number, 14)
             check == 98 - Rem(Rearranged(c, number))
             a == Country(c) \o <<check \div 10, check % 10>>
             b == Bban(number)
             v == a \o b
             n == Len(P)
  <1>1. check \in 2 .. 98 /\ check \div 10 \in Chars /\ check % 10 \in Chars
    <2> DEFINE r == Rem(Rearranged(c, number))
    <2>1. r \in 0 .. 96
      BY CheckDigitsAre
    <2> HIDE DEF r
    <2>2. 98 - r \in 2 .. 98
      BY <2>1
    <2> DEFINE m == 98 - r
    <2> HIDE DEF m
    <2>3. m \in 2 .. 98 => m \div 10 \in 0 .. 35 /\ m % 10 \in 0 .. 35
      OBVIOUS
    <2> QED
      BY <2>2, <2>3 DEF m, r, Chars
  <1>2. GenerateIban(c, number) = v
    BY CheckDigitsAre DEF GenerateIban, Bban
  <1> HIDE DEF check
  <1>3. /\ a \in Seq(Chars) /\ Len(a) = 4
        /\ a[1] = Country(c)[1] /\ a[2] = Country(c)[2]
        /\ a[3] = check \div 10 /\ a[4] = check % 10
    <2>1. PICK x \in Chars, y \in Chars : Country(c) = <<x, y>>
      BY CountryIsPair
    <2>2. /\ a \in Seq(Chars) /\ Len(a) = 4 /\ a[1] = x /\ a[2] = y
          /\ a[3] = check \div 10 /\ a[4] = check % 10
      BY <1>1, <2>1, PairsJoined
    <2> HIDE DEF a
    <2> QED
      BY <2>1, <2>2
  <1>4. P \in Seq(Digits) /\ n \in Nat
    BY PadStartType, LenProperties
  <1> DEFINE f == <<18, 16, 11, 0>>
  <1>5. f \in Seq(Chars) /\ Len(f) = 4 /\ f[1] = 18 /\ f[2] = 16 /\ f[3] = 11 /\ f[4] = 0
    BY DEF Chars
  <1>6. P \in Seq(Chars)
    <2>1. Digits \subseteq Chars
      BY DEF Digits, Chars
    <2> QED
      BY <1>4, <2>1, SeqMonotonic
  <1>7. b = f \o P
    BY DEF Bban
  <1> HIDE DEF P, a, b, f
  <1>8. /\ b \in Seq(Chars) /\ Len(b) = 4 + n
        /\ \A i \in 1 .. 4 : b[i] = f[i]
        /\ \A i \in 1 .. n : b[4 + i] = P[i]
    <2>1. /\ f \o P \in Seq(Chars)
          /\ Len(f \o P) = Len(f) + Len(P)
          /\ \A i \in 1 .. Len(f) : (f \o P)[i] = f[i]
          /\ \A i \in 1 .. Len(P) : (f \o P)[Len(f) + i] = P[i]
      BY <1>5, <1>6, Joined
    <2> QED
      BY <1>4, <1>5, <1>7, <2>1
  <1>9. /\ v \in Seq(Chars) /\ Len(v) = 4 + (4 + n)
        /\ \A i \in 1 .. 4 : v[i] = a[i]
        /\ \A i \in 1 .. 4 + n : v[4 + i] = b[i]
    <2>1. /\ a \o b \in Seq(Chars)
          /\ Len(a \o b) = Len(a) + Len(b)
          /\ \A i \in 1 .. Len(a) : (a \o b)[i] = a[i]
          /\ \A i \in 1 .. Len(b) : (a \o b)[Len(a) + i] = b[i]
      BY <1>3, <1>8, Joined
    <2> QED
      BY <1>3, <1>4, <1>8, <2>1
  <1> HIDE DEF v
  <1>10. \A j \in 1 .. n : v[8 + j] = P[j]
    <2> SUFFICES ASSUME NEW j \in 1 .. n
                 PROVE  v[8 + j] = P[j]
      OBVIOUS
    <2>1. 4 + j \in 1 .. 4 + n /\ 4 + (4 + j) = 8 + j
      BY <1>4
    <2> QED
      BY <1>8, <1>9, <2>1
  <1>11. /\ v[1] = a[1] /\ v[2] = a[2] /\ v[3] = a[3] /\ v[4] = a[4]
         /\ v[5] = f[1] /\ v[6] = f[2] /\ v[7] = f[3] /\ v[8] = f[4]
    <2>1. /\ v[4 + 1] = f[1] /\ v[4 + 2] = f[2] /\ v[4 + 3] = f[3] /\ v[4 + 4] = f[4]
      BY <1>4, <1>8, <1>9
    <2> QED
      BY <1>9, <2>1
  <1>12. 4 + (4 + n) = n + 8
    BY <1>4
  <1> QED
    BY <1>2, <1>3, <1>5, <1>9, <1>10, <1>11, <1>12 DEF P, check

\* Two countries differ in both letters, and a first letter is no second one.
LEMMA CountriesDiffer ==
  ASSUME NEW c \in Currencies, NEW d \in Currencies
  PROVE  /\ Country(c)[1] = Country(d)[1] => c = d
         /\ Country(c)[2] = Country(d)[2] => c = d
         /\ Country(c)[1] # Country(d)[2]
  <1>1. CASE c = "EUR"
    BY <1>1, Countries DEF Currencies
  <1>2. CASE c = "GBP"
    BY <1>2, Countries DEF Currencies
  <1>3. CASE c = "USD"
    BY <1>3, Countries DEF Currencies
  <1> QED
    BY <1>1, <1>2, <1>3 DEF Currencies

\* Two IBANs of one length, of two currencies and numbers.
TwoIbans(v, w, c, d, m, n) ==
  /\ c \in Currencies /\ d \in Currencies /\ m \in Seq(Digits) /\ n \in Seq(Digits)
  /\ v = GenerateIban(c, m) /\ w = GenerateIban(d, n) /\ Len(v) = Len(w)

\* The same letters are the same currency; then the same digits at the end are the same check
\* digits, and the same check digits the same remainder.
LEMMA IbansAgree ==
  ASSUME NEW v, NEW w, NEW c, NEW d, NEW m, NEW n, TwoIbans(v, w, c, d, m, n)
  PROVE  LET s == Rearranged(c, m)
             t == Rearranged(d, n)
         IN /\ Len(v) \in Nat /\ Len(v) >= 8
            /\ v[1] = w[1] => c = d
            /\ v[2] = w[2] => c = d
            /\ v[1] # w[2]
            /\ v[5] = w[5] /\ v[6] = w[6] /\ v[7] = w[7] /\ v[8] = w[8]
            /\ s \in Seq(Chars) /\ t \in Seq(Chars) /\ Len(s) = Len(v) /\ Len(t) = Len(v)
            /\ c = d => \A j \in 1 .. Len(v) : j <= 4 \/ j > Len(v) - 4 => s[j] = t[j]
            /\ \A j \in 1 .. Len(v) - 8 :
                 /\ s[4 + j] = v[8 + j] /\ t[4 + j] = w[8 + j]
                 /\ v[8 + j] \in Digits /\ w[8 + j] \in Digits
            /\ Rem(s) = Rem(t) <=> v[3] = w[3] /\ v[4] = w[4]
  <1> DEFINE s == Rearranged(c, m)
             t == Rearranged(d, n)
             P == PadStart(m, 14)
             Q == PadStart(n, 14)
             l == Len(P)
  <1>1. /\ c \in Currencies /\ d \in Currencies /\ m \in Seq(Digits) /\ n \in Seq(Digits)
        /\ v = GenerateIban(c, m) /\ w = GenerateIban(d, n) /\ Len(v) = Len(w)
    BY DEF TwoIbans
  <1>2. /\ P \in Seq(Digits) /\ s \in Seq(Chars) /\ Len(s) = Len(P) + 8
        /\ \A j \in 1 .. Len(P) : s[4 + j] = P[j]
        /\ s[1] = 18 /\ s[2] = 16 /\ s[3] = 11 /\ s[4] = 0
        /\ s[Len(P) + 5] = Country(c)[1] /\ s[Len(P) + 6] = Country(c)[2]
        /\ s[Len(P) + 7] = 0 /\ s[Len(P) + 8] = 0
    BY <1>1, RearrangedType
  <1>3. /\ Q \in Seq(Digits) /\ t \in Seq(Chars) /\ Len(t) = Len(Q) + 8
        /\ \A j \in 1 .. Len(Q) : t[4 + j] = Q[j]
        /\ t[1] = 18 /\ t[2] = 16 /\ t[3] = 11 /\ t[4] = 0
        /\ t[Len(Q) + 5] = Country(d)[1] /\ t[Len(Q) + 6] = Country(d)[2]
        /\ t[Len(Q) + 7] = 0 /\ t[Len(Q) + 8] = 0
    BY <1>1, RearrangedType
  <1>4. /\ Len(v) = Len(P) + 8
        /\ v[1] = Country(c)[1] /\ v[2] = Country(c)[2]
        /\ v[3] = (98 - Rem(s)) \div 10 /\ v[4] = (98 - Rem(s)) % 10
        /\ v[5] = 18 /\ v[6] = 16 /\ v[7] = 11 /\ v[8] = 0
        /\ \A j \in 1 .. Len(P) : v[8 + j] = P[j]
    BY <1>1, IbanParts
  <1>5. /\ Len(w) = Len(Q) + 8
        /\ w[1] = Country(d)[1] /\ w[2] = Country(d)[2]
        /\ w[3] = (98 - Rem(t)) \div 10 /\ w[4] = (98 - Rem(t)) % 10
        /\ w[5] = 18 /\ w[6] = 16 /\ w[7] = 11 /\ w[8] = 0
        /\ \A j \in 1 .. Len(Q) : w[8 + j] = Q[j]
    BY <1>1, IbanParts
  <1>6. Rem(s) \in 0 .. 96 /\ Rem(t) \in 0 .. 96
    BY <1>1, CheckDigitsAre
  <1> DEFINE x == Rem(s)
             y == Rem(t)
  <1> HIDE DEF s, t, P, Q
  <1>7. Len(P) \in Nat /\ Len(Q) = Len(P)
    <2>1. Len(P) \in Nat /\ Len(Q) \in Nat
      BY <1>2, <1>3, LenProperties
    <2>2. Len(P) + 8 = Len(Q) + 8
      BY <1>1, <1>4, <1>5
    <2> QED
      BY <2>1, <2>2
  <1>8. x = y <=> v[3] = w[3] /\ v[4] = w[4]
    <2>1. x \in 0 .. 96 /\ y \in 0 .. 96
      BY <1>6
    <2>2. /\ v[3] = (98 - x) \div 10 /\ v[4] = (98 - x) % 10
          /\ w[3] = (98 - y) \div 10 /\ w[4] = (98 - y) % 10
      BY <1>4, <1>5
    <2> HIDE DEF x, y
    <2>3. (98 - x) \div 10 = (98 - y) \div 10 /\ (98 - x) % 10 = (98 - y) % 10 => x = y
      BY <2>1
    <2> QED
      BY <2>2, <2>3
  <1>9. /\ v[1] = w[1] => c = d
        /\ v[2] = w[2] => c = d
        /\ v[1] # w[2]
    BY <1>1, <1>4, <1>5, CountriesDiffer
  <1> HIDE DEF l
  <1>10. ASSUME c = d, NEW j \in 1 .. Len(v), j <= 4 \/ j > Len(v) - 4
         PROVE  s[j] = t[j]
    <2>1. l \in Nat /\ Len(v) = l + 8 /\ Len(P) = l /\ Len(Q) = l
      BY <1>4, <1>7 DEF l
    <2>2. j \in {1, 2, 3, 4} \/ j = l + 5 \/ j = l + 6 \/ j = l + 7 \/ j = l + 8
      BY <1>10, <2>1
    <2> QED
      BY <1>2, <1>3, <1>10, <2>1, <2>2
  <1>11. \A j \in 1 .. Len(P) : P[j] \in Digits /\ Q[j] \in Digits
    BY <1>2, <1>3, <1>7, ElementOfSeq
  <1>12. Len(v) - 8 = Len(P) /\ Len(v) \in Nat /\ Len(v) >= 8
    BY <1>4, <1>7
  <1>13. \A j \in 1 .. Len(v) - 8 :
           /\ s[4 + j] = v[8 + j] /\ t[4 + j] = w[8 + j]
           /\ v[8 + j] \in Digits /\ w[8 + j] \in Digits
    <2> SUFFICES ASSUME NEW j \in 1 .. Len(P)
                 PROVE  /\ s[4 + j] = v[8 + j] /\ t[4 + j] = w[8 + j]
                        /\ v[8 + j] \in Digits /\ w[8 + j] \in Digits
      BY <1>12
    <2>1. s[4 + j] = P[j] /\ v[8 + j] = P[j]
      BY <1>2, <1>4
    <2>2. t[4 + j] = Q[j] /\ w[8 + j] = Q[j]
      BY <1>3, <1>5, <1>7
    <2> QED
      BY <1>11, <2>1, <2>2
  <1>14. Len(s) = Len(v) /\ Len(t) = Len(v)
    BY <1>2, <1>3, <1>4, <1>7
  <1> QED
    BY <1>2, <1>3, <1>4, <1>5, <1>8, <1>9, <1>10, <1>12, <1>13, <1>14 DEF s, t

\* Then the characters before the check digits and after them decide those.
LEMMA SameDigitsSameCheck ==
  ASSUME NEW v, NEW w, NEW c, NEW d, NEW m, NEW n, TwoIbans(v, w, c, d, m, n), c = d,
         \A j \in 1 .. Len(v) : j > 8 => v[j] = w[j]
  PROVE  v[3] = w[3] /\ v[4] = w[4]
  <1> DEFINE s == Rearranged(c, m)
             t == Rearranged(d, n)
             l == Len(v)
  <1>1. /\ l \in Nat /\ l >= 8
        /\ s \in Seq(Chars) /\ t \in Seq(Chars) /\ Len(s) = l /\ Len(t) = l
        /\ \A j \in 1 .. l : j <= 4 \/ j > l - 4 => s[j] = t[j]
        /\ \A j \in 1 .. l - 8 : s[4 + j] = v[8 + j] /\ t[4 + j] = w[8 + j]
        /\ Rem(s) = Rem(t) <=> v[3] = w[3] /\ v[4] = w[4]
    BY IbansAgree
  <1> HIDE DEF s, t
  <1>2. ASSUME NEW j \in 1 .. l, j > 4, ~(j > l - 4)
        PROVE  s[j] = t[j]
    <2> DEFINE i == j - 4
    <2>1. i \in 1 .. l - 8 /\ 4 + i = j /\ 8 + i \in 1 .. l /\ 8 + i > 8
      BY <1>1, <1>2
    <2> HIDE DEF i, l
    <2>2. s[4 + i] = v[8 + i] /\ t[4 + i] = w[8 + i]
      BY <1>1, <2>1
    <2>3. v[8 + i] = w[8 + i]
      BY <2>1 DEF l
    <2> QED
      BY <2>1, <2>2, <2>3
  <1>3. \A j \in 1 .. l : s[j] = t[j]
    <2> HIDE DEF l
    <2> QED
      BY <1>1, <1>2
  <1>4. s = t
    BY <1>1, <1>3, SeqEqual
  <1> QED
    BY <1>1, <1>4

\* No IBAN is another one with one character wrong ...
LEMMA NoCharacterWrong ==
  ASSUME NEW v, NEW w, NEW c, NEW d, NEW m, NEW n, TwoIbans(v, w, c, d, m, n),
         NEW k \in 1 .. Len(v), v[k] # w[k]
  PROVE  \E j \in 1 .. Len(v) : j # k /\ v[j] # w[j]
  <1> SUFFICES ASSUME \A j \in 1 .. Len(v) : j # k => v[j] = w[j]
               PROVE  FALSE
    OBVIOUS
  <1> DEFINE s == Rearranged(c, m)
             t == Rearranged(d, n)
             l == Len(v)
  <1>1. /\ l \in Nat /\ l >= 8
        /\ v[1] = w[1] => c = d
        /\ v[2] = w[2] => c = d
        /\ v[5] = w[5] /\ v[6] = w[6] /\ v[7] = w[7] /\ v[8] = w[8]
        /\ s \in Seq(Chars) /\ t \in Seq(Chars) /\ Len(s) = l /\ Len(t) = l
        /\ c = d => \A j \in 1 .. l : j <= 4 \/ j > l - 4 => s[j] = t[j]
        /\ Rem(s) = Rem(t) <=> v[3] = w[3] /\ v[4] = w[4]
    BY IbansAgree
  <1>2. \A j \in 1 .. l - 8 : /\ s[4 + j] = v[8 + j] /\ t[4 + j] = w[8 + j]
                              /\ v[8 + j] \in Digits /\ w[8 + j] \in Digits
    BY IbansAgree
  <1>3. k \in 1 .. l /\ \A j \in 1 .. l : j # k => v[j] = w[j]
    OBVIOUS
  <1> HIDE DEF s, t
  <1>4. c = d
    <2>1. 1 \in 1 .. l /\ 2 \in 1 .. l
      BY <1>1
    <2> HIDE DEF l
    <2> QED
      BY <1>1, <1>3, <2>1
  <1>5. k > 8
    <2>1. CASE k \in {1, 2}
      <3>1. v[1] = w[1] /\ v[2] = w[2]
        <4>1. GenerateIban(c, m)[1] = Country(c)[1] /\ GenerateIban(c, m)[2] = Country(c)[2]
          BY IbanParts DEF TwoIbans
        <4>2. GenerateIban(d, n)[1] = Country(d)[1] /\ GenerateIban(d, n)[2] = Country(d)[2]
          BY IbanParts DEF TwoIbans
        <4> QED
          BY <1>4, <4>1, <4>2 DEF TwoIbans
      <3> QED
        BY <2>1, <3>1
    <2>2. CASE k \in {3, 4}
      <3>1. \A j \in 1 .. Len(v) : j > 8 => v[j] = w[j]
        BY <1>3, <2>2
      <3>2. v[3] = w[3] /\ v[4] = w[4]
        BY <1>4, <3>1, SameDigitsSameCheck
      <3> QED
        BY <2>2, <3>2
    <2>3. CASE k \in {5, 6, 7, 8}
      BY <1>1, <2>3
    <2> HIDE DEF l
    <2> QED
      BY <1>1, <1>3, <2>1, <2>2, <2>3
  <1>6. v[3] = w[3] /\ v[4] = w[4]
    BY <1>1, <1>3, <1>5
  <1> DEFINE i == k - 4
  <1>7. /\ i \in 1 .. l /\ i - 4 \in 1 .. l - 8 /\ 4 + (i - 4) = i /\ 8 + (i - 4) = k
    <2> HIDE DEF l
    <2> QED
      BY <1>1, <1>3, <1>5
  <1>8. s[i] = v[k] /\ t[i] = w[k] /\ v[k] \in Digits /\ w[k] \in Digits
    <2> HIDE DEF l, i
    <2> QED
      BY <1>2, <1>7
  <1>9. ASSUME NEW j \in 1 .. l, j # i
        PROVE  s[j] = t[j]
    <2>1. CASE j <= 4 \/ j > l - 4
      BY <1>1, <1>4, <2>1
    <2>2. CASE ~(j <= 4 \/ j > l - 4)
      <3> HIDE DEF l
      <3> DEFINE h == j - 4
      <3>1. h \in 1 .. l - 8 /\ 4 + h = j /\ 8 + h \in 1 .. l /\ 8 + h # k
        BY <1>1, <1>9, <2>2
      <3> HIDE DEF h, i
      <3>2. s[4 + h] = v[8 + h] /\ t[4 + h] = w[8 + h]
        BY <1>2, <3>1
      <3> QED
        BY <1>3, <3>1, <3>2
    <2> QED
      BY <2>1, <2>2
  <1> HIDE DEF i
  <1>10. \A j \in 1 .. Len(s) : j # i => s[j] = t[j]
    BY <1>1, <1>9
  <1>11. i \in 1 .. Len(s) /\ Len(s) = Len(t)
    BY <1>1, <1>7
  <1>12. Rem(s) # Rem(t)
    BY <1>1, <1>8, <1>10, <1>11, OneDigitWrong
  <1> QED
    BY <1>1, <1>6, <1>12

\* ... or with two neighbours swapped.
LEMMA NoNeighboursSwapped ==
  ASSUME NEW v, NEW w, NEW c, NEW d, NEW m, NEW n, TwoIbans(v, w, c, d, m, n),
         NEW k \in 1 .. Len(v), k + 1 \in 1 .. Len(v),
         v[k] # w[k], v[k] = w[k + 1], v[k + 1] = w[k]
  PROVE  \E j \in 1 .. Len(v) : j # k /\ j # k + 1 /\ v[j] # w[j]
  <1> SUFFICES ASSUME \A j \in 1 .. Len(v) : j # k /\ j # k + 1 => v[j] = w[j]
               PROVE  FALSE
    OBVIOUS
  <1> DEFINE s == Rearranged(c, m)
             t == Rearranged(d, n)
             l == Len(v)
  <1>1. /\ l \in Nat /\ l >= 8
        /\ v[1] = w[1] => c = d
        /\ v[1] # w[2]
        /\ v[5] = w[5] /\ v[6] = w[6] /\ v[7] = w[7] /\ v[8] = w[8]
        /\ s \in Seq(Chars) /\ t \in Seq(Chars) /\ Len(s) = l /\ Len(t) = l
        /\ c = d => \A j \in 1 .. l : j <= 4 \/ j > l - 4 => s[j] = t[j]
        /\ Rem(s) = Rem(t) <=> v[3] = w[3] /\ v[4] = w[4]
    BY IbansAgree
  <1>2. \A j \in 1 .. l - 8 : /\ s[4 + j] = v[8 + j] /\ t[4 + j] = w[8 + j]
                              /\ v[8 + j] \in Digits /\ w[8 + j] \in Digits
    BY IbansAgree
  <1>3. /\ k \in 1 .. l /\ k + 1 \in 1 .. l
        /\ \A j \in 1 .. l : j # k /\ j # k + 1 => v[j] = w[j]
    OBVIOUS
  <1> HIDE DEF s, t
  <1>4. k # 1
    BY <1>1
  <1>5. c = d
    <2>1. 1 \in 1 .. l /\ 1 # k + 1
      BY <1>1, <1>3
    <2> HIDE DEF l
    <2> QED
      BY <1>1, <1>3, <1>4, <2>1
  <1>6. k > 8
    <2>1. k # 2
      <3>1. v[2] = w[2]
        <4>1. GenerateIban(c, m)[2] = Country(c)[2]
          BY IbanParts DEF TwoIbans
        <4>2. GenerateIban(d, n)[2] = Country(d)[2]
          BY IbanParts DEF TwoIbans
        <4> QED
          BY <1>5, <4>1, <4>2 DEF TwoIbans
      <3> QED
        BY <3>1
    <2>2. k # 3
      <3> SUFFICES ASSUME k = 3 PROVE FALSE
        OBVIOUS
      <3>1. \A j \in 1 .. Len(v) : j > 8 => v[j] = w[j]
        BY <1>3
      <3>2. v[3] = w[3] /\ v[4] = w[4]
        BY <1>5, <3>1, SameDigitsSameCheck
      <3> QED
        BY <3>2
    <2>3. k # 4
      BY <1>1
    <2>4. k \notin {5, 6, 7, 8}
      BY <1>1
    <2> HIDE DEF l
    <2> QED
      BY <1>1, <1>3, <1>4, <2>1, <2>2, <2>3, <2>4
  <1>7. v[3] = w[3] /\ v[4] = w[4]
    BY <1>1, <1>3, <1>6
  <1> DEFINE i == k - 4
  <1>8. /\ i \in 1 .. l /\ i + 1 \in 1 .. l
        /\ i - 4 \in 1 .. l - 8 /\ 4 + (i - 4) = i /\ 8 + (i - 4) = k
        /\ i - 3 \in 1 .. l - 8 /\ 4 + (i - 3) = i + 1 /\ 8 + (i - 3) = k + 1
    <2> HIDE DEF l
    <2> QED
      BY <1>1, <1>3, <1>6
  <1>9. s[i] = v[k] /\ t[i] = w[k] /\ v[k] \in Digits /\ w[k] \in Digits
    <2> HIDE DEF l, i
    <2> QED
      BY <1>2, <1>8
  <1>10. s[i + 1] = v[k + 1] /\ t[i + 1] = w[k + 1]
    <2> HIDE DEF l, i
    <2> QED
      BY <1>2, <1>8
  <1>11. ASSUME NEW j \in 1 .. l, j # i, j # i + 1
         PROVE  s[j] = t[j]
    <2>1. CASE j <= 4 \/ j > l - 4
      BY <1>1, <1>5, <2>1
    <2>2. CASE ~(j <= 4 \/ j > l - 4)
      <3> HIDE DEF l
      <3> DEFINE h == j - 4
      <3>1. h \in 1 .. l - 8 /\ 4 + h = j /\ 8 + h \in 1 .. l /\ 8 + h # k /\ 8 + h # k + 1
        BY <1>1, <1>11, <2>2
      <3> HIDE DEF h, i
      <3>2. s[4 + h] = v[8 + h] /\ t[4 + h] = w[8 + h]
        BY <1>2, <3>1
      <3> QED
        BY <1>3, <3>1, <3>2
    <2> QED
      BY <2>1, <2>2
  <1> HIDE DEF i
  <1>12. \A j \in 1 .. Len(s) : j # i /\ j # i + 1 => s[j] = t[j]
    BY <1>1, <1>11
  <1>13. i \in 1 .. Len(s) /\ i + 1 \in 1 .. Len(s) /\ Len(s) = Len(t)
    BY <1>1, <1>8
  <1>14. Rem(s) # Rem(t)
    BY <1>1, <1>9, <1>10, <1>12, <1>13, NeighboursSwapped
  <1> QED
    BY <1>1, <1>7, <1>14

=============================================================================
