---------------------------- MODULE OverviewProofs ----------------------------
(***************************************************************************)
(* The properties of Overview, for any numbers of clients, rows and        *)
(* changes, any amounts, and any percentages that the doubles round down.  *)
(* The argument: what a call has read of a table is what some version of   *)
(* the rows since its beginning had (HasRead), versions are only added,    *)
(* and what is computed of such rows is true of them and adds up, by the   *)
(* sums and counts below and by the way money goes through its text        *)
(* (RoundTrip).                                                            *)
(***************************************************************************)
EXTENDS Overview, FiniteSetTheorems, TLAPS

-----------------------------------------------------------------------------
(* Induction without an operator parameter: among subsets of a finite set  *)
(* there is a least one, so there is no least counterexample.              *)
LEMMA LeastSet ==
  ASSUME NEW S, IsFiniteSet(S), NEW C \in SUBSET (SUBSET S), C # {}
  PROVE  \E U \in C : \A V \in C : V \subseteq U => V = U
  <1>1. C \subseteq FiniteSubsetsOf(S)
    BY FS_FiniteSubsetsOfFinite
  <1>2. PICK U \in C : \A V \in C : <<V, U>> \notin StrictSubsetOrdering(S)
    BY <1>1, FS_StrictSubsetOrderingWellFounded, WFMin
  <1>3. QED
    BY <1>2 DEF StrictSubsetOrdering

LEMMA LeastNat ==
  ASSUME NEW N \in SUBSET Nat, N # {}
  PROVE  \E m \in N : \A k \in N : m <= k
  <1>1. PICK n \in N : TRUE
    OBVIOUS
  <1> DEFINE C == {U \in SUBSET (0..n) : \E m \in N : U = 0..m}
  <1>2. 0..n \in C
    BY <1>1
  <1>3. IsFiniteSet(0..n)
    BY <1>1, FS_Interval
  <1>4. PICK U \in C : \A V \in C : V \subseteq U => V = U
    <2> DEFINE I == 0..n
    <2>1. C # {} /\ C \in SUBSET (SUBSET I)
      BY <1>2
    <2>2. IsFiniteSet(I)
      BY <1>3
    <2> HIDE DEF C, I
    <2>3. QED
      BY <2>1, <2>2, LeastSet
  <1>5. PICK m \in N : U = 0..m
    BY <1>4
  <1>6. m <= n
    BY <1>1, <1>4, <1>5
  <1>7. ASSUME NEW k \in N, k < m
        PROVE  FALSE
    <2>1. 0..k \in C /\ 0..k \subseteq U
      BY <1>1, <1>5, <1>6, <1>7
    <2>2. m \in 0..m /\ m \notin 0..k
      BY <1>7
    <2>3. QED
      BY <1>4, <1>5, <2>1, <2>2
  <1>8. QED
    BY <1>7

-----------------------------------------------------------------------------
(* Sums over finite sets.                                                  *)
TotalOf(f, S) == FoldFunctionOnSet(+, 0, f, S)

Adds(g, f, s) ==
  g[s] = IF s = {} THEN 0
         ELSE LET x == CHOOSE y \in s : TRUE IN f[x] + g[s \ {x}]
SumsUp(g, f, S) ==
  g = [s \in SUBSET S |->
         IF s = {} THEN 0
         ELSE LET x == CHOOSE y \in s : TRUE IN f[x] + g[s \ {x}]]

LEMMA SumsExist ==
  ASSUME NEW f, NEW S, IsFiniteSet(S)
  PROVE  \E g : SumsUp(g, f, S)
  <1> DEFINE Upto(g, k) ==
               \A s \in SUBSET S : Cardinality(s) <= k => Adds(g, f, s)
             N == {k \in Nat : ~ \E g : Upto(g, k)}
             More(g) == [s \in SUBSET S |->
                           IF s = {} THEN 0
                           ELSE LET x == CHOOSE y \in s : TRUE
                                IN f[x] + g[s \ {x}]]
  <1>1. ASSUME NEW s \in SUBSET S
        PROVE  IsFiniteSet(s) /\ Cardinality(s) \in Nat /\ Cardinality(s) <= Cardinality(S)
    BY FS_Subset, FS_CardinalityType
  <1>2. 0 \notin N
    <2>1. Upto(More(S), 0)
      <3>1. ASSUME NEW s \in SUBSET S, Cardinality(s) <= 0
            PROVE  s = {}
        BY <1>1, <3>1, FS_EmptySet
      <3>2. QED
        BY <3>1 DEF Adds
    <2>2. QED
      BY <2>1
  <1>3. ASSUME NEW k \in Nat, k + 1 \in N
        PROVE  k \in N
    <2>1. SUFFICES ASSUME NEW g, Upto(g, k)
                   PROVE  Upto(More(g), k + 1)
      BY <1>3
    <2>2. SUFFICES ASSUME NEW s \in SUBSET S, Cardinality(s) <= k + 1, s # {}
                   PROVE  Adds(More(g), f, s)
      BY DEF Adds
    <2> DEFINE x == CHOOSE y \in s : TRUE
    <2>3. x \in s
      BY <2>2
    <2> HIDE DEF x
    <2>4. s \ {x} \in SUBSET S /\ Cardinality(s \ {x}) <= k
      <3>1. IsFiniteSet(s) /\ Cardinality(s) \in Nat
        BY <1>1
      <3>2. Cardinality(s \ {x}) = Cardinality(s) - 1
        BY <2>3, <3>1, FS_RemoveElement
      <3>3. QED
        BY <2>2, <3>1, <3>2
    <2> USE DEF x
    <2>5. Adds(g, f, s \ {x})
      BY <2>1, <2>4
    <2>6. More(g)[s \ {x}] = g[s \ {x}]
      BY <2>4, <2>5 DEF Adds
    <2>7. More(g)[s] = f[x] + g[s \ {x}]
      BY <2>2
    <2>8. QED
      BY <2>2, <2>6, <2>7 DEF Adds
  <1>4. N = {}
    <2>1. SUFFICES ASSUME N # {} PROVE FALSE
      OBVIOUS
    <2>2. PICK m \in N : \A k \in N : m <= k
      <3>1. N \in SUBSET Nat
        OBVIOUS
      <3> HIDE DEF N
      <3>2. QED
        BY <2>1, <3>1, LeastNat
    <2>3. m \in Nat /\ m # 0
      BY <1>2, <2>2
    <2>4. m - 1 \in Nat /\ (m - 1) + 1 = m
      BY <2>3
    <2> HIDE DEF N
    <2>5. QED
      BY <1>3, <2>2, <2>4
  <1>5. PICK g : Upto(g, Cardinality(S))
    BY <1>1, <1>4
  <1>6. ASSUME NEW s \in SUBSET S
        PROVE  g[s] = More(g)[s]
    BY <1>1, <1>5 DEF Adds
  <1>7. SumsUp(More(g), f, S)
    <2>1. ASSUME NEW s \in SUBSET S, s # {}
          PROVE  LET x == CHOOSE y \in s : TRUE
                 IN  g[s \ {x}] = More(g)[s \ {x}]
      BY <1>6
    <2>2. More(g) = [s \in SUBSET S |->
                       IF s = {} THEN 0
                       ELSE LET x == CHOOSE y \in s : TRUE
                            IN f[x] + More(g)[s \ {x}]]
      <3>1. \A s \in SUBSET S :
              (IF s = {} THEN 0
               ELSE LET x == CHOOSE y \in s : TRUE IN f[x] + g[s \ {x}])
              = (IF s = {} THEN 0
                 ELSE LET x == CHOOSE y \in s : TRUE IN f[x] + More(g)[s \ {x}])
        <4> HIDE DEF More
        <4> QED BY <2>1
      <3>2. QED
        BY <3>1
    <2> HIDE DEF More
    <2>3. QED
      BY <2>2 DEF SumsUp
  <1>8. QED
    BY <1>7

LEMMA TotalIs ==
  ASSUME NEW f, NEW S, IsFiniteSet(S)
  PROVE  \E g : SumsUp(g, f, S) /\ TotalOf(f, S) = g[S]
  <1> DEFINE iter == CHOOSE g : SumsUp(g, f, S)
  <1>1. SumsUp(iter, f, S)
    BY SumsExist
  <1>2. TotalOf(f, S) = iter[S]
    BY DEF TotalOf, FoldFunctionOnSet, MapThenFoldSet, SumsUp
  <1>3. QED
    BY <1>1, <1>2

LEMMA SameSums ==
  ASSUME NEW f, NEW S, IsFiniteSet(S), NEW T \in SUBSET S, NEW g, NEW h,
         SumsUp(g, f, S), SumsUp(h, f, T)
  PROVE  g[T] = h[T]
  <1> DEFINE C == {s \in SUBSET T : g[s] # h[s]}
  <1>1. SUFFICES ASSUME C # {} PROVE FALSE
    OBVIOUS
  <1>2. PICK U \in C : \A V \in C : V \subseteq U => V = U
    <2>1. IsFiniteSet(T) /\ C \in SUBSET (SUBSET T)
      BY FS_Subset
    <2> HIDE DEF C
    <2>2. QED
      BY <1>1, <2>1, LeastSet
  <1>3. U # {}
    BY <1>2 DEF SumsUp
  <1> DEFINE x == CHOOSE y \in U : TRUE
  <1>4. x \in U
    BY <1>3
  <1>5. g[U \ {x}] = h[U \ {x}]
    BY <1>2, <1>4
  <1>6. g[U] = f[x] + g[U \ {x}] /\ h[U] = f[x] + h[U \ {x}]
    BY <1>2, <1>3 DEF SumsUp
  <1>7. QED
    BY <1>2, <1>5, <1>6

LEMMA TotalOfNone == ASSUME NEW f PROVE TotalOf(f, {}) = 0
  <1>1. PICK g : SumsUp(g, f, {}) /\ TotalOf(f, {}) = g[{}]
    BY TotalIs, FS_EmptySet
  <1>2. QED
    BY <1>1 DEF SumsUp

LEMMA TotalTakesOne ==
  ASSUME NEW f, NEW S, IsFiniteSet(S), S # {}
  PROVE  \E x \in S : TotalOf(f, S) = f[x] + TotalOf(f, S \ {x})
  <1> DEFINE x == CHOOSE y \in S : TRUE
             T == S \ {x}
  <1>1. x \in S /\ T \in SUBSET S
    OBVIOUS
  <1>2. PICK g : SumsUp(g, f, S) /\ TotalOf(f, S) = g[S]
    BY TotalIs
  <1>3. PICK h : SumsUp(h, f, T) /\ TotalOf(f, T) = h[T]
    BY TotalIs, FS_Subset, <1>1
  <1>4. g[T] = h[T]
    <2> HIDE DEF T, x
    <2> QED BY <1>1, <1>2, <1>3, SameSums
  <1>5. g[S] = f[x] + g[S \ {x}]
    BY <1>2 DEF SumsUp
  <1>6. QED
    BY <1>1, <1>2, <1>3, <1>4, <1>5

LEMMA TotalType ==
  ASSUME NEW f, NEW S, IsFiniteSet(S), \A x \in S : f[x] \in Int
  PROVE  TotalOf(f, S) \in Int
  <1> DEFINE C == {s \in SUBSET S : TotalOf(f, s) \notin Int}
  <1>1. SUFFICES ASSUME C # {} PROVE FALSE
    OBVIOUS
  <1>2. PICK U \in C : \A V \in C : V \subseteq U => V = U
    <2>1. C \in SUBSET (SUBSET S)
      OBVIOUS
    <2> HIDE DEF C
    <2>2. QED
      BY <1>1, <2>1, LeastSet
  <1>3. U # {}
    <2>1. TotalOf(f, {}) \in Int
      BY TotalOfNone
    <2>2. QED
      BY <1>2, <2>1
  <1>4. PICK x \in U : TotalOf(f, U) = f[x] + TotalOf(f, U \ {x})
    BY <1>2, <1>3, TotalTakesOne, FS_Subset
  <1>5. U \ {x} \notin C
    BY <1>2, <1>4
  <1>6. TotalOf(f, U \ {x}) \in Int /\ f[x] \in Int
    BY <1>2, <1>5
  <1>7. QED
    BY <1>2, <1>4, <1>6

(* Any one of them can be taken out.                                       *)
LEMMA TotalTakes ==
  ASSUME NEW f, NEW S, IsFiniteSet(S), \A x \in S : f[x] \in Int, NEW e \in S
  PROVE  TotalOf(f, S) = f[e] + TotalOf(f, S \ {e})
  <1> DEFINE C == {s \in SUBSET S : \E x \in s : TotalOf(f, s) # f[x] + TotalOf(f, s \ {x})}
  <1>1. SUFFICES ASSUME C # {} PROVE FALSE
    OBVIOUS
  <1>2. PICK U \in C : \A V \in C : V \subseteq U => V = U
    <2>1. C \in SUBSET (SUBSET S)
      OBVIOUS
    <2> HIDE DEF C
    <2>2. QED
      BY <1>1, <2>1, LeastSet
  <1>3. PICK x \in U : TotalOf(f, U) # f[x] + TotalOf(f, U \ {x})
    BY <1>2
  <1>4. PICK c \in U : TotalOf(f, U) = f[c] + TotalOf(f, U \ {c})
    BY <1>2, <1>3, TotalTakesOne, FS_Subset
  <1>5. c # x
    BY <1>3, <1>4
  <1>6. U \ {c} \notin C /\ U \ {x} \notin C /\ U \in SUBSET S
    BY <1>2, <1>3, <1>4
  <1>7. TotalOf(f, U \ {c}) = f[x] + TotalOf(f, (U \ {c}) \ {x})
    BY <1>3, <1>5, <1>6
  <1>8. TotalOf(f, U \ {x}) = f[c] + TotalOf(f, (U \ {x}) \ {c})
    BY <1>4, <1>5, <1>6
  <1>9. (U \ {c}) \ {x} = (U \ {x}) \ {c}
    OBVIOUS
  <1> DEFINE R == (U \ {x}) \ {c}
  <1>10. TotalOf(f, R) \in Int
    <2>1. R \in SUBSET S /\ IsFiniteSet(R)
      BY <1>6, FS_Subset
    <2> HIDE DEF R
    <2>2. QED
      BY <2>1, TotalType
  <1>11. f[x] \in Int /\ f[c] \in Int
    BY <1>3, <1>4, <1>6
  <1>12. /\ TotalOf(f, U) = f[c] + (f[x] + TotalOf(f, R))
         /\ TotalOf(f, U \ {x}) = f[c] + TotalOf(f, R)
    BY <1>4, <1>7, <1>8, <1>9
  <1> HIDE DEF R, C
  <1>13. QED
    BY <1>3, <1>10, <1>11, <1>12

LEMMA TotalSame ==
  ASSUME NEW f, NEW g, NEW S, IsFiniteSet(S),
         \A x \in S : f[x] \in Int /\ f[x] = g[x]
  PROVE  TotalOf(f, S) = TotalOf(g, S)
  <1> DEFINE C == {s \in SUBSET S : TotalOf(f, s) # TotalOf(g, s)}
  <1>1. SUFFICES ASSUME C # {} PROVE FALSE
    OBVIOUS
  <1>2. PICK U \in C : \A V \in C : V \subseteq U => V = U
    <2>1. C \in SUBSET (SUBSET S)
      OBVIOUS
    <2> HIDE DEF C
    <2>2. QED
      BY <1>1, <2>1, LeastSet
  <1>3. U # {}
    <2>1. TotalOf(f, {}) = TotalOf(g, {})
      BY TotalOfNone
    <2>2. QED
      BY <1>2, <2>1
  <1>4. PICK x \in U : TRUE
    BY <1>3
  <1>5. IsFiniteSet(U) /\ U \in SUBSET S /\ TotalOf(f, U) # TotalOf(g, U)
    BY <1>2, FS_Subset
  <1>6. TotalOf(f, U \ {x}) = TotalOf(g, U \ {x})
    BY <1>2, <1>4
  <1>7. /\ TotalOf(f, U) = f[x] + TotalOf(f, U \ {x})
        /\ TotalOf(g, U) = g[x] + TotalOf(g, U \ {x})
    BY <1>4, <1>5, TotalTakes
  <1>8. QED
    BY <1>4, <1>5, <1>6, <1>7

LEMMA TotalAdds ==
  ASSUME NEW f, NEW S, IsFiniteSet(S), \A x \in S : f[x] \in Int,
         NEW e, e \notin S, f[e] \in Int
  PROVE  TotalOf(f, S \cup {e}) = f[e] + TotalOf(f, S)
  <1>1. IsFiniteSet(S \cup {e})
    BY FS_AddElement
  <1>2. (S \cup {e}) \ {e} = S
    OBVIOUS
  <1>3. QED
    BY <1>1, <1>2, TotalTakes

LEMMA TotalNat ==
  ASSUME NEW f, NEW S, IsFiniteSet(S), \A x \in S : f[x] \in Nat
  PROVE  TotalOf(f, S) \in Nat
  <1> DEFINE C == {s \in SUBSET S : TotalOf(f, s) \notin Nat}
  <1>1. SUFFICES ASSUME C # {} PROVE FALSE
    OBVIOUS
  <1>2. PICK U \in C : \A V \in C : V \subseteq U => V = U
    <2>1. C \in SUBSET (SUBSET S)
      OBVIOUS
    <2> HIDE DEF C
    <2>2. QED
      BY <1>1, <2>1, LeastSet
  <1>3. U # {}
    <2>1. TotalOf(f, {}) \in Nat
      BY TotalOfNone
    <2>2. QED
      BY <1>2, <2>1
  <1>4. PICK x \in U : TotalOf(f, U) = f[x] + TotalOf(f, U \ {x})
    BY <1>2, <1>3, TotalTakesOne, FS_Subset
  <1>5. TotalOf(f, U \ {x}) \in Nat /\ f[x] \in Nat
    BY <1>2, <1>4
  <1>6. QED
    BY <1>2, <1>4, <1>5

LEMMA TotalSplits ==
  ASSUME NEW f, NEW S, IsFiniteSet(S), \A x \in S : f[x] \in Int, NEW T
  PROVE  TotalOf(f, S) = TotalOf(f, S \cap T) + TotalOf(f, S \ T)
  <1> DEFINE Holds(s) == TotalOf(f, s) = TotalOf(f, s \cap T) + TotalOf(f, s \ T)
             C == {s \in SUBSET S : ~Holds(s)}
  <1>1. SUFFICES ASSUME C # {} PROVE FALSE
    OBVIOUS
  <1>2. PICK U \in C : \A V \in C : V \subseteq U => V = U
    <2>1. C \in SUBSET (SUBSET S)
      OBVIOUS
    <2> HIDE DEF C
    <2>2. QED
      BY <1>1, <2>1, LeastSet
  <1>3. U # {}
    <2>1. TotalOf(f, {}) = 0 /\ {} \cap T = {} /\ {} \ T = {}
      BY TotalOfNone
    <2>2. Holds({})
      BY <2>1
    <2> HIDE DEF Holds
    <2>3. QED
      BY <1>2, <2>2
  <1>4. PICK x \in U : TRUE
    BY <1>3
  <1> DEFINE V == U \ {x}
  <1>5. IsFiniteSet(U) /\ U \in SUBSET S /\ ~Holds(U)
    BY <1>2, FS_Subset
  <1>6. Holds(V)
    <2> HIDE DEF Holds
    <2> QED BY <1>2, <1>4
  <1>7. TotalOf(f, U) = f[x] + TotalOf(f, V) /\ f[x] \in Int
    BY <1>4, <1>5, TotalTakes
  <1>8. /\ IsFiniteSet(V \cap T) /\ IsFiniteSet(V \ T)
        /\ V \cap T \in SUBSET S /\ V \ T \in SUBSET S
    BY <1>5, FS_Subset
  <1>9. TotalOf(f, V \cap T) \in Int /\ TotalOf(f, V \ T) \in Int
    <2> HIDE DEF V
    <2> QED BY <1>8, TotalType
  <1>10. TotalOf(f, V) = TotalOf(f, V \cap T) + TotalOf(f, V \ T)
    BY <1>6
  <1>11. TotalOf(f, U) # TotalOf(f, U \cap T) + TotalOf(f, U \ T)
    BY <1>5
  <1>12. CASE x \in T
    <2>1. U \cap T = (V \cap T) \cup {x} /\ U \ T = V \ T /\ x \notin V \cap T
      BY <1>4, <1>12
    <2>2. TotalOf(f, U \cap T) = f[x] + TotalOf(f, V \cap T)
      <3> HIDE DEF V
      <3> QED BY <1>7, <1>8, <2>1, TotalAdds
    <2>3. TotalOf(f, U \cap T) + TotalOf(f, U \ T) = (f[x] + TotalOf(f, V \cap T)) + TotalOf(f, V \ T)
      BY <2>1, <2>2
    <2>4. TotalOf(f, U) = f[x] + (TotalOf(f, V \cap T) + TotalOf(f, V \ T))
      BY <1>7, <1>10
    <2>5. (f[x] + TotalOf(f, V \cap T)) + TotalOf(f, V \ T)
            = f[x] + (TotalOf(f, V \cap T) + TotalOf(f, V \ T))
      BY <1>7, <1>9
    <2>6. QED
      BY <1>11, <2>3, <2>4, <2>5
  <1>13. CASE x \notin T
    <2>1. U \ T = (V \ T) \cup {x} /\ U \cap T = V \cap T /\ x \notin V \ T
      BY <1>4, <1>13
    <2>2. TotalOf(f, U \ T) = f[x] + TotalOf(f, V \ T)
      <3> HIDE DEF V
      <3> QED BY <1>7, <1>8, <2>1, TotalAdds
    <2>3. TotalOf(f, U \cap T) + TotalOf(f, U \ T) = TotalOf(f, V \cap T) + (f[x] + TotalOf(f, V \ T))
      BY <2>1, <2>2
    <2>4. TotalOf(f, U) = f[x] + (TotalOf(f, V \cap T) + TotalOf(f, V \ T))
      BY <1>7, <1>10
    <2>5. TotalOf(f, V \cap T) + (f[x] + TotalOf(f, V \ T))
            = f[x] + (TotalOf(f, V \cap T) + TotalOf(f, V \ T))
      BY <1>7, <1>9
    <2>6. QED
      BY <1>11, <2>3, <2>4, <2>5
  <1>14. QED
    BY <1>12, <1>13

LEMMA SumIs ==
  ASSUME NEW f
  PROVE  SumFunction(f) = TotalOf(f, DOMAIN f)
  BY DEF SumFunction, SumFunctionOnSet, TotalOf

-----------------------------------------------------------------------------
(* Arithmetic with a divisor that is not a numeral.                        *)
LEMMA Scaled ==
  ASSUME NEW d \in Nat, NEW x \in Int, NEW y \in Int, x <= y
  PROVE  d * x <= d * y
  OBVIOUS

LEMMA Divided ==
  ASSUME NEW n \in Int, NEW d \in Int, d > 0, NEW q \in Int, NEW r \in Int,
         q = n \div d, r = n % d
  PROVE  n = d * q + r /\ 0 <= r /\ r < d
  <1>1. n = d * q + r
    OBVIOUS
  <1>2. 0 <= r /\ r < d
    OBVIOUS
  <1>3. QED
    BY <1>1, <1>2

LEMMA Quotient ==
  ASSUME NEW n \in Int, NEW d \in Int, d > 0
  PROVE  n \div d \in Int /\ n % d \in Int
  OBVIOUS

(* A percentage, also one that is rounded down for once, is right to half  *)
(* a percent, and on the side of 100 where its part is.                    *)
LEMMA PercentageIs ==
  ASSUME NEW part \in Nat, NEW whole \in Nat \ {0}
  PROVE  /\ Percentage(part, whole) \in Nat
         /\ part <= whole => Percentage(part, whole) <= 100
         /\ part >= whole => Percentage(part, whole) >= 100
         /\ IsPercentage(Percentage(part, whole), part, whole)
  <1>1. PICK n \in Int, d \in Int : n = 200 * part + whole /\ d = 2 * whole
    OBVIOUS
  <1>2. d > 0 /\ n > 0
    BY <1>1
  <1>3. PICK q \in Int, r \in Int : q = n \div d /\ r = n % d
    BY <1>2, Quotient
  <1>4. n = d * q + r /\ 0 <= r /\ r < d
    BY <1>2, <1>3, Divided
  <1>5. q >= 0 /\ (r = 0 => q >= 1)
    <2>1. ASSUME q <= -1 PROVE FALSE
      <3>1. d * q <= d * (-1)
        BY <1>2, <2>1, Scaled
      <3>2. QED
        BY <1>2, <1>4, <3>1
    <2>2. ASSUME q = 0, r = 0 PROVE FALSE
      BY <1>2, <1>4, <2>2
    <2>3. QED
      BY <2>1, <2>2
  <1>6. ASSUME part <= whole PROVE q <= 100
    <2>1. ASSUME 101 <= q PROVE FALSE
      <3>1. d * 101 <= d * q
        BY <1>2, <2>1, Scaled
      <3>2. QED
        BY <1>1, <1>4, <1>6, <3>1
    <2>2. QED
      BY <2>1
  <1>7. ASSUME part >= whole PROVE q >= 100 /\ (r = 0 => q >= 101)
    <2>1. ASSUME q <= 99 PROVE FALSE
      <3>1. d * q <= d * 99
        BY <1>2, <2>1, Scaled
      <3>2. QED
        BY <1>1, <1>4, <1>7, <3>1
    <2>2. ASSUME q = 100, r = 0 PROVE FALSE
      <3>1. n = d * 100
        BY <1>4, <2>2
      <3>2. QED
        BY <1>1, <1>7, <3>1
    <2>3. QED
      BY <2>1, <2>2
  <1>8. Percentage(part, whole) = IF r = 0 /\ <<part, whole>> \in FallsShort
                                  THEN q - 1 ELSE q
    BY <1>1, <1>3 DEF Percentage
  <1>9. /\ n - d <= d * q /\ d * q <= n
        /\ r = 0 => n - d <= d * (q - 1) /\ d * (q - 1) <= n
    <2>1. d * (q - 1) = d * q - d
      OBVIOUS
    <2>2. d * q \in Int
      OBVIOUS
    <2>3. QED
      BY <1>2, <1>4, <2>1, <2>2
  <1>10. n - d <= d * Percentage(part, whole) /\ d * Percentage(part, whole) <= n
    BY <1>8, <1>9
  <1>11. n - d = 200 * part - whole
    BY <1>1
  <1>12. IsPercentage(Percentage(part, whole), part, whole)
    BY <1>1, <1>10, <1>11 DEF IsPercentage
  <1>13. QED
    BY <1>5, <1>6, <1>7, <1>8, <1>12

LEMMA MinIs ==
  ASSUME NEW a \in Int, NEW b \in Int
  PROVE  Min({a, b}) = IF a <= b THEN a ELSE b
  <1>1. \A x \in {a, b} : (\A y \in {a, b} : x <= y) <=> x = IF a <= b THEN a ELSE b
    OBVIOUS
  <1>2. QED
    BY <1>1 DEF Min

LEMMA MaxIs ==
  ASSUME NEW a \in Int, NEW b \in Int
  PROVE  Max({a, b}) = IF a >= b THEN a ELSE b
  <1>1. \A x \in {a, b} : (\A y \in {a, b} : x >= y) <=> x = IF a >= b THEN a ELSE b
    OBVIOUS
  <1>2. QED
    BY <1>1 DEF Max

(* What a Decimal loses of its zeros, toMinorUnits puts back.              *)
LEMMA RoundTrip ==
  ASSUME NEW minor \in Nat
  PROVE  toMinorUnits(DecimalText(minor)) = minor
  <1> DEFINE w == minor \div 100
             a == (minor \div 10) % 10
             b == minor % 10
  <1>1. w \in Nat /\ a \in 0..9 /\ b \in 0..9 /\ minor = w * 100 + a * 10 + b
    OBVIOUS
  <1>2. minor % 100 = a * 10 + b
    OBVIOUS
  <1>3. PICK text : text = DecimalText(minor)
    OBVIOUS
  <1>4. text.whole = w
    BY <1>3 DEF DecimalText
  <1>5. text.fraction = CASE minor % 100 = 0 -> <<>>
                          [] minor % 100 # 0 /\ minor % 10 = 0 -> <<a>>
                          [] minor % 10 # 0 -> <<a, b>>
    BY <1>3 DEF DecimalText
  <1> DEFINE digits == text.fraction \o <<0, 0>>
  <1>6. digits[1] = a /\ digits[2] = b
    <2> HIDE DEF w, a, b
    <2>1. CASE minor % 100 = 0
      <3>1. a = 0 /\ b = 0
        BY <2>1, <1>1, <1>2
      <3>2. text.fraction = <<>>
        BY <2>1, <1>5
      <3>3. digits = <<0, 0>>
        BY <3>2
      <3>4. QED
        BY <3>1, <3>3
    <2>2. CASE minor % 100 # 0 /\ minor % 10 = 0
      <3>1. text.fraction = <<a>> /\ b = 0
        BY <2>2, <1>5 DEF b
      <3>2. QED
        BY <3>1, <1>1
    <2>3. CASE minor % 10 # 0
      <3>1. minor % 100 # 0
        BY <2>3, <1>1, <1>2 DEF b
      <3>2. text.fraction = <<a, b>>
        BY <2>3, <3>1, <1>5
      <3>3. QED
        BY <3>2, <1>1
    <2>4. QED
      BY <2>1, <2>2, <2>3
  <1>7. toMinorUnits(text) = text.whole * 100 + digits[1] * 10 + digits[2]
    BY DEF toMinorUnits
  <1>8. QED
    <2> HIDE DEF w, a, b, digits
    <2>1. QED
      BY <1>1, <1>3, <1>4, <1>6, <1>7

-----------------------------------------------------------------------------
(* The database, any state of it that the tables allow.                    *)
Expenses == [Expense -> ExpenseRow \cup {None}]
Guests == [Guest -> GuestRow \cup {None}]
Tasks == [Task -> TaskRow \cup {None}]
Events == [Event -> EventRow \cup {None}]
Store == [budget : Budget \cup {None}, expenses : Expenses, guests : Guests,
          tasks : Tasks, events : Events]

LEMMA ExpenseRows ==
  ASSUME NEW expenses \in Expenses
  PROVE  /\ Rows(expenses) \in SUBSET Expense /\ IsFiniteSet(Rows(expenses))
         /\ \A e \in Rows(expenses) : /\ expenses[e].amount \in Nat
                                      /\ expenses[e].isPaid \in BOOLEAN
  <1>1. Rows(expenses) \in SUBSET Expense
    BY DEF Rows, Expenses
  <1>2. \A e \in Rows(expenses) : expenses[e] \in ExpenseRow
    BY DEF Rows, Expenses
  <1>3. QED
    BY <1>1, <1>2, OverviewAssumption, FS_Subset DEF ExpenseRow

LEMMA GuestRows ==
  ASSUME NEW guests \in Guests
  PROVE  /\ Rows(guests) \in SUBSET Guest /\ IsFiniteSet(Rows(guests))
         /\ \A g \in Rows(guests) : /\ guests[g].rsvpStatus \in Rsvp
                                    /\ guests[g].plusOneCount \in Nat
  <1>1. Rows(guests) \in SUBSET Guest
    BY DEF Rows, Guests
  <1>2. \A g \in Rows(guests) : guests[g] \in GuestRow
    BY DEF Rows, Guests
  <1>3. QED
    BY <1>1, <1>2, OverviewAssumption, FS_Subset DEF GuestRow

LEMMA TaskRows ==
  ASSUME NEW tasks \in Tasks
  PROVE  /\ Rows(tasks) \in SUBSET Task /\ IsFiniteSet(Rows(tasks))
         /\ \A t \in Rows(tasks) : tasks[t].isCompleted \in BOOLEAN
  <1>1. Rows(tasks) \in SUBSET Task
    BY DEF Rows, Tasks
  <1>2. \A t \in Rows(tasks) : tasks[t] \in TaskRow
    BY DEF Rows, Tasks
  <1>3. QED
    BY <1>1, <1>2, OverviewAssumption, FS_Subset DEF TaskRow

LEMMA EventRows ==
  ASSUME NEW events \in Events
  PROVE  Rows(events) \in SUBSET Event /\ IsFiniteSet(Rows(events))
  BY OverviewAssumption, FS_Subset DEF Rows, Events

LEMMA Split ==
  ASSUME NEW S, IsFiniteSet(S), NEW T \in SUBSET S
  PROVE  /\ Cardinality(S) \in Nat /\ Cardinality(T) \in Nat
         /\ Cardinality(S \ T) \in Nat
         /\ Cardinality(S) = Cardinality(T) + Cardinality(S \ T)
  <1>1. IsFiniteSet(T) /\ IsFiniteSet(S \ T)
    BY FS_Subset
  <1>2. T \cup (S \ T) = S /\ T \cap (S \ T) = {}
    OBVIOUS
  <1>3. Cardinality(T \cup (S \ T)) = Cardinality(T) + Cardinality(S \ T) - Cardinality(T \cap (S \ T))
    BY <1>1, FS_Union
  <1>4. Cardinality({}) = 0
    BY FS_EmptySet
  <1>5. Cardinality(T) \in Nat /\ Cardinality(S \ T) \in Nat /\ Cardinality(S) \in Nat
    BY <1>1, FS_CardinalityType
  <1>6. Cardinality(T \cap (S \ T)) = 0
    BY <1>2, <1>4
  <1>7. Cardinality(S) = Cardinality(T) + Cardinality(S \ T) - 0
    BY <1>2, <1>3, <1>6
  <1>8. QED
    BY <1>5, <1>7

-----------------------------------------------------------------------------
(* The sums.                                                               *)
LEMMA SpentIs ==
  ASSUME NEW expenses \in Expenses, NEW S \in SUBSET Rows(expenses)
  PROVE  /\ Spent(expenses, S) = SumFunction([e \in S |-> expenses[e].amount])
         /\ Spent(expenses, S) \in Nat
  <1> DEFINE f == [e \in S |-> toMinorUnits(DecimalText(expenses[e].amount))]
             g == [e \in S |-> expenses[e].amount]
  <1>1. IsFiniteSet(S) /\ \A e \in S : expenses[e].amount \in Nat
    BY ExpenseRows, FS_Subset
  <1>2. f = g
    BY <1>1, RoundTrip
  <1>3. Spent(expenses, S) = SumFunction(f)
    BY DEF Spent
  <1>4. DOMAIN g = S /\ \A e \in S : g[e] \in Nat
    BY <1>1
  <1> HIDE DEF f, g
  <1>5. SumFunction(g) \in Nat
    BY <1>1, <1>4, SumIs, TotalNat
  <1>6. QED
    BY <1>2, <1>3, <1>5 DEF g

(* The paid and the unpaid amounts sum to what is spent.                   *)
LEMMA TotalIsSpent ==
  ASSUME NEW expenses \in Expenses
  PROVE  LET spent == Spent(expenses, Rows(expenses))
             paid == Spent(expenses, {e \in Rows(expenses) : expenses[e].isPaid})
         IN /\ Total(expenses, BOOLEAN) = spent
            /\ Total(expenses, {TRUE}) = paid
            /\ Total(expenses, {FALSE}) = spent - paid
  <1> DEFINE R == Rows(expenses)
             P == {e \in R : expenses[e].isPaid}
             N == R \ P
             f(S) == [e \in S |-> expenses[e].amount]
  <1>1. /\ R \in SUBSET Expense /\ IsFiniteSet(R)
        /\ \A e \in R : expenses[e].amount \in Nat /\ expenses[e].isPaid \in BOOLEAN
    BY ExpenseRows
  <1>2. /\ {e \in R : expenses[e].isPaid \in BOOLEAN} = R
        /\ {e \in R : expenses[e].isPaid \in {TRUE}} = P
        /\ {e \in R : expenses[e].isPaid \in {FALSE}} = N
    BY <1>1, Zenon
  <1>3. \A S : SumFunction([e \in S |-> expenses[e].amount]) = TotalOf(f(S), S)
    <2> SUFFICES ASSUME NEW S PROVE SumFunction(f(S)) = TotalOf(f(S), S)
      OBVIOUS
    <2> PICK g : g = f(S)
      OBVIOUS
    <2>1. DOMAIN g = S
      OBVIOUS
    <2>2. QED
      BY <2>1, SumIs
  <1>4. Spent(expenses, R) = TotalOf(f(R), R) /\ Spent(expenses, P) = TotalOf(f(P), P)
    <2>1. R \in SUBSET Rows(expenses) /\ P \in SUBSET Rows(expenses)
      OBVIOUS
    <2>2. Spent(expenses, R) = SumFunction(f(R)) /\ Spent(expenses, P) = SumFunction(f(P))
      <3> HIDE DEF R, P
      <3> QED BY <2>1, SpentIs
    <2> HIDE DEF R, P, f
    <2>3. QED
      BY <2>2, <1>3 DEF f
  <1>5. /\ Total(expenses, BOOLEAN) = TotalOf(f(R), R)
        /\ Total(expenses, {TRUE}) = TotalOf(f(P), P)
        /\ Total(expenses, {FALSE}) = TotalOf(f(N), N)
    <2>1. \A paid : Total(expenses, paid) =
             SumFunction([e \in {x \in R : expenses[x].isPaid \in paid} |-> expenses[e].amount])
      BY DEF Total
    <2> HIDE DEF R, P, N
    <2>2. QED
      BY <2>1, <1>2, <1>3
  <1>6. PICK g : g = f(R)
    OBVIOUS
  <1>7. TotalOf(g, R) = TotalOf(g, P) + TotalOf(g, N)
    <2>1. IsFiniteSet(R) /\ (\A x \in R : g[x] \in Int) /\ R \cap P = P /\ R \ P = N
      BY <1>1, <1>6
    <2> HIDE DEF R, P, N
    <2>2. QED
      BY <2>1, TotalSplits
  <1>8. TotalOf(g, P) = TotalOf(f(P), P) /\ TotalOf(g, N) = TotalOf(f(N), N)
    <2>1. \A S \in SUBSET R : TotalOf(g, S) = TotalOf(f(S), S)
      <3> SUFFICES ASSUME NEW S \in SUBSET R PROVE TotalOf(g, S) = TotalOf(f(S), S)
        OBVIOUS
      <3>1. PICK h : h = f(S)
        OBVIOUS
      <3>2. IsFiniteSet(S) /\ \A x \in S : g[x] \in Int /\ g[x] = h[x]
        BY <1>1, <1>6, <3>1, FS_Subset
      <3> HIDE DEF f, R
      <3>3. QED
        BY <3>1, <3>2, TotalSame
    <2>2. P \in SUBSET R /\ N \in SUBSET R
      OBVIOUS
    <2> HIDE DEF P, N, R, f
    <2>3. QED
      BY <2>1, <2>2
  <1>9. TotalOf(g, P) \in Int /\ TotalOf(g, N) \in Int
    <2>1. /\ IsFiniteSet(P) /\ IsFiniteSet(N)
          /\ (\A x \in P : g[x] \in Int) /\ (\A x \in N : g[x] \in Int)
      BY <1>1, <1>6, FS_Subset
    <2> HIDE DEF P, N
    <2>2. QED
      BY <2>1, TotalType
  <1>10. Spent(expenses, R) - Spent(expenses, P) = TotalOf(f(N), N)
    <2> HIDE DEF P, N, R, f
    <2> QED BY <1>4, <1>6, <1>7, <1>8, <1>9
  <1>11. QED
    BY <1>4, <1>5, <1>10

(* Who attends is one head at least.                                       *)
LEMMA TotalCovers ==
  ASSUME NEW f, NEW S, IsFiniteSet(S), \A x \in S : f[x] \in Nat \ {0}
  PROVE  TotalOf(f, S) \in Nat /\ TotalOf(f, S) >= Cardinality(S)
  <1> DEFINE C == {s \in SUBSET S : ~(TotalOf(f, s) >= Cardinality(s))}
  <1>1. SUFFICES ASSUME C # {} PROVE FALSE
    <2>1. TotalOf(f, S) \in Nat
      BY TotalNat
    <2>2. QED
      BY <2>1
  <1>2. PICK U \in C : \A V \in C : V \subseteq U => V = U
    <2>1. C \in SUBSET (SUBSET S)
      OBVIOUS
    <2> HIDE DEF C
    <2>2. QED
      BY <1>1, <2>1, LeastSet
  <1>3. IsFiniteSet(U) /\ U \in SUBSET S /\ ~(TotalOf(f, U) >= Cardinality(U))
    BY <1>2, FS_Subset
  <1>4. U # {}
    <2>1. SUFFICES ASSUME U = {} PROVE FALSE
      OBVIOUS
    <2>2. TotalOf(f, U) = 0 /\ Cardinality(U) = 0
      BY <2>1, TotalOfNone, FS_EmptySet, Zenon
    <2>3. QED
      BY <1>3, <2>2
  <1>5. PICK x \in U : TotalOf(f, U) = f[x] + TotalOf(f, U \ {x})
    BY <1>3, <1>4, TotalTakesOne
  <1>6. TotalOf(f, U \ {x}) >= Cardinality(U \ {x})
    <2>1. U \ {x} \in SUBSET S /\ U \ {x} # U
      BY <1>3, <1>5
    <2>2. QED
      BY <1>2, <2>1
  <1>7. /\ Cardinality(U \ {x}) = Cardinality(U) - 1
        /\ Cardinality(U) \in Nat /\ Cardinality(U \ {x}) \in Nat
    BY <1>3, <1>5, FS_RemoveElement, FS_CardinalityType
  <1>8. TotalOf(f, U \ {x}) \in Nat
    <2>1. IsFiniteSet(U \ {x}) /\ \A y \in U \ {x} : f[y] \in Nat
      BY <1>3, FS_Subset
    <2>2. QED
      BY <2>1, TotalNat
  <1>9. f[x] \in Nat /\ f[x] >= 1
    BY <1>3, <1>5
  <1>10. QED
    BY <1>3, <1>5, <1>6, <1>7, <1>8, <1>9

LEMMA HeadsIs ==
  ASSUME NEW guests \in Guests, NEW S \in SUBSET Rows(guests)
  PROVE  LET heads == SumFunction([g \in S |-> 1 + guests[g].plusOneCount])
         IN heads \in Nat /\ heads >= Cardinality(S)
  <1> DEFINE f == [g \in S |-> 1 + guests[g].plusOneCount]
  <1>1. IsFiniteSet(S)
    BY GuestRows, FS_Subset
  <1>2. DOMAIN f = S /\ \A g \in S : f[g] \in Nat \ {0}
    <2>1. \A g \in S : guests[g].plusOneCount \in Nat
      BY GuestRows
    <2>2. QED
      BY <2>1
  <1> HIDE DEF f
  <1>3. SumFunction(f) = TotalOf(f, S)
    BY <1>2, SumIs
  <1>4. QED
    BY <1>1, <1>2, <1>3, TotalCovers DEF f

-----------------------------------------------------------------------------
(* The figures of the budget fit each other, whatever is spent.            *)
LEMMA BudgetFits ==
  ASSUME NEW b, NEW spent \in Nat, NEW budget \in Nat,
         b.totalBudget = budget, b.totalSpent = spent,
         b.remainingBudget = Max({0, budget - spent}),
         b.spentPercentage = SpentPercentage(spent, budget)
  PROVE  Fit(b)
  <1>1. b.remainingBudget = IF spent <= budget THEN budget - spent ELSE 0
    <2>1. b.remainingBudget = IF 0 >= budget - spent THEN 0 ELSE budget - spent
      BY MaxIs
    <2>2. QED
      BY <2>1
  <1>2. CASE budget = 0
    <2>1. b.spentPercentage = 0
      BY <1>2 DEF SpentPercentage
    <2>2. QED
      BY <1>1, <1>2, <2>1 DEF Fit, IsPercentage
  <1>3. CASE budget > 0
    <2>1. PICK percentage \in Nat :
            /\ percentage = Percentage(spent, budget)
            /\ spent >= budget => percentage >= 100
            /\ spent <= budget => percentage <= 100
            /\ IsPercentage(percentage, spent, budget)
      BY <1>3, PercentageIs
    <2>2. b.spentPercentage = Min({100, percentage})
      BY <1>3, <2>1 DEF SpentPercentage
    <2>3. b.spentPercentage = IF 100 <= percentage THEN 100 ELSE percentage
      BY <2>2, MinIs
    <2>4. CASE spent >= budget
      BY <1>1, <1>3, <2>1, <2>3, <2>4 DEF Fit
    <2>5. CASE ~(spent >= budget)
      <3>1. b.spentPercentage = percentage /\ percentage \in 0..100
        BY <2>1, <2>3, <2>5
      <3>2. QED
        BY <1>1, <2>1, <2>5, <3>1 DEF Fit
    <2>6. QED
      BY <2>4, <2>5
  <1>4. QED
    BY <1>2, <1>3

LEMMA BudgetOf ==
  ASSUME NEW budget \in Budget
  PROVE  budget \in Nat /\ toMinorUnits(DecimalText(budget)) = budget
  BY OverviewAssumption, RoundTrip

(* The dashboard and the list of expenses show the same money.             *)
LEMMA DashboardBudgetFits ==
  ASSUME NEW budget \in Budget, NEW expenses \in Expenses
  PROVE  /\ Fit(DashboardBudget(budget, expenses))
         /\ DashboardBudget(budget, expenses).totalBudget = budget
         /\ DashboardBudget(budget, expenses).totalSpent = Total(expenses, BOOLEAN)
  <1> DEFINE spent == Spent(expenses, Rows(expenses))
             b == DashboardBudget(budget, expenses)
  <1>1. spent \in Nat /\ spent = Total(expenses, BOOLEAN)
    <2>1. Rows(expenses) \in SUBSET Rows(expenses)
      OBVIOUS
    <2>2. spent \in Nat
      BY <2>1, SpentIs
    <2>3. QED
      BY <2>2, TotalIsSpent
  <1>2. /\ b.totalBudget = toMinorUnits(DecimalText(budget)) /\ b.totalSpent = spent
        /\ b.remainingBudget = Max({0, toMinorUnits(DecimalText(budget)) - spent})
        /\ b.spentPercentage = SpentPercentage(spent, toMinorUnits(DecimalText(budget)))
    BY DEF DashboardBudget
  <1>3. budget \in Nat /\ toMinorUnits(DecimalText(budget)) = budget
    BY BudgetOf
  <1>4. /\ b.totalBudget = budget
        /\ b.remainingBudget = Max({0, budget - spent})
        /\ b.spentPercentage = SpentPercentage(spent, budget)
    BY <1>2, <1>3
  <1> HIDE DEF b, spent
  <1>5. Fit(b)
    BY <1>1, <1>2, <1>3, <1>4, BudgetFits
  <1>6. QED
    BY <1>1, <1>2, <1>4, <1>5 DEF b

LEMMA ExpenseSummaryFits ==
  ASSUME NEW budget \in Budget, NEW expenses \in Expenses
  PROVE  LET s == ExpenseSummary(budget, expenses) IN
         /\ Fit(s) /\ s.paidAmount + s.unpaidAmount = s.totalSpent
         /\ s.totalBudget = budget
         /\ Total(expenses, BOOLEAN) = s.totalSpent
         /\ Total(expenses, {TRUE}) = s.paidAmount
         /\ Total(expenses, {FALSE}) = s.unpaidAmount
  <1> DEFINE P == {e \in Rows(expenses) : expenses[e].isPaid}
             spent == Spent(expenses, Rows(expenses))
             paid == Spent(expenses, P)
             s == ExpenseSummary(budget, expenses)
  <1>1. /\ spent \in Nat /\ paid \in Nat /\ spent = Total(expenses, BOOLEAN)
        /\ paid = Total(expenses, {TRUE}) /\ spent - paid = Total(expenses, {FALSE})
    <2>1. Rows(expenses) \in SUBSET Rows(expenses) /\ P \in SUBSET Rows(expenses)
      OBVIOUS
    <2>2. spent \in Nat /\ paid \in Nat
      <3> HIDE DEF P
      <3> QED BY <2>1, SpentIs
    <2>3. QED
      BY <2>2, TotalIsSpent
  <1>2. /\ s.totalBudget = toMinorUnits(DecimalText(budget)) /\ s.totalSpent = spent
        /\ s.remainingBudget = Max({0, toMinorUnits(DecimalText(budget)) - spent})
        /\ s.spentPercentage = SpentPercentage(spent, toMinorUnits(DecimalText(budget)))
        /\ s.paidAmount = paid /\ s.unpaidAmount = spent - paid
    BY DEF ExpenseSummary
  <1>3. budget \in Nat /\ toMinorUnits(DecimalText(budget)) = budget
    BY BudgetOf
  <1>4. /\ s.totalBudget = budget
        /\ s.remainingBudget = Max({0, budget - spent})
        /\ s.spentPercentage = SpentPercentage(spent, budget)
    BY <1>2, <1>3
  <1> HIDE DEF s, spent, paid
  <1>5. Fit(s)
    BY <1>1, <1>2, <1>3, <1>4, BudgetFits
  <1>6. s.paidAmount + s.unpaidAmount = s.totalSpent
    BY <1>1, <1>2
  <1>7. QED
    BY <1>1, <1>2, <1>4, <1>5, <1>6 DEF s

-----------------------------------------------------------------------------
(* The counts.                                                             *)
LEMMA TasksFit ==
  ASSUME NEW tasks \in Tasks
  PROVE  LET f == DashboardTasks(tasks) IN
         /\ f = TaskSummary(tasks)
         /\ TrueTasks(f, tasks) /\ TasksAddUp(f)
         /\ f.pendingTasks = Cardinality(OpenTasks(tasks))
  <1> DEFINE R == Rows(tasks)
             D == {t \in R : tasks[t].isCompleted}
             total == Cardinality(R)
             completed == Cardinality(D)
             percentage == IF total > 0 THEN Percentage(completed, total) ELSE 0
             f == DashboardTasks(tasks)
  <1>1. IsFiniteSet(R) /\ D \in SUBSET R /\ R \ D = OpenTasks(tasks)
    BY TaskRows DEF OpenTasks
  <1>2. /\ f.totalTasks = total /\ f.completedTasks = completed
        /\ f.pendingTasks = total - completed
        /\ f.completedPercentage = percentage
    BY DEF DashboardTasks
  <1>3. /\ {t \in R : tasks[t].isCompleted = TRUE} = D
        /\ {t \in R : tasks[t].isCompleted = FALSE} = R \ D
    BY TaskRows, Zenon
  <1>4. f = TaskSummary(tasks)
    BY DEF DashboardTasks, TaskSummary
  <1> HIDE DEF R, D
  <1>5. /\ total \in Nat /\ completed \in Nat /\ Cardinality(R \ D) \in Nat
        /\ total = completed + Cardinality(R \ D)
    BY <1>1, Split
  <1> HIDE DEF total, completed, f
  <1>6. f.pendingTasks = Cardinality(R \ D)
    BY <1>2, <1>5
  <1>7. TrueTasks(f, tasks)
    BY <1>2, <1>3, <1>6 DEF TrueTasks, R, total, completed
  <1>8. percentage \in 0..100 /\ IsPercentage(percentage, completed, total)
    <2>1. CASE total = 0
      BY <2>1 DEF IsPercentage
    <2>2. CASE total > 0
      <3>1. completed <= total /\ total \in Nat \ {0}
        BY <1>5, <2>2
      <3>2. /\ Percentage(completed, total) \in Nat
            /\ Percentage(completed, total) <= 100
            /\ IsPercentage(Percentage(completed, total), completed, total)
        BY <1>5, <3>1, PercentageIs
      <3>3. QED
        BY <2>2, <3>2
    <2>3. QED
      BY <1>5, <2>1, <2>2
  <1> HIDE DEF percentage
  <1>9. TasksAddUp(f)
    BY <1>2, <1>5, <1>6, <1>8 DEF TasksAddUp
  <1>10. QED
    BY <1>1, <1>4, <1>6, <1>7, <1>9 DEF f

LEMMA GuestsFit ==
  ASSUME NEW guests \in Guests
  PROVE  LET f == DashboardGuests(guests) IN
         f = GuestSummary(guests) /\ TrueGuests(f, guests) /\ GuestsAddUp(f)
  <1> DEFINE R == Rows(guests)
             A == {g \in R : guests[g].rsvpStatus = "ATTENDING"}
             P == {g \in R : guests[g].rsvpStatus = "PENDING"}
             D == {g \in R : guests[g].rsvpStatus = "DECLINED"}
             N == {g \in R : guests[g].rsvpStatus \notin {"ATTENDING", "PENDING"}}
             heads == SumFunction([g \in A |-> 1 + guests[g].plusOneCount])
  <1>1. IsFiniteSet(R) /\ \A g \in R : guests[g].rsvpStatus \in Rsvp
    BY GuestRows
  <1>2. N = D /\ R \ A = P \cup D /\ (P \cup D) \ P = D
    BY <1>1 DEF Rsvp
  <1>3. /\ Cardinality(R) = Cardinality(A) + Cardinality(P) + Cardinality(D)
        /\ Cardinality(A) \in Nat
    <2>1. /\ A \in SUBSET R /\ P \in SUBSET (P \cup D) /\ P \cup D \in SUBSET R
          /\ IsFiniteSet(P \cup D)
      BY <1>1, FS_Subset
    <2> HIDE DEF R, A, P, D
    <2>2. /\ Cardinality(R) = Cardinality(A) + Cardinality(R \ A)
          /\ Cardinality(A) \in Nat
      BY <1>1, <2>1, Split
    <2>3. /\ Cardinality(P \cup D) = Cardinality(P) + Cardinality((P \cup D) \ P)
          /\ Cardinality(P) \in Nat /\ Cardinality((P \cup D) \ P) \in Nat
      BY <2>1, Split
    <2>4. /\ Cardinality(R \ A) = Cardinality(P \cup D)
          /\ Cardinality((P \cup D) \ P) = Cardinality(D)
      BY <1>2
    <2>5. QED
      BY <2>2, <2>3, <2>4
  <1>4. DashboardGuests(guests) =
          [totalGuests |-> Cardinality(R), attending |-> Cardinality(A),
           pending |-> Cardinality(P), declined |-> Cardinality(D),
           totalHeadcount |-> heads]
    BY DEF DashboardGuests
  <1>5. GuestSummary(guests) =
          [totalGuests |-> Cardinality(R), attending |-> Cardinality(A),
           pending |-> Cardinality(P), declined |-> Cardinality(N),
           totalHeadcount |-> heads]
    BY DEF GuestSummary, Headcount
  <1>6. People(guests) = heads
    BY DEF People
  <1>7. heads >= Cardinality(A)
    <2>1. A \in SUBSET Rows(guests)
      OBVIOUS
    <2> HIDE DEF A
    <2>2. QED
      BY <2>1, HeadsIs
  <1>8. TrueGuests(DashboardGuests(guests), guests)
    BY <1>4, <1>6 DEF TrueGuests
  <1> HIDE DEF R, A, P, D, N, heads
  <1>9. GuestsAddUp(DashboardGuests(guests))
    BY <1>3, <1>4, <1>7 DEF GuestsAddUp
  <1>10. QED
    BY <1>2, <1>4, <1>5, <1>8, <1>9

LEMMA ListsFit ==
  ASSUME NEW s \in Store, NEW start, NEW l \in Lists(s, start)
  PROVE  LET upcoming == Cardinality(UpcomingEvents(s.events, start))
             open == Cardinality(OpenTasks(s.tasks))
         IN /\ Cardinality(l.upcomingTasks) = Min({DASHBOARD_LIST_LIMIT, open})
            /\ Cardinality(l.events) = Min({DASHBOARD_LIST_LIMIT, upcoming})
            /\ (l.nextEvent = {}) <=> (upcoming = 0)
            /\ TrueTaskList(l.upcomingTasks, s.tasks)
            /\ \A f : (f.lists = l /\ f.upcomingEventsCount = upcoming)
                       => TrueEvents(f, s.events, start)
  <1> DEFINE U == UpcomingEvents(s.events, start)
             O == OpenTasks(s.tasks)
             starts == [e \in U |-> s.events[e].startTime]
             dues == [t \in O |-> s.tasks[t].dueDate]
  <1>1. /\ l.nextEvent \in FirstOf(U, starts, 1)
        /\ l.events \in FirstOf(U, starts, DASHBOARD_LIST_LIMIT)
        /\ l.upcomingTasks \in FirstOf(O, dues, DASHBOARD_LIST_LIMIT)
    BY DEF Lists
  <1>2. \A S, key, limit : \A F \in FirstOf(S, key, limit) :
          TrueList(F, S, key) /\ Cardinality(F) = Min({limit, Cardinality(S)})
    BY DEF FirstOf, TrueList
  <1>3. IsFiniteSet(U)
    <2>1. s.events \in Events
      BY DEF Store
    <2>2. IsFiniteSet(Rows(s.events)) /\ U \in SUBSET Rows(s.events)
      BY <2>1, EventRows DEF UpcomingEvents
    <2>3. QED
      BY <2>2, FS_Subset
  <1> HIDE DEF U, O, starts, dues
  <1>4. Cardinality(U) \in Nat /\ IsFiniteSet(l.nextEvent)
    <2>1. l.nextEvent \in SUBSET U
      BY <1>1 DEF FirstOf
    <2>2. QED
      BY <1>3, <2>1, FS_CardinalityType, FS_Subset
  <1>5. Cardinality(l.nextEvent) = IF 1 <= Cardinality(U) THEN 1 ELSE Cardinality(U)
    <2>1. Cardinality(l.nextEvent) = Min({1, Cardinality(U)})
      BY <1>1, <1>2
    <2>2. PICK n \in Nat : n = Cardinality(U)
      BY <1>4
    <2>3. Min({1, n}) = IF 1 <= n THEN 1 ELSE n
      BY MinIs
    <2>4. QED
      BY <2>1, <2>2, <2>3
  <1>6. (l.nextEvent = {}) <=> (Cardinality(l.nextEvent) = 0)
    BY <1>4, FS_EmptySet
  <1>7. QED
    <2>1. (l.nextEvent = {}) <=> (Cardinality(U) = 0)
      BY <1>4, <1>5, <1>6
    <2>2. /\ TrueList(l.upcomingTasks, O, dues)
          /\ TrueList(l.events, U, starts) /\ TrueList(l.nextEvent, U, starts)
      BY <1>1, <1>2
    <2>3. TrueTaskList(l.upcomingTasks, s.tasks)
      BY <2>2 DEF TrueTaskList, O, dues, OpenTasks
    <2>4. ASSUME NEW f, f.lists = l, f.upcomingEventsCount = Cardinality(U)
          PROVE  TrueEvents(f, s.events, start)
      BY <2>2, <2>4 DEF TrueEvents, U, starts, UpcomingEvents
    <2>5. QED
      BY <1>1, <1>2, <2>1, <2>3, <2>4 DEF U, O

-----------------------------------------------------------------------------
LEMMA Agreed ==
  ASSUME NEW v \in Store, v.budget # None, NEW f \in Dashboard(v, 0)
  PROVE  LET summary == ExpenseSummary(v.budget, v.expenses) IN
         /\ \A x \in DOMAIN f.budget : f.budget[x] = summary[x]
         /\ f.budget.totalBudget = toMinorUnits(Details(v.budget))
         /\ f.guests = GuestSummary(v.guests)
         /\ f.tasks = TaskSummary(v.tasks)
  <1>1. /\ f.budget = DashboardBudget(v.budget, v.expenses)
        /\ f.guests = DashboardGuests(v.guests)
        /\ f.tasks = DashboardTasks(v.tasks)
    BY DEF Dashboard
  <1>2. \A x \in DOMAIN f.budget : f.budget[x] = ExpenseSummary(v.budget, v.expenses)[x]
    BY <1>1 DEF DashboardBudget, ExpenseSummary
  <1>3. f.budget.totalBudget = toMinorUnits(Details(v.budget))
    BY <1>1 DEF DashboardBudget, Details
  <1>4. f.guests = GuestSummary(v.guests)
    <2>1. v.guests \in Guests
      BY DEF Store
    <2>2. PICK g \in Guests : g = v.guests
      BY <2>1
    <2>3. DashboardGuests(g) = GuestSummary(g)
      BY GuestsFit
    <2>4. QED
      BY <1>1, <2>2, <2>3
  <1>5. f.tasks = TaskSummary(v.tasks)
    BY <1>1 DEF DashboardTasks, TaskSummary
  <1>6. QED
    BY <1>2, <1>3, <1>4, <1>5

-----------------------------------------------------------------------------
(* What a call has read of x is what some version since from had.          *)
Saw(s, x, from) == \E i \in from..Version : s[x] = versions[i][x]

LEMMA Tables ==
  /\ \A op \in Op : TablesOf(op) \in Seq(Table)
  /\ TablesOf("dashboard") = <<"events", "expenses", "tasks", "guests">>
  /\ TablesOf("expenses") = <<"expenses">>
  /\ TablesOf("guests") = <<"guests">>
  /\ TablesOf("tasks") = <<"tasks">>
  BY DEF TablesOf, Op, Table

(* A table of s, read anew of d.                                           *)
Read(t, s, d, table) == t = [s EXCEPT ![table] = d[table]]

LEMMA StoreFields ==
  ASSUME NEW s \in Store, NEW d \in Store, NEW table \in Table,
         NEW t, Read(t, s, d, table)
  PROVE  /\ t \in Store /\ t[table] = d[table] /\ t.budget = s.budget
         /\ \A x \in Table : x # table => t[x] = s[x]
  BY DEF Store, Table, Read

-----------------------------------------------------------------------------
(* What is computed of rows read since from.                               *)
LEMMA WeddingTrue ==
  ASSUME NEW a, NEW s \in Store, s.budget # None, Saw(s, "budget", a.from),
         a.to = Version, a.figures \in Figures("wedding", s, a.start)
  PROVE  WasTrue(a) /\ AddsUp(a)
  <1>1. a.figures = [op |-> "wedding", totalBudget |-> Details(s.budget)]
    BY DEF Figures
  <1>2. a.figures.op = "wedding" /\ a.figures.totalBudget = DecimalText(s.budget)
    BY <1>1 DEF Details
  <1>3. s.budget \in Budget
    BY DEF Store
  <1>4. toMinorUnits(a.figures.totalBudget) = s.budget
    BY <1>2, <1>3, BudgetOf
  <1>5. PICK i \in a.from..a.to : s.budget = versions[i].budget
    BY DEF Saw
  <1>6. a.figures \notin {NoFigures, [op |-> "refused"]}
    BY <1>2 DEF NoFigures
  <1>7. QED
    BY <1>2, <1>4, <1>5, <1>6 DEF WasTrue, AddsUp, Answered

LEMMA ExpensesTrue ==
  ASSUME NEW a, NEW s \in Store, s.budget # None, Saw(s, "budget", a.from),
         Saw(s, "expenses", a.from), a.to = Version,
         a.figures \in Figures("expenses", s, a.start)
  PROVE  WasTrue(a) /\ AddsUp(a)
  <1>1. a.figures = [op |-> "expenses", summary |-> ExpenseSummary(s.budget, s.expenses)]
    BY DEF Figures
  <1>2. /\ a.figures.op = "expenses"
        /\ a.figures.summary = ExpenseSummary(s.budget, s.expenses)
    BY <1>1
  <1>3. PICK budget \in Budget, expenses \in Expenses :
          budget = s.budget /\ expenses = s.expenses
    BY DEF Store
  <1>4. LET f == a.figures.summary IN
        /\ Fit(f) /\ f.paidAmount + f.unpaidAmount = f.totalSpent
        /\ f.totalBudget = budget
        /\ Total(expenses, BOOLEAN) = f.totalSpent
        /\ Total(expenses, {TRUE}) = f.paidAmount
        /\ Total(expenses, {FALSE}) = f.unpaidAmount
    BY <1>2, <1>3, ExpenseSummaryFits
  <1>5. PICK i \in a.from..a.to : budget = versions[i].budget
    BY <1>3 DEF Saw
  <1>6. PICK j \in a.from..a.to : expenses = versions[j].expenses
    BY <1>3 DEF Saw
  <1>7. a.figures \notin {NoFigures, [op |-> "refused"]}
    BY <1>2 DEF NoFigures
  <1>8. AddsUp(a)
    BY <1>2, <1>4 DEF AddsUp, Answered
  <1>9. WasTrue(a)
    BY <1>2, <1>4, <1>5, <1>6, <1>7 DEF WasTrue, Answered
  <1>10. QED
    BY <1>8, <1>9

LEMMA GuestsTrue ==
  ASSUME NEW a, NEW s \in Store, Saw(s, "guests", a.from), a.to = Version,
         a.figures \in Figures("guests", s, a.start)
  PROVE  WasTrue(a) /\ AddsUp(a)
  <1>1. a.figures = [op |-> "guests", summary |-> GuestSummary(s.guests)]
    BY DEF Figures
  <1>2. a.figures.op = "guests" /\ a.figures.summary = GuestSummary(s.guests)
    BY <1>1
  <1>3. PICK guests \in Guests : guests = s.guests
    BY DEF Store
  <1>4. TrueGuests(a.figures.summary, guests) /\ GuestsAddUp(a.figures.summary)
    BY <1>2, <1>3, GuestsFit
  <1>5. PICK i \in a.from..a.to : guests = versions[i].guests
    BY <1>3 DEF Saw
  <1>6. a.figures \notin {NoFigures, [op |-> "refused"]}
    BY <1>2 DEF NoFigures
  <1>7. QED
    BY <1>2, <1>4, <1>5, <1>6 DEF WasTrue, AddsUp, Answered

LEMMA TasksTrue ==
  ASSUME NEW a, NEW s \in Store, Saw(s, "tasks", a.from), a.to = Version,
         a.figures \in Figures("tasks", s, a.start)
  PROVE  WasTrue(a) /\ AddsUp(a)
  <1>1. a.figures = [op |-> "tasks", summary |-> TaskSummary(s.tasks)]
    BY DEF Figures
  <1>2. a.figures.op = "tasks" /\ a.figures.summary = TaskSummary(s.tasks)
    BY <1>1
  <1>3. PICK tasks \in Tasks : tasks = s.tasks
    BY DEF Store
  <1>4. TrueTasks(a.figures.summary, tasks) /\ TasksAddUp(a.figures.summary)
    BY <1>2, <1>3, TasksFit
  <1>5. PICK i \in a.from..a.to : tasks = versions[i].tasks
    BY <1>3 DEF Saw
  <1>6. a.figures \notin {NoFigures, [op |-> "refused"]}
    BY <1>2 DEF NoFigures
  <1>7. QED
    BY <1>2, <1>4, <1>5, <1>6 DEF WasTrue, AddsUp, Answered

LEMMA DashboardTrue ==
  ASSUME NEW a, NEW s \in Store, s.budget # None, Saw(s, "budget", a.from),
         Saw(s, "expenses", a.from), Saw(s, "guests", a.from),
         Saw(s, "events", a.from), Saw(s, "tasks", a.from), a.to = Version,
         a.figures \in Figures("dashboard", s, a.start)
  PROVE  WasTrue(a) /\ AddsUp(a)
  <1>1. a.figures \in Dashboard(s, a.start)
    BY DEF Figures
  <1>2. /\ a.figures.op = "dashboard" /\ a.figures.wedding = TRUE
        /\ a.figures.budget = DashboardBudget(s.budget, s.expenses)
        /\ a.figures.tasks = DashboardTasks(s.tasks)
        /\ a.figures.guests = DashboardGuests(s.guests)
        /\ a.figures.upcomingEventsCount =
             Cardinality(UpcomingEvents(s.events, a.start))
        /\ a.figures.lists \in Lists(s, a.start)
    BY <1>1 DEF Dashboard
  <1>3. a.figures \notin {NoFigures, [op |-> "refused"]}
    <2>1. NoFigures.wedding = FALSE /\ [op |-> "refused"].op = "refused"
      BY DEF NoFigures
    <2>2. QED
      BY <1>2, <2>1
  <1>4. PICK budget \in Budget, expenses \in Expenses, guests \in Guests,
             tasks \in Tasks, events \in Events :
          /\ budget = s.budget /\ expenses = s.expenses /\ guests = s.guests
          /\ tasks = s.tasks /\ events = s.events
    BY DEF Store
  <1>5. LET f == a.figures.budget IN
        Fit(f) /\ f.totalBudget = budget /\ f.totalSpent = Total(expenses, BOOLEAN)
    BY <1>2, <1>4, DashboardBudgetFits
  <1>6. TrueGuests(a.figures.guests, guests) /\ GuestsAddUp(a.figures.guests)
    BY <1>2, <1>4, GuestsFit
  <1>7. LET f == a.figures.tasks IN
        /\ TrueTasks(f, tasks) /\ TasksAddUp(f)
        /\ f.pendingTasks = Cardinality(OpenTasks(tasks))
    BY <1>2, <1>4, TasksFit
  <1>8. LET f == a.figures IN
        /\ Cardinality(f.lists.upcomingTasks) =
             Min({DASHBOARD_LIST_LIMIT, f.tasks.pendingTasks})
        /\ Cardinality(f.lists.events) =
             Min({DASHBOARD_LIST_LIMIT, f.upcomingEventsCount})
        /\ (f.lists.nextEvent = {}) <=> (f.upcomingEventsCount = 0)
        /\ TrueTaskList(f.lists.upcomingTasks, tasks)
        /\ TrueEvents(f, events, a.start)
    <2>1. PICK l \in Lists(s, a.start) : l = a.figures.lists
      BY <1>2
    <2>2. /\ Cardinality(l.upcomingTasks) =
               Min({DASHBOARD_LIST_LIMIT, Cardinality(OpenTasks(s.tasks))})
          /\ Cardinality(l.events) = Min({DASHBOARD_LIST_LIMIT,
                 Cardinality(UpcomingEvents(s.events, a.start))})
          /\ (l.nextEvent = {}) <=>
               (Cardinality(UpcomingEvents(s.events, a.start)) = 0)
          /\ TrueTaskList(l.upcomingTasks, s.tasks)
          /\ \A f : /\ f.lists = l
                    /\ f.upcomingEventsCount =
                         Cardinality(UpcomingEvents(s.events, a.start))
                    => TrueEvents(f, s.events, a.start)
      BY ListsFit
    <2>3. TrueEvents(a.figures, s.events, a.start)
      BY <1>2, <2>1, <2>2
    <2>4. QED
      BY <1>2, <1>4, <1>7, <2>1, <2>2, <2>3
  <1>9. AddsUp(a)
    BY <1>2, <1>5, <1>6, <1>7, <1>8 DEF AddsUp, Answered
  <1>10. PICK i \in a.from..a.to : budget = versions[i].budget
    BY <1>4 DEF Saw
  <1>11. PICK j \in a.from..a.to : expenses = versions[j].expenses
    BY <1>4 DEF Saw
  <1>12. PICK k \in a.from..a.to : guests = versions[k].guests
    BY <1>4 DEF Saw
  <1>13. PICK m \in a.from..a.to : events = versions[m].events
    BY <1>4 DEF Saw
  <1>14. PICK n \in a.from..a.to : tasks = versions[n].tasks
    BY <1>4 DEF Saw
  <1>15. WasTrue(a)
    BY <1>2, <1>3, <1>5, <1>6, <1>7, <1>8, <1>10, <1>11, <1>12, <1>13, <1>14
       DEF WasTrue, Answered
  <1>16. QED
    BY <1>9, <1>15

-----------------------------------------------------------------------------
(* The invariant: what a call has read of a table is what some version had *)
(* since the call came in, and the versions are never changed.             *)
Calls == [op : Op, start : Time \cup {0}, from : Nat,
          awaits : Seq({"wedding"} \cup Table)]

(* A call before its first read, or with the first m - 1 of its tables.    *)
HasRead(k, s) ==
  /\ k.from \in 1..Version
  /\ \/ k.awaits = <<"wedding">>
     \/ /\ s.budget # None /\ Saw(s, "budget", k.from)
        /\ \E m \in 1..(Len(TablesOf(k.op)) + 1) :
             /\ k.awaits = SubSeq(TablesOf(k.op), m, Len(TablesOf(k.op)))
             /\ \A j \in 1..(m - 1) : Saw(s, TablesOf(k.op)[j], k.from)

Settled(a) ==
  /\ a.from \in 1..a.to /\ a.to \in 1..Version
  /\ WasTrue(a) /\ AddsUp(a)

IInv ==
  /\ versions \in Seq(Store) /\ Version \in 1..(MaxWrites + 1)
  /\ call \in [Client -> Calls \cup {None}]
  /\ seen \in [Client -> Store]
  /\ DOMAIN answer = Client
  /\ \A c \in Client : call[c] # None => HasRead(call[c], seen[c])
  /\ \A c \in Client : answer[c] # None => Settled(answer[c])

LEMMA EmptyStore == Empty \in Store
  BY DEF Empty, Store, Expenses, Guests, Tasks, Events

LEMMA Starts == ASSUME Init PROVE IInv
  <1>1. PICK s \in Store : versions = <<s>>
    <2>1. CASE versions = <<Empty>>
      BY <2>1, EmptyStore
    <2>2. ASSUME NEW budget \in Budget, NEW table \in Table, NEW rows \in Full(table),
                 versions = <<[[Empty EXCEPT !.budget = budget] EXCEPT ![table] = rows]>>
          PROVE  \E s \in Store : versions = <<s>>
      <3>1. [Empty EXCEPT !.budget = budget] \in Store
        BY EmptyStore DEF Store
      <3>2. PICK e \in Store : e = [Empty EXCEPT !.budget = budget]
        BY <3>1
      <3>3. CASE table = "expenses"
        <4>1. rows \in Expenses
          BY <2>2, <3>3 DEF Full, Expenses
        <4>2. [e EXCEPT !.expenses = rows] \in Store
          BY <4>1 DEF Store
        <4>3. QED
          BY <2>2, <3>2, <3>3, <4>2
      <3>4. CASE table = "guests"
        <4>1. rows \in Guests
          BY <2>2, <3>4 DEF Full, Guests
        <4>2. [e EXCEPT !.guests = rows] \in Store
          BY <4>1 DEF Store
        <4>3. QED
          BY <2>2, <3>2, <3>4, <4>2
      <3>5. CASE table = "tasks"
        <4>1. rows \in Tasks
          BY <2>2, <3>5 DEF Full, Tasks
        <4>2. [e EXCEPT !.tasks = rows] \in Store
          BY <4>1 DEF Store
        <4>3. QED
          BY <2>2, <3>2, <3>5, <4>2
      <3>6. CASE table = "events"
        <4>1. rows \in Events
          BY <2>2, <3>6 DEF Full, Events
        <4>2. [e EXCEPT !.events = rows] \in Store
          BY <4>1 DEF Store
        <4>3. QED
          BY <2>2, <3>2, <3>6, <4>2
      <3>7. QED
        BY <3>3, <3>4, <3>5, <3>6 DEF Table
    <2>3. QED
      BY <2>1, <2>2 DEF Init
  <1>2. versions \in Seq(Store) /\ Len(versions) = 1
    BY <1>1
  <1>3. Version \in 1..(MaxWrites + 1)
    BY <1>2, OverviewAssumption DEF Version
  <1>4. /\ call = [c \in Client |-> None] /\ seen = [c \in Client |-> Empty]
        /\ answer = [c \in Client |-> None]
    BY DEF Init
  <1>5. /\ call \in [Client -> Calls \cup {None}] /\ seen \in [Client -> Store]
        /\ DOMAIN answer = Client
        /\ \A c \in Client : call[c] = None /\ answer[c] = None
    BY <1>4, EmptyStore
  <1>6. QED
    BY <1>2, <1>3, <1>5 DEF IInv

-----------------------------------------------------------------------------
(* A change of the rows adds a version.                                    *)
LEMMA SawLater ==
  ASSUME versions \in Seq(Store), NEW new \in Store, versions' = Append(versions, new)
  PROVE  /\ versions' \in Seq(Store) /\ Version' = Version + 1
         /\ \A i \in 1..Version : versions'[i] = versions[i]
  BY DEF Version

LEMMA CommitKeeps ==
  ASSUME IInv, NEW new \in Store, Commit(new)
  PROVE  IInv'
  <1>1. /\ Version <= MaxWrites /\ versions' = Append(versions, new)
        /\ call' = call /\ seen' = seen /\ answer' = answer
        /\ versions \in Seq(Store) /\ Version \in 1..(MaxWrites + 1) /\ MaxWrites \in Nat
    BY OverviewAssumption DEF Commit, IInv
  <1>2. PICK n \in Nat : n = Version
    BY <1>1
  <1>3. /\ versions' \in Seq(Store) /\ Version' = n + 1
        /\ \A i \in 1..n : versions'[i] = versions[i]
    BY <1>1, <1>2, SawLater
  <1>4. ASSUME NEW k, NEW s, HasRead(k, s)
        PROVE  HasRead(k, s)'
    <2>1. k.from \in 1..n /\ k.from \in 1..(n + 1)
      BY <1>2, <1>4 DEF HasRead
    <2>2. ASSUME NEW x, Saw(s, x, k.from)
          PROVE  Saw(s, x, k.from)'
      <3>1. PICK i \in k.from..n : s[x] = versions[i][x]
        BY <1>2, <2>2 DEF Saw
      <3>2. i \in k.from..(n + 1) /\ versions'[i] = versions[i]
        BY <1>3, <2>1, <3>1
      <3>3. QED
        BY <1>3, <3>1, <3>2 DEF Saw
    <2>3. QED
      BY <1>2, <1>3, <1>4, <2>1, <2>2 DEF HasRead
  <1>5. ASSUME NEW a, Settled(a)
        PROVE  Settled(a)'
    <2>1. a.from \in 1..a.to /\ a.to \in 1..n /\ WasTrue(a) /\ AddsUp(a)
      BY <1>2, <1>5 DEF Settled
    <2>2. a.to \in 1..(n + 1) /\ AddsUp(a)'
      BY <2>1 DEF AddsUp, Answered
    <2>3. \A i \in a.from..a.to : versions'[i] = versions[i]
      BY <1>3, <2>1
    <2>4. WasTrue(a)'
      <3> DEFINE f == a.figures
      <3>1. f \in {NoFigures, [op |-> "refused"]} =>
              \E i \in a.from..a.to : versions'[i].budget = None
        BY <2>1, <2>3 DEF WasTrue
      <3>2. Answered(a, "wedding") => \E i \in a.from..a.to :
              versions'[i].budget = toMinorUnits(f.totalBudget)
        BY <2>1, <2>3 DEF WasTrue
      <3>3. Answered(a, "expenses") =>
              /\ \E i \in a.from..a.to : versions'[i].budget = f.summary.totalBudget
              /\ \E i \in a.from..a.to :
                   /\ Total(versions'[i].expenses, BOOLEAN) = f.summary.totalSpent
                   /\ Total(versions'[i].expenses, {TRUE}) = f.summary.paidAmount
                   /\ Total(versions'[i].expenses, {FALSE}) = f.summary.unpaidAmount
        BY <2>1, <2>3 DEF WasTrue
      <3>4. /\ Answered(a, "guests") => \E i \in a.from..a.to :
                 TrueGuests(f.summary, versions'[i].guests)
            /\ Answered(a, "tasks") => \E i \in a.from..a.to :
                 TrueTasks(f.summary, versions'[i].tasks)
        BY <2>1, <2>3 DEF WasTrue
      <3>5. ASSUME Answered(a, "dashboard")
            PROVE  /\ \E i \in a.from..a.to : versions'[i].budget = f.budget.totalBudget
                   /\ \E i \in a.from..a.to :
                        Total(versions'[i].expenses, BOOLEAN) = f.budget.totalSpent
                   /\ \E i \in a.from..a.to : TrueGuests(f.guests, versions'[i].guests)
                   /\ \E i \in a.from..a.to :
                        /\ TrueTasks(f.tasks, versions'[i].tasks)
                        /\ TrueTaskList(f.lists.upcomingTasks, versions'[i].tasks)
                   /\ \E i \in a.from..a.to : TrueEvents(f, versions'[i].events, a.start)
        <4>1. PICK i \in a.from..a.to : versions[i].budget = f.budget.totalBudget
          BY <2>1, <3>5 DEF WasTrue
        <4>2. PICK j \in a.from..a.to :
                Total(versions[j].expenses, BOOLEAN) = f.budget.totalSpent
          BY <2>1, <3>5 DEF WasTrue
        <4>3. PICK k \in a.from..a.to : TrueGuests(f.guests, versions[k].guests)
          BY <2>1, <3>5 DEF WasTrue
        <4>4. PICK l \in a.from..a.to :
                /\ TrueTasks(f.tasks, versions[l].tasks)
                /\ TrueTaskList(f.lists.upcomingTasks, versions[l].tasks)
          BY <2>1, <3>5 DEF WasTrue
        <4>5. PICK m \in a.from..a.to : TrueEvents(f, versions[m].events, a.start)
          BY <2>1, <3>5 DEF WasTrue
        <4>6. /\ versions'[i] = versions[i] /\ versions'[j] = versions[j]
              /\ versions'[k] = versions[k] /\ versions'[l] = versions[l]
              /\ versions'[m] = versions[m]
          BY <2>3
        <4>7. QED
          BY <4>1, <4>2, <4>3, <4>4, <4>5, <4>6
      <3>6. QED
        BY <3>1, <3>2, <3>3, <3>4, <3>5 DEF WasTrue, Answered
    <2>5. QED
      BY <1>3, <2>1, <2>2, <2>4 DEF Settled
  <1>6. n + 1 \in 1..(MaxWrites + 1)
    BY <1>1, <1>2
  <1>7. QED
    BY <1>1, <1>3, <1>4, <1>5, <1>6 DEF IInv

LEMMA WriteKeeps ==
  ASSUME IInv, WriteWedding \/ WriteRow
  PROVE  IInv'
  <1>1. db \in Store
    BY DEF IInv, db, Version
  <1>2. PICK d \in Store : d = db
    BY <1>1
  <1>3. CASE WriteWedding
    <2>1. PICK b \in Budget : Commit([d EXCEPT !.budget = b])
      BY <1>2, <1>3 DEF WriteWedding
    <2>2. [d EXCEPT !.budget = b] \in Store
      BY DEF Store
    <2>3. QED
      BY <2>1, <2>2, CommitKeeps
  <1>4. CASE WriteRow
    <2>1. ASSUME NEW i \in Expense, NEW row \in ExpenseRow \cup {None},
                 Commit([d EXCEPT !.expenses[i] = row])
          PROVE  IInv'
      <3>1. [d EXCEPT !.expenses[i] = row] \in Store
        BY DEF Store, Expenses
      <3>2. QED
        BY <2>1, <3>1, CommitKeeps
    <2>2. ASSUME NEW i \in Guest, NEW row \in GuestRow \cup {None},
                 Commit([d EXCEPT !.guests[i] = row])
          PROVE  IInv'
      <3>1. [d EXCEPT !.guests[i] = row] \in Store
        BY DEF Store, Guests
      <3>2. QED
        BY <2>2, <3>1, CommitKeeps
    <2>3. ASSUME NEW i \in Task, NEW row \in TaskRow \cup {None},
                 Commit([d EXCEPT !.tasks[i] = row])
          PROVE  IInv'
      <3>1. [d EXCEPT !.tasks[i] = row] \in Store
        BY DEF Store, Tasks
      <3>2. QED
        BY <2>3, <3>1, CommitKeeps
    <2>4. ASSUME NEW i \in Event, NEW row \in EventRow \cup {None},
                 Commit([d EXCEPT !.events[i] = row])
          PROVE  IInv'
      <3>1. [d EXCEPT !.events[i] = row] \in Store
        BY DEF Store, Events
      <3>2. QED
        BY <2>4, <3>1, CommitKeeps
    <2>5. QED
      BY <1>2, <1>4, <2>1, <2>2, <2>3, <2>4 DEF WriteRow
  <1>5. QED
    BY <1>3, <1>4

-----------------------------------------------------------------------------
(* What has been read and answered stays so while the rows do.             *)
LEMMA SameVersions ==
  ASSUME UNCHANGED versions
  PROVE  /\ \A k, s : HasRead(k, s) => HasRead(k, s)'
         /\ \A a : Settled(a) => Settled(a)'
  <1>1. Version' = Version
    BY DEF Version
  <1>2. \A s, x, from : Saw(s, x, from)' <=> Saw(s, x, from)
    BY <1>1 DEF Saw
  <1>3. \A k, s : HasRead(k, s) => HasRead(k, s)'
    BY <1>1, <1>2 DEF HasRead
  <1>4. ASSUME NEW a, Settled(a)
        PROVE  Settled(a)'
    <2>1. WasTrue(a)'
      BY <1>4 DEF Settled, WasTrue, Answered
    <2>2. AddsUp(a)'
      BY <1>4 DEF Settled, AddsUp, Answered
    <2>3. QED
      BY <1>1, <1>4, <2>1, <2>2 DEF Settled
  <1>5. QED
    BY <1>3, <1>4

LEMMA StutterKeeps == ASSUME IInv, UNCHANGED vars PROVE IInv'
  <1>1. UNCHANGED <<versions, call, seen, answer>> /\ Version' = Version
    BY DEF vars, Version
  <1>2. \A d \in Client : (call[d] # None => HasRead(call[d], seen[d]))'
    BY <1>1, SameVersions DEF IInv
  <1>3. \A d \in Client : (answer[d] # None => Settled(answer[d]))'
    BY <1>1, SameVersions DEF IInv
  <1>4. QED
    BY <1>1, <1>2, <1>3 DEF IInv

(* A step of the call of one client.                                       *)
LEMMA OthersKeep ==
  ASSUME IInv, NEW c \in Client, UNCHANGED versions,
         call' \in [Client -> Calls \cup {None}], seen' \in [Client -> Store],
         DOMAIN answer' = Client,
         \A d \in Client \ {c} : /\ call'[d] = call[d] /\ seen'[d] = seen[d]
                                 /\ answer'[d] = answer[d],
         call'[c] # None => HasRead(call'[c], seen'[c]),
         answer'[c] # None => Settled(answer'[c])
  PROVE  IInv'
  <1>1. Version' = Version
    BY DEF Version
  <1>2. \A d \in Client : (call[d] # None => HasRead(call[d], seen[d]))'
    BY SameVersions DEF IInv
  <1>3. \A d \in Client : (answer[d] # None => Settled(answer[d]))'
    BY SameVersions DEF IInv
  <1>4. QED
    BY <1>1, <1>2, <1>3 DEF IInv

LEMMA CallIs ==
  ASSUME IInv, NEW c \in Client, call[c] # None
  PROVE  /\ call[c] \in Calls /\ call[c].op \in Op /\ call[c].from \in Nat
         /\ HasRead(call[c], seen[c]) /\ seen[c] \in Store
         /\ versions \in Seq(Store) /\ Version \in Nat \ {0} /\ db \in Store
         /\ db = versions[Version] /\ call[c].from \in 1..Version
  <1>1. call[c] \in Calls /\ HasRead(call[c], seen[c]) /\ seen[c] \in Store
    BY DEF IInv
  <1>2. versions \in Seq(Store) /\ Version \in Nat \ {0}
    BY DEF IInv
  <1>3. db \in Store
    BY <1>2 DEF db, Version
  <1>4. QED
    BY <1>1, <1>2, <1>3 DEF Calls, db, HasRead

LEMMA ReceiveKeeps ==
  ASSUME IInv, NEW c \in Client, NEW op \in Op, Receive(c, op)
  PROVE  IInv'
  <1>1. PICK start \in Time \cup {0} :
          call' = [call EXCEPT ![c] = [op |-> op, start |-> start, from |-> Version,
                                       awaits |-> <<"wedding">>]]
    BY DEF Receive
  <1>2. PICK k : k = [op |-> op, start |-> start, from |-> Version,
                      awaits |-> <<"wedding">>]
    OBVIOUS
  <1>3. Version \in Nat /\ Version \in 1..Version
    BY DEF IInv
  <1>4. k \in Calls
    <2>1. <<"wedding">> \in Seq({"wedding"} \cup Table)
      OBVIOUS
    <2>2. QED
      BY <1>2, <1>3, <2>1 DEF Calls
  <1>5. HasRead(k, seen[c])
    BY <1>2, <1>3 DEF HasRead
  <1>6. /\ call \in [Client -> Calls \cup {None}] /\ DOMAIN answer = Client
        /\ seen \in [Client -> Store] /\ UNCHANGED versions /\ seen' = seen
        /\ answer' = [answer EXCEPT ![c] = None]
    BY DEF IInv, Receive
  <1>7. call' = [call EXCEPT ![c] = k]
    BY <1>1, <1>2
  <1> HIDE <1>1, <1>2
  <1>8. /\ call' \in [Client -> Calls \cup {None}] /\ DOMAIN answer' = Client
        /\ call'[c] = k /\ answer'[c] = None
        /\ \A d \in Client \ {c} : call'[d] = call[d] /\ answer'[d] = answer[d]
    BY <1>4, <1>6, <1>7
  <1>9. QED
    BY <1>5, <1>6, <1>8, OthersKeep

LEMMA ReplyKeeps ==
  ASSUME IInv, NEW c \in Client, call[c] # None, NEW figures, Reply(c, figures),
         UNCHANGED versions,
         \A a : /\ a = [figures |-> figures, start |-> call[c].start,
                        from |-> call[c].from, to |-> Version]
                => WasTrue(a) /\ AddsUp(a)
  PROVE  IInv'
  <1>1. PICK a : a = [figures |-> figures, start |-> call[c].start,
                      from |-> call[c].from, to |-> Version]
    OBVIOUS
  <1>2. Settled(a)
    <2>1. a.from = call[c].from /\ a.to = Version
      BY <1>1
    <2>2. QED
      BY <1>1, <2>1, CallIs DEF Settled
  <1>3. /\ answer' = [answer EXCEPT ![c] = a]
        /\ call' = [call EXCEPT ![c] = None] /\ seen' = [seen EXCEPT ![c] = Empty]
    BY <1>1 DEF Reply
  <1>4. /\ call \in [Client -> Calls \cup {None}] /\ DOMAIN answer = Client
        /\ seen \in [Client -> Store]
    BY DEF IInv
  <1>5. /\ call' \in [Client -> Calls \cup {None}] /\ DOMAIN answer' = Client
        /\ seen' \in [Client -> Store]
        /\ call'[c] = None /\ answer'[c] = a
        /\ \A d \in Client \ {c} : /\ call'[d] = call[d] /\ seen'[d] = seen[d]
                                    /\ answer'[d] = answer[d]
    BY <1>3, <1>4, EmptyStore
  <1>6. QED
    BY <1>2, <1>5, OthersKeep

-----------------------------------------------------------------------------
(* The reads.                                                              *)
LEMMA ReadWeddingKeeps ==
  ASSUME IInv, NEW c \in Client, ReadWedding(c)
  PROVE  IInv'
  <1>1. call[c] # None /\ UNCHANGED versions
    BY DEF ReadWedding
  <1>2. /\ call[c] \in Calls /\ call[c].op \in Op /\ call[c].from \in 1..Version
        /\ seen[c] \in Store /\ Version \in Nat \ {0}
        /\ db = versions[Version] /\ db \in Store
    BY <1>1, CallIs
  <1>3. ASSUME db.budget = None, NEW figures,
               figures = IF call[c].op = "dashboard" THEN NoFigures
                         ELSE [op |-> "refused"],
               Reply(c, figures)
        PROVE  IInv'
    <2>1. ASSUME NEW a, a = [figures |-> figures, start |-> call[c].start,
                             from |-> call[c].from, to |-> Version]
          PROVE  WasTrue(a) /\ AddsUp(a)
      <3>1. a.figures = figures /\ a.from = call[c].from /\ a.to = Version
        BY <2>1
      <3>2. Version \in a.from..a.to /\ versions[Version].budget = None
        BY <1>2, <1>3, <3>1
      <3>3. \A op \in Op : ~Answered(a, op)
        <4>1. a.figures = NoFigures \/ a.figures.op = "refused"
          BY <1>3, <3>1
        <4>2. QED
          BY <4>1 DEF Answered, Op
      <3>4. {"wedding", "expenses", "guests", "tasks", "dashboard"} \subseteq Op
        BY DEF Op
      <3>5. QED
        BY <3>2, <3>3, <3>4 DEF WasTrue, AddsUp
    <2>2. QED
      BY <1>1, <1>3, <2>1, ReplyKeeps
  <1>4. ASSUME db.budget # None, UNCHANGED answer,
               seen' = [seen EXCEPT ![c].budget = db.budget],
               call' = [call EXCEPT ![c].awaits = TablesOf(call[c].op)]
        PROVE  IInv'
    <2>1. PICK k \in Calls, s \in Store, d \in Store : k = call[c] /\ s = seen[c] /\ d = db
      BY <1>2
    <2>2. PICK l : l = [k EXCEPT !.awaits = TablesOf(k.op)]
      OBVIOUS
    <2>3. PICK t : t = [s EXCEPT !.budget = d.budget]
      OBVIOUS
    <2>4. TablesOf(k.op) \in Seq(Table)
      BY <1>2, <2>1, Tables
    <2>5. /\ l \in Calls /\ l.op = k.op /\ l.from = k.from /\ l.awaits = TablesOf(k.op)
      <3>1. TablesOf(k.op) \in Seq({"wedding"} \cup Table)
        BY <2>4
      <3>2. QED
        BY <2>2, <3>1 DEF Calls
    <2>6. t \in Store /\ t.budget = d.budget
      BY <2>3 DEF Store
    <2>7. HasRead(l, t)
      <3>1. l.from \in 1..Version
        BY <1>2, <2>1, <2>5
      <3>2. t.budget # None /\ Saw(t, "budget", l.from)
        BY <1>2, <1>4, <2>1, <2>6, <3>1 DEF Saw
      <3>3. /\ 1 \in 1..(Len(TablesOf(l.op)) + 1)
            /\ l.awaits = SubSeq(TablesOf(l.op), 1, Len(TablesOf(l.op)))
            /\ \A j \in 1..(1 - 1) : Saw(t, TablesOf(l.op)[j], l.from)
        BY <2>4, <2>5
      <3>4. QED
        BY <3>1, <3>2, <3>3 DEF HasRead
    <2>8. call' = [call EXCEPT ![c] = l] /\ seen' = [seen EXCEPT ![c] = t]
      BY <1>4, <2>1, <2>2, <2>3
    <2>9. /\ call \in [Client -> Calls \cup {None}] /\ DOMAIN answer = Client
          /\ seen \in [Client -> Store] /\ answer' = answer
          /\ answer[c] # None => Settled(answer[c])
      BY <1>4 DEF IInv
    <2>10. /\ call' \in [Client -> Calls \cup {None}] /\ DOMAIN answer' = Client
           /\ seen' \in [Client -> Store] /\ call'[c] = l /\ seen'[c] = t
           /\ \A e \in Client \ {c} : /\ call'[e] = call[e] /\ seen'[e] = seen[e]
                                       /\ answer'[e] = answer[e]
      BY <2>5, <2>6, <2>8, <2>9
    <2>11. QED
      BY <1>1, <2>7, <2>9, <2>10, OthersKeep
  <1>5. QED
    BY <1>3, <1>4 DEF ReadWedding

LEMMA Rest ==
  ASSUME NEW T \in Seq(Table), NEW n \in Nat, n = Len(T), NEW m \in 1..(n + 1),
         SubSeq(T, m, n) # <<>>
  PROVE  /\ m \in 1..n /\ m + 1 \in 1..(n + 1)
         /\ Head(SubSeq(T, m, n)) = T[m] /\ T[m] \in Table
         /\ Tail(SubSeq(T, m, n)) = SubSeq(T, m + 1, n)
  <1>1. m \in 1..n
    <2>1. CASE m = n + 1
      <3>1. Len(SubSeq(T, m, n)) = 0
        BY <2>1
      <3>2. SubSeq(T, m, n) = <<>>
        BY <2>1, <3>1
      <3>3. QED
        BY <3>2
    <2>2. QED
      BY <2>1
  <1>2. m + 1 \in 1..(n + 1) /\ T[m] \in Table
    BY <1>1
  <1>3. SubSeq(T, m, n) \in Seq(Table) /\ Len(SubSeq(T, m, n)) = n - m + 1
    BY <1>1
  <1>4. Head(SubSeq(T, m, n)) = T[m]
    BY <1>1, <1>3
  <1>5. Tail(SubSeq(T, m, n)) = SubSeq(T, m + 1, n)
    BY <1>1, <1>3
  <1>6. QED
    BY <1>1, <1>2, <1>4, <1>5

LEMMA ReadTableKeeps ==
  ASSUME IInv, NEW c \in Client, ReadTable(c)
  PROVE  IInv'
  <1>1. /\ call[c] # None /\ UNCHANGED versions /\ UNCHANGED answer
        /\ call[c].awaits \notin {<<>>, <<"wedding">>}
    BY DEF ReadTable
  <1>2. /\ call[c] \in Calls /\ call[c].op \in Op /\ call[c].from \in 1..Version
        /\ seen[c] \in Store /\ Version \in Nat \ {0}
        /\ db = versions[Version] /\ db \in Store /\ HasRead(call[c], seen[c])
    BY <1>1, CallIs
  <1>3. PICK k \in Calls, s \in Store, d \in Store :
          k = call[c] /\ s = seen[c] /\ d = db
    BY <1>2
  <1>4. PICK T \in Seq(Table) : T = TablesOf(k.op)
    BY <1>2, <1>3, Tables
  <1>5. PICK n \in Nat : n = Len(T)
    BY <1>4
  <1>6. /\ s.budget # None /\ Saw(s, "budget", k.from) /\ k.from \in 1..Version
        /\ k.awaits # <<>>
        /\ \E m \in 1..(n + 1) : /\ k.awaits = SubSeq(T, m, n)
                                 /\ \A j \in 1..(m - 1) : Saw(s, T[j], k.from)
    BY <1>1, <1>2, <1>3, <1>4, <1>5 DEF HasRead
  <1>7. PICK m \in 1..(n + 1) : /\ k.awaits = SubSeq(T, m, n)
                                /\ \A j \in 1..(m - 1) : Saw(s, T[j], k.from)
    BY <1>6
  <1>8. /\ m \in 1..n /\ m + 1 \in 1..(n + 1) /\ T[m] \in Table
        /\ Head(k.awaits) = T[m] /\ Tail(k.awaits) = SubSeq(T, m + 1, n)
    BY <1>5, <1>6, <1>7, Rest
  <1>9. PICK table \in Table : table = T[m]
    BY <1>8
  <1>10. PICK l : l = [k EXCEPT !.awaits = Tail(k.awaits)]
    OBVIOUS
  <1>11. PICK t : t = [s EXCEPT ![table] = d[table]]
    OBVIOUS
  <1>12. /\ call' = [call EXCEPT ![c] = l] /\ seen' = [seen EXCEPT ![c] = t]
    <2>1. seen' = [seen EXCEPT ![c][table] = d[table]]
      BY <1>3, <1>8, <1>9 DEF ReadTable
    <2>2. call' = [call EXCEPT ![c].awaits = Tail(k.awaits)]
      BY <1>3 DEF ReadTable
    <2>3. QED
      BY <1>3, <1>10, <1>11, <2>1, <2>2
  <1>13. /\ l \in Calls /\ l.op = k.op /\ l.from = k.from
         /\ l.awaits = SubSeq(T, m + 1, n)
    <2>1. Tail(k.awaits) \in Seq({"wedding"} \cup Table)
      <3>1. PICK w \in Seq({"wedding"} \cup Table) : w = k.awaits
        BY DEF Calls
      <3>2. Tail(w) \in Seq({"wedding"} \cup Table)
        BY <1>6, <3>1
      <3>3. QED
        BY <3>1, <3>2
    <2>2. QED
      BY <1>8, <1>10, <2>1 DEF Calls
  <1>14. /\ t \in Store /\ t[table] = d[table] /\ t.budget = s.budget
         /\ \A x \in Table : x # table => t[x] = s[x]
    <2>1. Read(t, s, d, table)
      BY <1>11 DEF Read
    <2>2. QED
      BY <2>1, StoreFields
  <1>15. Saw(t, table, k.from)
    BY <1>2, <1>3, <1>6, <1>14 DEF Saw
  <1>16. Saw(t, "budget", k.from)
    BY <1>6, <1>14 DEF Saw
  <1>17. ASSUME NEW j \in 1..((m + 1) - 1)
         PROVE  Saw(t, T[j], k.from)
    <2>1. T[j] \in Table
      BY <1>5, <1>8
    <2>2. CASE T[j] = table
      BY <1>15, <2>2
    <2>3. CASE T[j] # table
      <3>1. j # m
        BY <1>9, <2>3
      <3>2. j \in 1..(m - 1)
        BY <1>8, <3>1
      <3>3. Saw(s, T[j], k.from)
        BY <1>7, <3>2
      <3>4. t[T[j]] = s[T[j]]
        BY <1>14, <2>1, <2>3
      <3>5. QED
        BY <3>3, <3>4 DEF Saw
    <2>4. QED
      BY <2>2, <2>3
  <1>18. HasRead(l, t)
    <2>1. TablesOf(l.op) = T /\ l.from = k.from /\ Len(T) = n
      BY <1>4, <1>5, <1>13
    <2>2. l.from \in 1..Version /\ t.budget # None /\ Saw(t, "budget", l.from)
      BY <1>6, <1>14, <1>16, <2>1
    <2>3. /\ l.awaits = SubSeq(T, m + 1, n)
          /\ \A j \in 1..((m + 1) - 1) : Saw(t, T[j], l.from)
      BY <1>13, <1>17, <2>1
    <2>4. QED
      BY <1>8, <2>1, <2>2, <2>3 DEF HasRead
  <1>19. /\ call \in [Client -> Calls \cup {None}] /\ DOMAIN answer = Client
         /\ seen \in [Client -> Store] /\ answer' = answer
         /\ answer[c] # None => Settled(answer[c])
    BY <1>1 DEF IInv
  <1>20. /\ call' \in [Client -> Calls \cup {None}] /\ DOMAIN answer' = Client
         /\ seen' \in [Client -> Store] /\ call'[c] = l /\ seen'[c] = t
         /\ \A e \in Client \ {c} : /\ call'[e] = call[e] /\ seen'[e] = seen[e]
                                    /\ answer'[e] = answer[e]
    BY <1>12, <1>13, <1>14, <1>19
  <1>21. QED
    BY <1>1, <1>18, <1>19, <1>20, OthersKeep

LEMMA ComputeKeeps ==
  ASSUME IInv, NEW c \in Client, Compute(c)
  PROVE  IInv'
  <1>1. /\ call[c] # None /\ UNCHANGED versions /\ call[c].awaits = <<>>
    BY DEF Compute
  <1>2. /\ call[c] \in Calls /\ call[c].op \in Op
        /\ seen[c] \in Store /\ Version \in Nat \ {0} /\ HasRead(call[c], seen[c])
    BY <1>1, CallIs
  <1>3. PICK k \in Calls, s \in Store : k = call[c] /\ s = seen[c]
    BY <1>2
  <1>4. PICK figures \in Figures(k.op, s, k.start) : Reply(c, figures)
    BY <1>3 DEF Compute
  <1>5. PICK T \in Seq(Table) : T = TablesOf(k.op)
    BY <1>2, <1>3, Tables
  <1>6. /\ s.budget # None /\ Saw(s, "budget", k.from)
        /\ \A j \in 1..Len(T) : Saw(s, T[j], k.from)
    <2>1. PICK n \in Nat : n = Len(T)
      BY <1>5
    <2>2. <<>> # <<"wedding">>
      OBVIOUS
    <2>3. /\ s.budget # None /\ Saw(s, "budget", k.from)
          /\ \E m \in 1..(n + 1) : /\ <<>> = SubSeq(T, m, n)
                                   /\ \A j \in 1..(m - 1) : Saw(s, T[j], k.from)
      BY <1>1, <1>2, <1>3, <1>5, <2>1, <2>2 DEF HasRead
    <2>4. PICK m \in 1..(n + 1) : /\ <<>> = SubSeq(T, m, n)
                                  /\ \A j \in 1..(m - 1) : Saw(s, T[j], k.from)
      BY <2>3
    <2>5. m = n + 1
      <3>1. ASSUME m \in 1..n PROVE FALSE
        <4>1. Len(SubSeq(T, m, n)) = n - m + 1
          BY <2>1, <3>1
        <4>2. Len(SubSeq(T, m, n)) = 0
          BY <2>4
        <4>3. QED
          BY <3>1, <4>1, <4>2
      <3>2. QED
        BY <3>1
    <2>6. QED
      BY <2>1, <2>3, <2>4, <2>5
  <1>7. ASSUME NEW a, a = [figures |-> figures, start |-> call[c].start,
                           from |-> call[c].from, to |-> Version]
        PROVE  WasTrue(a) /\ AddsUp(a)
    <2>1. /\ a.figures \in Figures(k.op, s, a.start) /\ a.to = Version
          /\ a.from = k.from
      BY <1>3, <1>4, <1>7
    <2>2. CASE k.op = "dashboard"
      <3>1. T = <<"events", "expenses", "tasks", "guests">>
        BY <1>5, <2>2, Tables
      <3>2. /\ Len(T) = 4 /\ T[1] = "events" /\ T[2] = "expenses"
            /\ T[3] = "tasks" /\ T[4] = "guests"
        BY <3>1
      <3>3. /\ Saw(s, "events", a.from) /\ Saw(s, "expenses", a.from)
            /\ Saw(s, "tasks", a.from) /\ Saw(s, "guests", a.from)
        BY <1>6, <2>1, <3>2
      <3>4. QED
        BY <1>6, <2>1, <2>2, <3>3, DashboardTrue
    <2>3. CASE k.op = "wedding"
      BY <1>6, <2>1, <2>3, WeddingTrue
    <2>4. CASE k.op = "expenses"
      <3>1. Len(T) = 1 /\ T[1] = "expenses"
        BY <1>5, <2>4, Tables
      <3>2. QED
        BY <1>6, <2>1, <2>4, <3>1, ExpensesTrue
    <2>5. CASE k.op = "guests"
      <3>1. Len(T) = 1 /\ T[1] = "guests"
        BY <1>5, <2>5, Tables
      <3>2. QED
        BY <1>6, <2>1, <2>5, <3>1, GuestsTrue
    <2>6. CASE k.op = "tasks"
      <3>1. Len(T) = 1 /\ T[1] = "tasks"
        BY <1>5, <2>6, Tables
      <3>2. QED
        BY <1>6, <2>1, <2>6, <3>1, TasksTrue
    <2>7. QED
      BY <1>2, <1>3, <2>2, <2>3, <2>4, <2>5, <2>6 DEF Op
  <1>8. QED
    BY <1>1, <1>4, <1>7, ReplyKeeps

-----------------------------------------------------------------------------
LEMMA Invariant == Spec => []IInv
  <1>1. Init => IInv
    BY Starts
  <1>2. IInv /\ [Next]_vars => IInv'
    <2> SUFFICES ASSUME IInv, [Next]_vars PROVE IInv'
      OBVIOUS
    <2>1. QED
      BY StutterKeeps, WriteKeeps, ReceiveKeeps, ReadWeddingKeeps, ReadTableKeeps,
         ComputeKeeps DEF Next
  <1>3. QED
    BY <1>1, <1>2, PTL DEF Spec

(* The calls go through their reads in order, and no answer is of before   *)
(* the call.                                                               *)
THEOREM TypeCorrect == Spec => []TypeOK
  <1>1. IInv => TypeOK
    <2> SUFFICES ASSUME IInv PROVE TypeOK
      OBVIOUS
    <2>1. ASSUME NEW i \in DOMAIN versions
          PROVE  versions[i].budget \in Budget \cup {None}
      <3>1. versions[i] \in Store
        BY DEF IInv
      <3>2. QED
        BY <3>1 DEF Store
    <2>2. Len(versions) <= MaxWrites + 1
      BY DEF IInv, Version
    <2>3. ASSUME NEW c \in Client, call[c] # None
          PROVE  /\ call[c].op \in Op /\ call[c].from \in 1..Version
                 /\ call[c].awaits \in Seq({"wedding"} \cup Table)
      BY <2>3, CallIs DEF Calls
    <2>4. ASSUME NEW c \in Client, answer[c] # None
          PROVE  answer[c].from <= answer[c].to
      <3>1. Settled(answer[c]) /\ Version \in Nat
        BY <2>4 DEF IInv
      <3>2. QED
        BY <3>1 DEF Settled
    <2>5. QED
      BY <2>1, <2>2, <2>3, <2>4 DEF TypeOK
  <1>2. QED
    BY <1>1, Invariant, PTL

(* Whatever changes while a call reads table after table, every sum, count *)
(* and list it answers, of money, guests, tasks and events, was true of    *)
(* the rows at some moment between call and answer.                        *)
THEOREM FiguresTrue == Spec => []FiguresWereTrue
  <1>1. IInv => FiguresWereTrue
    BY DEF IInv, Settled, FiguresWereTrue
  <1>2. QED
    BY <1>1, Invariant, PTL

(* The figures of one answer fit each other, though its reads straddle     *)
(* changes: what remains is the difference, percentages are right to half  *)
(* a percent, parts sum to the whole, lists are as long as counted.        *)
THEOREM FiguresAddUp == Spec => []FiguresFit
  <1>1. IInv => FiguresFit
    BY DEF IInv, Settled, FiguresFit
  <1>2. QED
    BY <1>1, Invariant, PTL

(* What the dashboard and the lists compute, each by code of its own, is   *)
(* the same of the same rows.                                              *)
THEOREM SameFigures == Spec => []EndpointsAgree
  <1>1. IInv => EndpointsAgree
    <2> SUFFICES ASSUME IInv, NEW i \in DOMAIN versions, versions[i].budget # None,
                        NEW f \in Dashboard(versions[i], 0)
                 PROVE  LET v == versions[i]
                            summary == ExpenseSummary(v.budget, v.expenses) IN
                        /\ \A x \in DOMAIN f.budget : f.budget[x] = summary[x]
                        /\ f.budget.totalBudget = toMinorUnits(Details(v.budget))
                        /\ f.guests = GuestSummary(v.guests)
                        /\ f.tasks = TaskSummary(v.tasks)
      BY DEF EndpointsAgree
    <2>1. PICK v \in Store : v = versions[i]
      BY DEF IInv
    <2>2. QED
      BY <2>1, Agreed
  <1>2. QED
    BY <1>1, Invariant, PTL
===============================================================================
