------------------------------ MODULE CpuProofs ------------------------------
(***************************************************************************)
(* CpuScheduler, for any request: however many processes, whatever their   *)
(* arrivals, bursts and priorities.  First that it implements CpuMachine:  *)
(* an algorithm keeps the unfinished processes in one place (pending, or   *)
(* the ready queue with the rest of ordered), each once, and picks from it *)
(* one that has arrived or none that has is there (IInv).  Every step then *)
(* is one of three: it leaves work and clock alone (Quiet), waits for an    *)
(* arrival (Idles) or draws a segment (Draws), and what each algorithm     *)
(* promises is an invariant of such steps: UrgentInv, TurnInv, LoadInv (no *)
(* time is lost), ChartInv (the metrics), LargeInv (a large quantum) and   *)
(* ShortInv (shortest job first).                                          *)
(***************************************************************************)
EXTENDS CpuScheduler, FiniteSetTheorems, TLAPS

Algorithms == {"FCFS", "SJF", "PRIORITY", "ROUND_ROBIN"}
Segments == [pid : Pid, startTime : Nat, endTime : Nat]

-----------------------------------------------------------------------------
(* Induction without an operator parameter: among subsets of a finite set  *)
(* there is a least one, so there is no least counterexample.              *)
LEMMA LeastSet ==
  ASSUME NEW S, IsFiniteSet(S), NEW C \in SUBSET (SUBSET S), C # {}
  PROVE  \E U \in C : \A V \in C : V \subseteq U => V = U
  <1>1. C \subseteq FiniteSubsetsOf(S)
    BY FS_FiniteSubsetsOfFinite
  <1>2. PICK U \in C : \A V \in C : <<V, U>> \notin StrictSubsetOrdering(S)
    BY <1>1, FS_StrictSubsetOrderingWellFounded, WFMin
  <1>3. QED
    BY <1>2 DEF StrictSubsetOrdering

LEMMA LeastNat ==
  ASSUME NEW N \in SUBSET Nat, N # {}
  PROVE  \E m \in N : \A k \in N : m <= k
  <1>1. PICK n \in N : TRUE
    OBVIOUS
  <1> DEFINE C == {U \in SUBSET (0..n) : \E m \in N : U = 0..m}
  <1>2. 0..n \in C
    BY <1>1
  <1>3. IsFiniteSet(0..n)
    BY <1>1, FS_Interval
  <1>4. PICK U \in C : \A V \in C : V \subseteq U => V = U
    <2> DEFINE I == 0..n
    <2>1. C # {} /\ C \in SUBSET (SUBSET I)
      BY <1>2
    <2>2. IsFiniteSet(I)
      BY <1>3
    <2> HIDE DEF C, I
    <2>3. QED
      BY <2>1, <2>2, LeastSet
  <1>5. PICK m \in N : U = 0..m
    BY <1>4
  <1>6. m <= n
    BY <1>1, <1>4, <1>5
  <1>7. ASSUME NEW k \in N, k < m
        PROVE  FALSE
    <2>1. 0..k \in C /\ 0..k \subseteq U
      BY <1>1, <1>5, <1>6, <1>7
    <2>2. m \in 0..m /\ m \notin 0..k
      BY <1>7
    <2>3. QED
      BY <1>4, <1>5, <2>1, <2>2
  <1>8. QED
    BY <1>7

-----------------------------------------------------------------------------
(* Sums over finite sets.                                                  *)
Adds(g, f, s) ==
  g[s] = IF s = {} THEN 0
         ELSE LET x == CHOOSE y \in s : TRUE IN f[x] + g[s \ {x}]
SumsUp(g, f, S) ==
  g = [s \in SUBSET S |->
         IF s = {} THEN 0
         ELSE LET x == CHOOSE y \in s : TRUE IN f[x] + g[s \ {x}]]

LEMMA SumsExist ==
  ASSUME NEW f, NEW S, IsFiniteSet(S)
  PROVE  \E g : SumsUp(g, f, S)
  <1> DEFINE Upto(g, k) ==
               \A s \in SUBSET S : Cardinality(s) <= k => Adds(g, f, s)
             N == {k \in Nat : ~ \E g : Upto(g, k)}
             More(g) == [s \in SUBSET S |->
                           IF s = {} THEN 0
                           ELSE LET x == CHOOSE y \in s : TRUE
                                IN f[x] + g[s \ {x}]]
  <1>1. ASSUME NEW s \in SUBSET S
        PROVE  IsFiniteSet(s) /\ Cardinality(s) \in Nat /\ Cardinality(s) <= Cardinality(S)
    BY FS_Subset, FS_CardinalityType
  <1>2. 0 \notin N
    <2>1. Upto(More(S), 0)
      <3>1. ASSUME NEW s \in SUBSET S, Cardinality(s) <= 0
            PROVE  s = {}
        BY <1>1, <3>1, FS_EmptySet
      <3>2. QED
        BY <3>1 DEF Adds
    <2>2. QED
      BY <2>1
  <1>3. ASSUME NEW k \in Nat, k + 1 \in N
        PROVE  k \in N
    <2>1. SUFFICES ASSUME NEW g, Upto(g, k)
                   PROVE  Upto(More(g), k + 1)
      BY <1>3
    <2>2. SUFFICES ASSUME NEW s \in SUBSET S, Cardinality(s) <= k + 1, s # {}
                   PROVE  Adds(More(g), f, s)
      BY DEF Adds
    <2> DEFINE x == CHOOSE y \in s : TRUE
    <2>3. x \in s
      BY <2>2
    <2> HIDE DEF x
    <2>4. s \ {x} \in SUBSET S /\ Cardinality(s \ {x}) <= k
      <3>1. IsFiniteSet(s) /\ Cardinality(s) \in Nat
        BY <1>1
      <3>2. Cardinality(s \ {x}) = Cardinality(s) - 1
        BY <2>3, <3>1, FS_RemoveElement
      <3>3. QED
        BY <2>2, <3>1, <3>2
    <2> USE DEF x
    <2>5. Adds(g, f, s \ {x})
      BY <2>1, <2>4
    <2>6. More(g)[s \ {x}] = g[s \ {x}]
      BY <2>4, <2>5 DEF Adds
    <2>7. More(g)[s] = f[x] + g[s \ {x}]
      BY <2>2
    <2>8. QED
      BY <2>2, <2>6, <2>7 DEF Adds
  <1>4. N = {}
    <2>1. SUFFICES ASSUME N # {} PROVE FALSE
      OBVIOUS
    <2>2. PICK m \in N : \A k \in N : m <= k
      <3>1. N \in SUBSET Nat
        OBVIOUS
      <3> HIDE DEF N
      <3>2. QED
        BY <2>1, <3>1, LeastNat
    <2>3. m \in Nat /\ m # 0
      BY <1>2, <2>2
    <2>4. m - 1 \in Nat /\ (m - 1) + 1 = m
      BY <2>3
    <2> HIDE DEF N
    <2>5. QED
      BY <1>3, <2>2, <2>4
  <1>5. PICK g : Upto(g, Cardinality(S))
    BY <1>1, <1>4
  <1>6. ASSUME NEW s \in SUBSET S
        PROVE  g[s] = More(g)[s]
    BY <1>1, <1>5 DEF Adds
  <1>7. SumsUp(More(g), f, S)
    <2>1. ASSUME NEW s \in SUBSET S, s # {}
          PROVE  LET x == CHOOSE y \in s : TRUE
                 IN  g[s \ {x}] = More(g)[s \ {x}]
      BY <1>6
    <2>2. More(g) = [s \in SUBSET S |->
                       IF s = {} THEN 0
                       ELSE LET x == CHOOSE y \in s : TRUE
                            IN f[x] + More(g)[s \ {x}]]
      <3>1. \A s \in SUBSET S :
              (IF s = {} THEN 0
               ELSE LET x == CHOOSE y \in s : TRUE IN f[x] + g[s \ {x}])
              = (IF s = {} THEN 0
                 ELSE LET x == CHOOSE y \in s : TRUE IN f[x] + More(g)[s \ {x}])
        <4> HIDE DEF More
        <4> QED BY <2>1
      <3>2. QED
        BY <3>1
    <2> HIDE DEF More
    <2>3. QED
      BY <2>2 DEF SumsUp
  <1>8. QED
    BY <1>7

LEMMA TotalIs ==
  ASSUME NEW f, NEW S, IsFiniteSet(S)
  PROVE  \E g : SumsUp(g, f, S) /\ TotalOf(f, S) = g[S]
  <1> DEFINE iter == CHOOSE g : SumsUp(g, f, S)
  <1>1. SumsUp(iter, f, S)
    BY SumsExist
  <1>2. TotalOf(f, S) = iter[S]
    BY DEF TotalOf, FoldFunctionOnSet, MapThenFoldSet, SumsUp
  <1>3. QED
    BY <1>1, <1>2

LEMMA SameSums ==
  ASSUME NEW f, NEW S, IsFiniteSet(S), NEW T \in SUBSET S, NEW g, NEW h,
         SumsUp(g, f, S), SumsUp(h, f, T)
  PROVE  g[T] = h[T]
  <1> DEFINE C == {s \in SUBSET T : g[s] # h[s]}
  <1>1. SUFFICES ASSUME C # {} PROVE FALSE
    OBVIOUS
  <1>2. PICK U \in C : \A V \in C : V \subseteq U => V = U
    <2>1. IsFiniteSet(T) /\ C \in SUBSET (SUBSET T)
      BY FS_Subset
    <2> HIDE DEF C
    <2>2. QED
      BY <1>1, <2>1, LeastSet
  <1>3. U # {}
    BY <1>2 DEF SumsUp
  <1> DEFINE x == CHOOSE y \in U : TRUE
  <1>4. x \in U
    BY <1>3
  <1>5. g[U \ {x}] = h[U \ {x}]
    BY <1>2, <1>4
  <1>6. g[U] = f[x] + g[U \ {x}] /\ h[U] = f[x] + h[U \ {x}]
    BY <1>2, <1>3 DEF SumsUp
  <1>7. QED
    BY <1>2, <1>5, <1>6

LEMMA TotalOfNone == ASSUME NEW f PROVE TotalOf(f, {}) = 0
  <1>1. PICK g : SumsUp(g, f, {}) /\ TotalOf(f, {}) = g[{}]
    BY TotalIs, FS_EmptySet
  <1>2. QED
    BY <1>1 DEF SumsUp

LEMMA TotalTakesOne ==
  ASSUME NEW f, NEW S, IsFiniteSet(S), S # {}
  PROVE  \E x \in S : TotalOf(f, S) = f[x] + TotalOf(f, S \ {x})
  <1> DEFINE x == CHOOSE y \in S : TRUE
             T == S \ {x}
  <1>1. x \in S /\ T \in SUBSET S
    OBVIOUS
  <1>2. PICK g : SumsUp(g, f, S) /\ TotalOf(f, S) = g[S]
    BY TotalIs
  <1>3. PICK h : SumsUp(h, f, T) /\ TotalOf(f, T) = h[T]
    BY TotalIs, FS_Subset, <1>1
  <1>4. g[T] = h[T]
    <2> HIDE DEF T, x
    <2> QED BY <1>1, <1>2, <1>3, SameSums
  <1>5. g[S] = f[x] + g[S \ {x}]
    BY <1>2 DEF SumsUp
  <1>6. QED
    BY <1>1, <1>2, <1>3, <1>4, <1>5

LEMMA TotalType ==
  ASSUME NEW f, NEW S, IsFiniteSet(S), \A x \in S : f[x] \in Int
  PROVE  TotalOf(f, S) \in Int
  <1> DEFINE C == {s \in SUBSET S : TotalOf(f, s) \notin Int}
  <1>1. SUFFICES ASSUME C # {} PROVE FALSE
    OBVIOUS
  <1>2. PICK U \in C : \A V \in C : V \subseteq U => V = U
    <2>1. C \in SUBSET (SUBSET S)
      OBVIOUS
    <2> HIDE DEF C
    <2>2. QED
      BY <1>1, <2>1, LeastSet
  <1>3. U # {}
    <2>1. TotalOf(f, {}) \in Int
      BY TotalOfNone
    <2>2. QED
      BY <1>2, <2>1
  <1>4. PICK x \in U : TotalOf(f, U) = f[x] + TotalOf(f, U \ {x})
    BY <1>2, <1>3, TotalTakesOne, FS_Subset
  <1>5. U \ {x} \notin C
    BY <1>2, <1>4
  <1>6. TotalOf(f, U \ {x}) \in Int /\ f[x] \in Int
    BY <1>2, <1>5
  <1>7. QED
    BY <1>2, <1>4, <1>6

(* Any one of them can be taken out.                                       *)
LEMMA TotalTakes ==
  ASSUME NEW f, NEW S, IsFiniteSet(S), \A x \in S : f[x] \in Int, NEW e \in S
  PROVE  TotalOf(f, S) = f[e] + TotalOf(f, S \ {e})
  <1> DEFINE C == {s \in SUBSET S : \E x \in s : TotalOf(f, s) # f[x] + TotalOf(f, s \ {x})}
  <1>1. SUFFICES ASSUME C # {} PROVE FALSE
    OBVIOUS
  <1>2. PICK U \in C : \A V \in C : V \subseteq U => V = U
    <2>1. C \in SUBSET (SUBSET S)
      OBVIOUS
    <2> HIDE DEF C
    <2>2. QED
      BY <1>1, <2>1, LeastSet
  <1>3. PICK x \in U : TotalOf(f, U) # f[x] + TotalOf(f, U \ {x})
    BY <1>2
  <1>4. PICK c \in U : TotalOf(f, U) = f[c] + TotalOf(f, U \ {c})
    BY <1>2, <1>3, TotalTakesOne, FS_Subset
  <1>5. c # x
    BY <1>3, <1>4
  <1>6. U \ {c} \notin C /\ U \ {x} \notin C /\ U \in SUBSET S
    BY <1>2, <1>3, <1>4
  <1>7. TotalOf(f, U \ {c}) = f[x] + TotalOf(f, (U \ {c}) \ {x})
    BY <1>3, <1>5, <1>6
  <1>8. TotalOf(f, U \ {x}) = f[c] + TotalOf(f, (U \ {x}) \ {c})
    BY <1>4, <1>5, <1>6
  <1>9. (U \ {c}) \ {x} = (U \ {x}) \ {c}
    OBVIOUS
  <1> DEFINE R == (U \ {x}) \ {c}
  <1>10. TotalOf(f, R) \in Int
    <2>1. R \in SUBSET S /\ IsFiniteSet(R)
      BY <1>6, FS_Subset
    <2> HIDE DEF R
    <2>2. QED
      BY <2>1, TotalType
  <1>11. f[x] \in Int /\ f[c] \in Int
    BY <1>3, <1>4, <1>6
  <1>12. /\ TotalOf(f, U) = f[c] + (f[x] + TotalOf(f, R))
         /\ TotalOf(f, U \ {x}) = f[c] + TotalOf(f, R)
    BY <1>4, <1>7, <1>8, <1>9
  <1> HIDE DEF R, C
  <1>13. QED
    BY <1>3, <1>10, <1>11, <1>12

LEMMA TotalSame ==
  ASSUME NEW f, NEW g, NEW S, IsFiniteSet(S),
         \A x \in S : f[x] \in Int /\ f[x] = g[x]
  PROVE  TotalOf(f, S) = TotalOf(g, S)
  <1> DEFINE C == {s \in SUBSET S : TotalOf(f, s) # TotalOf(g, s)}
  <1>1. SUFFICES ASSUME C # {} PROVE FALSE
    OBVIOUS
  <1>2. PICK U \in C : \A V \in C : V \subseteq U => V = U
    <2>1. C \in SUBSET (SUBSET S)
      OBVIOUS
    <2> HIDE DEF C
    <2>2. QED
      BY <1>1, <2>1, LeastSet
  <1>3. U # {}
    <2>1. TotalOf(f, {}) = TotalOf(g, {})
      BY TotalOfNone
    <2>2. QED
      BY <1>2, <2>1
  <1>4. PICK x \in U : TRUE
    BY <1>3
  <1>5. IsFiniteSet(U) /\ U \in SUBSET S /\ TotalOf(f, U) # TotalOf(g, U)
    BY <1>2, FS_Subset
  <1>6. TotalOf(f, U \ {x}) = TotalOf(g, U \ {x})
    BY <1>2, <1>4
  <1>7. /\ TotalOf(f, U) = f[x] + TotalOf(f, U \ {x})
        /\ TotalOf(g, U) = g[x] + TotalOf(g, U \ {x})
    BY <1>4, <1>5, TotalTakes
  <1>8. QED
    BY <1>4, <1>5, <1>6, <1>7

LEMMA TotalAdds ==
  ASSUME NEW f, NEW S, IsFiniteSet(S), \A x \in S : f[x] \in Int,
         NEW e, e \notin S, f[e] \in Int
  PROVE  TotalOf(f, S \cup {e}) = f[e] + TotalOf(f, S)
  <1>1. IsFiniteSet(S \cup {e})
    BY FS_AddElement
  <1>2. (S \cup {e}) \ {e} = S
    OBVIOUS
  <1>3. QED
    BY <1>1, <1>2, TotalTakes

(* One summand changes by d.                                               *)
LEMMA TotalChanges ==
  ASSUME NEW f, NEW g, NEW S, IsFiniteSet(S), NEW e \in S, NEW d \in Int,
         \A x \in S : f[x] \in Int,
         \A x \in S \ {e} : g[x] = f[x],
         g[e] = f[e] + d
  PROVE  TotalOf(g, S) = TotalOf(f, S) + d
  <1>1. IsFiniteSet(S \ {e})
    BY FS_RemoveElement
  <1>2. TotalOf(f, S \ {e}) = TotalOf(g, S \ {e})
    BY <1>1, TotalSame
  <1>3. \A x \in S : g[x] \in Int
    OBVIOUS
  <1>4. /\ TotalOf(f, S) = f[e] + TotalOf(f, S \ {e})
        /\ TotalOf(g, S) = g[e] + TotalOf(g, S \ {e})
    BY <1>3, TotalTakes
  <1>5. TotalOf(f, S \ {e}) \in Int
    BY <1>1, TotalType
  <1>6. QED
    BY <1>2, <1>4, <1>5

(* Summand by summand, f and h outweigh g and a constant.                  *)
LEMMA TotalOutweighs ==
  ASSUME NEW f, NEW h, NEW g, NEW c \in Int, NEW S, IsFiniteSet(S),
         \A x \in S : /\ f[x] \in Int /\ h[x] \in Int /\ g[x] \in Int
                      /\ f[x] + h[x] >= g[x] + c
  PROVE  TotalOf(f, S) + TotalOf(h, S) >= TotalOf(g, S) + Cardinality(S) * c
  <1> DEFINE Holds(s) == TotalOf(f, s) + TotalOf(h, s) >= TotalOf(g, s) + Cardinality(s) * c
             C == {s \in SUBSET S : ~Holds(s)}
  <1>1. SUFFICES ASSUME C # {} PROVE FALSE
    OBVIOUS
  <1>2. PICK U \in C : \A V \in C : V \subseteq U => V = U
    <2>1. C \in SUBSET (SUBSET S)
      OBVIOUS
    <2> HIDE DEF C
    <2>2. QED
      BY <1>1, <2>1, LeastSet
  <1>3. U # {}
    <2>1. TotalOf(f, {}) = 0 /\ TotalOf(g, {}) = 0 /\ TotalOf(h, {}) = 0
      BY TotalOfNone
    <2>2. Cardinality({}) * c = 0
      BY FS_EmptySet
    <2>3. Holds({})
      BY <2>1, <2>2
    <2> HIDE DEF Holds
    <2>4. QED
      BY <1>2, <2>3
  <1>4. PICK x \in U : TRUE
    BY <1>3
  <1> DEFINE T == U \ {x}
  <1>5. IsFiniteSet(U) /\ U \in SUBSET S /\ ~Holds(U)
    BY <1>2, FS_Subset
  <1>6. Holds(T)
    <2> HIDE DEF Holds
    <2> QED BY <1>2, <1>4
  <1>7. IsFiniteSet(T) /\ T \in SUBSET S
    BY <1>5, FS_Subset
  <1>8. Cardinality(T) \in Nat /\ Cardinality(U) = Cardinality(T) + 1
    BY <1>4, <1>5, <1>7, FS_RemoveElement, FS_CardinalityType
  <1>9. /\ TotalOf(f, U) = f[x] + TotalOf(f, T)
        /\ TotalOf(g, U) = g[x] + TotalOf(g, T)
        /\ TotalOf(h, U) = h[x] + TotalOf(h, T)
    BY <1>4, <1>5, TotalTakes
  <1>10. TotalOf(f, T) \in Int /\ TotalOf(g, T) \in Int /\ TotalOf(h, T) \in Int
    <2> HIDE DEF T
    <2> QED BY <1>7, TotalType
  <1>11. f[x] \in Int /\ h[x] \in Int /\ g[x] \in Int /\ f[x] + h[x] >= g[x] + c
    BY <1>4, <1>5
  <1>12. /\ (Cardinality(T) + 1) * c = Cardinality(T) * c + c
         /\ Cardinality(T) * c \in Int
    <2> HIDE DEF T
    <2> QED BY <1>8
  <1> DEFINE k == Cardinality(T) * c
  <1>13. /\ TotalOf(f, T) + TotalOf(h, T) >= TotalOf(g, T) + k
         /\ ~(TotalOf(f, U) + TotalOf(h, U) >= TotalOf(g, U) + (k + c))
    BY <1>5, <1>6, <1>8, <1>12
  <1>14. k \in Int
    BY <1>12
  <1> HIDE DEF k, T, Holds, C
  <1>15. QED
    BY <1>9, <1>10, <1>11, <1>13, <1>14

LEMMA TotalNat ==
  ASSUME NEW f, NEW S, IsFiniteSet(S), \A x \in S : f[x] \in Nat
  PROVE  TotalOf(f, S) \in Nat
  <1> DEFINE C == {s \in SUBSET S : TotalOf(f, s) \notin Nat}
  <1>1. SUFFICES ASSUME C # {} PROVE FALSE
    OBVIOUS
  <1>2. PICK U \in C : \A V \in C : V \subseteq U => V = U
    <2>1. C \in SUBSET (SUBSET S)
      OBVIOUS
    <2> HIDE DEF C
    <2>2. QED
      BY <1>1, <2>1, LeastSet
  <1>3. U # {}
    <2>1. TotalOf(f, {}) \in Nat
      BY TotalOfNone
    <2>2. QED
      BY <1>2, <2>1
  <1>4. PICK x \in U : TotalOf(f, U) = f[x] + TotalOf(f, U \ {x})
    BY <1>2, <1>3, TotalTakesOne, FS_Subset
  <1>5. TotalOf(f, U \ {x}) \in Nat /\ f[x] \in Nat
    BY <1>2, <1>4
  <1>6. QED
    BY <1>2, <1>4, <1>5

LEMMA TotalSplits ==
  ASSUME NEW f, NEW S, IsFiniteSet(S), \A x \in S : f[x] \in Int, NEW T
  PROVE  TotalOf(f, S) = TotalOf(f, S \cap T) + TotalOf(f, S \ T)
  <1> DEFINE Holds(s) == TotalOf(f, s) = TotalOf(f, s \cap T) + TotalOf(f, s \ T)
             C == {s \in SUBSET S : ~Holds(s)}
  <1>1. SUFFICES ASSUME C # {} PROVE FALSE
    OBVIOUS
  <1>2. PICK U \in C : \A V \in C : V \subseteq U => V = U
    <2>1. C \in SUBSET (SUBSET S)
      OBVIOUS
    <2> HIDE DEF C
    <2>2. QED
      BY <1>1, <2>1, LeastSet
  <1>3. U # {}
    <2>1. TotalOf(f, {}) = 0 /\ {} \cap T = {} /\ {} \ T = {}
      BY TotalOfNone
    <2>2. Holds({})
      BY <2>1
    <2> HIDE DEF Holds
    <2>3. QED
      BY <1>2, <2>2
  <1>4. PICK x \in U : TRUE
    BY <1>3
  <1> DEFINE V == U \ {x}
  <1>5. IsFiniteSet(U) /\ U \in SUBSET S /\ ~Holds(U)
    BY <1>2, FS_Subset
  <1>6. Holds(V)
    <2> HIDE DEF Holds
    <2> QED BY <1>2, <1>4
  <1>7. TotalOf(f, U) = f[x] + TotalOf(f, V) /\ f[x] \in Int
    BY <1>4, <1>5, TotalTakes
  <1>8. /\ IsFiniteSet(V \cap T) /\ IsFiniteSet(V \ T)
        /\ V \cap T \in SUBSET S /\ V \ T \in SUBSET S
    BY <1>5, FS_Subset
  <1>9. TotalOf(f, V \cap T) \in Int /\ TotalOf(f, V \ T) \in Int
    <2> HIDE DEF V
    <2> QED BY <1>8, TotalType
  <1>10. TotalOf(f, V) = TotalOf(f, V \cap T) + TotalOf(f, V \ T)
    BY <1>6
  <1>11. TotalOf(f, U) # TotalOf(f, U \cap T) + TotalOf(f, U \ T)
    BY <1>5
  <1>12. CASE x \in T
    <2>1. U \cap T = (V \cap T) \cup {x} /\ U \ T = V \ T /\ x \notin V \cap T
      BY <1>4, <1>12
    <2>2. TotalOf(f, U \cap T) = f[x] + TotalOf(f, V \cap T)
      <3> HIDE DEF V
      <3> QED BY <1>7, <1>8, <2>1, TotalAdds
    <2>3. TotalOf(f, U \cap T) + TotalOf(f, U \ T) = (f[x] + TotalOf(f, V \cap T)) + TotalOf(f, V \ T)
      BY <2>1, <2>2
    <2>4. TotalOf(f, U) = f[x] + (TotalOf(f, V \cap T) + TotalOf(f, V \ T))
      BY <1>7, <1>10
    <2>5. (f[x] + TotalOf(f, V \cap T)) + TotalOf(f, V \ T)
            = f[x] + (TotalOf(f, V \cap T) + TotalOf(f, V \ T))
      BY <1>7, <1>9
    <2>6. QED
      BY <1>11, <2>3, <2>4, <2>5
  <1>13. CASE x \notin T
    <2>1. U \ T = (V \ T) \cup {x} /\ U \cap T = V \cap T /\ x \notin V \ T
      BY <1>4, <1>13
    <2>2. TotalOf(f, U \ T) = f[x] + TotalOf(f, V \ T)
      <3> HIDE DEF V
      <3> QED BY <1>7, <1>8, <2>1, TotalAdds
    <2>3. TotalOf(f, U \cap T) + TotalOf(f, U \ T) = TotalOf(f, V \cap T) + (f[x] + TotalOf(f, V \ T))
      BY <2>1, <2>2
    <2>4. TotalOf(f, U) = f[x] + (TotalOf(f, V \cap T) + TotalOf(f, V \ T))
      BY <1>7, <1>10
    <2>5. TotalOf(f, V \cap T) + (f[x] + TotalOf(f, V \ T))
            = f[x] + (TotalOf(f, V \cap T) + TotalOf(f, V \ T))
      BY <1>7, <1>9
    <2>6. QED
      BY <1>11, <2>3, <2>4, <2>5
  <1>14. QED
    BY <1>12, <1>13

(* A sum over what s lists is a sum over its indices.                      *)
LEMMA TotalListed ==
  ASSUME NEW f, NEW s, NEW J, IsFiniteSet(J),
         \A i, j \in J : s[i] = s[j] => i = j,
         \A j \in J : f[s[j]] \in Int
  PROVE  TotalOf(f, {s[j] : j \in J}) = TotalOf([j \in J |-> f[s[j]]], J)
  <1> DEFINE F == [j \in J |-> f[s[j]]]
             Image(I) == {s[j] : j \in I}
             Holds(I) == IsFiniteSet(Image(I)) /\ TotalOf(f, Image(I)) = TotalOf(F, I)
             C == {I \in SUBSET J : ~Holds(I)}
  <1>0. SUFFICES C = {}
    <2>1. J \in SUBSET J
      OBVIOUS
    <2>2. SUFFICES Holds(J)
      OBVIOUS
    <2> HIDE DEF Holds
    <2>3. QED
      BY <1>0, <2>1
  <1>1. SUFFICES ASSUME C # {} PROVE FALSE
    OBVIOUS
  <1>2. PICK U \in C : \A V \in C : V \subseteq U => V = U
    <2>1. C \in SUBSET (SUBSET J)
      OBVIOUS
    <2> HIDE DEF C
    <2>2. QED
      BY <1>1, <2>1, LeastSet
  <1>3. U # {}
    <2>1. TotalOf(f, {}) = TotalOf(F, {})
      BY TotalOfNone
    <2>2. Image({}) = {}
      OBVIOUS
    <2>3. Holds({})
      BY <2>1, <2>2, FS_EmptySet
    <2> HIDE DEF Holds
    <2>4. QED
      BY <1>2, <2>3
  <1>4. PICK x \in U : TRUE
    BY <1>3
  <1> DEFINE V == U \ {x}
  <1>5. IsFiniteSet(U) /\ U \in SUBSET J /\ ~Holds(U)
    BY <1>2, FS_Subset
  <1>6. Holds(V)
    <2> HIDE DEF Holds
    <2> QED BY <1>2, <1>4
  <1>7. Image(U) = Image(V) \cup {s[x]} /\ s[x] \notin Image(V)
    BY <1>4, <1>5
  <1>8. \A y \in Image(V) : f[y] \in Int
    BY <1>5
  <1>9. F[x] = f[s[x]] /\ f[s[x]] \in Int
    BY <1>4, <1>5
  <1>10. TotalOf(F, U) = F[x] + TotalOf(F, V)
    <2>1. \A j \in U : F[j] \in Int
      BY <1>5
    <2> HIDE DEF F
    <2>2. QED
      BY <1>4, <1>5, <2>1, TotalTakes
  <1>11. IsFiniteSet(Image(V)) /\ TotalOf(f, Image(V)) = TotalOf(F, V)
    BY <1>6
  <1> HIDE DEF F, C, V, Image
  <1>12. TotalOf(f, Image(U)) = f[s[x]] + TotalOf(f, Image(V))
    BY <1>7, <1>8, <1>9, <1>11, TotalAdds
  <1>13. IsFiniteSet(Image(U))
    BY <1>7, <1>11, FS_AddElement
  <1>14. QED
    BY <1>5, <1>9, <1>10, <1>11, <1>12, <1>13

-----------------------------------------------------------------------------
(* What the queue holds after admit: q, then s[m], ..., s[k - 1], then b.  *)
Splices(c, q, s, m, k, b) ==
  /\ Len(c) = Len(q) + (k - m) + Len(b)
  /\ \A i \in 1..Len(q) : c[i] = q[i]
  /\ \A j \in m..(k - 1) : c[Len(q) + (j - m) + 1] = s[j]
  /\ \A i \in 1..Len(b) : c[Len(q) + (k - m) + i] = b[i]

(* Sequence a, then b.                                                     *)
Joined(c, a, b) ==
  /\ Len(c) = Len(a) + Len(b)
  /\ \A i \in 1..Len(a) : c[i] = a[i]
  /\ \A i \in 1..Len(b) : c[Len(a) + i] = b[i]

LEMMA Concat ==
  ASSUME NEW S, NEW a \in Seq(S), NEW b \in Seq(S)
  PROVE  Joined(a \o b, a, b) /\ a \o b \in Seq(S)
  <1>1. a \o b \in Seq(S) /\ Len(a \o b) = Len(a) + Len(b)
    OBVIOUS
  <1>2. ASSUME NEW i \in 1..Len(a)
        PROVE  (a \o b)[i] = a[i]
    OBVIOUS
  <1>3. ASSUME NEW i \in 1..Len(b)
        PROVE  (a \o b)[Len(a) + i] = b[i]
    OBVIOUS
  <1>4. QED
    BY <1>1, <1>2, <1>3 DEF Joined

LEMMA Spliced ==
  ASSUME NEW S, NEW q \in Seq(S), NEW s \in Seq(S), NEW b \in Seq(S),
         NEW m \in 1..(Len(s) + 1), NEW k \in m..(Len(s) + 1)
  PROVE  /\ q \o SubSeq(s, m, k - 1) \o b \in Seq(S)
         /\ Splices(q \o SubSeq(s, m, k - 1) \o b, q, s, m, k, b)
  <1> DEFINE mid == SubSeq(s, m, k - 1)
             c == q \o mid \o b
  <1>1. /\ mid \in Seq(S) /\ Len(mid) = k - m
        /\ \A j \in m..(k - 1) : mid[(j - m) + 1] = s[j]
    <2>1. SubSeq(s, m, k - 1) \in Seq(S)
      OBVIOUS
    <2>2. Len(SubSeq(s, m, k - 1)) = k - m
      OBVIOUS
    <2>3. ASSUME NEW j \in m..(k - 1)
          PROVE  SubSeq(s, m, k - 1)[(j - m) + 1] = s[j]
      OBVIOUS
    <2>4. QED
      BY <2>1, <2>2, <2>3
  <1> HIDE DEF mid
  <1> DEFINE head == q \o mid
  <1>2. c = head \o b
    OBVIOUS
  <1>3. Joined(head, q, mid) /\ head \in Seq(S)
    BY <1>1, Concat
  <1> HIDE DEF head, c
  <1>4. Joined(c, head, b) /\ c \in Seq(S)
    BY <1>2, <1>3, Concat
  <1>5. Len(q) \in Nat /\ k - m \in Nat
    OBVIOUS
  <1> HIDE DEF c
  <1>6. ASSUME NEW j \in m..(k - 1)
        PROVE  c[Len(q) + (j - m) + 1] = s[j]
    <2>1. /\ (j - m) + 1 \in 1..(k - m)
          /\ Len(q) + (j - m) + 1 \in 1..(Len(q) + (k - m))
          /\ Len(q) + ((j - m) + 1) = Len(q) + (j - m) + 1
      BY <1>5
    <2>2. head[Len(q) + (j - m) + 1] = mid[(j - m) + 1]
      BY <1>1, <1>3, <2>1 DEF Joined
    <2>3. Len(q) + (j - m) + 1 \in 1..Len(head)
      BY <1>1, <1>3, <2>1 DEF Joined
    <2>4. QED
      BY <1>1, <1>4, <2>2, <2>3 DEF Joined
  <1>7. ASSUME NEW i \in 1..Len(q)
        PROVE  c[i] = q[i]
    <2>1. Len(head) = Len(q) + (k - m) /\ head[i] = q[i]
      BY <1>1, <1>3 DEF Joined
    <2>2. i \in 1..Len(head)
      BY <1>5, <2>1
    <2>3. QED
      BY <1>4, <2>1, <2>2 DEF Joined
  <1>8. /\ Len(c) = Len(q) + (k - m) + Len(b)
        /\ \A i \in 1..Len(b) : c[Len(q) + (k - m) + i] = b[i]
    BY <1>1, <1>3, <1>4 DEF Joined
  <1>9. QED
    BY <1>4, <1>6, <1>7, <1>8 DEF Splices, c, head, mid

-----------------------------------------------------------------------------
RequestOK ==
  /\ algorithm \in Algorithms
  /\ tasks \in TaskLists
  /\ timeQuantum \in Quanta \cup {NoQuantum}
  /\ process \in [1..Len(tasks) -> Process]

(* What is known of a process.                                             *)
LEMMA ProcessesFit ==
  ASSUME RequestOK
  PROVE  /\ Len(tasks) \in Nat \ {0}
         /\ Pid = 1..Len(tasks)
         /\ \A p \in Pid : /\ arrivalTime(p) \in Nat
                           /\ burstTime(p) \in Nat \ {0}
                           /\ priority(p) \in Nat \ {0}
  BY RequestAssumption DEF RequestOK, Pid, Process, arrivalTime, burstTime, priority

(* A sorted list has every process once.                                   *)
LEMMA SortedHasAll ==
  ASSUME RequestOK, NEW s \in [Pid -> Pid], Sorted(s)
  PROVE  /\ s \in Seq(Pid) /\ Len(s) = Len(tasks)
         /\ \A i, j \in 1..Len(tasks) : s[i] = s[j] => i = j
         /\ \A p \in Pid : \E i \in 1..Len(tasks) : s[i] = p
         /\ \A i, j \in 1..Len(tasks) : i <= j => arrivalTime(s[i]) <= arrivalTime(s[j])
  <1>1. s \in Seq(Pid) /\ Len(s) = Len(tasks)
    BY ProcessesFit
  <1>2. ASSUME NEW i \in 1..Len(tasks), NEW j \in 1..Len(tasks), i < j
        PROVE  s[i] # s[j] /\ arrivalTime(s[i]) <= arrivalTime(s[j])
    <2>1. ByArrival(s[i], s[j]) /\ s[i] \in Pid /\ s[j] \in Pid
      BY <1>2, ProcessesFit DEF Sorted
    <2>2. QED
      BY <2>1, ProcessesFit DEF ByArrival
  <1>3. \A i, j \in 1..Len(tasks) : s[i] = s[j] => i = j
    BY <1>2, ProcessesFit
  <1>4. \A i, j \in 1..Len(tasks) : i <= j => arrivalTime(s[i]) <= arrivalTime(s[j])
    <2>1. \A i \in 1..Len(tasks) : arrivalTime(s[i]) \in Nat
      BY ProcessesFit
    <2>2. QED
      BY <1>2, <2>1, ProcessesFit
  <1>5. s \in Injection(Pid, Pid)
    BY <1>3, ProcessesFit DEF Injection, IsInjective
  <1>6. IsFiniteSet(Pid)
    BY FS_Interval, ProcessesFit
  <1>7. s \in Surjection(Pid, Pid)
    BY <1>5, <1>6, FS_Injection
  <1>8. \A p \in Pid : \E i \in 1..Len(tasks) : s[i] = p
    BY <1>7, ProcessesFit DEF Surjection
  <1>9. QED
    BY <1>1, <1>3, <1>4, <1>8

-----------------------------------------------------------------------------
(* Round Robin keeps the unfinished processes in the queue and in what is  *)
(* left of the sorted list s from m on: each in one of them, and there     *)
(* once.  Those in the queue have arrived by t, the others have not and    *)
(* have their whole burst before them.                                     *)
Kept(queue, s, m, rem) ==
  /\ \A p \in Pid : rem[p] # 0 => \/ \E i \in 1..Len(queue) : queue[i] = p
                                  \/ \E j \in m..Len(tasks) : s[j] = p
  /\ \A i, j \in 1..Len(queue) : queue[i] = queue[j] => i = j
  /\ \A i \in 1..Len(queue) : \A j \in m..Len(tasks) : queue[i] # s[j]
  /\ \A j \in m..Len(tasks) : rem[s[j]] = burstTime(s[j])

Present(queue, rem, t) ==
  \A i \in 1..Len(queue) : rem[queue[i]] # 0 /\ arrivalTime(queue[i]) <= t

Absent(s, m, t) == \A j \in m..Len(tasks) : arrivalTime(s[j]) > t

(* admit moves the processes that have arrived from the one to the other.  *)
LEMMA Admission ==
  ASSUME RequestOK,
         NEW s \in [Pid -> Pid], Sorted(s),
         NEW m \in 1..(Len(tasks) + 1), NEW k \in m..(Len(tasks) + 1),
         NEW queue \in Seq(Pid), NEW back \in Seq(Pid),
         NEW full \in Seq(Pid), Splices(full, queue, s, m, m, back),
         NEW c \in Seq(Pid), Splices(c, queue, s, m, k, back),
         NEW rem \in [Pid -> Nat], NEW t \in Nat,
         Kept(full, s, m, rem), Present(full, rem, t),
         \A j \in m..(k - 1) : arrivalTime(s[j]) <= t,
         k \in 1..Len(tasks) => arrivalTime(s[k]) > t
  PROVE  Kept(c, s, k, rem) /\ Present(c, rem, t) /\ Absent(s, k, t)
  <1> DEFINE L == Len(queue)
             A == k - m
  <1>1. /\ s \in Seq(Pid) /\ Len(s) = Len(tasks) /\ Len(tasks) \in Nat
        /\ \A i, j \in 1..Len(tasks) : s[i] = s[j] => i = j
        /\ \A i, j \in 1..Len(tasks) : i <= j => arrivalTime(s[i]) <= arrivalTime(s[j])
        /\ \A j \in 1..Len(tasks) : s[j] \in Pid
    BY SortedHasAll, ProcessesFit
  <1>2. /\ Len(c) = L + A + Len(back)
        /\ \A i \in 1..L : c[i] = queue[i]
        /\ \A j \in m..(k - 1) : c[L + (j - m) + 1] = s[j]
        /\ \A i \in 1..Len(back) : c[L + A + i] = back[i]
    BY DEF Splices
  <1>3. /\ Len(full) = L + Len(back)
        /\ \A i \in 1..L : full[i] = queue[i]
        /\ \A i \in 1..Len(back) : full[L + i] = back[i]
        /\ \A i \in 1..Len(full) : full[i] \in Pid
    <2>1. m \in Nat /\ Len(queue) \in Nat
      BY <1>1
    <2>2. QED
      BY <2>1 DEF Splices
  <1>4. L \in Nat /\ A \in Nat /\ Len(back) \in Nat /\ m \in Nat /\ k = m + A
        /\ k <= Len(tasks) + 1 /\ m >= 1
    <2>1. L \in Nat /\ Len(back) \in Nat
      OBVIOUS
    <2>2. Len(tasks) \in Nat
      BY <1>1
    <2>3. m \in Nat /\ k <= Len(tasks) + 1 /\ m >= 1
      BY <2>2
    <2>4. A \in Nat /\ k = m + A
      BY <2>2
    <2>5. QED
      BY <2>1, <2>2, <2>3, <2>4
  <1>5. /\ \A p \in Pid : rem[p] # 0 => \/ \E i \in 1..Len(full) : full[i] = p
                                        \/ \E j \in m..Len(tasks) : s[j] = p
        /\ \A i, j \in 1..Len(full) : full[i] = full[j] => i = j
        /\ \A i \in 1..Len(full) : \A j \in m..Len(tasks) : full[i] # s[j]
        /\ \A j \in m..Len(tasks) : rem[s[j]] = burstTime(s[j])
        /\ \A i \in 1..Len(full) : rem[full[i]] # 0 /\ arrivalTime(full[i]) <= t
    BY DEF Kept, Present
  <1> HIDE DEF L, A
  (* Where an element of the new queue comes from.                         *)
  <1> DEFINE Old(i, x) == /\ x \in 1..Len(full) /\ c[i] = full[x]
                          /\ i = IF x <= L THEN x ELSE x + A
             New(i, j) == j \in m..(k - 1) /\ c[i] = s[j] /\ i = L + (j - m) + 1
  <1>6. ASSUME NEW i \in 1..Len(c)
        PROVE  (\E x \in 1..Len(full) : Old(i, x)) \/ (\E j \in m..(k - 1) : New(i, j))
    <2>1. CASE i <= L
      <3>1. i \in 1..L /\ i \in 1..Len(full)
        BY <2>1, <1>3, <1>4
      <3>2. Old(i, i)
        BY <3>1, <2>1, <1>2, <1>3
      <3>3. QED
        BY <3>1, <3>2
    <2>2. CASE i > L /\ i <= L + A
      <3> DEFINE j == i - L + m - 1
      <3>1. j \in m..(k - 1) /\ L + (j - m) + 1 = i
        BY <2>2, <1>4, <1>2
      <3> HIDE DEF j
      <3>2. New(i, j)
        BY <3>1, <1>2
      <3>3. QED
        BY <3>1, <3>2
    <2>3. CASE i > L + A
      <3> DEFINE l == i - L - A
                 x == i - A
      <3>1. /\ l \in 1..Len(back) /\ L + A + l = i /\ L + l = x
            /\ x \in 1..Len(full) /\ x > L /\ i = x + A
        BY <2>3, <1>2, <1>3, <1>4
      <3> HIDE DEF l, x
      <3>2. c[i] = back[l] /\ full[x] = back[l]
        BY <3>1, <1>2, <1>3
      <3>3. Old(i, x)
        <4>1. ~(x <= L)
          BY <3>1, <1>4
        <4>2. QED
          BY <3>1, <3>2, <4>1
      <3>4. QED
        BY <3>1, <3>3
    <2>4. QED
      BY <2>1, <2>2, <2>3, <1>2, <1>4
  <1>7. /\ \A i \in 1..L : i \in 1..Len(c) /\ c[i] = full[i]
        /\ \A j \in m..(k - 1) : \E i \in 1..Len(c) : c[i] = s[j]
        /\ \A i \in (L + 1)..(L + Len(back)) : i + A \in 1..Len(c) /\ c[i + A] = full[i]
    <2>1. ASSUME NEW i \in 1..L
          PROVE  i \in 1..Len(c) /\ c[i] = full[i]
      <3>1. i \in 1..Len(c)
        BY <1>2, <1>4
      <3>2. QED
        BY <3>1, <1>2, <1>3
    <2>2. ASSUME NEW j \in m..(k - 1)
          PROVE  \E i \in 1..Len(c) : c[i] = s[j]
      <3>1. L + (j - m) + 1 \in 1..Len(c)
        BY <1>2, <1>4
      <3>2. QED
        BY <3>1, <1>2
    <2>3. ASSUME NEW i \in (L + 1)..(L + Len(back))
          PROVE  i + A \in 1..Len(c) /\ c[i + A] = full[i]
      <3> DEFINE l == i - L
      <3>1. l \in 1..Len(back) /\ L + A + l = i + A /\ L + l = i
        BY <1>4
      <3>2. c[L + A + l] = back[l] /\ full[L + l] = back[l]
        <4> HIDE DEF l
        <4>1. QED
          BY <3>1, <1>2, <1>3
      <3>3. c[i + A] = full[i]
        <4> HIDE DEF l
        <4>1. QED
          BY <3>1, <3>2
      <3>4. QED
        BY <3>1, <3>3, <1>2, <1>4
    <2>4. QED
      BY <2>1, <2>2, <2>3
  <1>8. \A p \in Pid : rem[p] # 0 => \/ \E i \in 1..Len(c) : c[i] = p
                                     \/ \E j \in k..Len(tasks) : s[j] = p
    <2> SUFFICES ASSUME NEW p \in Pid, rem[p] # 0
                 PROVE  \/ \E i \in 1..Len(c) : c[i] = p
                        \/ \E j \in k..Len(tasks) : s[j] = p
      OBVIOUS
    <2>1. CASE \E i \in 1..Len(full) : full[i] = p
      <3>1. PICK i \in 1..Len(full) : full[i] = p
        BY <2>1
      <3>2. i \in 1..L \/ i \in (L + 1)..(L + Len(back))
        BY <1>3, <1>4
      <3>3. QED
        BY <3>1, <3>2, <1>7
    <2>2. CASE \E j \in m..Len(tasks) : s[j] = p
      <3>1. PICK j \in m..Len(tasks) : s[j] = p
        BY <2>2
      <3>2. j \in m..(k - 1) \/ j \in k..Len(tasks)
        BY <1>1, <1>4
      <3>3. QED
        BY <3>1, <3>2, <1>7
    <2>3. QED
      BY <2>1, <2>2, <1>5
  <1>9. \A i, j \in 1..Len(c) : c[i] = c[j] => i = j
    <2> SUFFICES ASSUME NEW i \in 1..Len(c), NEW j \in 1..Len(c), c[i] = c[j]
                 PROVE  i = j
      OBVIOUS
    <2>1. CASE (\E x \in 1..Len(full) : Old(i, x)) /\ (\E y \in 1..Len(full) : Old(j, y))
      <3>1. PICK x \in 1..Len(full) : Old(i, x)
        BY <2>1
      <3>2. PICK y \in 1..Len(full) : Old(j, y)
        BY <2>1
      <3>3. full[x] = full[y]
        BY <3>1, <3>2
      <3>4. x = y
        BY <3>3, <1>5
      <3>5. QED
        BY <3>1, <3>2, <3>4
    <2>2. CASE (\E x \in m..(k - 1) : New(i, x)) /\ (\E y \in m..(k - 1) : New(j, y))
      <3>1. PICK x \in m..(k - 1) : New(i, x)
        BY <2>2
      <3>2. PICK y \in m..(k - 1) : New(j, y)
        BY <2>2
      <3>3. s[x] = s[y]
        BY <3>1, <3>2
      <3>4. \A z \in m..(k - 1) : z \in 1..Len(tasks)
        BY <1>1, <1>4
      <3>5. x \in 1..Len(tasks) /\ y \in 1..Len(tasks)
        BY <3>4
      <3>6. x = y
        BY <3>3, <3>5, <1>1
      <3>7. QED
        BY <3>1, <3>2, <3>6
    <2>3. ASSUME NEW x \in 1..Len(full), NEW y \in m..(k - 1)
          PROVE  full[x] # s[y]
      <3>1. y \in m..Len(tasks)
        BY <1>1, <1>4
      <3>2. QED
        BY <3>1, <1>5
    <2>4. CASE (\E x \in 1..Len(full) : Old(i, x)) /\ (\E y \in m..(k - 1) : New(j, y))
      BY <2>3, <2>4
    <2>5. CASE (\E x \in 1..Len(full) : Old(j, x)) /\ (\E y \in m..(k - 1) : New(i, y))
      BY <2>3, <2>5
    <2>6. QED
      <3> HIDE DEF Old, New
      <3>1. QED
        BY <2>1, <2>2, <2>4, <2>5, <1>6
  <1>10. \A i \in 1..Len(c) : \A j \in k..Len(tasks) : c[i] # s[j]
    <2> SUFFICES ASSUME NEW i \in 1..Len(c), NEW j \in k..Len(tasks)
                 PROVE  c[i] # s[j]
      OBVIOUS
    <2>1. CASE \E x \in 1..Len(full) : Old(i, x)
      <3>1. j \in m..Len(tasks)
        BY <1>1, <1>4
      <3>2. QED
        BY <2>1, <3>1, <1>5
    <2>2. CASE \E x \in m..(k - 1) : New(i, x)
      <3>1. PICK x \in m..(k - 1) : New(i, x)
        BY <2>2
      <3>2. x \in 1..Len(tasks) /\ j \in 1..Len(tasks)
        BY <1>1, <1>4
      <3>3. x # j
        BY <1>4
      <3>4. QED
        BY <3>1, <3>2, <3>3, <1>1
    <2>3. QED
      BY <2>1, <2>2, <1>6
  <1>11. Kept(c, s, k, rem)
    BY <1>8, <1>9, <1>10, <1>4, <1>5 DEF Kept
  <1>12. Present(c, rem, t)
    <2> SUFFICES ASSUME NEW i \in 1..Len(c)
                 PROVE  rem[c[i]] # 0 /\ arrivalTime(c[i]) <= t
      BY DEF Present
    <2>1. CASE \E x \in 1..Len(full) : Old(i, x)
      BY <2>1, <1>5
    <2>2. CASE \E j \in m..(k - 1) : New(i, j)
      <3>1. PICK j \in m..(k - 1) : New(i, j)
        BY <2>2
      <3>2. j \in m..Len(tasks) /\ j \in 1..Len(tasks)
        BY <1>1, <1>4
      <3>3. rem[s[j]] = burstTime(s[j]) /\ s[j] \in Pid /\ arrivalTime(s[j]) <= t
        BY <3>1, <3>2, <1>1, <1>5
      <3>4. QED
        BY <3>1, <3>3, ProcessesFit
    <2>3. QED
      BY <2>1, <2>2, <1>6
  <1>13. Absent(s, k, t)
    <2> SUFFICES ASSUME NEW j \in k..Len(tasks)
                 PROVE  arrivalTime(s[j]) > t
      BY DEF Absent
    <2>1. /\ k \in 1..Len(tasks) /\ j \in 1..Len(tasks) /\ k <= j
          /\ arrivalTime(s[k]) \in Nat /\ arrivalTime(s[j]) \in Nat
      <3>1. k \in 1..Len(tasks) /\ j \in 1..Len(tasks) /\ k <= j
        BY <1>1, <1>4
      <3>2. QED
        BY <3>1, <1>1, ProcessesFit
    <2>2. arrivalTime(s[k]) > t /\ arrivalTime(s[k]) <= arrivalTime(s[j])
      BY <2>1, <1>1
    <2>3. QED
      BY <2>1, <2>2
  <1>14. QED
    BY <1>11, <1>12, <1>13

(* What the queue and the rest are between a slice and the admission after *)
(* it: its process is at the back of the queue, or done.                   *)
LEMMA Taken ==
  ASSUME RequestOK, NEW s \in [Pid -> Pid], NEW m \in 1..(Len(tasks) + 1),
         NEW queue \in Seq(Pid), queue # <<>>,
         NEW rem \in [Pid -> Nat], NEW t \in Nat, NEW d \in Nat \ {0},
         Kept(queue, s, m, rem), Present(queue, rem, t),
         NEW p \in Pid, p = Head(queue), d <= rem[p],
         NEW rest \in [Pid -> Nat], rest[p] = rem[p] - d,
         \A q \in Pid \ {p} : rest[q] = rem[q],
         NEW back \in Seq(Pid), back = IF rest[p] > 0 THEN <<p>> ELSE <<>>,
         NEW full \in Seq(Pid), Splices(full, Tail(queue), s, m, m, back)
  PROVE  Kept(full, s, m, rest) /\ Present(full, rest, t + d)
  <1> DEFINE L == Len(queue) - 1
  <1>1. /\ \A q \in Pid : rem[q] # 0 => \/ \E i \in 1..Len(queue) : queue[i] = q
                                        \/ \E j \in m..Len(tasks) : s[j] = q
        /\ \A i, j \in 1..Len(queue) : queue[i] = queue[j] => i = j
        /\ \A i \in 1..Len(queue) : \A j \in m..Len(tasks) : queue[i] # s[j]
        /\ \A j \in m..Len(tasks) : rem[s[j]] = burstTime(s[j])
        /\ \A i \in 1..Len(queue) : rem[queue[i]] # 0 /\ arrivalTime(queue[i]) <= t
    BY DEF Kept, Present
  <1>2. /\ L \in Nat /\ Len(queue) = L + 1 /\ p = queue[1] /\ Len(Tail(queue)) = L
        /\ \A i \in 1..L : Tail(queue)[i] = queue[i + 1]
        /\ \A i \in 1..Len(queue) : queue[i] \in Pid
    OBVIOUS
  <1> HIDE DEF L
  <1>3. /\ Len(full) = L + Len(back)
        /\ \A i \in 1..L : full[i] = queue[i + 1]
        /\ Len(back) = (IF rest[p] > 0 THEN 1 ELSE 0)
        /\ rest[p] > 0 => full[L + 1] = p
    <2>1. Len(tasks) \in Nat
      BY ProcessesFit
    <2>2. m \in Nat
      BY <2>1
    <2>3. /\ Len(full) = L + Len(back)
          /\ \A i \in 1..L : full[i] = Tail(queue)[i]
          /\ \A i \in 1..Len(back) : full[L + i] = back[i]
      <3>1. /\ Len(full) = Len(Tail(queue)) + (m - m) + Len(back)
            /\ \A i \in 1..Len(Tail(queue)) : full[i] = Tail(queue)[i]
            /\ \A i \in 1..Len(back) : full[Len(Tail(queue)) + (m - m) + i] = back[i]
        BY DEF Splices
      <3>2. L + (m - m) = L /\ Len(back) \in Nat
        BY <1>2, <2>2
      <3>3. QED
        BY <3>1, <3>2, <1>2
    <2>4. CASE rest[p] > 0
      <3>1. Len(back) = 1 /\ back[1] = p
        BY <2>4
      <3>2. 1 \in 1..Len(back)
        BY <3>1
      <3>3. QED
        BY <3>1, <3>2, <2>3, <2>4, <1>2
    <2>5. CASE ~(rest[p] > 0)
      <3>1. Len(back) = 0
        BY <2>5
      <3>2. QED
        BY <3>1, <2>3, <2>5, <1>2
    <2>6. QED
      BY <2>4, <2>5
  <1>4. ASSUME NEW i \in 1..Len(full)
        PROVE  \/ i <= L /\ i + 1 \in 1..Len(queue) /\ full[i] = queue[i + 1] /\ full[i] # p
               \/ i = L + 1 /\ full[i] = p /\ rest[p] > 0
    <2>1. CASE i <= L
      <3>1. i \in 1..L /\ i + 1 \in 1..Len(queue) /\ 1 \in 1..Len(queue) /\ i + 1 # 1
        BY <2>1, <1>2
      <3>2. queue[i + 1] # queue[1]
        BY <3>1, <1>1
      <3>3. QED
        BY <2>1, <3>1, <3>2, <1>2, <1>3
    <2>2. CASE i > L
      BY <2>2, <1>2, <1>3
    <2>3. QED
      BY <2>1, <2>2, <1>2
  <1>5. ASSUME NEW i \in 1..Len(full)
        PROVE  full[i] \in Pid /\ \E l \in 1..Len(queue) : full[i] = queue[l]
    <2>1. 1 \in 1..Len(queue)
      BY <1>2
    <2>2. QED
      BY <2>1, <1>2, <1>4
  <1>6. ASSUME NEW q \in Pid, rest[q] # 0
        PROVE  \/ \E i \in 1..Len(full) : full[i] = q
               \/ \E j \in m..Len(tasks) : s[j] = q
    <2>1. CASE q = p
      <3>1. rest[p] > 0 /\ L + 1 \in 1..Len(full)
        BY <2>1, <1>2, <1>3, <1>6
      <3>2. QED
        BY <2>1, <3>1, <1>3
    <2>2. CASE q # p
      <3>1. rem[q] # 0
        BY <2>2, <1>6
      <3>2. CASE \E l \in 1..Len(queue) : queue[l] = q
        <4>1. PICK l \in 1..Len(queue) : queue[l] = q
          BY <3>2
        <4>2. l # 1
          BY <4>1, <2>2, <1>2
        <4>3. l - 1 \in 1..L /\ l - 1 \in 1..Len(full) /\ (l - 1) + 1 = l
          BY <4>2, <1>2, <1>3
        <4>4. full[l - 1] = queue[(l - 1) + 1]
          BY <4>3, <1>3
        <4>5. QED
          BY <4>1, <4>3, <4>4
      <3>3. QED
        BY <3>1, <3>2, <1>1
    <2>3. QED
      BY <2>1, <2>2
  <1>7. ASSUME NEW i \in 1..Len(full), NEW j \in 1..Len(full), full[i] = full[j]
        PROVE  i = j
    <2>1. \/ i <= L /\ j <= L
          \/ i = L + 1 /\ j = L + 1
      BY <1>4, <1>7
    <2>2. CASE i <= L /\ j <= L
      <3>1. /\ i + 1 \in 1..Len(queue) /\ j + 1 \in 1..Len(queue)
            /\ queue[i + 1] = queue[j + 1]
        BY <2>2, <1>2, <1>4, <1>7
      <3>2. i + 1 = j + 1
        BY <3>1, <1>1
      <3>3. QED
        BY <3>2
    <2>3. QED
      BY <2>1, <2>2
  <1>8. \A i \in 1..Len(full) : \A j \in m..Len(tasks) : full[i] # s[j]
    BY <1>1, <1>5
  <1>9. \A j \in m..Len(tasks) : rest[s[j]] = burstTime(s[j])
    <2>1. Len(tasks) \in Nat /\ 1 \in 1..Len(queue)
      BY ProcessesFit, <1>2
    <2>2. \A j \in m..Len(tasks) : s[j] # p /\ s[j] \in Pid
      <3>1. \A j \in m..Len(tasks) : queue[1] # s[j]
        BY <2>1, <1>1
      <3>2. \A j \in m..Len(tasks) : s[j] \in Pid
        <4>1. \A j \in m..Len(tasks) : j \in Pid
          BY <2>1, ProcessesFit
        <4>2. QED
          BY <4>1
      <3>3. QED
        BY <3>1, <3>2, <1>2
    <2>3. QED
      BY <2>2, <1>1
  <1>10. Kept(full, s, m, rest)
    BY <1>6, <1>7, <1>8, <1>9 DEF Kept
  <1>11. Present(full, rest, t + d)
    <2> SUFFICES ASSUME NEW i \in 1..Len(full)
                 PROVE  rest[full[i]] # 0 /\ arrivalTime(full[i]) <= t + d
      BY DEF Present
    <2>1. PICK l \in 1..Len(queue) : full[i] = queue[l]
      BY <1>5
    <2>2. arrivalTime(full[i]) \in Nat /\ arrivalTime(full[i]) <= t /\ rem[full[i]] # 0
      BY <2>1, <1>1, <1>2, ProcessesFit
    <2>3. rest[full[i]] # 0
      <3>1. CASE full[i] # p
        BY <3>1, <2>2, <1>5
      <3>2. CASE full[i] = p
        <4>1. rest[p] > 0
          BY <3>2, <1>4
        <4>2. rest[p] # 0
          <5>1. rest[p] \in Nat
            OBVIOUS
          <5>2. \A n \in Nat : n > 0 => n # 0
            OBVIOUS
          <5>3. QED
            BY <5>1, <5>2, <4>1
        <4>3. QED
          BY <3>2, <4>2
      <3>3. QED
        BY <3>1, <3>2
    <2>4. QED
      BY <2>2, <2>3
  <1>12. QED
    BY <1>10, <1>11

-----------------------------------------------------------------------------
Fresh ==
  /\ clock = 0 /\ gantt = <<>> /\ next = 1 /\ ready = <<>> /\ pending = Pid
  /\ remaining = [p \in Pid |-> burstTime(p)]

QueueInv ==
  /\ timeQuantum \in Quanta
  /\ Kept(ready, ordered, next, remaining)
  /\ Present(ready, remaining, clock)
  /\ Absent(ordered, next, clock)

IInv ==
  /\ RequestOK
  /\ TypeOK
  /\ pc = "received" => Fresh
  /\ pc = "running" => /\ ordered \in [Pid -> Pid] /\ Sorted(ordered)
                       /\ algorithm = "ROUND_ROBIN" => QueueInv

(* The request does not change, nor does what is said of it.               *)
LEMMA SameRequest ==
  ASSUME RequestOK, UNCHANGED request
  PROVE  /\ RequestOK' /\ Pid' = Pid
         /\ pc' = pc => UNCHANGED algorithm
         /\ ordered' \in [Pid -> Pid] /\ Sorted(ordered') => 
               (ordered \in [Pid -> Pid] /\ Sorted(ordered))'
  BY DEF RequestOK, request, Pid, Sorted, ByArrival, arrivalTime

LEMMA SameQueue ==
  ASSUME UNCHANGED request, timeQuantum \in Quanta,
         Kept(ready', ordered', next', remaining'),
         Present(ready', remaining', clock'), Absent(ordered', next', clock')
  PROVE  QueueInv'
  <1>1. timeQuantum' = timeQuantum /\ tasks' = tasks /\ process' = process
    BY DEF request
  <1>2. QED
    BY <1>1 DEF QueueInv, Kept, Present, Absent, Pid, arrivalTime, burstTime

LEMMA Types ==
  ASSUME IInv, UNCHANGED request,
         pc' \in {"received", "running", "returned", "refused"},
         clock' \in Nat, gantt' \in Seq([pid : Pid, startTime : Nat, endTime : Nat]),
         ordered' \in Seq(Pid), next' \in 1..(Len(tasks) + 1),
         pending' \subseteq Pid, ready' \in Seq(Pid), remaining' \in [Pid -> Nat]
  PROVE  TypeOK'
  <1>1. tasks' = tasks /\ process' = process /\ Pid' = Pid
    BY DEF request, Pid
  <1>2. process \in [1..Len(tasks) -> Process]
    BY DEF IInv, RequestOK
  <1>3. (process \in [1..Len(tasks) -> Process])'
    BY <1>1, <1>2 DEF Process
  <1>4. QED
    BY <1>1, <1>3 DEF TypeOK

LEMMA AdmitStep ==
  ASSUME RequestOK, ordered' \in [Pid -> Pid], Sorted(ordered'),
         next \in 1..(Len(tasks) + 1),
         NEW queue \in Seq(Pid), NEW back \in Seq(Pid), NEW t \in Nat,
         Admit(queue, t, back),
         NEW full \in Seq(Pid), Splices(full, queue, ordered', next, next, back),
         NEW rem \in [Pid -> Nat],
         Kept(full, ordered', next, rem), Present(full, rem, t)
  PROVE  /\ next' \in 1..(Len(tasks) + 1) /\ ready' \in Seq(Pid)
         /\ Kept(ready', ordered', next', rem) /\ Present(ready', rem, t)
         /\ Absent(ordered', next', t)
  <1>1. ordered' \in Seq(Pid) /\ Len(ordered') = Len(tasks) /\ Len(tasks) \in Nat
    BY SortedHasAll, ProcessesFit
  <1>2. PICK k \in 1..(Len(ordered') + 1) :
          /\ Admits(k, t)
          /\ next' = k
          /\ ready' = queue \o SubSeq(ordered', next, k - 1) \o back
    BY DEF Admit
  <1>3. /\ k \in next..(Len(tasks) + 1)
        /\ \A i \in next..(k - 1) : arrivalTime(ordered'[i]) <= t
        /\ k \in 1..Len(tasks) => arrivalTime(ordered'[k]) > t
    BY <1>1, <1>2 DEF Admits
  <1>4. k \in next..(Len(ordered') + 1) /\ next \in 1..(Len(ordered') + 1)
    BY <1>1, <1>3
  <1>5. ready' \in Seq(Pid) /\ Splices(ready', queue, ordered', next, k, back)
    BY <1>1, <1>2, <1>4, Spliced
  <1>6. Kept(ready', ordered', k, rem) /\ Present(ready', rem, t) /\ Absent(ordered', k, t)
    BY <1>3, <1>5, Admission
  <1>7. QED
    BY <1>1, <1>2, <1>5, <1>6

-----------------------------------------------------------------------------
LEMMA Starts == ASSUME Init PROVE IInv
  <1>1. RequestOK
    BY DEF Init, RequestOK, Algorithms
  <1>2. Fresh
    BY DEF Init, Fresh
  <1>3. TypeOK
    <2>1. /\ Len(tasks) \in Nat
          /\ \A p \in Pid : burstTime(p) \in Nat
      BY <1>1, ProcessesFit
    <2>2. 1 \in 1..(Len(tasks) + 1)
      BY <2>1
    <2>3. remaining \in [Pid -> Nat]
      BY <2>1 DEF Init
    <2>4. QED
      BY <2>2, <2>3 DEF Init, TypeOK
  <1>4. QED
    BY <1>1, <1>2, <1>3 DEF IInv, Init

(* What is pushed is a segment.                                            *)
LEMMA Pushed ==
  ASSUME gantt \in Seq([pid : Pid, startTime : Nat, endTime : Nat]),
         NEW p \in Pid, NEW start \in Nat, NEW end \in Nat, Push(p, start, end)
  PROVE  gantt' \in Seq([pid : Pid, startTime : Nat, endTime : Nat])
  <1>1. Segment(p, start, end) \in [pid : Pid, startTime : Nat, endTime : Nat]
    BY DEF Segment
  <1> DEFINE Segs == [pid : Pid, startTime : Nat, endTime : Nat]
             s == Segment(p, start, end)
  <1>2. gantt \in Seq(Segs) /\ s \in Segs /\ gantt' = Append(gantt, s)
    BY <1>1 DEF Push
  <1> HIDE DEF Segs, s
  <1>3. gantt' \in Seq(Segs)
    BY <1>2
  <1>4. QED
    BY <1>3 DEF Segs

LEMMA RefuseKeeps == ASSUME IInv, Refuse PROVE IInv'
  <1>1. UNCHANGED request
    BY DEF Refuse
  <1>2. RequestOK'
    BY <1>1, SameRequest DEF IInv
  <1>3. TypeOK'
    BY <1>1, Types DEF IInv, TypeOK, Refuse
  <1>4. QED
    BY <1>2, <1>3 DEF IInv, Refuse

LEMMA BeginKeeps == ASSUME IInv, Begin PROVE IInv'
  <1>1. /\ UNCHANGED request /\ RequestOK /\ Fresh /\ pc' = "running"
        /\ UNCHANGED <<clock, gantt, pending, remaining, algorithm>>
    BY DEF Begin, IInv, request
  <1>2. ordered' \in [Pid -> Pid] /\ Sorted(ordered')
    BY DEF Begin
  <1>3. ordered' \in Seq(Pid) /\ Len(ordered') = Len(tasks) /\ Len(tasks) \in Nat
    BY <1>1, <1>2, SortedHasAll, ProcessesFit
  <1>4. CASE algorithm = "ROUND_ROBIN"
    <2>1. Admit(<<>>, 0, <<>>) /\ timeQuantum \in Quanta
      BY <1>1, <1>4 DEF Begin, Acceptable, RequestOK, Fresh
    <2>2. PICK full \in Seq(Pid) : full = <<>>
      <3>1. <<>> \in Seq(Pid)
        OBVIOUS
      <3>2. QED
        BY <3>1, Zenon
    <2>3. Splices(full, <<>>, ordered', next, next, <<>>)
      <3>1. next = 1
        BY <1>1 DEF Fresh
      <3>2. QED
        BY <2>2, <3>1 DEF Splices
    <2>4. Kept(full, ordered', next, remaining)
      <3>1. /\ \A p \in Pid : \E j \in 1..Len(tasks) : ordered'[j] = p
            /\ \A j \in 1..Len(tasks) : ordered'[j] \in Pid
            /\ next = 1 /\ remaining = [p \in Pid |-> burstTime(p)]
        BY <1>1, <1>2, SortedHasAll, ProcessesFit DEF Fresh
      <3>2. QED
        BY <2>2, <3>1 DEF Kept
    <2>5. Present(full, remaining, 0)
      BY <2>2 DEF Present
    <2>6. next \in 1..(Len(tasks) + 1) /\ remaining \in [Pid -> Nat] /\ <<>> \in Seq(Pid)
      BY DEF IInv, TypeOK
    <2>7. /\ next' \in 1..(Len(tasks) + 1) /\ ready' \in Seq(Pid)
          /\ Kept(ready', ordered', next', remaining) /\ Present(ready', remaining, 0)
          /\ Absent(ordered', next', 0)
      BY <1>1, <1>2, <2>1, <2>3, <2>4, <2>5, <2>6, AdmitStep
    <2>8. QueueInv'
      BY <1>1, <2>1, <2>7, SameQueue DEF Fresh
    <2>9. TypeOK'
      BY <1>1, <1>3, <2>7, Types DEF IInv, TypeOK
    <2>10. QED
      BY <1>1, <1>2, <2>8, <2>9, SameRequest DEF IInv
  <1>5. CASE algorithm # "ROUND_ROBIN"
    <2>1. UNCHANGED <<next, ready>>
      BY <1>5 DEF Begin
    <2>2. TypeOK'
      BY <1>1, <1>3, <2>1, Types DEF IInv, TypeOK
    <2>3. QED
      BY <1>1, <1>2, <1>5, <2>2, SameRequest DEF IInv
  <1>6. QED
    BY <1>4, <1>5

LEMMA RunFcfsKeeps == ASSUME IInv, RunFcfs PROVE IInv'
  <1>1. /\ UNCHANGED request /\ RequestOK /\ pc' = "running"
        /\ UNCHANGED <<algorithm, ordered, pending, ready, remaining>>
        /\ algorithm = "FCFS" /\ next \in DOMAIN ordered /\ next' = next + 1
    BY DEF RunFcfs, IInv, request
  <1>2. ordered \in [Pid -> Pid] /\ Sorted(ordered)
    BY DEF RunFcfs, IInv
  <1>3. Len(tasks) \in Nat /\ Pid = 1..Len(tasks)
    BY <1>1, ProcessesFit
  <1>4. PICK p \in Pid : p = ordered[next]
    BY <1>1, <1>2
  <1>5. /\ StartOf(p) \in Nat /\ clock' = StartOf(p) + burstTime(p)
        /\ Push(p, StartOf(p), clock')
    BY <1>1, <1>4, ProcessesFit DEF RunFcfs, StartOf, IInv, TypeOK
  <1>6. clock' \in Nat
    BY <1>1, <1>5, ProcessesFit
  <1>7. gantt' \in Seq([pid : Pid, startTime : Nat, endTime : Nat])
    BY <1>5, <1>6, Pushed DEF IInv, TypeOK
  <1>8. next' \in 1..(Len(tasks) + 1)
    BY <1>1, <1>2, <1>3
  <1>9. TypeOK'
    BY <1>1, <1>6, <1>7, <1>8, Types DEF IInv, TypeOK
  <1>10. QED
    BY <1>1, <1>2, <1>9, SameRequest DEF IInv

LEMMA IdleNonPreemptiveKeeps == ASSUME IInv, IdleNonPreemptive PROVE IInv'
  <1>1. /\ UNCHANGED request /\ RequestOK /\ pc' = "running"
        /\ UNCHANGED <<algorithm, ordered, gantt, next, pending, ready, remaining>>
        /\ algorithm # "ROUND_ROBIN"
    BY DEF IdleNonPreemptive, NonPreemptive, IInv, request
  <1>2. ordered \in [Pid -> Pid] /\ Sorted(ordered)
    BY DEF IdleNonPreemptive, NonPreemptive, IInv
  <1>3. clock' \in Nat
    BY <1>1, ProcessesFit DEF IdleNonPreemptive, IInv, TypeOK
  <1>4. TypeOK'
    BY <1>1, <1>3, Types DEF IInv, TypeOK
  <1>5. QED
    BY <1>1, <1>2, <1>4, SameRequest DEF IInv

LEMMA RunNonPreemptiveKeeps == ASSUME IInv, RunNonPreemptive PROVE IInv'
  <1>1. /\ UNCHANGED request /\ RequestOK /\ pc' = "running"
        /\ UNCHANGED <<algorithm, ordered, next, ready, remaining>>
        /\ algorithm # "ROUND_ROBIN"
    BY DEF RunNonPreemptive, NonPreemptive, IInv, request
  <1>2. ordered \in [Pid -> Pid] /\ Sorted(ordered)
    BY DEF RunNonPreemptive, NonPreemptive, IInv
  <1>3. PICK p \in Pid : /\ clock' = clock + burstTime(p)
                         /\ Push(p, clock, clock') /\ pending' = pending \ {p}
    BY DEF RunNonPreemptive, Arrived, IInv, TypeOK
  <1>4. clock' \in Nat
    BY <1>1, <1>3, ProcessesFit DEF IInv, TypeOK
  <1>5. gantt' \in Seq([pid : Pid, startTime : Nat, endTime : Nat])
    BY <1>3, <1>4, Pushed DEF IInv, TypeOK
  <1>6. TypeOK'
    BY <1>1, <1>3, <1>4, <1>5, Types DEF IInv, TypeOK
  <1>7. QED
    BY <1>1, <1>2, <1>6, SameRequest DEF IInv

LEMMA IdleRoundRobinKeeps == ASSUME IInv, IdleRoundRobin PROVE IInv'
  <1>1. /\ UNCHANGED request /\ RequestOK /\ pc' = "running"
        /\ UNCHANGED <<algorithm, ordered, gantt, pending, remaining>>
        /\ algorithm = "ROUND_ROBIN" /\ ready = <<>> /\ next \in DOMAIN ordered
        /\ clock' = arrivalTime(ordered[next]) /\ Admit(<<>>, clock', <<>>)
        /\ remaining \in [Pid -> Nat] /\ next \in 1..(Len(tasks) + 1)
    BY DEF IdleRoundRobin, RoundRobin, IInv, TypeOK, request
  <1>2. ordered \in [Pid -> Pid] /\ Sorted(ordered) /\ QueueInv
    BY <1>1 DEF IdleRoundRobin, RoundRobin, IInv
  <1>3. PICK t \in Nat : t = clock'
    <2>1. ordered[next] \in Pid
      BY <1>1, <1>2
    <2>2. QED
      BY <1>1, <2>1, ProcessesFit
  <1>4. Splices(ready, <<>>, ordered', next, next, <<>>)
    BY <1>1 DEF Splices
  <1>5. Kept(ready, ordered', next, remaining) /\ Present(ready, remaining, t)
    BY <1>1, <1>2 DEF QueueInv, Present
  <1>6. <<>> \in Seq(Pid) /\ ready \in Seq(Pid)
    BY DEF IInv, TypeOK
  <1>7. /\ next' \in 1..(Len(tasks) + 1) /\ ready' \in Seq(Pid)
        /\ Kept(ready', ordered', next', remaining) /\ Present(ready', remaining, t)
        /\ Absent(ordered', next', t)
    <2>1. Admit(<<>>, t, <<>>) /\ ordered' \in [Pid -> Pid] /\ Sorted(ordered')
      BY <1>1, <1>2, <1>3
    <2>2. QED
      BY <2>1, <1>1, <1>4, <1>5, <1>6, AdmitStep
  <1>8. QueueInv'
    BY <1>1, <1>2, <1>3, <1>7, SameQueue DEF QueueInv
  <1>9. TypeOK'
    BY <1>1, <1>3, <1>7, Types DEF IInv, TypeOK
  <1>10. QED
    BY <1>1, <1>2, <1>8, <1>9, SameRequest DEF IInv

(* The slice that a process gets.                                          *)
LEMMA SliceFits ==
  ASSUME IInv, RunSlice
  PROVE  /\ Head(ready) \in Pid /\ arrivalTime(Head(ready)) <= clock
         /\ Slice(Head(ready)) \in 1..remaining[Head(ready)]
         /\ remaining' = [remaining EXCEPT ![Head(ready)] = @ - Slice(Head(ready))]
         /\ clock' = clock + Slice(Head(ready))
         /\ clock' \in Nat
  <1>1. /\ ready \in Seq(Pid) /\ ready # <<>> /\ remaining \in [Pid -> Nat]
        /\ clock \in Nat /\ RequestOK /\ QueueInv
    BY DEF RunSlice, RoundRobin, IInv, TypeOK
  <1>2. PICK p \in Pid : p = Head(ready)
    BY <1>1
  <1>3. 1 \in 1..Len(ready) /\ ready[1] = p
    BY <1>1, <1>2
  <1>4. remaining[p] # 0 /\ arrivalTime(p) <= clock
    BY <1>1, <1>3 DEF QueueInv, Present
  <1>5. timeQuantum \in Nat \ {0} /\ remaining[p] \in Nat
    BY <1>1, RequestAssumption DEF QueueInv
  <1>6. Slice(p) \in 1..remaining[p] 
    BY <1>4, <1>5 DEF Slice
  <1>7. clock' = clock + Slice(p)
    BY <1>2 DEF RunSlice
  <1>8. remaining' = [remaining EXCEPT ![p] = @ - Slice(p)]
    BY <1>2 DEF RunSlice
  <1>9. clock' \in Nat
    BY <1>1, <1>5, <1>6, <1>7
  <1>10. QED
    BY <1>2, <1>4, <1>6, <1>7, <1>8, <1>9

LEMMA RunSliceKeeps == ASSUME IInv, RunSlice PROVE IInv'
  <1>1. /\ UNCHANGED request /\ RequestOK /\ pc' = "running"
        /\ UNCHANGED <<algorithm, ordered, pending>>
        /\ algorithm = "ROUND_ROBIN" /\ ready # <<>> /\ ready \in Seq(Pid)
        /\ clock \in Nat
        /\ remaining \in [Pid -> Nat] /\ next \in 1..(Len(tasks) + 1)
        /\ gantt \in Seq([pid : Pid, startTime : Nat, endTime : Nat])
    BY DEF RunSlice, RoundRobin, IInv, TypeOK, request
  <1>2. /\ ordered \in [Pid -> Pid] /\ Sorted(ordered) /\ QueueInv
        /\ ordered' \in [Pid -> Pid] /\ Sorted(ordered')
    BY <1>1 DEF RunSlice, RoundRobin, IInv
  <1>3. PICK p \in Pid : p = Head(ready)
    BY SliceFits
  <1>4. PICK d \in Nat \ {0} : d = Slice(p) /\ d <= remaining[p]
    <2>1. remaining[p] \in Nat /\ Slice(p) \in 1..remaining[p]
      BY <1>1, <1>3, SliceFits
    <2>2. Slice(p) \in Nat \ {0} /\ Slice(p) <= remaining[p]
      BY <2>1
    <2>3. QED
      BY <2>2
  <1>5. PICK t \in Nat : t = clock'
    BY SliceFits
  <1>6. t = clock + d /\ remaining' = [remaining EXCEPT ![p] = @ - d]
    BY <1>3, <1>4, <1>5, SliceFits
  <1>7. PICK rest \in [Pid -> Nat] : rest = remaining'
    <2>1. remaining' \in [Pid -> Nat]
      BY <1>1, <1>4, <1>6
    <2>2. QED
      BY <2>1
  <1>8. rest[p] = remaining[p] - d /\ \A q \in Pid \ {p} : rest[q] = remaining[q]
    BY <1>1, <1>6, <1>7
  <1>9. PICK back \in Seq(Pid) : back = IF rest[p] > 0 THEN <<p>> ELSE <<>>
    <2>1. <<p>> \in Seq(Pid) /\ <<>> \in Seq(Pid)
      OBVIOUS
    <2>2. QED
      BY <2>1
  <1>10. PICK queue \in Seq(Pid) : queue = Tail(ready)
    <2>1. Tail(ready) \in Seq(Pid)
      BY <1>1
    <2>2. QED
      BY <2>1
  <1>11. Admit(queue, t, back)
    BY <1>3, <1>5, <1>7, <1>9, <1>10 DEF RunSlice, Requeue
  <1>12. PICK full \in Seq(Pid) : Splices(full, queue, ordered, next, next, back)
    <2>1. ordered \in Seq(Pid) /\ next \in 1..(Len(ordered) + 1)
      BY <1>1, <1>2, SortedHasAll
    <2>2. next \in next..(Len(ordered) + 1)
      BY <2>1
    <2>3. QED
      BY <2>1, <2>2, Spliced
  <1>13. Kept(full, ordered, next, rest) /\ Present(full, rest, t)
    <2>1. Kept(ready, ordered, next, remaining) /\ Present(ready, remaining, clock)
      BY <1>2 DEF QueueInv
    <2>2. /\ RequestOK /\ ordered \in [Pid -> Pid] /\ next \in 1..(Len(tasks) + 1)
          /\ ready \in Seq(Pid) /\ ready # <<>> /\ remaining \in [Pid -> Nat]
          /\ clock \in Nat
      BY <1>1, <1>2
    <2>3. Splices(full, Tail(ready), ordered, next, next, back)
      BY <1>10, <1>12
    <2>4. Kept(full, ordered, next, rest) /\ Present(full, rest, clock + d)
      BY <2>1, <2>2, <2>3, <1>3, <1>4, <1>8, <1>9, Taken
    <2>5. QED
      BY <2>4, <1>6
  <1>14. /\ next' \in 1..(Len(tasks) + 1) /\ ready' \in Seq(Pid)
         /\ Kept(ready', ordered', next', rest) /\ Present(ready', rest, t)
         /\ Absent(ordered', next', t)
    <2>1. /\ Splices(full, queue, ordered', next, next, back)
          /\ Kept(full, ordered', next, rest)
      BY <1>1, <1>12, <1>13
    <2>2. QED
      BY <2>1, <1>1, <1>2, <1>11, <1>13, AdmitStep
  <1>15. QueueInv'
    BY <1>1, <1>2, <1>5, <1>7, <1>14, SameQueue DEF QueueInv
  <1>16. gantt' \in Seq([pid : Pid, startTime : Nat, endTime : Nat])
    <2>1. Push(p, clock, t)
      BY <1>3, <1>5 DEF RunSlice, Push
    <2>2. QED
      BY <2>1, <1>1, Pushed
  <1>17. TypeOK'
    BY <1>1, <1>5, <1>7, <1>14, <1>16, Types DEF IInv, TypeOK
  <1>18. QED
    BY <1>1, <1>2, <1>15, <1>17, SameRequest DEF IInv

LEMMA ReturnKeeps == ASSUME IInv, Return PROVE IInv'
  <1>1. UNCHANGED request
    BY DEF Return
  <1>2. RequestOK'
    BY <1>1, SameRequest DEF IInv
  <1>3. TypeOK'
    BY <1>1, Types DEF IInv, TypeOK, Return
  <1>4. QED
    BY <1>2, <1>3 DEF IInv, Return

LEMMA StutterKeeps == ASSUME IInv, UNCHANGED vars PROVE IInv'
  <1>1. UNCHANGED request
    BY DEF vars
  <1>2. /\ UNCHANGED <<pc, clock, gantt, ordered, next, pending, ready, remaining>>
        /\ UNCHANGED <<algorithm, tasks, timeQuantum, process>>
    BY DEF vars, request
  <1>3. TypeOK' /\ RequestOK'
    BY <1>1, <1>2, Types, SameRequest DEF IInv, TypeOK
  <1>4. Fresh => Fresh'
    BY <1>2 DEF Fresh, Pid, burstTime
  <1>5. QueueInv => QueueInv'
    BY <1>1, <1>2, SameQueue DEF QueueInv
  <1>6. QED
    BY <1>1, <1>2, <1>3, <1>4, <1>5, SameRequest DEF IInv

LEMMA Invariant == Spec => []IInv
  <1>1. IInv /\ [Next]_vars => IInv'
    BY RefuseKeeps, BeginKeeps, RunFcfsKeeps, IdleNonPreemptiveKeeps,
       RunNonPreemptiveKeeps, IdleRoundRobinKeeps, RunSliceKeeps, ReturnKeeps,
       StutterKeeps DEF Next
  <1>2. QED
    BY <1>1, Starts, PTL DEF Spec

(* Whatever the request, the local variables of the algorithms are what    *)
(* the code declares; in Round Robin no burst is overdrawn, the ready      *)
(* queue holds pids, and the index into `ordered` stops behind its end.    *)
THEOREM TypeCorrect == Spec => []TypeOK
  BY Invariant, PTL DEF IInv

-----------------------------------------------------------------------------
(* What a step does to the work and to the chart: nothing, or the CPU is   *)
(* idle until the next arrival, or process p is served from start on.      *)
SameWork == \A p \in Pid : Left(p)' = Left(p)

Quiet == UNCHANGED request /\ UNCHANGED <<clock, gantt>> /\ SameWork

Idles ==
  /\ UNCHANGED request /\ UNCHANGED gantt /\ SameWork
  /\ clock' \in Nat /\ clock' > clock
  /\ \E p \in Pid : Left(p) # 0
  /\ \A p \in Pid : Left(p) # 0 => arrivalTime(p) >= clock'

Draws(p, start) ==
  /\ UNCHANGED request
  /\ \A q \in Pid \ {p} : Left(q)' = Left(q)
  /\ Left(p)' \in 0..(Left(p) - 1) /\ start = clock' - (Left(p) - Left(p)')
  /\ arrivalTime(p) <= start /\ start >= clock
  /\ start > clock => \A q \in Pid : Left(q) # 0 => arrivalTime(q) >= start
  /\ Push(p, start, clock')

Moves == Quiet \/ Idles \/ \E p \in Pid, start \in Nat : Draws(p, start)

LEMMA RefuseServes == ASSUME IInv, Refuse PROVE Moves
  <1>1. UNCHANGED request /\ UNCHANGED <<clock, gantt>>
    BY DEF Refuse
  <1>2. SameWork
    BY DEF Refuse, SameWork, Left, LeftInLoop, burstTime, request
  <1>3. QED
    BY <1>1, <1>2 DEF Moves, Quiet

LEMMA BeginServes == ASSUME IInv, Begin PROVE Moves
  <1>1. UNCHANGED request /\ UNCHANGED <<clock, gantt>> /\ RequestOK /\ Fresh
    BY DEF Begin, IInv
  <1>2. ordered' \in [Pid -> Pid] /\ Sorted(ordered')
    BY DEF Begin
  <1>3. /\ Len(ordered') = Len(tasks)
        /\ \A p \in Pid : \E i \in 1..Len(tasks) : ordered'[i] = p
    BY <1>1, <1>2, SortedHasAll
  <1>4. /\ pc = "received" /\ pc' = "running" /\ next = 1
        /\ pending' = Pid /\ remaining' = [p \in Pid |-> burstTime(p)]
        /\ process' = process /\ algorithm' = algorithm
        /\ algorithm # "ROUND_ROBIN" => next' = 1
        /\ algorithm \in Algorithms
    BY <1>1 DEF Begin, Fresh, request, RequestOK
  <1>5. ASSUME NEW p \in Pid
        PROVE  Left(p)' = Left(p)
    <2>1. Left(p) = burstTime(p) /\ burstTime(p)' = burstTime(p)
      <3>1. pc = "received"
        BY <1>4
      <3>2. Left(p) = burstTime(p)
        BY <3>1 DEF Left, LeftInLoop
      <3>3. QED
        BY <3>2, <1>4 DEF burstTime
    <2>2. CASE algorithm = "FCFS"
      <3>1. \E i \in (1..Len(ordered))' : ordered'[i] = p
        BY <1>3
      <3>2. QED
        BY <2>1, <2>2, <3>1, <1>4 DEF Left, LeftInLoop
    <2>3. CASE algorithm \in {"SJF", "PRIORITY"}
      BY <2>1, <2>3, <1>4 DEF Left, LeftInLoop
    <2>4. CASE algorithm = "ROUND_ROBIN"
      BY <2>1, <2>4, <1>4 DEF Left, LeftInLoop
    <2>5. QED
      BY <2>2, <2>3, <2>4, <1>4 DEF Algorithms
  <1>6. QED
    BY <1>1, <1>5 DEF Moves, Quiet, SameWork

LEMMA RunFcfsServes == ASSUME IInv, RunFcfs PROVE Moves
  <1>1. /\ UNCHANGED request /\ RequestOK /\ pc = "running" /\ pc' = "running"
        /\ process' = process /\ algorithm' = algorithm /\ ordered' = ordered
        /\ algorithm = "FCFS" /\ next \in DOMAIN ordered /\ next' = next + 1
        /\ clock \in Nat
        /\ ordered \in [Pid -> Pid] /\ Sorted(ordered)
    BY DEF RunFcfs, IInv, TypeOK, request
  <1>2. /\ Len(tasks) \in Nat /\ Pid = 1..Len(tasks) /\ Len(ordered) = Len(tasks)
        /\ \A i, j \in 1..Len(tasks) : ordered[i] = ordered[j] => i = j
        /\ \A i, j \in 1..Len(tasks) :
             i <= j => arrivalTime(ordered[i]) <= arrivalTime(ordered[j])
        /\ next \in 1..Len(tasks)
    BY <1>1, ProcessesFit, SortedHasAll
  <1>3. PICK p \in Pid : p = ordered[next]
    BY <1>1
  <1>4. PICK start \in Nat : start = StartOf(p)
    BY <1>1, ProcessesFit DEF StartOf
  <1>5. /\ clock' = start + burstTime(p) /\ burstTime(p) \in Nat \ {0}
        /\ arrivalTime(p) \in Nat
        /\ arrivalTime(p) <= start /\ start >= clock
        /\ start > clock => start = arrivalTime(p)
    BY <1>1, <1>3, <1>4, ProcessesFit DEF RunFcfs, StartOf
  <1>6. \A q \in Pid : /\ Left(q) = IF \E i \in next..Len(tasks) : ordered[i] = q
                                    THEN burstTime(q) ELSE 0
                       /\ Left(q)' = IF \E i \in (next + 1)..Len(tasks) : ordered[i] = q
                                     THEN burstTime(q) ELSE 0
    BY <1>1, <1>2 DEF Left, LeftInLoop, burstTime
  <1>7. Left(p) = burstTime(p) /\ Left(p)' = 0
    <2>1. next \in next..Len(tasks)
      BY <1>2
    <2>2. \A i \in (next + 1)..Len(tasks) : i \in 1..Len(tasks) /\ i # next
      BY <1>2
    <2>3. \A i \in (next + 1)..Len(tasks) : ordered[i] # p
      BY <2>2, <1>2, <1>3
    <2>4. QED
      BY <2>1, <2>3, <1>3, <1>6
  <1>8. ASSUME NEW q \in Pid \ {p}
        PROVE  Left(q)' = Left(q)
    <2>1. \A i \in next..Len(tasks) : i = next \/ i \in (next + 1)..Len(tasks)
      BY <1>2
    <2>2. \A i \in (next + 1)..Len(tasks) : i \in next..Len(tasks)
      BY <1>2
    <2>3. QED
      BY <2>1, <2>2, <1>3, <1>6
  <1>9. ASSUME start > clock, NEW q \in Pid, Left(q) # 0
        PROVE  arrivalTime(q) >= start
    <2>1. PICK i \in next..Len(tasks) : ordered[i] = q
      BY <1>6, <1>9
    <2>2. i \in 1..Len(tasks) /\ next <= i
      BY <1>2
    <2>3. arrivalTime(p) <= arrivalTime(q) /\ arrivalTime(q) \in Nat
      BY <2>1, <2>2, <1>1, <1>2, <1>3, ProcessesFit
    <2>4. QED
      BY <2>3, <1>5, <1>9
  <1>10. Left(p)' \in 0..(Left(p) - 1) /\ start = clock' - (Left(p) - Left(p)')
    BY <1>5, <1>7
  <1>11. QED
    BY <1>1, <1>3, <1>4, <1>5, <1>8, <1>9, <1>10 DEF Moves, Draws, RunFcfs

LEMMA IdleNonPreemptiveServes == ASSUME IInv, IdleNonPreemptive PROVE Moves
  <1>1. /\ UNCHANGED request /\ RequestOK /\ pc = "running" /\ pc' = "running"
        /\ process' = process /\ algorithm' = algorithm /\ pending' = pending
        /\ algorithm \in {"SJF", "PRIORITY"} /\ clock \in Nat
        /\ pending \subseteq Pid /\ Arrived = {}
    BY DEF IdleNonPreemptive, NonPreemptive, IInv, TypeOK, request
  <1>2. \A q \in Pid : /\ Left(q) = IF q \in pending THEN burstTime(q) ELSE 0
                       /\ Left(q)' = IF q \in pending THEN burstTime(q) ELSE 0
    BY <1>1 DEF Left, LeftInLoop, burstTime
  <1>3. PICK p \in pending : IsEarliest(arrivalTime(p)) /\ clock' = arrivalTime(p)
    BY DEF IdleNonPreemptive
  <1>4. clock' > clock
    BY <1>1, <1>3, ProcessesFit DEF Arrived
  <1>5. \A q \in Pid : Left(q) # 0 => arrivalTime(q) >= clock'
    BY <1>2, <1>3 DEF IsEarliest
  <1>6. QED
    BY <1>1, <1>2, <1>3, <1>4, <1>5, ProcessesFit DEF Moves, Idles, SameWork, IdleNonPreemptive

LEMMA RunNonPreemptiveServes == ASSUME IInv, RunNonPreemptive PROVE Moves
  <1>1. /\ UNCHANGED request /\ RequestOK /\ pc = "running" /\ pc' = "running"
        /\ process' = process /\ algorithm' = algorithm
        /\ algorithm \in {"SJF", "PRIORITY"} /\ clock \in Nat
        /\ pending \subseteq Pid
    BY DEF RunNonPreemptive, NonPreemptive, IInv, TypeOK, request
  <1>2. \A q \in Pid : /\ Left(q) = IF q \in pending THEN burstTime(q) ELSE 0
                       /\ Left(q)' = IF q \in pending' THEN burstTime(q) ELSE 0
    BY <1>1 DEF Left, LeftInLoop, burstTime
  <1>3. PICK p \in Arrived : /\ clock' = clock + burstTime(p) /\ pending' = pending \ {p}
                             /\ Push(p, clock, clock')
    BY DEF RunNonPreemptive
  <1>4. p \in pending /\ p \in Pid /\ arrivalTime(p) <= clock
    BY <1>1, <1>3 DEF Arrived
  <1>5. burstTime(p) \in Nat \ {0}
    BY <1>1, <1>4, ProcessesFit
  <1>6. Left(p) = burstTime(p) /\ Left(p)' = 0
    BY <1>2, <1>3, <1>4
  <1>7. \A q \in Pid \ {p} : Left(q)' = Left(q)
    BY <1>2, <1>3
  <1>8. Left(p)' \in 0..(Left(p) - 1) /\ clock = clock' - (Left(p) - Left(p)')
    BY <1>1, <1>3, <1>5, <1>6
  <1>9. QED
    BY <1>1, <1>3, <1>4, <1>7, <1>8 DEF Moves, Draws

LEMMA IdleRoundRobinServes == ASSUME IInv, IdleRoundRobin PROVE Moves
  <1>1. /\ UNCHANGED request /\ RequestOK /\ pc = "running" /\ pc' = "running"
        /\ process' = process /\ algorithm' = algorithm /\ remaining' = remaining
        /\ algorithm = "ROUND_ROBIN" /\ clock \in Nat /\ ready = <<>>
        /\ ordered \in [Pid -> Pid] /\ Sorted(ordered) /\ QueueInv
        /\ next \in DOMAIN ordered /\ clock' = arrivalTime(ordered[next])
    BY DEF IdleRoundRobin, RoundRobin, IInv, TypeOK, request
  <1>2. /\ Len(tasks) \in Nat /\ Pid = 1..Len(tasks)
        /\ \A i, j \in 1..Len(tasks) :
             i <= j => arrivalTime(ordered[i]) <= arrivalTime(ordered[j])
        /\ next \in 1..Len(tasks)
    BY <1>1, ProcessesFit, SortedHasAll
  <1>3. \A q \in Pid : Left(q) = remaining[q] /\ Left(q)' = remaining[q]
    BY <1>1 DEF Left, LeftInLoop
  <1>4. clock' > clock
    <2>1. next \in next..Len(tasks)
      BY <1>2
    <2>2. QED
      BY <2>1, <1>1 DEF QueueInv, Absent
  <1>5. ASSUME NEW q \in Pid, Left(q) # 0
        PROVE  arrivalTime(q) >= clock'
    <2>1. PICK i \in next..Len(tasks) : ordered[i] = q
      BY <1>1, <1>3, <1>5 DEF QueueInv, Kept
    <2>2. i \in 1..Len(tasks) /\ next <= i
      BY <1>2
    <2>3. arrivalTime(ordered[next]) <= arrivalTime(q)
      BY <2>1, <2>2, <1>2
    <2>4. ordered[next] \in Pid
      BY <1>1
    <2>5. QED
      BY <2>3, <2>4, <1>1, ProcessesFit
  <1>6. ordered[next] \in Pid /\ Left(ordered[next]) # 0
    <2>1. ordered[next] \in Pid /\ next \in next..Len(tasks)
      BY <1>1, <1>2
    <2>2. remaining[ordered[next]] = burstTime(ordered[next])
      BY <2>1, <1>1 DEF QueueInv, Kept
    <2>3. QED
      BY <2>1, <2>2, <1>1, <1>3, ProcessesFit
  <1>7. clock' \in Nat /\ UNCHANGED gantt
    BY <1>1, <1>6, ProcessesFit DEF IdleRoundRobin
  <1>8. QED
    BY <1>1, <1>3, <1>4, <1>5, <1>6, <1>7 DEF Moves, Idles, SameWork

LEMMA RunSliceServes == ASSUME IInv, RunSlice PROVE Moves
  <1>1. /\ UNCHANGED request /\ RequestOK /\ pc = "running" /\ pc' = "running"
        /\ process' = process /\ algorithm' = algorithm
        /\ algorithm = "ROUND_ROBIN" /\ clock \in Nat
        /\ remaining \in [Pid -> Nat]
    BY DEF RunSlice, RoundRobin, IInv, TypeOK, request
  <1>2. PICK p \in Pid : p = Head(ready)
    BY SliceFits
  <1>3. PICK d \in 1..remaining[p] : d = Slice(p)
    BY <1>2, SliceFits
  <1>4. /\ arrivalTime(p) <= clock /\ clock' = clock + d
        /\ remaining' = [remaining EXCEPT ![p] = @ - d]
    BY <1>2, <1>3, SliceFits
  <1>5. \A q \in Pid : Left(q) = remaining[q] /\ Left(q)' = remaining'[q]
    BY <1>1 DEF Left, LeftInLoop
  <1>6. \A q \in Pid \ {p} : Left(q)' = Left(q)
    BY <1>1, <1>4, <1>5
  <1>7. remaining[p] \in Nat /\ Left(p) = remaining[p] /\ Left(p)' = remaining[p] - d
    BY <1>1, <1>4, <1>5
  <1>8. Left(p)' \in 0..(Left(p) - 1) /\ clock = clock' - (Left(p) - Left(p)')
    BY <1>1, <1>3, <1>4, <1>7
  <1>9. Push(p, clock, clock')
    BY <1>2 DEF RunSlice
  <1>10. QED
    BY <1>1, <1>2, <1>4, <1>6, <1>8, <1>9 DEF Moves, Draws

LEMMA ReturnServes == ASSUME IInv, Return PROVE Moves
  <1>1. /\ UNCHANGED request /\ RequestOK /\ pc = "running" /\ pc' = "returned"
        /\ UNCHANGED <<clock, gantt>> /\ process' = process /\ LoopEnds
        /\ algorithm \in Algorithms
        /\ ordered \in [Pid -> Pid] /\ Sorted(ordered)
        /\ algorithm = "ROUND_ROBIN" => QueueInv
        /\ next \in 1..(Len(tasks) + 1)
    BY DEF Return, IInv, TypeOK, RequestOK, request
  <1>2. Len(tasks) \in Nat /\ Len(ordered) = Len(tasks)
    BY <1>1, ProcessesFit, SortedHasAll
  <1>3. ASSUME NEW p \in Pid
        PROVE  Left(p)' = Left(p)
    <2>1. Left(p)' = 0
      BY <1>1 DEF Left, LeftInLoop
    <2>2. CASE algorithm = "FCFS"
      <3>1. next > Len(ordered)
        BY <1>1, <2>2 DEF LoopEnds
      <3>2. next..Len(ordered) = {}
        BY <3>1, <1>1, <1>2
      <3>3. QED
        BY <2>1, <2>2, <3>2, <1>1 DEF Left, LeftInLoop
    <2>3. CASE algorithm \in {"SJF", "PRIORITY"}
      BY <2>1, <2>3, <1>1 DEF Left, LeftInLoop, LoopEnds
    <2>4. CASE algorithm = "ROUND_ROBIN"
      <3>1. ready = <<>> /\ next > Len(ordered)
        BY <1>1, <2>4 DEF LoopEnds
      <3>2. next..Len(tasks) = {}
        BY <3>1, <1>1, <1>2
      <3>3. remaining[p] = 0
        BY <3>1, <3>2, <2>4, <1>1 DEF QueueInv, Kept
      <3>4. QED
        BY <2>1, <2>4, <3>3, <1>1 DEF Left, LeftInLoop
    <2>5. QED
      BY <2>2, <2>3, <2>4, <1>1 DEF Algorithms
  <1>4. QED
    BY <1>1, <1>3 DEF Moves, Quiet, SameWork

LEMMA StutterServes == ASSUME UNCHANGED vars PROVE Moves
  <1>1. /\ UNCHANGED request /\ UNCHANGED <<clock, gantt>>
        /\ UNCHANGED <<pc, algorithm, process, ordered, next, pending, remaining>>
    BY DEF vars, request
  <1>2. SameWork
    BY <1>1 DEF SameWork, Left, LeftInLoop, burstTime
  <1>3. QED
    BY <1>1, <1>2 DEF Moves, Quiet

LEMMA Moved == IInv /\ [Next]_vars => Moves
  BY RefuseServes, BeginServes, RunFcfsServes, IdleNonPreemptiveServes,
     RunNonPreemptiveServes, IdleRoundRobinServes, RunSliceServes, ReturnServes,
     StutterServes DEF Next

-----------------------------------------------------------------------------
(* How such a step looks to CpuMachine.                                    *)
LEMMA SeenAsStutter ==
  ASSUME Quiet
  PROVE  UNCHANGED Machine!vars
  <1>1. process' = process /\ Pid' = Pid /\ UNCHANGED clock /\ SameWork
    BY DEF Quiet, request, Pid
  <1>2. [p \in Pid |-> arrivalTime(p)]' = [p \in Pid |-> arrivalTime(p)]
    BY <1>1 DEF arrivalTime
  <1>3. [p \in Pid |-> Left(p)]' = [p \in Pid |-> Left(p)]
    BY <1>1 DEF SameWork
  <1>4. QED
    BY <1>1, <1>2, <1>3 DEF Machine!vars

LEMMA SeenAsIdle ==
  ASSUME Idles
  PROVE  Machine!Next
  <1>1. /\ process' = process /\ Pid' = Pid /\ SameWork /\ clock' > clock
        /\ \A p \in Pid : Left(p) # 0 => arrivalTime(p) >= clock'
    BY DEF Idles, request, Pid
  <1>2. [p \in Pid |-> arrivalTime(p)]' = [p \in Pid |-> arrivalTime(p)]
    BY <1>1 DEF arrivalTime
  <1>3. [p \in Pid |-> Left(p)]' = [p \in Pid |-> Left(p)]
    BY <1>1 DEF SameWork
  <1>4. Machine!MayIdleUntil(clock')
    BY <1>1 DEF Machine!MayIdleUntil, Machine!Unfinished, Machine!Job
  <1>5. QED
    BY <1>1, <1>2, <1>3, <1>4 DEF Machine!Next, Machine!Idle

LEMMA SeenAsServe ==
  ASSUME NEW p \in Pid, NEW start, Draws(p, start)
  PROVE  Machine!Next
  <1> DEFINE left == [q \in Pid |-> Left(q)]
  <1>1. process' = process /\ Pid' = Pid
    BY DEF Draws, request, Pid
  <1>2. [q \in Pid |-> arrivalTime(q)]' = [q \in Pid |-> arrivalTime(q)]
    BY <1>1 DEF arrivalTime
  <1>3. left'[p] = Left(p)' /\ left[p] = Left(p)
    BY <1>1
  <1>4. left' = [left EXCEPT ![p] = left'[p]]
    BY <1>1 DEF Draws
  <1>5. start > clock => Machine!MayIdleUntil(start)
    BY DEF Draws, Machine!MayIdleUntil, Machine!Unfinished, Machine!Job
  <1>6. start = clock' - (left[p] - left'[p]) /\ left'[p] \in 0..(left[p] - 1)
    BY <1>3 DEF Draws
  <1>7. arrivalTime(p) = [q \in Pid |-> arrivalTime(q)][p]
    OBVIOUS
  <1>8. arrivalTime(p) <= start /\ start >= clock
    BY DEF Draws
  <1> HIDE DEF left
  <1>9. Machine!Serve(p)
    BY <1>2, <1>4, <1>5, <1>6, <1>7, <1>8 DEF Machine!Serve, left
  <1>10. p \in Machine!Job
    BY DEF Machine!Job
  <1>11. QED
    BY <1>9, <1>10 DEF Machine!Next

(* Each of the four algorithms is a CPU that serves every process from its *)
(* arrival on, exactly its burst, and idles only when no process waits.    *)
THEOREM ImplementsMachine == Spec => ImplementsCpu
  <1>1. Init => Machine!Init
    <2> SUFFICES ASSUME Init PROVE Machine!Init
      OBVIOUS
    <2>1. RequestOK /\ clock = 0 /\ pc = "received"
      BY Starts DEF IInv, Init
    <2>2. \A p \in Pid : Left(p) = burstTime(p)
      BY <2>1 DEF Left, LeftInLoop
    <2>3. \A p \in Pid : arrivalTime(p) \in Nat /\ burstTime(p) \in Nat \ {0}
      BY <2>1, ProcessesFit
    <2>4. QED
      BY <2>1, <2>2, <2>3 DEF Machine!Init, Machine!Job
  <1>2. IInv /\ [Next]_vars => [Machine!Next]_(Machine!vars)
    <2> SUFFICES ASSUME Moves PROVE [Machine!Next]_(Machine!vars)
      BY Moved
    <2>1. CASE Quiet
      BY <2>1, SeenAsStutter
    <2>2. CASE Idles
      BY <2>2, SeenAsIdle
    <2>3. CASE \E p \in Pid, start \in Nat : Draws(p, start)
      BY <2>3, SeenAsServe
    <2>4. QED
      BY <2>1, <2>2, <2>3 DEF Moves
  <1>3. QED
    BY <1>1, <1>2, Invariant, PTL DEF Spec, ImplementsCpu, Machine!Spec

-----------------------------------------------------------------------------
(* The order in which the algorithms serve: who waits for whom with        *)
(* priorities, and that Round Robin takes turns.  The chart is compared    *)
(* with what was known when each of its segments was drawn.                *)

(* A step that draws a segment.                                            *)
LEMMA Drawn ==
  ASSUME TypeOK, NEW p, NEW start, NEW end, Push(p, start, end)
  PROVE  /\ Len(gantt) \in Nat /\ Len(gantt') = Len(gantt) + 1
         /\ \A i \in 1..Len(gantt) : gantt'[i] = gantt[i]
         /\ gantt'[Len(gantt) + 1] = [pid |-> p, startTime |-> start, endTime |-> end]
  <1>1. gantt \in Seq([pid : Pid, startTime : Nat, endTime : Nat])
    BY DEF TypeOK
  <1>2. gantt' = Append(gantt, [pid |-> p, startTime |-> start, endTime |-> end])
    BY DEF Push, Segment
  <1> DEFINE seg == [pid |-> p, startTime |-> start, endTime |-> end]
  <1> HIDE DEF seg
  <1>3. QED
    BY <1>1, <1>2 DEF seg

-----------------------------------------------------------------------------
(* Priorities: the segments follow each other; a process is pending until  *)
(* its one segment; and at the start of a segment nobody more urgent had   *)
(* arrived and was pending.                                                *)
Follow ==
  /\ \A i \in 1..Len(gantt) : gantt[i].startTime < gantt[i].endTime
                              /\ gantt[i].endTime <= clock
  /\ \A i, j \in 1..Len(gantt) : i < j => gantt[i].endTime <= gantt[j].startTime

OnceEach ==
  /\ \A p \in Pid \ pending : \E i \in 1..Len(gantt) : gantt[i].pid = p
  /\ \A i \in 1..Len(gantt) : gantt[i].pid \notin pending
  /\ \A i, j \in 1..Len(gantt) : i < j => gantt[i].pid # gantt[j].pid

MostUrgentFirst ==
  \A i \in 1..Len(gantt), q \in Pid :
    /\ q \in pending \/ \E j \in (i + 1)..Len(gantt) : gantt[j].pid = q
    /\ arrivalTime(q) <= gantt[i].startTime
    => priority(gantt[i].pid) <= priority(q)

UrgentInv ==
  algorithm = "PRIORITY" => /\ Follow /\ OnceEach /\ MostUrgentFirst
                            /\ pc = "returned" => pending = {}

LEMMA SegmentsFit ==
  ASSUME TypeOK
  PROVE  /\ Len(gantt) \in Nat /\ DOMAIN gantt = 1..Len(gantt)
         /\ \A i \in 1..Len(gantt) : /\ gantt[i].pid \in Pid
                                     /\ gantt[i].startTime \in Nat
                                     /\ gantt[i].endTime \in Nat
  <1> DEFINE Segs == [pid : Pid, startTime : Nat, endTime : Nat]
  <1>1. gantt \in Seq(Segs)
    BY DEF TypeOK
  <1>2. \A g \in Segs : g.pid \in Pid /\ g.startTime \in Nat /\ g.endTime \in Nat
    OBVIOUS
  <1> HIDE DEF Segs
  <1>3. QED
    BY <1>1, <1>2

(* A process that runs to completion is pending until its one segment.     *)
LEMMA RunOnce ==
  ASSUME IInv, OnceEach, RunNonPreemptive
  PROVE  OnceEach'
  <1>1. Pid' = Pid /\ pending \subseteq Pid /\ TypeOK
    BY DEF RunNonPreemptive, IInv, TypeOK, request, Pid
  <1>2. PICK p \in pending : Push(p, clock, clock') /\ pending' = pending \ {p}
    BY DEF RunNonPreemptive, Arrived
  <1>3. PICK n \in Nat : n = Len(gantt) + 1
    BY <1>1, SegmentsFit
  <1>4. /\ Len(gantt) = n - 1 /\ Len(gantt') = n /\ n \in 1..n
        /\ \A i \in 1..(n - 1) : gantt'[i] = gantt[i] /\ i \in 1..n
        /\ gantt'[n].pid = p
    <2>1. /\ Len(gantt) \in Nat /\ Len(gantt') = Len(gantt) + 1
          /\ \A i \in 1..Len(gantt) : gantt'[i] = gantt[i]
          /\ gantt'[Len(gantt) + 1] = [pid |-> p, startTime |-> clock, endTime |-> clock']
      BY <1>1, <1>2, Drawn
    <2>2. gantt'[n] = [pid |-> p, startTime |-> clock, endTime |-> clock']
      BY <2>1, <1>3
    <2>3. gantt'[n].pid = p
      BY <2>2
    <2>4. Len(gantt) = n - 1 /\ n \in 1..n /\ \A i \in 1..(n - 1) : i \in 1..n
      BY <2>1, <1>3
    <2>5. QED
      BY <2>1, <2>3, <2>4, <1>3
  <1>5. \A i \in 1..n : i \in 1..(n - 1) \/ i = n
    BY <1>3
  <1>6. \A q \in Pid \ pending' : \E i \in 1..n : gantt'[i].pid = q
    BY <1>2, <1>4 DEF OnceEach
  <1>7. \A i \in 1..n : gantt'[i].pid \notin pending'
    BY <1>2, <1>4, <1>5 DEF OnceEach
  <1>8. ASSUME NEW i \in 1..n, NEW j \in 1..n, i < j
        PROVE  gantt'[i].pid # gantt'[j].pid
    <2>1. i \in 1..(n - 1)
      BY <1>8, <1>3
    <2>2. CASE j = n
      BY <2>1, <2>2, <1>2, <1>4 DEF OnceEach
    <2>3. CASE j \in 1..(n - 1)
      BY <2>1, <2>3, <1>8, <1>4 DEF OnceEach
    <2>4. QED
      BY <2>2, <2>3, <1>5
  <1>9. QED
    BY <1>1, <1>4, <1>6, <1>7, <1>8 DEF OnceEach

LEMMA RunKeepsUrgent ==
  ASSUME IInv, IInv', UrgentInv, RunNonPreemptive, algorithm = "PRIORITY"
  PROVE  UrgentInv'
  <1>1. /\ process' = process /\ Pid' = Pid /\ pc' # "returned" /\ RequestOK
        /\ clock \in Nat /\ pending \subseteq Pid /\ TypeOK
        /\ Follow /\ OnceEach /\ MostUrgentFirst
    BY DEF RunNonPreemptive, NonPreemptive, IInv, TypeOK, UrgentInv, request, Pid
  <1>2. PICK p \in Arrived : /\ \A q \in Arrived : ~isBetter(q, p)
                             /\ clock' = clock + burstTime(p)
                             /\ Push(p, clock, clock') /\ pending' = pending \ {p}
    BY DEF RunNonPreemptive
  <1>3. /\ p \in pending /\ p \in Pid /\ burstTime(p) \in Nat \ {0}
        /\ priority(p) \in Nat
    BY <1>1, <1>2, ProcessesFit DEF Arrived
  <1>4. PICK n \in Nat : n = Len(gantt) + 1
    BY <1>1, SegmentsFit
  <1>5. /\ Len(gantt) = n - 1 /\ Len(gantt') = n
        /\ \A i \in 1..(n - 1) : gantt'[i] = gantt[i]
        /\ gantt'[n].pid = p /\ gantt'[n].startTime = clock /\ gantt'[n].endTime = clock'
    <2>1. /\ Len(gantt) \in Nat /\ Len(gantt') = Len(gantt) + 1
          /\ \A i \in 1..Len(gantt) : gantt'[i] = gantt[i]
          /\ gantt'[Len(gantt) + 1] = [pid |-> p, startTime |-> clock, endTime |-> clock']
      BY <1>1, <1>2, Drawn
    <2>2. /\ Len(gantt) = n - 1 /\ Len(gantt') = n
          /\ gantt'[n] = [pid |-> p, startTime |-> clock, endTime |-> clock']
      BY <2>1, <1>4
    <2>3. /\ gantt'[n].pid = p /\ gantt'[n].startTime = clock
          /\ gantt'[n].endTime = clock'
      BY <2>2
    <2>4. QED
      BY <2>1, <2>2, <2>3
  <1>6. \A i \in 1..n : i \in 1..(n - 1) \/ i = n
    BY <1>4
  <1>7. Follow'
    <2>1. \A i \in 1..(n - 1) : /\ gantt[i].startTime < gantt[i].endTime
                                /\ gantt[i].endTime <= clock /\ gantt[i].endTime \in Nat
      BY <1>1, <1>5, SegmentsFit DEF Follow
    <2>2. clock < clock' /\ clock' \in Nat
      BY <1>1, <1>2, <1>3
    <2>3. \A i \in 1..n : gantt'[i].startTime < gantt'[i].endTime /\ gantt'[i].endTime <= clock'
      BY <2>1, <2>2, <1>1, <1>5, <1>6
    <2>4. ASSUME NEW i \in 1..n, NEW j \in 1..n, i < j
          PROVE  gantt'[i].endTime <= gantt'[j].startTime
      <3>1. i \in 1..(n - 1)
        BY <2>4, <1>4
      <3>2. CASE j = n
        BY <3>1, <3>2, <2>1, <1>5
      <3>3. CASE j \in 1..(n - 1)
        BY <3>1, <3>3, <2>4, <1>1, <1>5 DEF Follow
      <3>4. QED
        BY <3>2, <3>3, <1>6
    <2>5. QED
      BY <2>3, <2>4, <1>5 DEF Follow
  <1>8. OnceEach'
    BY <1>1, RunOnce
  <1>9. MostUrgentFirst'
    <2> SUFFICES ASSUME NEW i \in 1..n, NEW q \in Pid,
                        q \in pending' \/ \E j \in (i + 1)..n : gantt'[j].pid = q,
                        arrivalTime(q) <= gantt'[i].startTime
                 PROVE  priority(gantt'[i].pid) <= priority(q)
      BY <1>1, <1>5 DEF MostUrgentFirst, arrivalTime, priority
    <2>1. CASE i = n
      <3>1. (i + 1)..n = {}
        BY <2>1, <1>4
      <3>2. q \in Arrived
        BY <2>1, <3>1, <1>2, <1>5 DEF Arrived
      <3>3. ~MoreUrgent(q, p)
        BY <3>2, <1>2 DEF isBetter
      <3>4. QED
        BY <2>1, <3>3, <1>1, <1>3, <1>5, ProcessesFit DEF MoreUrgent
    <2>2. CASE i \in 1..(n - 1)
      <3>1. q \in pending \/ \E j \in (i + 1)..(n - 1) : gantt[j].pid = q
        <4>1. ASSUME NEW j \in (i + 1)..n, gantt'[j].pid = q
              PROVE  q \in pending \/ (gantt[j].pid = q /\ j \in (i + 1)..(n - 1))
          <5>1. j = n \/ (j \in (i + 1)..(n - 1) /\ j \in 1..(n - 1))
            BY <1>4
          <5>2. QED
            <6>1. CASE j = n
              BY <6>1, <4>1, <1>3, <1>5
            <6>2. CASE j \in (i + 1)..(n - 1) /\ j \in 1..(n - 1)
              BY <6>2, <4>1, <1>5
            <6>3. QED
              BY <5>1, <6>1, <6>2
        <4>2. QED
          BY <4>1, <1>2
      <3>2. arrivalTime(q) <= gantt[i].startTime
        BY <2>2, <1>5
      <3>3. priority(gantt[i].pid) <= priority(q)
        BY <2>2, <3>1, <3>2, <1>1, <1>5 DEF MostUrgentFirst
      <3>4. QED
        BY <2>2, <3>3, <1>5
    <2>3. QED
      BY <2>1, <2>2, <1>6
  <1>10. QED
    BY <1>1, <1>7, <1>8, <1>9 DEF UrgentInv

LEMMA UrgentInvariant == Spec => []UrgentInv
  <1>1. Init => UrgentInv
    <2> SUFFICES ASSUME Init, algorithm = "PRIORITY" PROVE UrgentInv
      BY DEF UrgentInv
    <2>1. Len(gantt) = 0 /\ pending = Pid /\ pc = "received"
      BY DEF Init
    <2>2. 1..Len(gantt) = {}
      BY <2>1
    <2>3. QED
      BY <2>1, <2>2 DEF UrgentInv, Follow, OnceEach, MostUrgentFirst
  <1>2. IInv /\ IInv' /\ UrgentInv /\ [Next]_vars => UrgentInv'
    <2> SUFFICES ASSUME IInv, IInv', UrgentInv, [Next]_vars, algorithm' = "PRIORITY"
                 PROVE  UrgentInv'
      BY DEF UrgentInv
    <2>1. ASSUME UNCHANGED <<request, gantt, pending>>, clock' >= clock, 
                 pc' = "returned" => pc = "returned" \/ pending = {}
          PROVE  UrgentInv'
      <3>1. /\ algorithm' = algorithm /\ process' = process /\ Pid' = Pid
            /\ TypeOK /\ clock \in Nat /\ clock' \in Nat
        BY <2>1 DEF request, Pid, IInv, TypeOK
      <3>2. Follow /\ OnceEach /\ MostUrgentFirst /\ (pc = "returned" => pending = {})
        BY <3>1 DEF UrgentInv
      <3>3. Follow'
        <4>1. ASSUME NEW i \in 1..Len(gantt)
              PROVE  gantt[i].endTime <= clock'
          <5>1. gantt[i].endTime \in Nat /\ gantt[i].endTime <= clock
            BY <3>1, <3>2, SegmentsFit DEF Follow
          <5>2. QED
            BY <2>1, <3>1, <5>1
        <4>2. UNCHANGED gantt
          BY <2>1
        <4>3. QED
          BY <3>2, <4>1, <4>2 DEF Follow
      <3>4. OnceEach' /\ MostUrgentFirst'
        BY <2>1, <3>1, <3>2 DEF OnceEach, MostUrgentFirst, arrivalTime, priority
      <3>5. QED
        BY <2>1, <3>2, <3>3, <3>4 DEF UrgentInv
    <2>2. CASE Refuse \/ Begin \/ UNCHANGED vars
      BY <2>1, <2>2 DEF Refuse, Begin, vars, request, IInv, TypeOK
    <2>3. CASE RunFcfs \/ IdleRoundRobin \/ RunSlice
      BY <2>3 DEF RunFcfs, IdleRoundRobin, RunSlice, RoundRobin, request
    <2>4. CASE IdleNonPreemptive
      <3>1. PICK p \in pending : clock' = arrivalTime(p) /\ p \notin Arrived
        BY <2>4 DEF IdleNonPreemptive
      <3>2. clock' >= clock
        BY <3>1, ProcessesFit DEF Arrived, IInv, TypeOK
      <3>3. QED
        BY <2>1, <2>4, <3>2 DEF IdleNonPreemptive, NonPreemptive
    <2>5. CASE RunNonPreemptive
      BY <2>5, RunKeepsUrgent DEF RunNonPreemptive, request
    <2>6. CASE Return
      <3>1. UNCHANGED request /\ UNCHANGED <<gantt, pending, clock>> /\ LoopEnds
            /\ algorithm = "PRIORITY" /\ clock \in Nat
        BY <2>6 DEF Return, request, IInv, TypeOK
      <3>2. pending = {}
        BY <3>1 DEF LoopEnds
      <3>3. QED
        BY <2>1, <3>1, <3>2
    <2>7. QED
      BY <2>2, <2>3, <2>4, <2>5, <2>6 DEF Next
  <1>3. QED
    BY <1>1, <1>2, Invariant, PTL DEF Spec

(* With priorities a process is delayed by at most one less urgent one,    *)
(* and only by one that was already running when it arrived.               *)
THEOREM UrgentFirst == Spec => []UrgentWaitsForOne
  <1>1. IInv /\ UrgentInv => UrgentWaitsForOne
    <2> SUFFICES ASSUME IInv, UrgentInv, pc = "returned", algorithm = "PRIORITY",
                        NEW p \in Pid
                 PROVE  LET delays == {i \in DOMAIN gantt :
                                         /\ priority(gantt[i].pid) > priority(p)
                                         /\ gantt[i].endTime > arrivalTime(p)
                                         /\ gantt[i].startTime < FirstOf(p).startTime}
                        IN /\ Cardinality(delays) <= 1
                           /\ \A i \in delays : gantt[i].startTime < arrivalTime(p)
      BY DEF UrgentWaitsForOne, Returned
    <2>1. /\ Follow /\ OnceEach /\ MostUrgentFirst /\ pending = {} 
          /\ TypeOK /\ RequestOK
      BY DEF UrgentInv, IInv
    <2>2. PICK k \in 1..Len(gantt) : gantt[k].pid = p
      BY <2>1 DEF OnceEach
    <2>3. \A i \in 1..Len(gantt) : gantt[i].pid = p => i = k
      BY <2>1, <2>2, SegmentsFit DEF OnceEach
    <2>4. FirstOf(p) = gantt[k]
      <3>1. Own(p) = {k}
        BY <2>1, <2>2, <2>3, SegmentsFit DEF Own
      <3>2. (CHOOSE i \in Own(p) : \A j \in Own(p) : i <= j) = k
        BY <3>1
      <3>3. QED
        BY <3>2 DEF FirstOf
    <2> DEFINE Delay(i) == /\ priority(gantt[i].pid) > priority(p)
                           /\ gantt[i].endTime > arrivalTime(p)
                           /\ gantt[i].startTime < gantt[k].startTime
               delays == {i \in 1..Len(gantt) : Delay(i)}
    <2>5. ASSUME NEW i \in 1..Len(gantt), Delay(i)
          PROVE  gantt[i].startTime < arrivalTime(p)
      <3>1. /\ gantt[i].startTime \in Nat /\ gantt[k].startTime \in Nat
            /\ gantt[i].endTime \in Nat /\ gantt[k].endTime \in Nat
            /\ priority(gantt[i].pid) \in Nat /\ priority(p) \in Nat /\ arrivalTime(p) \in Nat
        BY <2>1, SegmentsFit, ProcessesFit
      <3>2. ~(k < i)
        BY <2>1, <2>5, <3>1 DEF Follow
      <3>3. i # k
        BY <2>5, <3>1
      <3>4. k \in (i + 1)..Len(gantt)
        BY <3>2, <3>3, <2>1, SegmentsFit
      <3>5. arrivalTime(p) <= gantt[i].startTime => priority(gantt[i].pid) <= priority(p)
        BY <2>1, <2>2, <3>4 DEF MostUrgentFirst
      <3>6. QED
        BY <3>1, <3>5, <2>5
    <2>6. ASSUME NEW i \in 1..Len(gantt), NEW j \in 1..Len(gantt), Delay(i), Delay(j), i < j
          PROVE  FALSE
      <3>1. /\ gantt[j].startTime \in Nat /\ gantt[i].endTime \in Nat /\ arrivalTime(p) \in Nat
        BY <2>1, SegmentsFit, ProcessesFit
      <3>2. gantt[i].endTime <= gantt[j].startTime
        BY <2>1, <2>6 DEF Follow
      <3>3. gantt[j].startTime < arrivalTime(p)
        BY <2>5, <2>6
      <3>4. gantt[i].endTime > arrivalTime(p)
        BY <2>6
      <3>5. QED
        BY <3>1, <3>2, <3>3, <3>4
    <2>7. \A i, j \in delays : i = j
      <3> SUFFICES ASSUME NEW i \in delays, NEW j \in delays, i # j
                   PROVE  FALSE
        OBVIOUS
      <3>1. i < j \/ j < i
        BY <2>1, SegmentsFit
      <3> HIDE DEF Delay
      <3>2. QED
        BY <3>1, <2>6
    <2>8. Cardinality(delays) <= 1
      <3> HIDE DEF delays
      <3>1. CASE delays = {}
        BY <3>1, FS_EmptySet
      <3>2. CASE delays # {}
        <4>1. PICK i : delays = {i}
          BY <2>7, <3>2
        <4>2. QED
          <5>1. Cardinality({i}) = 1
            BY FS_Singleton
          <5>2. QED
            BY <4>1, <5>1
      <3>3. QED
        BY <3>1, <3>2
    <2>9. DOMAIN gantt = 1..Len(gantt)
      BY <2>1, SegmentsFit
    <2>10. QED
      BY <2>4, <2>5, <2>8, <2>9
  <1>2. QED
    BY <1>1, Invariant, UrgentInvariant, PTL

-----------------------------------------------------------------------------
(* Round Robin: who has run is not in what is left of `ordered`; and if a  *)
(* process is at place x of the ready queue since its segment i, then      *)
(* whoever had arrived by the end of i and has not run since is before it, *)
(* who has run since has run once, and is not before it.                   *)
HaveRun ==
  \A i \in 1..Len(gantt), j \in next..Len(tasks) : ordered[j] # gantt[i].pid

Behind(i, x) ==
  /\ \A q \in Pid :
       /\ q # ready[x] /\ arrivalTime(q) <= gantt[i].endTime /\ remaining[q] # 0
       /\ \A k \in (i + 1)..Len(gantt) : gantt[k].pid # q
       => \E y \in 1..(x - 1) : ready[y] = q
  /\ \A k, l \in (i + 1)..Len(gantt) : gantt[k].pid = gantt[l].pid => k = l
  /\ \A k \in (i + 1)..Len(gantt), y \in 1..(x - 1) : ready[y] # gantt[k].pid

Last(i) == \A k \in (i + 1)..Len(gantt) : gantt[k].pid # gantt[i].pid

WaitBehind ==
  \A i \in 1..Len(gantt), x \in 1..Len(ready) :
    ready[x] = gantt[i].pid /\ Last(i) => Behind(i, x)

TurnInv ==
  /\ algorithm = "ROUND_ROBIN" /\ pc = "running" => HaveRun /\ WaitBehind
  /\ TakesTurns

(* Where the elements of the queue are after a slice.                      *)
LEMMA QueueMoves ==
  ASSUME IInv, RunSlice
  PROVE  /\ Len(ready) \in Nat \ {0} /\ Len(ready') \in Nat
         /\ Len(ready') >= Len(ready) - 1 /\ next' \in next..(Len(tasks) + 1)
         /\ \A y \in 1..(Len(ready) - 1) : ready'[y] = ready[y + 1]
         /\ \A y \in 1..Len(ready') :
              \/ y \in 1..(Len(ready) - 1)
              \/ \E j \in next..Len(tasks) : ready'[y] = ordered[j]
              \/ y = Len(ready') /\ ready'[y] = ready[1]
         /\ remaining'[ready[1]] > 0 => /\ Len(ready') >= 1
                                        /\ ready'[Len(ready')] = ready[1]
  <1>1. /\ ready \in Seq(Pid) /\ ready # <<>> /\ next \in 1..(Len(tasks) + 1)
        /\ ordered' = ordered /\ RequestOK
        /\ ordered \in [Pid -> Pid] /\ Sorted(ordered)
    BY DEF IInv, TypeOK, RunSlice, RoundRobin
  <1>2. /\ ordered \in Seq(Pid) /\ Len(ordered) = Len(tasks) /\ Len(tasks) \in Nat
    BY <1>1, SortedHasAll, ProcessesFit
  <1>3. PICK p \in Pid : p = Head(ready)
    BY SliceFits
  <1>4. PICK L \in Nat : L = Len(ready) - 1
    <2>1. Len(ready) - 1 \in Nat
      BY <1>1
    <2>2. QED
      BY <2>1
  <1>5. Len(ready) = L + 1 /\ p = ready[1]
    BY <1>1, <1>3, <1>4
  <1>6. PICK queue \in Seq(Pid) : /\ queue = Tail(ready) /\ Len(queue) = L
                                  /\ \A y \in 1..L : queue[y] = ready[y + 1]
    <2>1. Tail(ready) \in Seq(Pid) /\ Len(Tail(ready)) = L
      BY <1>1, <1>4
    <2>2. \A y \in 1..L : Tail(ready)[y] = ready[y + 1]
      BY <1>1, <1>4
    <2>3. QED
      BY <2>1, <2>2
  <1>7. PICK back \in Seq(Pid) :
          /\ back = IF remaining'[p] > 0 THEN <<p>> ELSE <<>>
    <2>1. <<p>> \in Seq(Pid) /\ <<>> \in Seq(Pid)
      OBVIOUS
    <2>2. QED
      BY <2>1
  <1>8. /\ Len(back) \in {0, 1} /\ \A y \in 1..Len(back) : back[y] = p
        /\ remaining'[p] > 0 => Len(back) = 1
    BY <1>7
  <1>9. Admit(queue, clock', back)
    BY <1>3, <1>6, <1>7 DEF RunSlice, Requeue
  <1>10. PICK k \in 1..(Len(tasks) + 1) :
           /\ Admits(k, clock') /\ next' = k
           /\ ready' = queue \o SubSeq(ordered, next, k - 1) \o back
    BY <1>1, <1>2, <1>9 DEF Admit
  <1>11. k \in next..(Len(ordered) + 1) /\ next \in 1..(Len(ordered) + 1)
    BY <1>1, <1>2, <1>10 DEF Admits
  <1>12. ready' \in Seq(Pid) /\ Splices(ready', queue, ordered, next, k, back)
    BY <1>2, <1>10, <1>11, Spliced
  <1>13. PICK m \in Nat : m = next
    BY <1>1, <1>2
  <1>14. /\ m <= k /\ k <= Len(tasks) + 1 /\ k \in Nat
         /\ Len(ready') = L + (k - m) + Len(back)
         /\ \A y \in 1..L : ready'[y] = ready[y + 1]
         /\ \A j \in m..(k - 1) : ready'[L + (j - m) + 1] = ordered[j]
         /\ \A y \in 1..Len(back) : ready'[L + (k - m) + y] = back[y]
    <2>1. /\ Len(ready') = L + (k - m) + Len(back)
          /\ \A y \in 1..L : ready'[y] = queue[y]
          /\ \A j \in m..(k - 1) : ready'[L + (j - m) + 1] = ordered[j]
          /\ \A y \in 1..Len(back) : ready'[L + (k - m) + y] = back[y]
      BY <1>6, <1>12, <1>13 DEF Splices
    <2>2. m <= k /\ k <= Len(tasks) + 1 /\ k \in Nat
      BY <1>2, <1>11, <1>13
    <2>3. QED
      BY <2>1, <2>2, <1>6
  <1>15. ASSUME NEW y \in 1..Len(ready')
         PROVE  \/ y \in 1..L
                \/ \E j \in m..Len(tasks) : ready'[y] = ordered[j]
                \/ y = Len(ready') /\ ready'[y] = p
    <2>1. CASE y <= L
      BY <2>1
    <2>2. CASE y > L /\ y <= L + (k - m)
      <3> DEFINE j == y - L + m - 1
      <3>1. j \in m..(k - 1) /\ j \in m..Len(tasks) /\ L + (j - m) + 1 = y
        <4>1. y \in Int /\ m \in Nat /\ k \in Nat /\ L \in Nat /\ Len(tasks) \in Nat
          BY <1>2, <1>8, <1>14
        <4>2. k <= Len(tasks) + 1
          BY <1>14
        <4>3. QED
          BY <4>1, <4>2, <2>2
      <3> HIDE DEF j
      <3>2. ready'[y] = ordered[j]
        BY <3>1, <1>14
      <3>3. QED
        BY <3>1, <3>2
    <2>3. CASE y > L + (k - m)
      <3>1. Len(back) = 1 /\ y = L + (k - m) + 1 /\ y = Len(ready')
        <4>1. y \in Int /\ y <= L + (k - m) + Len(back) /\ Len(back) \in {0, 1}
          BY <1>8, <1>14
        <4>2. k \in Int /\ m \in Int /\ L \in Int
          BY <1>2, <1>13, <1>14
        <4>3. PICK b \in {0, 1} : b = Len(back) /\ y <= L + (k - m) + b
          BY <4>1
        <4>4. b = 1 /\ y = L + (k - m) + 1
          BY <4>1, <4>2, <4>3, <2>3
        <4>5. Len(ready') = L + (k - m) + 1
          BY <4>3, <4>4, <1>14
        <4>6. QED
          BY <4>3, <4>4, <4>5
      <3>2. 1 \in 1..Len(back)
        BY <3>1
      <3>3. ready'[L + (k - m) + 1] = back[1]
        BY <3>2, <1>14
      <3>4. back[1] = p
        BY <3>2, <1>8
      <3>5. QED
        BY <3>1, <3>3, <3>4
    <2>4. QED
      BY <2>1, <2>2, <2>3, <1>8, <1>14
  <1>16. ASSUME remaining'[p] > 0
         PROVE  Len(ready') >= 1 /\ ready'[Len(ready')] = p
    <2>1. Len(back) = 1
      BY <1>8, <1>16
    <2>2. 1 \in 1..Len(back)
      BY <2>1
    <2>3. QED
      BY <2>1, <2>2, <1>8, <1>14
  <1>17. Len(ready') \in Nat /\ Len(ready') >= L
    BY <1>8, <1>14
  <1>18. next' \in next..(Len(tasks) + 1)
    BY <1>10, <1>11, <1>2
  <1>19. QED
    BY <1>5, <1>13, <1>14, <1>15, <1>16, <1>17, <1>18

(* TakesTurns, by the numbers of the segments.                              *)
Fair(i, j) ==
  /\ \A q \in Pid \ {gantt[i].pid} :
       arrivalTime(q) <= gantt[i].endTime /\ Unserved(q, i) =>
         \E k \in (i + 1)..(j - 1) : gantt[k].pid = q
  /\ \A k, l \in (i + 1)..(j - 1) : gantt[k].pid = gantt[l].pid => k = l

Turns ==
  \A i, j \in 1..Len(gantt) :
    (/\ i < j /\ gantt[j].pid = gantt[i].pid
     /\ \A k \in (i + 1)..(j - 1) : gantt[k].pid # gantt[i].pid) => Fair(i, j)

LEMMA TurnsAreTaken ==
  ASSUME TypeOK
  PROVE  TakesTurns <=> (algorithm = "ROUND_ROBIN" => Turns)
  BY SegmentsFit DEF TakesTurns, Turns, Fair

LEMMA RunSliceTurns ==
  ASSUME IInv, IInv', TurnInv, RunSlice
  PROVE  TurnInv'
  <1>1. /\ tasks' = tasks /\ process' = process /\ Pid' = Pid /\ ordered' = ordered
        /\ algorithm = "ROUND_ROBIN" /\ algorithm' = algorithm /\ pc' = "running"
        /\ RequestOK /\ TypeOK /\ TypeOK' /\ QueueInv /\ QueueInv'
        /\ HaveRun /\ WaitBehind /\ TakesTurns
        /\ ready \in Seq(Pid) /\ ready' \in Seq(Pid)
        /\ remaining \in [Pid -> Nat]
    BY DEF RunSlice, RoundRobin, IInv, TypeOK, TurnInv, request, Pid
  <1>2. /\ Len(tasks) \in Nat /\ next \in Nat /\ next' \in Nat /\ next' >= next
        /\ \A q \in Pid : arrivalTime(q) \in Nat /\ arrivalTime(q)' = arrivalTime(q)
    <2>1. Len(tasks) \in Nat /\ \A q \in Pid : arrivalTime(q) \in Nat
      BY <1>1, ProcessesFit
    <2>2. next \in Nat /\ next' \in Nat /\ next' >= next
      BY <1>1, <2>1, QueueMoves DEF TypeOK
    <2>3. QED
      BY <1>1, <2>1, <2>2 DEF arrivalTime
  <1>3. PICK p \in Pid : p = Head(ready)
    BY SliceFits
  <1>4. PICK d \in Nat : /\ d \in 1..remaining[p]
                         /\ remaining' = [remaining EXCEPT ![p] = @ - d]
    BY <1>1, <1>3, SliceFits
  <1>5. /\ remaining[p] > 0 /\ \A q \in Pid : q # p => remaining'[q] = remaining[q]
    BY <1>1, <1>4
  <1>6. PICK M \in Nat \ {0} : M = Len(ready)
    BY QueueMoves
  <1>7. p = ready[1] /\ 1 \in 1..M
    BY <1>1, <1>3, <1>6
  <1>8. /\ Len(ready') \in Nat
        /\ \A y \in 1..(M - 1) : ready'[y] = ready[y + 1]
        /\ \A y \in 1..Len(ready') :
             \/ y \in 1..(M - 1)
             \/ \E j \in next..Len(tasks) : ready'[y] = ordered[j]
             \/ y = Len(ready') /\ ready'[y] = p
    BY <1>6, <1>7, QueueMoves
  <1>9. PICK n \in Nat \ {0} : n = Len(gantt) + 1
    BY <1>1, SegmentsFit
  <1>10. /\ Len(gantt) = n - 1 /\ Len(gantt') = n
         /\ \A i \in 1..(n - 1) : gantt'[i] = gantt[i]
         /\ gantt'[n].pid = p /\ gantt'[n].endTime = clock'
    <2>1. Push(p, clock, clock')
      BY <1>3 DEF RunSlice, Push
    <2>2. /\ Len(gantt) \in Nat /\ Len(gantt') = Len(gantt) + 1
          /\ \A i \in 1..Len(gantt) : gantt'[i] = gantt[i]
          /\ gantt'[Len(gantt) + 1] = [pid |-> p, startTime |-> clock, endTime |-> clock']
      BY <1>1, <2>1, Drawn
    <2>3. /\ Len(gantt) = n - 1 /\ Len(gantt') = n
          /\ gantt'[n] = [pid |-> p, startTime |-> clock, endTime |-> clock']
      BY <2>2, <1>9
    <2>4. gantt'[n].pid = p /\ gantt'[n].endTime = clock'
      BY <2>3
    <2>5. QED
      BY <2>2, <2>3, <2>4
  <1>11. \A i \in 1..n : i = n \/ i \in 1..(n - 1)
    BY <1>9
  <1>12. /\ \A i, j \in 1..M : ready[i] = ready[j] => i = j
         /\ \A i \in 1..M : \A j \in next..Len(tasks) : ready[i] # ordered[j]
    BY <1>1, <1>6 DEF QueueInv, Kept
  <1>13. HaveRun'
    <2> SUFFICES ASSUME NEW i \in 1..n, NEW j \in next'..Len(tasks)
                 PROVE  ordered[j] # gantt'[i].pid
      BY <1>1, <1>10 DEF HaveRun
    <2>1. j \in next..Len(tasks)
      BY <1>2
    <2>2. CASE i = n
      BY <2>1, <2>2, <1>7, <1>10, <1>12
    <2>3. CASE i \in 1..(n - 1)
      <3>1. gantt'[i] = gantt[i] /\ i \in 1..Len(gantt)
        BY <2>3, <1>10
      <3>2. QED
        BY <2>1, <3>1, <1>1 DEF HaveRun
    <2>4. QED
      BY <2>2, <2>3, <1>11
  <1>14. ASSUME NEW i \in 1..n, NEW x \in 1..Len(ready'),
                ready'[x] = gantt'[i].pid, Last(i)'
         PROVE  Behind(i, x)'
    <2>1. CASE i = n
      <3>1. ready'[x] = p /\ (n + 1)..n = {}
        BY <2>1, <1>9, <1>10, <1>14
      <3>2. x = Len(ready')
        <4>1. ~(x \in 1..(M - 1))
          <5>1. SUFFICES ASSUME x \in 1..(M - 1) PROVE FALSE
            OBVIOUS
          <5>2. x + 1 \in 1..M /\ x + 1 # 1 /\ ready'[x] = ready[x + 1]
            BY <5>1, <1>8
          <5>3. QED
            BY <5>2, <3>1, <1>7, <1>12
        <4>2. ~\E j \in next..Len(tasks) : ready'[x] = ordered[j]
          BY <3>1, <1>7, <1>12
        <4>3. QED
          BY <4>1, <4>2, <1>8
      <3>3. ASSUME NEW q \in Pid, q # p, arrivalTime(q) <= clock', remaining'[q] # 0
            PROVE  \E y \in 1..(x - 1) : ready'[y] = q
        <4>1. \/ \E y \in 1..Len(ready') : ready'[y] = q
              \/ \E j \in next'..Len(tasks) : ordered[j] = q
          BY <3>3, <1>1 DEF QueueInv, Kept
        <4>2. \A j \in next'..Len(tasks) : arrivalTime(ordered[j]) > clock'
          BY <1>1 DEF QueueInv, Absent, arrivalTime
        <4>3. clock' \in Nat
          BY <1>1 DEF TypeOK
        <4>4. PICK y \in 1..Len(ready') : ready'[y] = q
          BY <4>1, <4>2, <4>3, <3>3, <1>2
        <4>5. y \in 1..(x - 1)
          BY <4>4, <3>1, <3>2, <3>3, <1>8
        <4>6. QED
          BY <4>4, <4>5
      <3>4. QED
        BY <2>1, <3>1, <3>3, <1>1, <1>2, <1>10 DEF Behind
    <2>2. CASE i \in 1..(n - 1)
      <3>1. /\ n \in (i + 1)..n /\ \A k \in (i + 1)..(n - 1) : k \in (i + 1)..n /\ k \in 1..(n - 1)
            /\ \A k \in (i + 1)..n : k = n \/ k \in (i + 1)..(n - 1)
        BY <2>2, <1>9
      <3>2. gantt'[i] = gantt[i] /\ gantt[i].pid # p /\ Last(i)
        BY <2>2, <3>1, <1>10, <1>14 DEF Last
      <3>3. x \in 1..(M - 1) /\ ready'[x] = ready[x + 1]
        <4>1. \A j \in next..Len(tasks) : ready'[x] # ordered[j]
          BY <2>2, <3>2, <1>1, <1>10, <1>14 DEF HaveRun
        <4>2. QED
          BY <4>1, <3>2, <1>8, <1>14
      <3>4. x + 1 \in 1..M /\ (x + 1) - 1 = x
        BY <3>3
      <3>5. Behind(i, x + 1)
        BY <2>2, <3>2, <3>3, <3>4, <1>1, <1>6, <1>10, <1>14 DEF WaitBehind
      <3>6. /\ \A q \in Pid :
                 /\ q # gantt[i].pid /\ arrivalTime(q) <= gantt[i].endTime
                 /\ remaining[q] # 0
                 /\ \A k \in (i + 1)..(n - 1) : gantt[k].pid # q
                 => \E y \in 1..x : ready[y] = q
            /\ \A k, l \in (i + 1)..(n - 1) : gantt[k].pid = gantt[l].pid => k = l
            /\ \A k \in (i + 1)..(n - 1), y \in 1..x : ready[y] # gantt[k].pid
        BY <3>2, <3>3, <3>4, <3>5, <1>10, <1>14 DEF Behind
      <3>7. ASSUME NEW q \in Pid, q # gantt[i].pid, arrivalTime(q) <= gantt[i].endTime,
                   remaining'[q] # 0, \A k \in (i + 1)..n : gantt'[k].pid # q
            PROVE  \E y \in 1..(x - 1) : ready'[y] = q
        <4>1. q # p /\ remaining[q] # 0
          BY <3>1, <3>7, <1>5, <1>10
        <4>2. \A k \in (i + 1)..(n - 1) : gantt[k].pid # q
          BY <3>1, <3>7, <1>10
        <4>3. PICK y \in 1..x : ready[y] = q
          BY <3>6, <3>7, <4>1, <4>2
        <4>4. y # 1
          BY <4>1, <4>3, <1>7
        <4>5. y - 1 \in 1..(x - 1) /\ y - 1 \in 1..(M - 1) /\ (y - 1) + 1 = y
          BY <4>4, <3>3
        <4>6. ready'[y - 1] = ready[(y - 1) + 1]
          BY <4>5, <1>8
        <4>7. QED
          BY <4>3, <4>5, <4>6
      <3>8. ASSUME NEW k \in (i + 1)..(n - 1)
            PROVE  gantt'[k].pid = gantt[k].pid /\ gantt[k].pid # p
        <4>1. 1 \in 1..x
          BY <3>3
        <4>2. QED
          BY <4>1, <3>1, <3>6, <1>7, <1>10
      <3>9. ASSUME NEW k \in (i + 1)..n, NEW l \in (i + 1)..n,
                   gantt'[k].pid = gantt'[l].pid
            PROVE  k = l
        <4>1. CASE k = n /\ l = n
          BY <4>1
        <4>2. CASE k \in (i + 1)..(n - 1) /\ l \in (i + 1)..(n - 1)
          BY <4>2, <3>6, <3>8, <3>9
        <4>3. CASE k = n /\ l \in (i + 1)..(n - 1)
          BY <4>3, <3>8, <3>9, <1>10
        <4>4. CASE k \in (i + 1)..(n - 1) /\ l = n
          BY <4>4, <3>8, <3>9, <1>10
        <4>5. QED
          BY <3>1, <4>1, <4>2, <4>3, <4>4
      <3>10. ASSUME NEW k \in (i + 1)..n, NEW y \in 1..(x - 1)
             PROVE  ready'[y] # gantt'[k].pid
        <4>1. y + 1 \in 1..x /\ y + 1 \in 1..M /\ y + 1 # 1 /\ y \in 1..(M - 1)
          BY <3>3
        <4>2. ready'[y] = ready[y + 1]
          BY <4>1, <1>8
        <4>3. CASE k = n
          BY <4>1, <4>2, <4>3, <1>7, <1>10, <1>12
        <4>4. CASE k \in (i + 1)..(n - 1)
          BY <4>1, <4>2, <4>4, <3>6, <3>8
        <4>5. QED
          BY <3>1, <4>3, <4>4
      <3>11. /\ \A q \in Pid :
                  /\ q # ready'[x] /\ arrivalTime(q)' <= gantt'[i].endTime
                  /\ remaining'[q] # 0
                  /\ \A k \in (i + 1)..Len(gantt') : gantt'[k].pid # q
                  => \E y \in 1..(x - 1) : ready'[y] = q
        BY <3>2, <3>7, <1>2, <1>10, <1>14
      <3>12. /\ \A k, l \in (i + 1)..Len(gantt') :
                  gantt'[k].pid = gantt'[l].pid => k = l
             /\ \A k \in (i + 1)..Len(gantt'), y \in 1..(x - 1) :
                  ready'[y] # gantt'[k].pid
        BY <3>9, <3>10, <1>10
      <3>13. Pid' = Pid
        BY <1>1
      <3>14. QED
        BY <3>11, <3>12, <3>13 DEF Behind
    <2>3. QED
      BY <2>1, <2>2, <1>11
  <1>15. WaitBehind'
    BY <1>10, <1>14 DEF WaitBehind
  <1>16. Turns'
    <2>1. Turns
      BY <1>1, TurnsAreTaken
    <2> SUFFICES ASSUME NEW i \in 1..n, NEW j \in 1..n, i < j,
                        gantt'[j].pid = gantt'[i].pid,
                        \A k \in (i + 1)..(j - 1) : gantt'[k].pid # gantt'[i].pid
                 PROVE  Fair(i, j)'
      BY <1>10 DEF Turns
    <2>2. /\ i \in 1..(n - 1) /\ gantt'[i] = gantt[i] /\ DOMAIN gantt' = 1..n
          /\ DOMAIN gantt = 1..(n - 1)
      <3>1. i \in 1..(n - 1)
        BY <1>9
      <3>2. DOMAIN gantt' = 1..n /\ DOMAIN gantt = 1..(n - 1)
        BY <1>1, <1>10 DEF TypeOK
      <3>3. QED
        BY <3>1, <3>2, <1>10
    <2>3. CASE j \in 1..(n - 1)
      <3>1. \A k \in (i + 1)..(j - 1) : k \in 1..(n - 1) /\ gantt'[k] = gantt[k]
        BY <2>2, <2>3, <1>9, <1>10
      <3>2. Fair(i, j)
        BY <2>1, <2>2, <2>3, <3>1, <1>10 DEF Turns
      <3>3. ASSUME NEW q \in Pid, Unserved(q, i)'
            PROVE  Unserved(q, i)
        <4>1. CASE remaining'[q] > 0
          <5>1. remaining[q] > 0
            BY <4>1, <1>5
          <5>2. QED
            BY <5>1 DEF Unserved
        <4>2. CASE \E k \in 1..n : k > i /\ gantt'[k].pid = q
          <5>1. PICK k \in 1..n : k > i /\ gantt'[k].pid = q
            BY <4>2
          <5>2. CASE k = n
            BY <5>1, <5>2, <1>5, <1>10 DEF Unserved
          <5>3. CASE k \in 1..(n - 1)
            BY <5>1, <5>3, <2>2, <1>10 DEF Unserved
          <5>4. QED
            BY <5>2, <5>3, <1>11
        <4>3. QED
          BY <3>3, <4>1, <4>2, <2>2 DEF Unserved
      <3>4. QED
        <4>1. ASSUME NEW q \in Pid, q # gantt[i].pid, arrivalTime(q) <= gantt[i].endTime,
                     Unserved(q, i)'
              PROVE  \E k \in (i + 1)..(j - 1) : gantt'[k].pid = q
          <5>1. \E k \in (i + 1)..(j - 1) : gantt[k].pid = q
            BY <3>2, <3>3, <4>1 DEF Fair
          <5>2. QED
            BY <5>1, <3>1
        <4>2. \A k, l \in (i + 1)..(j - 1) : gantt'[k].pid = gantt'[l].pid => k = l
          BY <3>1, <3>2 DEF Fair
        <4>3. \A q \in Pid : arrivalTime(q)' = arrivalTime(q)
          BY <1>2
        <4>4. QED
          BY <4>1, <4>2, <4>3, <2>2, <1>1 DEF Fair
    <2>4. CASE j = n
      <3>1. gantt[i].pid = p /\ \A k \in (i + 1)..(n - 1) : k \in 1..(n - 1) /\ gantt'[k] = gantt[k]
        BY <2>2, <2>4, <1>9, <1>10
      <3>2. Last(i)
        BY <2>4, <3>1, <2>2, <1>10 DEF Last
      <3>3. Behind(i, 1)
        BY <3>1, <3>2, <2>2, <1>1, <1>6, <1>7, <1>10 DEF WaitBehind
      <3>4. /\ \A q \in Pid :
                 /\ q # p /\ arrivalTime(q) <= gantt[i].endTime /\ remaining[q] # 0
                 => \E k \in (i + 1)..(n - 1) : gantt[k].pid = q
            /\ \A k, l \in (i + 1)..(n - 1) : gantt[k].pid = gantt[l].pid => k = l
        BY <3>3, <1>7, <1>10 DEF Behind
      <3>5. ASSUME NEW q \in Pid, q # p, arrivalTime(q) <= gantt[i].endTime,
                   Unserved(q, i)'
            PROVE  \E k \in (i + 1)..(n - 1) : gantt[k].pid = q
        <4>1. CASE remaining'[q] > 0
          <5>1. remaining[q] # 0
            BY <4>1, <3>5, <1>5
          <5>2. QED
            BY <5>1, <3>4, <3>5
        <4>2. CASE \E k \in 1..n : k > i /\ gantt'[k].pid = q
          <5>1. PICK k \in 1..n : k > i /\ gantt'[k].pid = q
            BY <4>2
          <5>2. k # n
            BY <5>1, <3>5, <1>10
          <5>3. k \in (i + 1)..(n - 1)
            BY <5>1, <5>2, <1>9
          <5>4. QED
            BY <5>1, <5>3, <3>1
        <4>3. QED
          BY <3>5, <4>1, <4>2, <2>2 DEF Unserved
      <3>6. QED
        <4>1. \A k, l \in (i + 1)..(n - 1) : gantt'[k].pid = gantt'[l].pid => k = l
          BY <3>1, <3>4
        <4>2. ASSUME NEW q \in Pid, q # p, arrivalTime(q) <= gantt[i].endTime,
                     Unserved(q, i)'
              PROVE  \E k \in (i + 1)..(n - 1) : gantt'[k].pid = q
          BY <3>1, <3>5, <4>2
        <4>3. \A q \in Pid : arrivalTime(q)' = arrivalTime(q)
          BY <1>2
        <4>4. QED
          BY <2>4, <4>1, <4>2, <4>3, <3>1, <2>2, <1>1 DEF Fair
    <2>5. QED
      BY <2>3, <2>4, <1>11
  <1>17. TakesTurns'
    <2>1. DOMAIN gantt' = 1..Len(gantt')
      BY <1>1 DEF TypeOK
    <2>2. QED
      BY <2>1, <1>16 DEF TakesTurns, Turns, Fair
  <1>18. QED
    BY <1>13, <1>15, <1>17 DEF TurnInv

LEMMA TurnInvariant == Spec => []TurnInv
  <1>1. Init => TurnInv
    <2> SUFFICES ASSUME Init PROVE TurnInv
      OBVIOUS
    <2>1. DOMAIN gantt = {} /\ pc = "received"
      BY DEF Init
    <2>2. QED
      BY <2>1 DEF TurnInv, TakesTurns
  <1>2. IInv /\ IInv' /\ TurnInv /\ [Next]_vars => TurnInv'
    <2> SUFFICES ASSUME IInv, IInv', TurnInv, [Next]_vars
                 PROVE  TurnInv'
      OBVIOUS
    <2>1. TypeOK /\ RequestOK /\ TakesTurns
      BY DEF IInv, TurnInv
    <2>2. ASSUME UNCHANGED <<request, gantt, remaining>>
          PROVE  TakesTurns'
      BY <2>1, <2>2 DEF TakesTurns, Unserved, arrivalTime, Pid, request
    <2>3. ASSUME algorithm' # "ROUND_ROBIN"
          PROVE  TurnInv'
      BY <2>3 DEF TurnInv, TakesTurns
    <2>4. CASE Refuse \/ Return
      BY <2>2, <2>4 DEF Refuse, Return, TurnInv
    <2>5. CASE Begin
      <3>1. gantt' = <<>>
        BY <2>5 DEF Begin, IInv, Fresh
      <3>2. 1..Len(gantt') = {}
        BY <3>1
      <3>3. QED
        BY <2>2, <2>5, <3>2 DEF Begin, TurnInv, HaveRun, WaitBehind
    <2>6. CASE RunFcfs \/ IdleNonPreemptive \/ RunNonPreemptive
      BY <2>3, <2>6 DEF RunFcfs, IdleNonPreemptive, RunNonPreemptive, NonPreemptive, request
    <2>7. CASE IdleRoundRobin
      <3>1. /\ UNCHANGED <<request, gantt, remaining, ordered>> /\ ready = <<>>
            /\ process' = process /\ tasks' = tasks /\ Pid' = Pid
            /\ algorithm = "ROUND_ROBIN" /\ algorithm' = algorithm
            /\ pc = "running" /\ pc' = "running" /\ ready' \in Seq(Pid)
            /\ QueueInv /\ QueueInv' /\ HaveRun /\ WaitBehind
        BY <2>7 DEF IdleRoundRobin, RoundRobin, IInv, TypeOK, TurnInv, request, Pid
      <3>2. /\ Len(tasks) \in Nat /\ next \in Nat /\ next' \in Nat /\ next' >= next
        <4>1. PICK k \in 1..(Len(ordered') + 1) : Admits(k, clock') /\ next' = k
          BY <2>7 DEF IdleRoundRobin, Admit
        <4>2. k \in next..(Len(ordered') + 1) /\ Len(ordered') \in Nat
          BY <4>1, <3>1 DEF Admits, IInv, TypeOK
        <4>3. next \in Nat /\ Len(tasks) \in Nat
          BY <2>1, ProcessesFit DEF TypeOK
        <4>4. QED
          BY <4>1, <4>2, <4>3
      <3>3. HaveRun'
        <4>1. \A j \in next'..Len(tasks) : j \in next..Len(tasks)
          BY <3>2
        <4>2. QED
          BY <4>1, <3>1 DEF HaveRun
      <3>4. WaitBehind'
        <4> SUFFICES ASSUME NEW i \in 1..Len(gantt), NEW x \in 1..Len(ready'),
                            ready'[x] = gantt[i].pid
                     PROVE  FALSE
          BY <3>1 DEF WaitBehind
        <4>1. ready'[x] \in Pid
          BY <3>1
        <4>2. remaining[ready'[x]] # 0
          BY <3>1 DEF QueueInv, Present
        <4>3. \E j \in next..Len(tasks) : ordered[j] = ready'[x]
          BY <4>1, <4>2, <3>1 DEF QueueInv, Kept
        <4>4. QED
          BY <4>3, <3>1 DEF HaveRun
      <3>5. QED
        BY <2>2, <3>1, <3>3, <3>4 DEF TurnInv
    <2>8. CASE RunSlice
      BY <2>8, RunSliceTurns
    <2>9. CASE UNCHANGED vars
      <3>1. UNCHANGED <<request, gantt, remaining, ordered, ready, next, pc>>
        BY <2>9 DEF vars
      <3>2. UNCHANGED <<algorithm, tasks, process>>
        BY <3>1 DEF request
      <3>3. HaveRun => HaveRun'
        BY <3>1, <3>2 DEF HaveRun
      <3>4. WaitBehind => WaitBehind'
        BY <3>1, <3>2 DEF WaitBehind, Behind, Last, arrivalTime, Pid
      <3>5. QED
        BY <2>2, <3>1, <3>2, <3>3, <3>4 DEF TurnInv
    <2>10. QED
      BY <2>4, <2>5, <2>6, <2>7, <2>8, <2>9 DEF Next
  <1>3. QED
    BY <1>1, <1>2, Invariant, PTL DEF Spec

(* Round Robin takes turns: between two slices of a process every other    *)
(* that has arrived and is not done runs, and none twice.                  *)
THEOREM TurnsTaken == Spec => []TakesTurns
  BY TurnInvariant, PTL DEF TurnInv

-----------------------------------------------------------------------------
(* How much of the work that arrives from r on has been served; since some *)
(* r the CPU has served nothing else, without a pause.                     *)
Served == [p \in Pid |-> burstTime(p) - Left(p)]
From(r) == {q \in Pid : arrivalTime(q) >= r}
ServedFrom(r) == TotalOf(Served, From(r))

BusySince(r) ==
  /\ From(r) # {}
  /\ ServedFrom(r) = clock - r
  /\ \A q \in Pid : arrivalTime(q) < r => Left(q) = 0

LoadInv ==
  /\ \A p \in Pid : Left(p) \in 0..burstTime(p)
  /\ \A r \in Nat : ServedFrom(r) <= (IF r <= clock THEN clock - r ELSE 0)
  /\ \E r \in 0..clock : BusySince(r)
  /\ \/ \E q \in Pid : Left(q) # 0
     \/ gantt # <<>> /\ gantt[Len(gantt)].endTime = clock

LEMMA MaxIs ==
  ASSUME NEW m \in Int, NEW S, m \in S, \A x \in S : x \in Int /\ x <= m
  PROVE  Max(S) = m
  <1>1. \A x \in S : m >= x
    OBVIOUS
  <1>2. \A x \in S : (\A y \in S : x >= y) => x = m
    OBVIOUS
  <1>3. QED
    BY <1>1, <1>2 DEF Max

LEMMA TotalZero ==
  ASSUME NEW f, NEW S, IsFiniteSet(S), \A x \in S : f[x] = 0
  PROVE  TotalOf(f, S) = 0
  <1> DEFINE C == {s \in SUBSET S : TotalOf(f, s) # 0}
  <1>1. SUFFICES ASSUME C # {} PROVE FALSE
    OBVIOUS
  <1>2. PICK U \in C : \A V \in C : V \subseteq U => V = U
    <2>1. C \in SUBSET (SUBSET S)
      OBVIOUS
    <2> HIDE DEF C
    <2>2. QED
      BY <1>1, <2>1, LeastSet
  <1>3. U # {}
    <2>1. TotalOf(f, {}) = 0
      BY TotalOfNone
    <2>2. QED
      BY <1>2, <2>1
  <1>4. PICK x \in U : TotalOf(f, U) = f[x] + TotalOf(f, U \ {x})
    BY <1>2, <1>3, TotalTakesOne, FS_Subset
  <1>5. TotalOf(f, U \ {x}) = 0 /\ f[x] = 0
    BY <1>2, <1>4
  <1>6. QED
    BY <1>2, <1>4, <1>5

LEMMA LoadFits ==
  ASSUME RequestOK, \A p \in Pid : Left(p) \in 0..burstTime(p), NEW S \in SUBSET Pid
  PROVE  /\ IsFiniteSet(S)
         /\ \A p \in S : Served[p] \in Nat /\ Served[p] = burstTime(p) - Left(p)
         /\ TotalOf(Served, S) \in Nat
  <1>1. IsFiniteSet(S)
    <2>1. IsFiniteSet(Pid)
      BY FS_Interval, ProcessesFit
    <2>2. QED
      BY <2>1, FS_Subset
  <1>2. \A p \in S : Served[p] \in Nat /\ Served[p] = burstTime(p) - Left(p)
    BY ProcessesFit DEF Served
  <1>3. QED
    BY <1>1, <1>2, TotalNat

LEMMA SameLoad ==
  ASSUME UNCHANGED request, SameWork
  PROVE  /\ Served' = Served
         /\ \A r \in Nat : From(r)' = From(r) /\ ServedFrom(r)' = ServedFrom(r)
  <1>1. process' = process /\ Pid' = Pid
    BY DEF request, Pid
  <1>2. \A p \in Pid : burstTime(p)' = burstTime(p) /\ arrivalTime(p)' = arrivalTime(p)
    BY <1>1 DEF burstTime, arrivalTime
  <1>3. Served' = Served
    BY <1>1, <1>2 DEF Served, SameWork
  <1>4. \A r \in Nat : From(r)' = From(r)
    BY <1>1, <1>2 DEF From
  <1>5. QED
    BY <1>3, <1>4 DEF ServedFrom

LEMMA IdleKeepsLoad ==
  ASSUME IInv, LoadInv, Idles
  PROVE  LoadInv'
  <1>1. /\ UNCHANGED request /\ UNCHANGED gantt /\ SameWork /\ RequestOK
        /\ process' = process /\ Pid' = Pid
        /\ clock \in Nat /\ clock' \in Nat /\ clock' > clock
    BY DEF Idles, IInv, TypeOK, request, Pid
  <1>2. PICK q \in Pid : Left(q) # 0
    BY DEF Idles
  <1>3. \A p \in Pid : Left(p) # 0 => arrivalTime(p) >= clock'
    BY DEF Idles
  <1>4. \A p \in Pid : /\ Left(p)' = Left(p) /\ burstTime(p)' = burstTime(p)
                       /\ arrivalTime(p)' = arrivalTime(p)
                       /\ arrivalTime(p) \in Nat
                       /\ Left(p) \in 0..burstTime(p)
    BY <1>1, ProcessesFit DEF SameWork, burstTime, arrivalTime, LoadInv
  <1>5. \A r \in Nat : /\ From(r)' = From(r) /\ ServedFrom(r)' = ServedFrom(r)
                       /\ ServedFrom(r) \in Nat
                       /\ ServedFrom(r) <= (IF r <= clock THEN clock - r ELSE 0)
    <2>1. \A r \in Nat : From(r) \in SUBSET Pid
      BY DEF From
    <2>2. QED
      BY <1>1, <1>4, <2>1, SameLoad, LoadFits DEF LoadInv, ServedFrom
  <1>6. \A r \in Nat : ServedFrom(r)' <= (IF r <= clock' THEN clock' - r ELSE 0)
    BY <1>1, <1>5
  <1>7. PICK r \in Nat : r = clock'
    BY <1>1
  <1>8. BusySince(r)'
    <2>1. From(r)' # {}
      BY <1>2, <1>3, <1>4, <1>5, <1>7 DEF From
    <2>2. ServedFrom(r)' = clock' - r
      BY <1>1, <1>5, <1>7
    <2>3. \A p \in Pid : arrivalTime(p) < r => Left(p) = 0
      BY <1>3, <1>4, <1>1, <1>7
    <2>4. QED
      BY <1>1, <1>4, <2>1, <2>2, <2>3 DEF BusySince
  <1>9. r \in 0..clock'
    BY <1>1, <1>7
  <1>10. QED
    BY <1>1, <1>2, <1>4, <1>6, <1>8, <1>9 DEF LoadInv

LEMMA QuietKeepsLoad ==
  ASSUME IInv, LoadInv, Quiet
  PROVE  LoadInv'
  <1>1. /\ UNCHANGED request /\ UNCHANGED <<clock, gantt>> /\ SameWork /\ RequestOK
        /\ process' = process /\ Pid' = Pid /\ clock \in Nat
    BY DEF Quiet, IInv, TypeOK, request, Pid
  <1>2. \A p \in Pid : /\ Left(p)' = Left(p) /\ burstTime(p)' = burstTime(p)
                       /\ arrivalTime(p)' = arrivalTime(p)
    BY <1>1 DEF SameWork, burstTime, arrivalTime
  <1>3. \A r \in Nat : From(r)' = From(r) /\ ServedFrom(r)' = ServedFrom(r)
    BY <1>1, SameLoad
  <1>4. \A r \in Nat : BusySince(r) => BusySince(r)'
    BY <1>1, <1>2, <1>3 DEF BusySince
  <1>5. \A r \in 0..clock : r \in Nat
    BY <1>1
  <1>6. /\ \A p \in Pid : Left(p) \in 0..burstTime(p)
        /\ \A r \in Nat : ServedFrom(r) <= (IF r <= clock THEN clock - r ELSE 0)
        /\ \E r \in 0..clock : BusySince(r)
        /\ \/ \E q \in Pid : Left(q) # 0
           \/ gantt # <<>> /\ gantt[Len(gantt)].endTime = clock
    BY DEF LoadInv
  <1>7. (\A p \in Pid : Left(p) \in 0..burstTime(p))'
    BY <1>1, <1>2, <1>6
  <1>8. (\A r \in Nat : ServedFrom(r) <= (IF r <= clock THEN clock - r ELSE 0))'
    BY <1>1, <1>3, <1>6
  <1>9. (\E r \in 0..clock : BusySince(r))'
    BY <1>1, <1>4, <1>5, <1>6
  <1>10. (\/ \E q \in Pid : Left(q) # 0
          \/ gantt # <<>> /\ gantt[Len(gantt)].endTime = clock)'
    BY <1>1, <1>2, <1>6
  <1>11. QED
    BY <1>7, <1>8, <1>9, <1>10 DEF LoadInv

LEMMA DrawKeepsLoad ==
  ASSUME IInv, IInv', LoadInv, NEW p \in Pid, NEW start \in Nat, Draws(p, start)
  PROVE  LoadInv'
  <1>1. /\ UNCHANGED request /\ RequestOK /\ TypeOK /\ clock \in Nat
        /\ process' = process /\ Pid' = Pid
    BY DEF Draws, IInv, TypeOK, request, Pid
  <1>2. \A q \in Pid : /\ burstTime(q)' = burstTime(q) /\ arrivalTime(q)' = arrivalTime(q)
                       /\ arrivalTime(q) \in Nat /\ burstTime(q) \in Nat
                       /\ Left(q) \in 0..burstTime(q)
    BY <1>1, ProcessesFit DEF burstTime, arrivalTime, LoadInv
  <1>3. /\ \A q \in Pid \ {p} : Left(q)' = Left(q)
        /\ Left(p)' \in 0..(Left(p) - 1) /\ start = clock' - (Left(p) - Left(p)')
        /\ arrivalTime(p) <= start /\ start >= clock
        /\ start > clock => \A q \in Pid : Left(q) # 0 => arrivalTime(q) >= start
        /\ Push(p, start, clock')
    BY DEF Draws
  <1>4. PICK d \in Nat \ {0} : d = Left(p) - Left(p)'
    BY <1>2, <1>3
  <1>5. clock' = start + d /\ Left(p)' = Left(p) - d /\ Left(p) # 0 /\ clock' \in Nat
        /\ Left(p) \in Nat
    <2>1. Left(p) \in Nat /\ Left(p)' \in Nat
      BY <1>2, <1>3
    <2>2. clock' \in Nat
      BY DEF IInv, TypeOK
    <2>3. QED
      BY <1>3, <1>4, <2>1, <2>2
  <1>6. PICK g : g = Served'
    OBVIOUS
  <1>7. /\ \A q \in Pid \ {p} : g[q] = Served[q]
        /\ g[p] = Served[p] + d
        /\ \A q \in Pid : Served[q] \in Nat
    <2>1. \A q \in Pid : g[q] = burstTime(q) - Left(q)'
      BY <1>1, <1>2, <1>6 DEF Served
    <2>2. \A q \in Pid : Served[q] = burstTime(q) - Left(q)
      BY DEF Served
    <2>3. \A q \in Pid \ {p} : g[q] = Served[q]
      BY <1>3, <2>1, <2>2
    <2>4. g[p] = Served[p] + d
      BY <1>2, <1>5, <2>1, <2>2
    <2>5. \A q \in Pid : Served[q] \in Nat
      BY <1>2, <2>2
    <2>6. QED
      BY <2>3, <2>4, <2>5
  <1>8. ASSUME NEW r \in Nat
        PROVE  /\ From(r)' = From(r) /\ ServedFrom(r) \in Nat
               /\ ServedFrom(r)' = ServedFrom(r) + (IF arrivalTime(p) >= r THEN d ELSE 0)
    <2>1. From(r)' = From(r)
      BY <1>1, <1>2 DEF From
    <2>2. PICK S \in SUBSET Pid : S = From(r)
      BY DEF From
    <2>3. IsFiniteSet(S) /\ TotalOf(Served, S) \in Nat
      BY <1>1, <1>2, LoadFits
    <2>4. ServedFrom(r)' = TotalOf(g, S)
      BY <1>6, <2>1, <2>2 DEF ServedFrom
    <2>5. p \in S <=> arrivalTime(p) >= r
      BY <2>2 DEF From
    <2>6. CASE p \in S
      <3>1. TotalOf(g, S) = TotalOf(Served, S) + d
        BY <1>7, <2>3, <2>6, TotalChanges
      <3>2. QED
        BY <2>1, <2>2, <2>3, <2>4, <2>5, <2>6, <3>1 DEF ServedFrom
    <2>7. CASE p \notin S
      <3>1. TotalOf(Served, S) = TotalOf(g, S)
        BY <1>7, <2>3, <2>7, TotalSame
      <3>2. QED
        BY <2>1, <2>2, <2>3, <2>4, <2>5, <2>7, <3>1 DEF ServedFrom
    <2>8. QED
      BY <2>6, <2>7
  <1>9. (\A q \in Pid : Left(q) \in 0..burstTime(q))'
    <2>1. \A q \in Pid : Left(q)' \in 0..burstTime(q)
      BY <1>2, <1>3, <1>5
    <2>2. QED
      BY <1>1, <1>2, <2>1
  <1>10. ASSUME NEW r \in Nat
         PROVE  (ServedFrom(r) <= (IF r <= clock THEN clock - r ELSE 0))'
    <2>1. ServedFrom(r) <= (IF r <= clock THEN clock - r ELSE 0)
      BY DEF LoadInv
    <2>2. CASE arrivalTime(p) >= r
      <3>1. r <= start /\ arrivalTime(p) \in Nat
        BY <1>2, <1>3, <2>2
      <3>2. QED
        BY <1>1, <1>3, <1>5, <1>8, <2>1, <2>2, <3>1
    <2>3. CASE ~(arrivalTime(p) >= r)
      BY <1>1, <1>3, <1>5, <1>8, <2>1, <2>3
    <2>4. QED
      BY <2>2, <2>3
  <1>11. (\E r \in 0..clock : BusySince(r))'
    <2>1. CASE start = clock
      <3>1. PICK r \in 0..clock : BusySince(r)
        BY DEF LoadInv
      <3>2. r \in Nat /\ r \in 0..clock'
        BY <1>1, <1>5, <2>1, <3>1
      <3>3. arrivalTime(p) >= r
        BY <1>2, <1>5, <3>1, <3>2 DEF BusySince
      <3>4. ServedFrom(r)' = clock' - r
        BY <1>1, <1>5, <1>8, <2>1, <3>1, <3>2, <3>3 DEF BusySince
      <3>5. \A q \in Pid : arrivalTime(q)' < r => Left(q)' = 0
        BY <1>2, <1>3, <3>1, <3>3, <3>2 DEF BusySince
      <3>6. BusySince(r)'
        BY <1>1, <1>8, <3>1, <3>2, <3>4, <3>5 DEF BusySince
      <3>7. QED
        BY <3>2, <3>6
    <2>2. CASE start > clock
      <3>1. arrivalTime(p) >= start
        BY <1>3, <1>5, <2>2
      <3>2. ServedFrom(start) = 0
        BY <1>1, <1>8, <2>2 DEF LoadInv
      <3>3. ServedFrom(start)' = clock' - start
        BY <1>5, <1>8, <3>1, <3>2
      <3>4. \A q \in Pid : arrivalTime(q)' < start => Left(q)' = 0
        BY <1>2, <1>3, <2>2, <3>1
      <3>5. From(start)' # {}
        BY <1>8, <3>1 DEF From
      <3>6. BusySince(start)'
        BY <1>1, <3>3, <3>4, <3>5 DEF BusySince
      <3>7. start \in 0..clock'
        BY <1>5
      <3>8. QED
        BY <3>6, <3>7
    <2>3. QED
      BY <1>1, <1>3, <2>1, <2>2
  <1>12. (gantt # <<>> /\ gantt[Len(gantt)].endTime = clock)'
    <2>1. /\ Len(gantt) \in Nat /\ Len(gantt') = Len(gantt) + 1
          /\ gantt'[Len(gantt) + 1] = [pid |-> p, startTime |-> start, endTime |-> clock']
      BY <1>1, <1>3, Drawn
    <2>2. gantt'[Len(gantt')] = [pid |-> p, startTime |-> start, endTime |-> clock']
      BY <2>1
    <2>3. gantt'[Len(gantt')].endTime = clock'
      BY <2>2
    <2>4. gantt' # <<>>
      BY <2>1
    <2>5. QED
      BY <2>3, <2>4
  <1>13. QED
    BY <1>9, <1>10, <1>11, <1>12 DEF LoadInv

LEMMA LoadInvariant == Spec => []LoadInv
  <1>1. Init => LoadInv
    <2> SUFFICES ASSUME Init PROVE LoadInv
      OBVIOUS
    <2>1. RequestOK /\ pc = "received" /\ clock = 0
      BY Starts DEF Init, IInv
    <2>2. \A q \in Pid : /\ Left(q) = burstTime(q) /\ burstTime(q) \in Nat \ {0}
                         /\ arrivalTime(q) \in Nat
      BY <2>1, ProcessesFit DEF Left
    <2>3. ASSUME NEW r \in Nat
          PROVE  ServedFrom(r) = 0
      <3>1. PICK S \in SUBSET Pid : S = From(r)
        BY DEF From
      <3>2. IsFiniteSet(S) /\ \A q \in S : Served[q] = 0
        BY <2>1, <2>2, <3>1, LoadFits
      <3>3. TotalOf(Served, S) = 0
        BY <3>2, TotalZero
      <3>4. QED
        BY <3>1, <3>3 DEF ServedFrom
    <2>4. PICK q \in Pid : TRUE
      BY <2>1, ProcessesFit
    <2>5. From(0) # {}
      BY <2>2, <2>4 DEF From
    <2>6. BusySince(0)
      BY <2>1, <2>2, <2>3, <2>5 DEF BusySince
    <2>7. 0 \in 0..clock
      BY <2>1
    <2>8. QED
      BY <2>1, <2>2, <2>3, <2>4, <2>6, <2>7 DEF LoadInv
  <1>2. IInv /\ IInv' /\ LoadInv /\ [Next]_vars => LoadInv'
    BY Moved, QuietKeepsLoad, IdleKeepsLoad, DrawKeepsLoad DEF Moves
  <1>3. QED
    BY <1>1, <1>2, Invariant, PTL DEF Spec

(* No algorithm loses time: the chart ends when a CPU that idles only for  *)
(* want of work is done with the same processes.                           *)
THEOREM TimeIsUsed == Spec => []NoTimeIsLost
  <1>1. IInv /\ LoadInv => NoTimeIsLost
    <2> SUFFICES ASSUME IInv, LoadInv, pc = "returned"
                 PROVE  gantt[Len(gantt)].endTime = Makespan
      BY DEF NoTimeIsLost
    <2>1. RequestOK /\ clock \in Nat
      BY DEF IInv, TypeOK
    <2>2. \A q \in Pid : /\ Left(q) = 0 /\ arrivalTime(q) \in Nat
                         /\ burstTime(q) \in Nat \ {0}
      BY <2>1, ProcessesFit DEF Left
    <2>3. ASSUME NEW r \in Nat
          PROVE  BurstOf(From(r)) = ServedFrom(r)
      <3>1. PICK S \in SUBSET Pid : S = From(r)
        BY DEF From
      <3>2. IsFiniteSet(S) /\ \A q \in S : Served[q] = burstTime(q) /\ Served[q] \in Int
        BY <2>1, <2>2, <3>1, LoadFits
      <3>3. PICK b : b = [q \in Pid |-> burstTime(q)]
        OBVIOUS
      <3>4. TotalOf(Served, S) = TotalOf(b, S)
        BY <3>2, <3>3, TotalSame
      <3>5. QED
        BY <3>1, <3>3, <3>4 DEF ServedFrom, BurstOf
    <2> DEFINE Ends(q) == arrivalTime(q) + BurstOf({x \in Pid : arrivalTime(x) >= arrivalTime(q)})
               ends == {Ends(q) : q \in Pid}
    <2>4. \A q \in Pid : Ends(q) = arrivalTime(q) + ServedFrom(arrivalTime(q))
      BY <2>2, <2>3 DEF From
    <2>5. ASSUME NEW q \in Pid
          PROVE  Ends(q) \in Int /\ Ends(q) <= clock
      <3>1. PICK r \in Nat : r = arrivalTime(q)
        BY <2>2
      <3>2. PICK S \in SUBSET Pid : S = From(r)
        BY DEF From
      <3>3. ServedFrom(r) \in Nat /\ ServedFrom(r) <= (IF r <= clock THEN clock - r ELSE 0)
        BY <2>1, LoadFits, <3>2 DEF LoadInv, ServedFrom
      <3>4. ServedFrom(r) >= burstTime(q)
        <4>1. q \in S /\ S \ {q} \in SUBSET Pid
          BY <2>2, <3>1, <3>2 DEF From
        <4>2. \A x \in Pid : Left(x) \in 0..burstTime(x)
          BY DEF LoadInv
        <4>3. /\ IsFiniteSet(S)
              /\ \A x \in S : Served[x] \in Nat /\ Served[x] = burstTime(x) - Left(x)
          BY <2>1, <4>2, LoadFits
        <4>4. TotalOf(Served, S \ {q}) \in Nat
          BY <2>1, <4>1, <4>2, LoadFits
        <4>5. Served[q] = burstTime(q)
          BY <2>2, <4>1, <4>3
        <4>6. TotalOf(Served, S) = Served[q] + TotalOf(Served, S \ {q})
          BY <4>1, <4>3, TotalTakes
        <4>7. QED
          BY <2>2, <3>2, <4>4, <4>5, <4>6 DEF ServedFrom
      <3>5. Ends(q) = r + ServedFrom(r)
        BY <2>4, <3>1
      <3> HIDE DEF Ends
      <3>6. QED
        BY <2>1, <2>2, <3>1, <3>3, <3>4, <3>5
    <2>6. clock \in ends
      <3>1. PICK r \in 0..clock : BusySince(r)
        BY DEF LoadInv
      <3>2. r \in Nat
        BY <2>1
      <3> DEFINE arrivals == {arrivalTime(x) : x \in From(r)}
      <3>3. arrivals \in SUBSET Nat /\ arrivals # {}
        BY <2>2, <3>1 DEF From, BusySince
      <3>4. PICK a \in arrivals : \A t \in arrivals : a <= t
        <4> HIDE DEF arrivals
        <4> QED BY <3>3, LeastNat
      <3>5. PICK m \in From(r) : a = arrivalTime(m)
        BY <3>4
      <3>6. m \in Pid /\ a >= r /\ a \in Nat
        BY <2>2, <3>5 DEF From
      <3>7. From(a) = From(r)
        BY <2>2, <3>2, <3>4, <3>6 DEF From
      <3>8. Ends(m) = a + (clock - r)
        BY <2>4, <3>1, <3>5, <3>6, <3>7 DEF BusySince, ServedFrom
      <3>9. Ends(m) <= clock
        BY <2>5, <3>6
      <3> HIDE DEF Ends
      <3>10. Ends(m) = clock
        BY <2>1, <3>2, <3>6, <3>8, <3>9
      <3>11. QED
        BY <3>6, <3>10
    <2>7. Max(ends) = clock
      <3>1. \A x \in ends : x \in Int /\ x <= clock
        <4> HIDE DEF Ends
        <4> QED BY <2>5
      <3> HIDE DEF ends
      <3>2. QED
        BY <2>1, <2>6, <3>1, MaxIs
    <2>8. gantt[Len(gantt)].endTime = clock
      BY <2>2 DEF LoadInv
    <2>9. QED
      BY <2>7, <2>8 DEF Makespan
  <1>2. QED
    BY <1>1, Invariant, LoadInvariant, PTL

-----------------------------------------------------------------------------
(* What of the chart g lies between a and t.                               *)
Covered(g, a, t) ==
  TotalOf([i \in DOMAIN g |-> Overlap(g[i], a, t)], DOMAIN g)
Span(a, t) == IF a <= t THEN t - a ELSE 0
Fits(seg, c) == /\ seg.startTime \in Nat /\ seg.endTime \in Nat
                /\ seg.startTime < seg.endTime /\ seg.endTime <= c

LEMMA MinIs ==
  ASSUME NEW m \in Int, NEW S, m \in S, \A x \in S : x \in Int /\ m <= x
  PROVE  Min(S) = m
  <1>1. \A x \in S : m <= x
    OBVIOUS
  <1>2. \A x \in S : (\A y \in S : x <= y) => x = m
    OBVIOUS
  <1>3. QED
    BY <1>1, <1>2 DEF Min

LEMMA OfTwo ==
  ASSUME NEW a \in Int, NEW b \in Int
  PROVE  /\ Max({a, b}) = (IF a >= b THEN a ELSE b)
         /\ Min({a, b}) = (IF a >= b THEN b ELSE a)
  <1>1. CASE a >= b
    <2>1. Max({a, b}) = a
      BY <1>1, MaxIs
    <2>2. Min({a, b}) = b
      BY <1>1, MinIs
    <2>3. QED
      BY <1>1, <2>1, <2>2
  <1>2. CASE ~(a >= b)
    <2>1. Max({a, b}) = b
      BY <1>2, MaxIs
    <2>2. Min({a, b}) = a
      BY <1>2, MinIs
    <2>3. QED
      BY <1>2, <2>1, <2>2
  <1>3. QED
    BY <1>1, <1>2

LEMMA OverlapIs ==
  ASSUME NEW seg, seg.startTime \in Nat, seg.endTime \in Nat, NEW a \in Nat, NEW t \in Nat
  PROVE  /\ Overlap(seg, a, t) \in Nat
         /\ Overlap(seg, a, t) =
              LET hi == IF seg.endTime >= t THEN t ELSE seg.endTime
                  lo == IF seg.startTime >= a THEN seg.startTime ELSE a
              IN  IF hi > lo THEN hi - lo ELSE 0
  <1>1. PICK hi \in Nat : hi = IF seg.endTime >= t THEN t ELSE seg.endTime
    OBVIOUS
  <1>2. PICK lo \in Nat : lo = IF seg.startTime >= a THEN seg.startTime ELSE a
    OBVIOUS
  <1>3. Min({seg.endTime, t}) = hi /\ Max({seg.startTime, a}) = lo
    <2>1. PICK x \in Int, y \in Int : x = seg.endTime /\ y = seg.startTime
      OBVIOUS
    <2>2. Min({x, t}) = IF x >= t THEN t ELSE x
      <3>1. t \in Int
        OBVIOUS
      <3> QED BY <3>1, OfTwo
    <2>3. Max({y, a}) = IF y >= a THEN y ELSE a
      <3>1. a \in Int
        OBVIOUS
      <3> QED BY <3>1, OfTwo
    <2>4. QED
      BY <1>1, <1>2, <2>1, <2>2, <2>3
  <1>4. Max({0, hi - lo}) = IF hi > lo THEN hi - lo ELSE 0
    <2>1. 0 \in Int /\ hi - lo \in Int
      OBVIOUS
    <2>2. Max({0, hi - lo}) = IF 0 >= hi - lo THEN 0 ELSE hi - lo
      BY <2>1, OfTwo
    <2>3. QED
      BY <2>2
  <1>5. Overlap(seg, a, t) = IF hi > lo THEN hi - lo ELSE 0
    BY <1>3, <1>4 DEF Overlap
  <1>6. QED
    BY <1>1, <1>2, <1>5

(* h is the chart g, which ends by c, and one more segment, from s to e.   *)
Prolongs(h, g, n, c, s, e) ==
  /\ n \in Nat /\ DOMAIN g = 1..n /\ DOMAIN h = 1..(n + 1)
  /\ \A i \in 1..n : h[i] = g[i] /\ Fits(g[i], c)
  /\ h[n + 1].startTime = s /\ h[n + 1].endTime = e
  /\ c \in Nat /\ s \in Nat /\ e \in Nat /\ c <= s /\ s < e

LEMMA CoverGrows ==
  ASSUME NEW n, NEW g, NEW h, NEW c, NEW s, NEW e, Prolongs(h, g, n, c, s, e),
         NEW a \in Nat, NEW t \in Nat
  PROVE  /\ Covered(g, a, t) \in Nat
         /\ Covered(h, a, t) = Covered(g, a, t) + Overlap(h[n + 1], a, t)
  <1> DEFINE og == [i \in 1..n |-> Overlap(g[i], a, t)]
             oh == [i \in 1..(n + 1) |-> Overlap(h[i], a, t)]
  <1>0. /\ n \in Nat /\ DOMAIN g = 1..n /\ DOMAIN h = 1..(n + 1)
        /\ \A i \in 1..n : h[i] = g[i] /\ Fits(g[i], c)
        /\ Fits(h[n + 1], e)
    BY DEF Prolongs, Fits
  <1>1. ASSUME NEW i \in 1..n
        PROVE  og[i] = oh[i] /\ og[i] \in Nat
    <2>1. Overlap(g[i], a, t) \in Nat
      BY <1>0, OverlapIs DEF Fits
    <2>2. QED
      BY <1>0, <2>1
  <1>2. oh[n + 1] = Overlap(h[n + 1], a, t) /\ oh[n + 1] \in Nat
    <2>1. Overlap(h[n + 1], a, t) \in Nat
      BY <1>0, OverlapIs DEF Fits
    <2>2. QED
      BY <1>0, <2>1
  <1>3. IsFiniteSet(1..n)
    BY <1>0, FS_Interval
  <1>4. Covered(g, a, t) = TotalOf(og, 1..n) /\ Covered(h, a, t) = TotalOf(oh, 1..(n + 1))
    BY <1>0 DEF Covered
  <1>5. 1..(n + 1) = (1..n) \cup {n + 1} /\ n + 1 \notin 1..n
    BY <1>0
  <1> DEFINE I == 1..n
  <1>6. /\ IsFiniteSet(I) /\ \A i \in I : og[i] = oh[i] /\ og[i] \in Nat
        /\ n + 1 \notin I
    BY <1>1, <1>3, <1>5
  <1> HIDE DEF og, oh, I
  <1>7. TotalOf(og, I) = TotalOf(oh, I) /\ TotalOf(og, I) \in Nat
    BY <1>6, TotalSame, TotalNat
  <1>8. TotalOf(oh, I \cup {n + 1}) = oh[n + 1] + TotalOf(oh, I)
    BY <1>2, <1>6, TotalAdds
  <1>9. Covered(h, a, t) = oh[n + 1] + TotalOf(oh, I)
    BY <1>4, <1>5, <1>8 DEF I
  <1>10. Covered(g, a, t) = TotalOf(og, I)
    BY <1>4 DEF I
  <1>11. QED
    BY <1>2, <1>7, <1>9, <1>10

(* After its end a chart has nothing more to show.                         *)
LEMMA CoverEnds ==
  ASSUME NEW n \in Nat, NEW g, NEW c \in Nat, NEW a \in Nat, NEW t \in Nat, c <= t,
         DOMAIN g = 1..n, \A i \in 1..n : Fits(g[i], c)
  PROVE  Covered(g, a, c) = Covered(g, a, t)
  <1> DEFINE oc == [i \in 1..n |-> Overlap(g[i], a, c)]
             ot == [i \in 1..n |-> Overlap(g[i], a, t)]
             I == 1..n
  <1>1. ASSUME NEW i \in I
        PROVE  oc[i] = ot[i] /\ oc[i] \in Nat
    <2>1. PICK seg : seg = g[i]
      OBVIOUS
    <2>2. /\ seg.startTime \in Nat /\ seg.endTime \in Nat
          /\ seg.startTime < seg.endTime /\ seg.endTime <= c
      BY <2>1 DEF Fits
    <2>3. PICK lo \in Nat : lo = IF seg.startTime >= a THEN seg.startTime ELSE a
      BY <2>2
    <2>4. PICK e \in Nat : e = seg.endTime
      BY <2>2
    <2>5. /\ Overlap(seg, a, c) \in Nat
          /\ Overlap(seg, a, c) = IF (IF e >= c THEN c ELSE e) > lo
                                  THEN (IF e >= c THEN c ELSE e) - lo ELSE 0
      BY <2>2, <2>3, <2>4, OverlapIs
    <2>6. Overlap(seg, a, t) = IF (IF e >= t THEN t ELSE e) > lo
                               THEN (IF e >= t THEN t ELSE e) - lo ELSE 0
      BY <2>2, <2>3, <2>4, OverlapIs
    <2>7. Overlap(seg, a, c) = Overlap(seg, a, t)
      BY <2>2, <2>4, <2>5, <2>6
    <2>8. QED
      BY <2>1, <2>5, <2>7
  <1>2. IsFiniteSet(I)
    BY FS_Interval
  <1>3. Covered(g, a, c) = TotalOf(oc, I) /\ Covered(g, a, t) = TotalOf(ot, I)
    BY DEF Covered
  <1> HIDE DEF oc, ot, I
  <1>4. QED
    BY <1>1, <1>2, <1>3, TotalSame

-----------------------------------------------------------------------------
(* One more segment, from s to e, on a chart that ends by c: it shows all  *)
(* of the time from c to e that lies after a.                              *)
LEMMA CoverDrawn ==
  ASSUME NEW n, NEW g, NEW h, NEW c, NEW s, NEW e, Prolongs(h, g, n, c, s, e),
         NEW a \in Nat
  PROVE  /\ Covered(g, a, c) = Span(a, c) /\ (s > c => a >= s) => Covered(h, a, e) = Span(a, e)
         /\ \A t \in 0..c : Covered(h, a, t) = Covered(g, a, t)
  <1>0. /\ n \in Nat /\ DOMAIN g = 1..n /\ \A i \in 1..n : Fits(g[i], c)
        /\ h[n + 1].startTime \in Nat /\ h[n + 1].endTime \in Nat
        /\ h[n + 1].startTime = s /\ h[n + 1].endTime = e
        /\ c \in Nat /\ s \in Nat /\ e \in Nat /\ c <= s /\ s < e
    BY DEF Prolongs
  <1>1. \A t \in Nat : /\ Covered(g, a, t) \in Nat
                       /\ Covered(h, a, t) = Covered(g, a, t) + Overlap(h[n + 1], a, t)
    <2> SUFFICES ASSUME NEW t \in Nat
                 PROVE  /\ Covered(g, a, t) \in Nat
                        /\ Covered(h, a, t) = Covered(g, a, t) + Overlap(h[n + 1], a, t)
      OBVIOUS
    <2> QED BY CoverGrows
  <1>2. \A t \in 0..c : Covered(h, a, t) = Covered(g, a, t)
    <2> SUFFICES ASSUME NEW t \in 0..c PROVE Covered(h, a, t) = Covered(g, a, t)
      OBVIOUS
    <2>1. t \in Nat /\ t <= s /\ t <= e /\ s \in Nat
      BY <1>0
    <2>2. PICK lo \in Nat : lo = IF s >= a THEN s ELSE a
      BY <1>0
    <2>3. Overlap(h[n + 1], a, t) = IF (IF e >= t THEN t ELSE e) > lo
                                    THEN (IF e >= t THEN t ELSE e) - lo ELSE 0
      BY <1>0, <2>1, <2>2, OverlapIs
    <2>4. Overlap(h[n + 1], a, t) = 0
      BY <1>0, <2>1, <2>2, <2>3
    <2>5. QED
      BY <1>0, <1>1, <2>1, <2>4
  <1>3. ASSUME Covered(g, a, c) = Span(a, c), s > c => a >= s
        PROVE  Covered(h, a, e) = Span(a, e)
    <2>1. PICK lo \in Nat : lo = IF s >= a THEN s ELSE a
      BY <1>0
    <2>2. Overlap(h[n + 1], a, e) = IF e > lo THEN e - lo ELSE 0
      <3>1. PICK seg : seg = h[n + 1]
        OBVIOUS
      <3>2. seg.startTime = s /\ seg.endTime = e
        BY <1>0, <3>1
      <3>3. Overlap(seg, a, e) = LET hi == IF seg.endTime >= e THEN e ELSE seg.endTime
                                     lh == IF seg.startTime >= a THEN seg.startTime ELSE a
                                 IN  IF hi > lh THEN hi - lh ELSE 0
        BY <1>0, <3>2, OverlapIs
      <3>4. Overlap(seg, a, e) = IF e > lo THEN e - lo ELSE 0
        BY <1>0, <2>1, <3>2, <3>3
      <3>5. QED
        BY <3>1, <3>4
    <2>3. Covered(g, a, c) = Covered(g, a, e)
      <3>1. c \in Nat /\ e \in Nat /\ c <= e
        BY <1>0
      <3>2. n \in Nat /\ DOMAIN g = 1..n /\ \A i \in 1..n : Fits(g[i], c)
        BY <1>0
      <3>3. QED
        BY <3>1, <3>2, CoverEnds
    <2>4. Covered(h, a, e) = Span(a, c) + (IF e > lo THEN e - lo ELSE 0)
      <3>1. /\ Covered(g, a, e) \in Nat
            /\ Covered(h, a, e) = Covered(g, a, e) + Overlap(h[n + 1], a, e)
        BY <1>0, <1>1
      <3>2. QED
        BY <1>3, <2>2, <2>3, <3>1
    <2>5. QED
      BY <1>0, <1>3, <2>1, <2>4 DEF Span
  <1>4. QED
    BY <1>2, <1>3

-----------------------------------------------------------------------------
(* The chart and the processes: a process runs after its arrival, its      *)
(* segments add up to what it was served; and from its arrival on the CPU  *)
(* is never idle, to its last segment when it is done, else to this day.   *)
Lengths == [i \in DOMAIN gantt |-> gantt[i].endTime - gantt[i].startTime]
Covers(p, t) == Covered(gantt, arrivalTime(p), t) = Span(arrivalTime(p), t)

RunsFromTo(p, f, l) ==
  /\ f \in Own(p) /\ l \in Own(p) /\ \A i \in Own(p) : f <= i /\ i <= l
  /\ burstTime(p) - Left(p) <= gantt[l].endTime - gantt[f].startTime
  /\ Left(p) = 0 => Covers(p, gantt[l].endTime)

ChartOf(p) ==
  /\ \A i \in Own(p) : arrivalTime(p) <= gantt[i].startTime
  /\ TotalOf(Lengths, Own(p)) = burstTime(p) - Left(p)
  /\ IF Left(p) = burstTime(p) THEN Own(p) = {}
                               ELSE \E f, l \in Own(p) : RunsFromTo(p, f, l)
  /\ Left(p) # 0 => Covers(p, clock)

ChartInv == Follow /\ \A p \in Pid : ChartOf(p)

LEMMA QuietKeepsChart ==
  ASSUME IInv, ChartInv, Quiet
  PROVE  ChartInv'
  <1>1. /\ UNCHANGED request /\ UNCHANGED <<clock, gantt>> /\ SameWork
        /\ process' = process /\ Pid' = Pid
    BY DEF Quiet, request, Pid
  <1>2. Follow'
    BY <1>1 DEF ChartInv, Follow
  <1>3. ASSUME NEW p \in Pid
        PROVE  ChartOf(p)'
    <2>1. /\ Left(p)' = Left(p) /\ burstTime(p)' = burstTime(p)
          /\ arrivalTime(p)' = arrivalTime(p)
      BY <1>1 DEF SameWork, burstTime, arrivalTime
    <2>2. Own(p)' = Own(p) /\ Lengths' = Lengths
      BY <1>1 DEF Own, Lengths
    <2>3. \A f, l : RunsFromTo(p, f, l) => RunsFromTo(p, f, l)'
      BY <1>1, <2>1, <2>2 DEF RunsFromTo, Covers
    <2>4. ChartOf(p)
      BY DEF ChartInv
    <2>5. Covers(p, clock) => Covers(p, clock)'
      BY <1>1, <2>1 DEF Covers
    <2>6. (\A i \in Own(p) : arrivalTime(p) <= gantt[i].startTime)'
      BY <1>1, <2>1, <2>2, <2>4 DEF ChartOf
    <2>7. QED
      BY <2>1, <2>2, <2>3, <2>4, <2>5, <2>6 DEF ChartOf
  <1>4. QED
    BY <1>1, <1>2, <1>3 DEF ChartInv

(* A chart that ends by the clock, for the lemmas on covers.               *)
LEMMA ChartFits ==
  ASSUME IInv, Follow
  PROVE  /\ Len(gantt) \in Nat /\ DOMAIN gantt = 1..Len(gantt) /\ clock \in Nat
         /\ \A i \in 1..Len(gantt) : Fits(gantt[i], clock)
         /\ \A p : Own(p) \subseteq 1..Len(gantt) /\ IsFiniteSet(Own(p))
  <1>1. /\ Len(gantt) \in Nat /\ DOMAIN gantt = 1..Len(gantt) /\ clock \in Nat
        /\ \A i \in 1..Len(gantt) : Fits(gantt[i], clock)
    BY SegmentsFit DEF IInv, TypeOK, Follow, Fits
  <1>2. ASSUME NEW p
        PROVE  Own(p) \subseteq 1..Len(gantt) /\ IsFiniteSet(Own(p))
    <2>1. Own(p) \subseteq 1..Len(gantt)
      BY <1>1 DEF Own
    <2>2. IsFiniteSet(1..Len(gantt))
      BY <1>1, FS_Interval
    <2>3. QED
      BY <2>1, <2>2, FS_Subset
  <1>3. QED
    BY <1>1, <1>2

LEMMA IdleKeepsChart ==
  ASSUME IInv, LoadInv, ChartInv, Idles
  PROVE  ChartInv'
  <1>1. /\ UNCHANGED request /\ UNCHANGED gantt /\ SameWork /\ RequestOK
        /\ process' = process /\ Pid' = Pid
        /\ clock \in Nat /\ clock' \in Nat /\ clock' > clock
    BY DEF Idles, IInv, TypeOK, request, Pid
  <1>2. /\ Len(gantt) \in Nat /\ DOMAIN gantt = 1..Len(gantt)
        /\ \A i \in 1..Len(gantt) : Fits(gantt[i], clock)
    BY ChartFits DEF ChartInv
  <1>3. Follow'
    <2>1. \A i \in 1..Len(gantt) : gantt[i].endTime \in Nat /\ gantt[i].endTime <= clock
      BY <1>2 DEF Fits
    <2>2. QED
      BY <1>1, <2>1 DEF ChartInv, Follow
  <1>4. ASSUME NEW p \in Pid
        PROVE  ChartOf(p)'
    <2>1. /\ Left(p)' = Left(p) /\ burstTime(p)' = burstTime(p)
          /\ arrivalTime(p)' = arrivalTime(p) /\ arrivalTime(p) \in Nat
      BY <1>1, ProcessesFit DEF SameWork, burstTime, arrivalTime
    <2>2. Own(p)' = Own(p) /\ Lengths' = Lengths
      BY <1>1 DEF Own, Lengths
    <2>3. \A f, l : RunsFromTo(p, f, l) => RunsFromTo(p, f, l)'
      BY <1>1, <2>1, <2>2 DEF RunsFromTo, Covers
    <2>4. ChartOf(p)
      BY DEF ChartInv
    <2>5. ASSUME Left(p) # 0
          PROVE  Covers(p, clock)'
      <3>1. arrivalTime(p) >= clock'
        BY <2>5 DEF Idles
      <3>2. PICK a \in Nat, t \in Nat : a = arrivalTime(p) /\ t = clock'
        BY <1>1, <2>1
      <3>3. Covered(gantt, a, clock) = Covered(gantt, a, t)
        BY <1>1, <1>2, <3>2, CoverEnds
      <3>4. Covered(gantt, a, clock) = Span(a, clock)
        BY <2>4, <2>5, <3>2 DEF ChartOf, Covers
      <3>5. Span(a, clock) = 0 /\ Span(a, t) = 0
        BY <1>1, <3>1, <3>2 DEF Span
      <3>6. Covered(gantt', a, t) = Span(a, t)
        BY <1>1, <3>3, <3>4, <3>5
      <3>7. QED
        BY <2>1, <3>2, <3>6 DEF Covers
    <2>6. (\A i \in Own(p) : arrivalTime(p) <= gantt[i].startTime)'
      BY <1>1, <2>1, <2>2, <2>4 DEF ChartOf
    <2>7. QED
      BY <2>1, <2>2, <2>3, <2>4, <2>5, <2>6 DEF ChartOf
  <1>5. QED
    BY <1>1, <1>3, <1>4 DEF ChartInv

-----------------------------------------------------------------------------
(* What a segment of p, drawn from start to the new clock, changes.        *)
LEMMA DrawnChart ==
  ASSUME IInv, IInv', LoadInv, ChartInv, NEW p \in Pid, NEW start \in Nat, Draws(p, start)
  PROVE  /\ UNCHANGED request /\ RequestOK /\ process' = process /\ Pid' = Pid
         /\ clock \in Nat /\ clock' \in Nat /\ clock <= start /\ start < clock'
         /\ Left(p) \in Nat \ {0} /\ Left(p)' = Left(p) - (clock' - start)
         /\ Left(p)' \in Nat /\ Left(p)' # burstTime(p)
         /\ Prolongs(gantt', gantt, Len(gantt), clock, start, clock')
         /\ gantt'[Len(gantt) + 1] = [pid |-> p, startTime |-> start, endTime |-> clock']
         /\ Len(gantt') = Len(gantt) + 1
         /\ Own(p)' = Own(p) \cup {Len(gantt) + 1}
         /\ \A q \in Pid \ {p} : Own(q)' = Own(q)
  <1>1. /\ UNCHANGED request /\ RequestOK /\ process' = process /\ Pid' = Pid
        /\ clock \in Nat /\ clock' \in Nat /\ TypeOK /\ TypeOK' /\ Follow
    BY DEF Draws, IInv, TypeOK, request, Pid, ChartInv
  <1>2. /\ clock <= start /\ start = clock' - (Left(p) - Left(p)')
        /\ Left(p) \in 0..burstTime(p) /\ burstTime(p) \in Nat
        /\ Left(p)' \in 0..(Left(p) - 1) /\ Push(p, start, clock')
    BY <1>1, ProcessesFit DEF Draws, LoadInv
  <1>3. /\ Left(p) \in Nat \ {0} /\ Left(p)' = Left(p) - (clock' - start)
        /\ Left(p)' \in Nat /\ Left(p)' # burstTime(p) /\ start < clock'
    BY <1>1, <1>2
  <1> DEFINE n == Len(gantt)
             seg == [pid |-> p, startTime |-> start, endTime |-> clock']
  <1>4. /\ n \in Nat /\ Len(gantt') = n + 1
        /\ \A i \in 1..n : gantt'[i] = gantt[i]
        /\ gantt'[n + 1] = seg
    BY <1>1, <1>2, Drawn
  <1>5. /\ DOMAIN gantt = 1..n /\ DOMAIN gantt' = 1..(n + 1)
        /\ \A i \in 1..n : Fits(gantt[i], clock)
    <2>1. DOMAIN gantt' = 1..Len(gantt')
      BY <1>1 DEF TypeOK
    <2>2. QED
      BY <1>1, <1>4, <2>1, ChartFits
  <1>6. seg.startTime = start /\ seg.endTime = clock'
    OBVIOUS
  <1>7. Prolongs(gantt', gantt, n, clock, start, clock')
    BY <1>1, <1>2, <1>3, <1>4, <1>5, <1>6 DEF Prolongs
  <1>8. seg.pid = p
    OBVIOUS
  <1> HIDE DEF n, seg
  <1>9. ASSUME NEW q
        PROVE  Own(q)' = Own(q) \cup (IF q = p THEN {n + 1} ELSE {})
    <2>1. Own(q)' = {i \in 1..(n + 1) : gantt'[i].pid = q}
      BY <1>5 DEF Own
    <2>2. Own(q) = {i \in 1..n : gantt[i].pid = q}
      BY <1>5 DEF Own
    <2>3. 1..(n + 1) = (1..n) \cup {n + 1} /\ n + 1 \notin 1..n
      BY <1>4
    <2>4. \A i \in 1..n : gantt'[i].pid = gantt[i].pid
      BY <1>4
    <2>5. gantt'[n + 1].pid = p
      BY <1>4, <1>8
    <2>6. QED
      BY <2>1, <2>2, <2>3, <2>4, <2>5
  <1>10. Own(p)' = Own(p) \cup {n + 1} /\ \A q \in Pid \ {p} : Own(q)' = Own(q)
    BY <1>9
  <1>11. QED
    BY <1>1, <1>2, <1>3, <1>4, <1>7, <1>10 DEF n, seg

(* The cover of any process, whether it has work left or not.              *)
LEMMA DrawKeepsCovers ==
  ASSUME IInv, IInv', LoadInv, ChartInv, NEW p \in Pid, NEW start \in Nat, Draws(p, start),
         NEW q \in Pid
  PROVE  /\ Left(q) # 0 => Covers(q, clock)'
         /\ \A t \in 0..clock : Covers(q, t) => Covers(q, t)'
  <1>1. /\ process' = process /\ clock \in Nat /\ clock' \in Nat
        /\ clock <= start /\ RequestOK
        /\ Prolongs(gantt', gantt, Len(gantt), clock, start, clock')
        /\ gantt'[Len(gantt) + 1] = [pid |-> p, startTime |-> start, endTime |-> clock']
    BY DrawnChart
  <1>2. arrivalTime(q)' = arrivalTime(q) /\ arrivalTime(q) \in Nat
    BY <1>1, ProcessesFit DEF arrivalTime
  <1> PICK n, g, h, c, e : n = Len(gantt) /\ g = gantt /\ h = gantt' /\ c = clock /\ e = clock'
    OBVIOUS
  <1>3. PICK a \in Nat : a = arrivalTime(q)
    BY <1>2
  <1>4. Prolongs(h, g, n, c, start, e)
    BY <1>1, <1>3
  <1>5. /\ Covered(g, a, c) = Span(a, c) /\ (start > c => a >= start)
             => Covered(h, a, e) = Span(a, e)
        /\ \A t \in 0..c : Covered(h, a, t) = Covered(g, a, t)
    BY <1>4, CoverDrawn
  <1>6. ASSUME Left(q) # 0
        PROVE  Covers(q, clock)'
    <2>1. Covered(g, a, c) = Span(a, c)
      BY <1>3, <1>6 DEF ChartInv, ChartOf, Covers
    <2>2. start > c => a >= start
      BY <1>3, <1>6 DEF Draws
    <2>3. Covered(h, a, e) = Span(a, e)
      BY <1>5, <2>1, <2>2
    <2>4. QED
      BY <1>2, <1>3, <2>3 DEF Covers
  <1>7. ASSUME NEW t \in 0..clock, Covers(q, t)
        PROVE  Covers(q, t)'
    <2>1. Covered(g, a, t) = Span(a, t)
      BY <1>3, <1>7 DEF Covers
    <2>2. Covered(h, a, t) = Span(a, t)
      BY <1>3, <1>5, <2>1
    <2>3. QED
      BY <1>2, <1>3, <2>2 DEF Covers
  <1>8. QED
    BY <1>6, <1>7

LEMMA DrawKeepsOthers ==
  ASSUME IInv, IInv', LoadInv, ChartInv, NEW p \in Pid, NEW start \in Nat, Draws(p, start),
         NEW q \in Pid \ {p}
  PROVE  ChartOf(q)'
  <1>1. /\ process' = process /\ Left(q)' = Left(q) /\ Own(q)' = Own(q)
        /\ Len(gantt) \in Nat
        /\ \A i \in 1..Len(gantt) : gantt'[i] = gantt[i]
        /\ DOMAIN gantt' = 1..(Len(gantt) + 1)
    BY DrawnChart DEF Draws, Prolongs
  <1>2. burstTime(q)' = burstTime(q) /\ arrivalTime(q)' = arrivalTime(q)
    BY <1>1 DEF burstTime, arrivalTime
  <1>3. /\ Own(q) \subseteq 1..Len(gantt) /\ IsFiniteSet(Own(q)) /\ clock \in Nat
        /\ DOMAIN gantt = 1..Len(gantt)
        /\ \A i \in 1..Len(gantt) : Fits(gantt[i], clock)
    BY ChartFits DEF ChartInv
  <1>4. ChartOf(q)
    BY DEF ChartInv
  <1>5. (\A i \in Own(q) : arrivalTime(q) <= gantt[i].startTime)'
    BY <1>1, <1>2, <1>3, <1>4 DEF ChartOf
  <1>6. (TotalOf(Lengths, Own(q)) = burstTime(q) - Left(q))'
    <2>1. PICK ls : ls = Lengths'
      OBVIOUS
    <2>2. \A i \in Own(q) : Lengths[i] \in Int /\ ls[i] = Lengths[i]
      BY <1>1, <1>3, <2>1 DEF Lengths, Fits
    <2>3. TotalOf(Lengths, Own(q)) = TotalOf(ls, Own(q))
      BY <1>3, <2>2, TotalSame
    <2>4. QED
      BY <1>1, <1>2, <1>4, <2>1, <2>3 DEF ChartOf
  <1>7. ASSUME NEW f \in Own(q), NEW l \in Own(q), RunsFromTo(q, f, l)
        PROVE  RunsFromTo(q, f, l)'
    <2>1. gantt'[f] = gantt[f] /\ gantt'[l] = gantt[l] /\ gantt[l].endTime \in 0..clock
      BY <1>1, <1>3 DEF Fits
    <2>2. Left(q) = 0 => Covers(q, gantt[l].endTime)'
      <3>1. PICK t \in 0..clock : t = gantt[l].endTime
        BY <2>1
      <3>2. Covers(q, t) => Covers(q, t)'
        BY DrawKeepsCovers
      <3>3. Covers(q, t)' => Covers(q, gantt[l].endTime)'
        BY <2>1, <3>1 DEF Covers
      <3>4. QED
        BY <1>7, <3>1, <3>2, <3>3 DEF RunsFromTo
    <2>3. QED
      BY <1>1, <1>2, <1>7, <2>1, <2>2 DEF RunsFromTo
  <1>8. Left(q) # 0 => Covers(q, clock)'
    BY DrawKeepsCovers
  <1>9. QED
    BY <1>1, <1>2, <1>4, <1>5, <1>6, <1>7, <1>8 DEF ChartOf

LEMMA DrawKeepsOwn ==
  ASSUME IInv, IInv', LoadInv, ChartInv, NEW p \in Pid, NEW start \in Nat, Draws(p, start)
  PROVE  ChartOf(p)'
  <1>1. /\ process' = process /\ Own(p)' = Own(p) \cup {Len(gantt) + 1}
        /\ Len(gantt) \in Nat /\ DOMAIN gantt' = 1..(Len(gantt) + 1)
        /\ \A i \in 1..Len(gantt) : gantt'[i] = gantt[i]
        /\ gantt'[Len(gantt) + 1].startTime = start
        /\ gantt'[Len(gantt) + 1].endTime = clock'
        /\ clock' \in Nat /\ start < clock' /\ clock <= start
        /\ Left(p) \in Nat \ {0} /\ Left(p)' = Left(p) - (clock' - start)
        /\ Left(p)' \in Nat /\ Left(p)' # burstTime(p)
    <2>1. /\ Prolongs(gantt', gantt, Len(gantt), clock, start, clock')
          /\ gantt'[Len(gantt) + 1] = [pid |-> p, startTime |-> start, endTime |-> clock']
      BY DrawnChart
    <2>2. /\ Len(gantt) \in Nat /\ DOMAIN gantt' = 1..(Len(gantt) + 1)
          /\ \A i \in 1..Len(gantt) : gantt'[i] = gantt[i]
      BY <2>1 DEF Prolongs
    <2>3. /\ gantt'[Len(gantt) + 1].startTime = start
          /\ gantt'[Len(gantt) + 1].endTime = clock'
      BY <2>1
    <2>4. /\ process' = process /\ Own(p)' = Own(p) \cup {Len(gantt) + 1}
          /\ clock' \in Nat /\ start < clock' /\ clock <= start
          /\ Left(p) \in Nat \ {0} /\ Left(p)' = Left(p) - (clock' - start)
          /\ Left(p)' \in Nat /\ Left(p)' # burstTime(p)
      BY DrawnChart
    <2>5. QED
      BY <2>2, <2>3, <2>4
  <1>2. /\ burstTime(p)' = burstTime(p) /\ arrivalTime(p)' = arrivalTime(p)
        /\ burstTime(p) \in Nat
    <2>1. RequestOK
      BY DEF IInv
    <2>2. QED
      BY <1>1, <2>1, ProcessesFit DEF burstTime, arrivalTime
  <1>3. /\ Own(p) \subseteq 1..Len(gantt) /\ IsFiniteSet(Own(p)) /\ clock \in Nat
        /\ DOMAIN gantt = 1..Len(gantt)
        /\ \A i \in 1..Len(gantt) : Fits(gantt[i], clock)
    BY ChartFits DEF ChartInv
  <1>4. ChartOf(p)
    BY DEF ChartInv
  <1>5. (\A i \in Own(p) : arrivalTime(p) <= gantt[i].startTime)'
    <2>1. arrivalTime(p) <= start
      BY DEF Draws
    <2>2. \A i \in Own(p) : gantt'[i] = gantt[i]
      BY <1>1, <1>3
    <2>3. QED
      BY <1>1, <1>2, <1>4, <2>1, <2>2 DEF ChartOf
  <1>6. (TotalOf(Lengths, Own(p)) = burstTime(p) - Left(p))'
    <2>0. PICK n \in Nat : n = Len(gantt)
      BY <1>1
    <2> PICK d : d = clock' - start
      OBVIOUS
    <2>1. PICK ls, S : ls = Lengths' /\ S = Own(p)
      OBVIOUS
    <2>2. \A i \in S : Lengths[i] \in Int /\ ls[i] = Lengths[i]
      <3>1. \A i \in S : /\ i \in 1..Len(gantt) /\ i \in 1..(Len(gantt) + 1)
                         /\ gantt'[i] = gantt[i]
                         /\ gantt[i].startTime \in Nat /\ gantt[i].endTime \in Nat
        BY <1>1, <1>3, <2>1 DEF Fits
      <3>2. \A i \in S : Lengths[i] = gantt[i].endTime - gantt[i].startTime
        BY <1>3, <3>1 DEF Lengths
      <3>3. \A i \in S : ls[i] = gantt'[i].endTime - gantt'[i].startTime
        BY <1>1, <2>1, <3>1 DEF Lengths
      <3>4. QED
        BY <3>1, <3>2, <3>3
    <2>3. TotalOf(Lengths, S) = TotalOf(ls, S) /\ \A i \in S : ls[i] \in Int
      BY <1>3, <2>1, <2>2, TotalSame
    <2>4. ls[n + 1] = d /\ n + 1 \notin S
      BY <1>1, <1>3, <2>0, <2>1 DEF Lengths
    <2>5. TotalOf(ls, S \cup {n + 1}) = ls[n + 1] + TotalOf(ls, S)
      <3>1. IsFiniteSet(S)
        BY <1>3, <2>1
      <3>2. ls[n + 1] \in Int
        BY <2>4
      <3>3. QED
        BY <2>3, <2>4, <3>1, <3>2, TotalAdds
    <2>6. TotalOf(Lengths, S) = burstTime(p) - Left(p)
      BY <1>4, <2>1 DEF ChartOf
    <2>7. TotalOf(ls, S \cup {n + 1}) = burstTime(p) - Left(p)'
      BY <1>1, <1>2, <2>0, <2>3, <2>4, <2>5, <2>6
    <2>8. QED
      BY <1>1, <1>2, <2>0, <2>1, <2>7
  <1>7. Covers(p, clock)'
    BY <1>1, DrawKeepsCovers
  <1>8. (\E f, l \in Own(p) : RunsFromTo(p, f, l))'
    <2>1. PICK n \in Nat, e \in Nat : n = Len(gantt) /\ e = clock'
      BY <1>1
    <2>2. n + 1 \in Own(p)' /\ \A i \in Own(p)' : i <= n + 1
      BY <1>1, <1>3, <2>1
    <2>3. Covers(p, gantt[n + 1].endTime)'
      BY <1>1, <1>7, <2>1 DEF Covers
    <2>4. PICK f \in Own(p)' : /\ \A i \in Own(p)' : f <= i
                               /\ burstTime(p) - Left(p)' <= e - gantt'[f].startTime
      <3>1. CASE Left(p) = burstTime(p)
        <4>1. Own(p)' = {n + 1}
          BY <1>4, <1>1, <2>1, <3>1 DEF ChartOf
        <4>2. burstTime(p) - Left(p)' = e - gantt'[n + 1].startTime
          BY <1>1, <1>2, <2>1, <3>1
        <4>3. n + 1 \in Own(p)' /\ \A i \in Own(p)' : n + 1 <= i
          BY <4>1
        <4>4. burstTime(p) - Left(p)' <= e - gantt'[n + 1].startTime
          BY <1>2, <1>1, <4>2
        <4>5. QED
          BY <4>3, <4>4
      <3>2. CASE Left(p) # burstTime(p)
        <4>1. PICK f \in Own(p), l \in Own(p) : RunsFromTo(p, f, l)
          BY <1>4, <3>2 DEF ChartOf
        <4>2. /\ \A i \in Own(p) : f <= i
              /\ burstTime(p) - Left(p) <= gantt[l].endTime - gantt[f].startTime
          BY <4>1 DEF RunsFromTo
        <4>3. /\ gantt[l].endTime \in Nat /\ gantt[l].endTime <= clock
              /\ gantt[f].startTime \in Nat /\ gantt'[f] = gantt[f] /\ f \in 1..n
          BY <1>1, <1>3, <2>1 DEF Fits
        <4>4. burstTime(p) - Left(p)' <= e - gantt'[f].startTime
          <5>1. PICK x \in Nat, y \in Nat, b \in Nat, k \in Nat, kk \in Nat, c \in Nat :
                  /\ x = gantt[l].endTime /\ y = gantt[f].startTime /\ b = burstTime(p)
                  /\ k = Left(p) /\ kk = Left(p)' /\ c = clock
            BY <1>1, <1>2, <1>3, <4>3
          <5>2. b - k <= x - y /\ x <= c /\ c <= start /\ kk = k - (e - start)
            BY <1>1, <2>1, <4>2, <4>3, <5>1
          <5>3. b - kk <= e - y
            BY <5>2
          <5>4. QED
            BY <4>3, <5>1, <5>3
        <4>5. f \in Own(p)' /\ \A i \in Own(p)' : f <= i
          <5>1. Own(p)' = Own(p) \cup {n + 1}
            BY <1>1, <2>1
          <5>2. f \in Own(p) /\ f <= n + 1
            BY <4>1, <4>3
          <5>3. QED
            BY <4>2, <5>1, <5>2
        <4>6. QED
          BY <4>4, <4>5
      <3>3. QED
        BY <3>1, <3>2
    <2>5. RunsFromTo(p, f, n + 1)'
      BY <1>1, <1>2, <2>1, <2>2, <2>3, <2>4 DEF RunsFromTo
    <2>6. QED
      BY <2>2, <2>5
  <1>9. QED
    BY <1>1, <1>2, <1>5, <1>6, <1>7, <1>8 DEF ChartOf

-----------------------------------------------------------------------------
LEMMA DrawKeepsChart ==
  ASSUME IInv, IInv', LoadInv, ChartInv, NEW p \in Pid, NEW start \in Nat, Draws(p, start)
  PROVE  ChartInv'
  <1>1. Pid' = Pid
    BY DrawnChart
  <1>2. Follow'
    <2>1. /\ Prolongs(gantt', gantt, Len(gantt), clock, start, clock')
          /\ Len(gantt') = Len(gantt) + 1
      BY DrawnChart
    <2>2. Follow
      BY DEF ChartInv
    <2>3. PICK n \in Nat : n = Len(gantt)
      BY <2>1 DEF Prolongs
    <2>4. /\ \A i \in 1..n : /\ gantt'[i] = gantt[i]
                             /\ gantt[i].startTime \in Nat /\ gantt[i].endTime \in Nat
                             /\ gantt[i].startTime < gantt[i].endTime
                             /\ gantt[i].endTime <= clock
          /\ gantt'[n + 1].startTime = start /\ gantt'[n + 1].endTime = clock'
          /\ clock \in Nat /\ clock' \in Nat /\ clock <= start /\ start < clock'
      BY <2>1, <2>3 DEF Prolongs, Fits
    <2>5. \A i \in 1..(n + 1) : i \in 1..n \/ i = n + 1
      BY <2>3
    <2>6. \A i, j \in 1..n : i < j => gantt[i].endTime <= gantt[j].startTime
      BY <2>2, <2>3 DEF Follow
    <2>7. \A i \in 1..(n + 1) : gantt'[i].startTime < gantt'[i].endTime
                                /\ gantt'[i].endTime <= clock'
      BY <2>4, <2>5
    <2>8. ASSUME NEW i \in 1..(n + 1), NEW j \in 1..(n + 1), i < j
          PROVE  gantt'[i].endTime <= gantt'[j].startTime
      <3>1. i \in 1..n
        BY <2>3, <2>8
      <3>2. CASE j \in 1..n
        BY <2>4, <2>6, <2>8, <3>1, <3>2
      <3>3. CASE j = n + 1
        BY <2>4, <3>1, <3>3
      <3>4. QED
        BY <2>5, <3>2, <3>3
    <2>9. QED
      BY <2>1, <2>3, <2>7, <2>8 DEF Follow
  <1>3. \A q \in Pid : ChartOf(q)'
    BY DrawKeepsOwn, DrawKeepsOthers
  <1>4. QED
    BY <1>1, <1>2, <1>3 DEF ChartInv

LEMMA ChartInvariant == Spec => []ChartInv
  <1>1. Init => ChartInv
    <2> SUFFICES ASSUME Init PROVE ChartInv
      OBVIOUS
    <2>1. RequestOK /\ pc = "received" /\ gantt = <<>> /\ clock = 0
      BY Starts DEF Init, IInv
    <2>2. Len(gantt) = 0 /\ DOMAIN gantt = {}
      BY <2>1
    <2>3. ASSUME NEW p \in Pid
          PROVE  ChartOf(p)
      <3>1. Left(p) = burstTime(p) /\ Own(p) = {} /\ burstTime(p) \in Nat
        BY <2>1, <2>2, ProcessesFit DEF Left, Own
      <3>2. TotalOf(Lengths, Own(p)) = 0
        BY <3>1, TotalOfNone
      <3>3. Covers(p, clock)
        <4>1. PICK a \in Nat : a = arrivalTime(p)
          BY <2>1, ProcessesFit
        <4>2. Covered(gantt, a, 0) = 0
          BY <2>2, TotalOfNone DEF Covered
        <4>3. Span(a, 0) = 0
          BY DEF Span
        <4>4. QED
          BY <2>1, <4>1, <4>2, <4>3 DEF Covers
      <3>4. QED
        BY <3>1, <3>2, <3>3 DEF ChartOf
    <2>4. Follow
      BY <2>2 DEF Follow
    <2>5. QED
      BY <2>3, <2>4 DEF ChartInv
  <1>2. IInv /\ IInv' /\ LoadInv /\ ChartInv /\ [Next]_vars => ChartInv'
    BY Moved, QuietKeepsChart, IdleKeepsChart, DrawKeepsChart DEF Moves
  <1>3. QED
    BY <1>1, <1>2, Invariant, LoadInvariant, PTL DEF Spec

(* The metrics of an answer are computed from its chart.                   *)
Measured == pc = "returned" => metrics = [p \in Pid |-> Metric(p)]

LEMMA MeasuredInvariant == Spec => []Measured
  <1>1. Init => Measured
    BY DEF Init, Measured
  <1>2. Measured /\ [Next]_vars => Measured'
    <2> SUFFICES ASSUME Measured, [Next]_vars PROVE Measured'
      OBVIOUS
    <2>1. CASE UNCHANGED vars
      BY <2>1 DEF Measured, vars, request, Pid, Metric, FirstOf, LastOf, Own, arrivalTime, burstTime
    <2>2. CASE Return
      BY <2>2 DEF Measured, Return, request, Pid, Metric, FirstOf, LastOf, Own, arrivalTime, burstTime
    <2>3. CASE ~Return /\ Next
      <3>1. pc' # "returned"
        BY <2>3 DEF Next, Refuse, Begin, RunFcfs, IdleNonPreemptive, RunNonPreemptive,
                    NonPreemptive, IdleRoundRobin, RunSlice, RoundRobin
      <3>2. QED
        BY <3>1 DEF Measured
    <2>4. QED
      BY <2>1, <2>2, <2>3
  <1>3. QED
    BY <1>1, <1>2, PTL DEF Spec

(* The metrics say what the chart shows: a process waits exactly while     *)
(* others run between its arrival and its completion.                      *)
THEOREM WaitingIsSeen == Spec => []WaitingIsOthersRunning
  <1>1. IInv /\ LoadInv /\ ChartInv /\ Measured => WaitingIsOthersRunning
    <2> SUFFICES ASSUME IInv, LoadInv, ChartInv, Measured, pc = "returned", NEW p \in Pid
                 PROVE  /\ metrics[p].waitingTime =
                             OthersWithin(p, arrivalTime(p),
                                          arrivalTime(p) + metrics[p].turnaroundTime)
                        /\ metrics[p].responseTime \in 0..metrics[p].waitingTime
      BY DEF WaitingIsOthersRunning
    <2>1. /\ Len(gantt) \in Nat /\ DOMAIN gantt = 1..Len(gantt)
          /\ \A i \in 1..Len(gantt) : Fits(gantt[i], clock)
          /\ Own(p) \subseteq 1..Len(gantt) /\ IsFiniteSet(Own(p))
      BY ChartFits DEF ChartInv
    <2>2. Left(p) = 0 /\ burstTime(p) \in Nat \ {0} /\ arrivalTime(p) \in Nat
      BY ProcessesFit DEF Left, IInv
    <2>3. PICK b \in Nat, a \in Nat : b = burstTime(p) /\ a = arrivalTime(p)
      BY <2>2
    <2>4. ChartOf(p)
      BY DEF ChartInv
    <2>5. PICK f \in Own(p), l \in Own(p) : RunsFromTo(p, f, l)
      BY <2>2, <2>4 DEF ChartOf
    <2>6. /\ \A i \in Own(p) : f <= i /\ i <= l
          /\ b <= gantt[l].endTime - gantt[f].startTime
          /\ Covered(gantt, a, gantt[l].endTime) = Span(a, gantt[l].endTime)
          /\ TotalOf(Lengths, Own(p)) = b
          /\ \A i \in Own(p) : a <= gantt[i].startTime
      BY <2>2, <2>3, <2>4, <2>5 DEF RunsFromTo, ChartOf, Covers
    <2>7. \A i \in Own(p) : i \in 1..Len(gantt) /\ i \in Int
      BY <2>1
    <2>8. FirstOf(p) = gantt[f] /\ LastOf(p) = gantt[l]
      <3>1. (CHOOSE i \in Own(p) : \A j \in Own(p) : i <= j) = f
        BY <2>6, <2>7
      <3>2. (CHOOSE i \in Own(p) : \A j \in Own(p) : i >= j) = l
        BY <2>6, <2>7
      <3>3. QED
        BY <3>1, <3>2 DEF FirstOf, LastOf
    <2>9. PICK s \in Nat, e \in Nat : s = gantt[f].startTime /\ e = gantt[l].endTime
      BY <2>1, <2>7 DEF Fits
    <2>10. /\ metrics[p].turnaroundTime = e - a
           /\ metrics[p].waitingTime = e - a - b
           /\ metrics[p].responseTime = s - a
      BY <2>3, <2>8, <2>9 DEF Measured, Metric
    <2>11. a <= s /\ b <= e - s /\ Covered(gantt, a, e) = e - a
      BY <2>6, <2>9 DEF Span
    <2> DEFINE D == 1..Len(gantt)
               os == [i \in D |-> Overlap(gantt[i], a, e)]
    <2>12. ASSUME NEW i \in D
           PROVE  os[i] \in Int /\ (i \in Own(p) => os[i] = Lengths[i])
      <3>1. PICK seg : seg = gantt[i]
        OBVIOUS
      <3>2. PICK x \in Nat, y \in Nat : x = seg.startTime /\ y = seg.endTime /\ x < y
        BY <2>1, <3>1 DEF Fits
      <3>3. /\ Overlap(seg, a, e) \in Nat
            /\ Overlap(seg, a, e) =
                 LET hi == IF seg.endTime >= e THEN e ELSE seg.endTime
                     lo == IF seg.startTime >= a THEN seg.startTime ELSE a
                 IN  IF hi > lo THEN hi - lo ELSE 0
        BY <3>2, OverlapIs
      <3>4. os[i] = Overlap(seg, a, e)
        BY <3>1
      <3>5. ASSUME i \in Own(p)
            PROVE  os[i] = Lengths[i]
        <4>1. a <= x
          BY <2>6, <3>1, <3>2, <3>5
        <4>2. y <= e
          <5>1. CASE i = l
            BY <2>9, <3>1, <3>2, <5>1
          <5>2. CASE i # l
            <6>1. i < l /\ l \in 1..Len(gantt)
              BY <2>6, <2>7, <3>5, <5>2
            <6>2. gantt[i].endTime <= gantt[l].startTime
              BY <6>1 DEF ChartInv, Follow
            <6>3. gantt[l].startTime < gantt[l].endTime /\ gantt[l].startTime \in Nat
              BY <2>1, <6>1 DEF Fits
            <6>4. QED
              BY <2>9, <3>1, <3>2, <6>2, <6>3
          <5>3. QED
            BY <5>1, <5>2
        <4>3. Overlap(seg, a, e) = y - x
          BY <3>2, <3>3, <4>1, <4>2
        <4>4. Lengths[i] = y - x
          BY <2>1, <3>1, <3>2 DEF Lengths
        <4>5. QED
          BY <3>4, <4>3, <4>4
      <3>6. QED
        BY <3>3, <3>4, <3>5
    <2>13. IsFiniteSet(D) /\ D \cap Own(p) = Own(p)
      <3>1. IsFiniteSet(D)
        BY <2>1, FS_Interval
      <3>2. D \cap Own(p) = Own(p)
        BY <2>1
      <3>3. QED
        BY <3>1, <3>2
    <2>14. /\ Covered(gantt, a, e) = TotalOf(os, D)
           /\ OthersWithin(p, a, e) = TotalOf(os, D \ Own(p))
      BY <2>1 DEF Covered, OthersWithin
    <2> HIDE DEF os, D
    <2>15. TotalOf(os, D) = TotalOf(os, D \cap Own(p)) + TotalOf(os, D \ Own(p))
      BY <2>12, <2>13, TotalSplits
    <2>16. TotalOf(os, Own(p)) = TotalOf(Lengths, Own(p))
      <3>1. \A i \in Own(p) : os[i] \in Int /\ os[i] = Lengths[i]
        BY <2>12, <2>13
      <3>2. QED
        BY <2>1, <3>1, TotalSame
    <2>17. TotalOf(os, D \ Own(p)) \in Int
      <3>1. IsFiniteSet(D \ Own(p))
        BY <2>13, FS_Difference
      <3>2. QED
        BY <2>12, <3>1, TotalType
    <2>18. OthersWithin(p, a, e) = e - a - b
      <3>1. PICK x \in Int : x = TotalOf(os, D \ Own(p))
        BY <2>17
      <3>2. TotalOf(os, D \cap Own(p)) = b
        BY <2>6, <2>13, <2>16
      <3>3. e - a = b + x
        BY <2>11, <2>14, <2>15, <3>1, <3>2
      <3>4. x = e - a - b
        BY <3>3
      <3>5. QED
        BY <2>14, <3>1, <3>4
    <2>19. arrivalTime(p) + metrics[p].turnaroundTime = e
      BY <2>3, <2>10
    <2>20. metrics[p].responseTime \in 0..metrics[p].waitingTime
      BY <2>10, <2>11
    <2>21. QED
      BY <2>3, <2>10, <2>18, <2>19, <2>20
  <1>2. QED
    BY <1>1, Invariant, LoadInvariant, ChartInvariant, MeasuredInvariant, PTL

-----------------------------------------------------------------------------
(* First come, first served, as a function of the number of segments: the  *)
(* function Fcfs is what its definition says, and any chart that obeys the *)
(* rule segment by segment is one of its values.                           *)
FcfsStep(before, i) ==
  LET p == ordered[i]
      clockThen == IF before = <<>> THEN 0 ELSE before[i - 1].endTime
      start == Max({clockThen, arrivalTime(p)})
  IN  Append(before, Segment(p, start, start + burstTime(p)))

FcfsUpto(g, k) ==
  \A i \in 0..k : g[i] = IF i = 0 THEN <<>> ELSE FcfsStep(g[i - 1], i)

LEMMA FcfsExists == \A k \in Nat : \E g : FcfsUpto(g, k)
  <1> DEFINE N == {k \in Nat : ~ \E g : FcfsUpto(g, k)}
  <1>1. SUFFICES ASSUME N # {} PROVE FALSE
    OBVIOUS
  <1>2. PICK m \in N : \A k \in N : m <= k
    <2>1. N \in SUBSET Nat
      OBVIOUS
    <2> HIDE DEF N
    <2>2. QED
      BY <1>1, <2>1, LeastNat
  <1>3. m \in Nat /\ ~ \E g : FcfsUpto(g, m)
    OBVIOUS
  <1>4. m # 0
    <2> DEFINE g == [i \in {0} |-> <<>>]
    <2>1. FcfsUpto(g, 0)
      BY DEF FcfsUpto
    <2>2. QED
      BY <1>3, <2>1
  <1>5. m - 1 \in Nat /\ m - 1 \notin N
    BY <1>2, <1>3, <1>4
  <1>6. PICK g : FcfsUpto(g, m - 1)
    BY <1>5
  <1> DEFINE h == [i \in 0..m |-> IF i = m THEN FcfsStep(g[m - 1], m) ELSE g[i]]
  <1>7. FcfsUpto(h, m)
    <2>1. ASSUME NEW i \in 0..m
          PROVE  h[i] = IF i = 0 THEN <<>> ELSE FcfsStep(h[i - 1], i)
      <3>1. CASE i = m
        <4>1. h[i] = FcfsStep(g[m - 1], m) /\ h[m - 1] = g[m - 1]
          BY <1>3, <1>4, <3>1
        <4>2. QED
          BY <1>4, <3>1, <4>1
      <3>2. CASE i # m
        <4>1. i \in 0..(m - 1) /\ h[i] = g[i]
          BY <1>3, <3>2
        <4>2. g[i] = IF i = 0 THEN <<>> ELSE FcfsStep(g[i - 1], i)
          BY <1>6, <4>1 DEF FcfsUpto
        <4>3. i # 0 => h[i - 1] = g[i - 1]
          BY <1>3, <4>1
        <4>4. QED
          BY <4>1, <4>2, <4>3
      <3>3. QED
        BY <3>1, <3>2
    <2> HIDE DEF h
    <2>2. QED
      BY <2>1 DEF FcfsUpto
  <1>8. QED
    BY <1>3, <1>7

LEMMA FcfsUnique ==
  ASSUME NEW g, NEW h, NEW m \in Nat, NEW n \in Nat,
         FcfsUpto(g, m), FcfsUpto(h, n), NEW k \in Nat, k <= m, k <= n
  PROVE  g[k] = h[k]
  <1> DEFINE N == {i \in Nat : i <= m /\ i <= n /\ g[i] # h[i]}
  <1>1. SUFFICES ASSUME N # {} PROVE FALSE
    OBVIOUS
  <1>2. PICK i \in N : \A j \in N : i <= j
    <2>1. N \in SUBSET Nat
      OBVIOUS
    <2> HIDE DEF N
    <2>2. QED
      BY <1>1, <2>1, LeastNat
  <1>3. i \in 0..m /\ i \in 0..n /\ g[i] # h[i]
    OBVIOUS
  <1>4. i # 0 => g[i - 1] = h[i - 1]
    <2>1. i # 0 => i - 1 \in Nat /\ i - 1 <= m /\ i - 1 <= n /\ i - 1 \notin N
      BY <1>2, <1>3
    <2>2. QED
      BY <2>1
  <1>5. /\ g[i] = IF i = 0 THEN <<>> ELSE FcfsStep(g[i - 1], i)
        /\ h[i] = IF i = 0 THEN <<>> ELSE FcfsStep(h[i - 1], i)
    BY <1>3 DEF FcfsUpto
  <1>6. QED
    BY <1>3, <1>4, <1>5

LEMMA FcfsIs ==
  \A i \in Nat : Fcfs[i] = IF i = 0 THEN <<>> ELSE FcfsStep(Fcfs[i - 1], i)
  <1> DEFINE Is(f) == f = [i \in Nat |-> IF i = 0 THEN <<>> ELSE FcfsStep(f[i - 1], i)]
             Upto(k) == CHOOSE g : FcfsUpto(g, k)
             F == [i \in Nat |-> Upto(i)[i]]
  <1>1. \A k \in Nat : FcfsUpto(Upto(k), k)
    BY FcfsExists
  <1> HIDE DEF Upto
  <1>2. ASSUME NEW i \in Nat
        PROVE  F[i] = IF i = 0 THEN <<>> ELSE FcfsStep(F[i - 1], i)
    <2>1. PICK g : g = Upto(i) /\ FcfsUpto(g, i)
      BY <1>1
    <2>2. g[i] = IF i = 0 THEN <<>> ELSE FcfsStep(g[i - 1], i)
      BY <2>1 DEF FcfsUpto
    <2>3. ASSUME i # 0
          PROVE  g[i - 1] = F[i - 1]
      <3>1. PICK k \in Nat : k = i - 1 /\ k <= i
        BY <2>3
      <3>2. PICK h : h = Upto(k) /\ FcfsUpto(h, k)
        BY <1>1
      <3>3. g[k] = h[k]
        BY <2>1, <3>1, <3>2, FcfsUnique
      <3>4. F[k] = h[k]
        BY <3>2
      <3>5. QED
        BY <3>1, <3>3, <3>4
    <2>4. F[i] = g[i]
      BY <2>1
    <2>5. QED
      BY <2>2, <2>3, <2>4
  <1>3. Is(F)
    BY <1>2
  <1>4. Fcfs = CHOOSE f : Is(f)
    BY DEF Fcfs, FcfsStep
  <1>5. Is(Fcfs)
    <2> HIDE DEF Is, F
    <2> QED BY <1>3, <1>4
  <1>6. QED
    BY <1>5

-----------------------------------------------------------------------------
(* The end of the first i segments of g, and the rule.                     *)
EndAfter(g, i) == IF i = 0 THEN 0 ELSE g[i].endTime
FcfsStart(g, i) == Max({EndAfter(g, i - 1), arrivalTime(ordered[i])})
IsFcfs(g) ==
  \A i \in 1..Len(g) :
    g[i] = Segment(ordered[i], FcfsStart(g, i), FcfsStart(g, i) + burstTime(ordered[i]))

LEMMA FcfsChart ==
  ASSUME NEW S, NEW g \in Seq(S), IsFcfs(g)
  PROVE  g = Fcfs[Len(g)]
  <1> DEFINE N == {k \in Nat : k <= Len(g) /\ Fcfs[k] # SubSeq(g, 1, k)}
  <1>1. N = {}
    <2>1. SUFFICES ASSUME N # {} PROVE FALSE
      OBVIOUS
    <2>2. PICK k \in N : \A j \in N : k <= j
      <3>1. N \in SUBSET Nat
        OBVIOUS
      <3> HIDE DEF N
      <3>2. QED
        BY <2>1, <3>1, LeastNat
    <2>3. k \in Nat /\ k <= Len(g) /\ Fcfs[k] # SubSeq(g, 1, k) /\ Len(g) \in Nat
      OBVIOUS
    <2>4. k # 0
      <3>1. SubSeq(g, 1, 0) = <<>> /\ Fcfs[0] = <<>>
        BY FcfsIs
      <3>2. QED
        BY <2>3, <3>1
    <2>5. PICK m \in Nat : m = k - 1 /\ k = m + 1 /\ m <= Len(g) /\ k \in 1..Len(g)
      BY <2>3, <2>4
    <2>6. m \notin N
      BY <2>2, <2>3, <2>5
    <2>7. Fcfs[m] = SubSeq(g, 1, m)
      BY <2>5, <2>6
    <2> HIDE DEF N
    <2>8. PICK h : h = SubSeq(g, 1, m)
      OBVIOUS
    <2>9. /\ h \in Seq(S) /\ Len(h) = m /\ (m # 0 => h[m] = g[m])
          /\ (h = <<>> <=> m = 0)
      BY <2>3, <2>5, <2>8
    <2>10. SubSeq(g, 1, k) = Append(h, g[k])
      <3>1. /\ SubSeq(g, 1, k) \in Seq(S) /\ Len(SubSeq(g, 1, k)) = k
            /\ \A i \in 1..k : SubSeq(g, 1, k)[i] = g[i]
        BY <2>3, <2>5
      <3>2. g[k] \in S /\ Append(h, g[k]) \in Seq(S) /\ Len(Append(h, g[k])) = k
        BY <2>5, <2>9
      <3>3. \A i \in 1..k : Append(h, g[k])[i] = g[i]
        <4>1. ASSUME NEW i \in 1..k PROVE Append(h, g[k])[i] = g[i]
          <5>1. CASE i = k
            BY <2>5, <2>9, <3>2, <5>1
          <5>2. CASE i # k
            <6>1. i \in 1..m
              BY <2>5, <5>2
            <6>2. h[i] = g[i]
              BY <2>3, <2>5, <2>8, <6>1
            <6>3. Append(h, g[k])[i] = h[i]
              BY <2>9, <3>2, <6>1
            <6>4. QED
              BY <6>2, <6>3
          <5>3. QED
            BY <5>1, <5>2
        <4>2. QED
          BY <4>1
      <3>4. QED
        BY <3>1, <3>2, <3>3
    <2>11. Fcfs[k] = FcfsStep(h, k)
      BY <2>3, <2>4, <2>5, <2>7, <2>8, FcfsIs
    <2>12. FcfsStep(h, k) = Append(h, g[k])
      <3>1. (IF h = <<>> THEN 0 ELSE h[k - 1].endTime) = EndAfter(g, k - 1)
        BY <2>5, <2>9 DEF EndAfter
      <3>2. FcfsStep(h, k) =
              Append(h, Segment(ordered[k], FcfsStart(g, k), FcfsStart(g, k) + burstTime(ordered[k])))
        BY <3>1 DEF FcfsStep, FcfsStart
      <3>3. g[k] = Segment(ordered[k], FcfsStart(g, k), FcfsStart(g, k) + burstTime(ordered[k]))
        BY <2>5 DEF IsFcfs
      <3>4. QED
        BY <3>2, <3>3
    <2>13. QED
      BY <2>3, <2>10, <2>11, <2>12
  <1>2. Len(g) \in Nat /\ SubSeq(g, 1, Len(g)) = g
    OBVIOUS
  <1>3. Len(g) \notin N
    BY <1>1
  <1>4. QED
    BY <1>2, <1>3

-----------------------------------------------------------------------------
(* Round Robin with a quantum that no burst exceeds: the ready queue is    *)
(* the stretch of `ordered` between what has run and what has not arrived. *)
LargeQuantum == algorithm = "ROUND_ROBIN" /\ \A p \in Pid : burstTime(p) <= timeQuantum

InTurn(n) ==
  /\ IsFcfs(gantt)
  /\ n + Len(ready) = next - 1
  /\ \A x \in 1..Len(ready) : ready[x] = ordered[n + x]
  /\ \A j \in 1..Len(tasks) :
       remaining[ordered[j]] = IF j <= n THEN 0 ELSE burstTime(ordered[j])
  /\ clock = IF ready = <<>> THEN EndAfter(gantt, n)
             ELSE Max({EndAfter(gantt, n), arrivalTime(ready[1])})

LargeInv ==
  LargeQuantum => /\ pc = "running" => InTurn(Len(gantt))
                  /\ pc = "returned" => IsFcfs(gantt) /\ Len(gantt) = Len(ordered)

(* What admit leaves in the queue.                                         *)
LEMMA Queued ==
  ASSUME IInv, UNCHANGED request, ordered' \in [Pid -> Pid], Sorted(ordered'),
         NEW queue \in Seq(Pid), NEW back \in Seq(Pid), NEW t, Admit(queue, t, back)
  PROVE  \E k \in next..(Len(tasks) + 1) :
           /\ next' = k /\ k \in Nat /\ ready' \in Seq(Pid)
           /\ Splices(ready', queue, ordered', next, k, back)
           /\ k = next /\ k \in 1..Len(tasks) => arrivalTime(ordered'[k]) > t
  <1>1. /\ RequestOK /\ next \in 1..(Len(tasks) + 1)
        /\ Len(tasks) \in Nat
    BY ProcessesFit DEF IInv, TypeOK
  <1>2. ordered' \in Seq(Pid) /\ Len(ordered') = Len(tasks)
    BY <1>1, SortedHasAll
  <1>3. PICK k \in 1..(Len(tasks) + 1) :
          /\ Admits(k, t) /\ next' = k
          /\ ready' = queue \o SubSeq(ordered', next, k - 1) \o back
    BY <1>2 DEF Admit
  <1>4. /\ k \in next..(Len(ordered') + 1) /\ next \in 1..(Len(ordered') + 1)
        /\ k \in 1..Len(tasks) => arrivalTime(ordered'[k]) > t
    BY <1>1, <1>2, <1>3 DEF Admits
  <1>5. ready' \in Seq(Pid) /\ Splices(ready', queue, ordered', next, k, back)
    BY <1>2, <1>3, <1>4, Spliced
  <1>6. QED
    BY <1>1, <1>2, <1>3, <1>4, <1>5

-----------------------------------------------------------------------------
LEMMA BeginInTurn ==
  ASSUME IInv, IInv', Begin, LargeQuantum
  PROVE  InTurn(Len(gantt))'
  <1>1. /\ UNCHANGED request /\ RequestOK /\ Fresh /\ algorithm' = "ROUND_ROBIN"
        /\ UNCHANGED <<clock, gantt, remaining>> /\ pc' = "running" /\ process' = process
        /\ tasks' = tasks /\ Pid' = Pid
    BY DEF Begin, IInv, request, LargeQuantum, Pid
  <1>2. /\ ordered' \in [Pid -> Pid] /\ Sorted(ordered') /\ Admit(<<>>, clock, <<>>)
    BY DEF Begin, LargeQuantum
  <1>3. PICK e \in Seq(Pid) : e = <<>>
    <2>1. <<>> \in Seq(Pid)
      OBVIOUS
    <2>2. QED
      BY <2>1, Zenon
  <1>4. Len(e) = 0 /\ Admit(e, clock, e)
    BY <1>2, <1>3
  <1>5. PICK k \in next..(Len(tasks) + 1) :
           /\ next' = k /\ k \in Nat /\ ready' \in Seq(Pid)
           /\ Splices(ready', e, ordered', next, k, e)
    BY <1>1, <1>2, <1>4, Queued
  <1>6. /\ next = 1 /\ clock = 0 /\ gantt = <<>>
        /\ remaining = [p \in Pid |-> burstTime(p)]
    BY <1>1 DEF Fresh
  <1>7. /\ Len(ready') = k - 1
        /\ \A j \in 1..(k - 1) : ready'[j] = ordered'[j]
    <2>1. /\ Len(ready') = 0 + (k - 1) + 0
          /\ \A j \in 1..(k - 1) : ready'[0 + (j - 1) + 1] = ordered'[j]
      BY <1>4, <1>5, <1>6 DEF Splices
    <2>2. \A j \in 1..(k - 1) : 0 + (j - 1) + 1 = j
      OBVIOUS
    <2>3. QED
      BY <2>1, <2>2, <1>5
  <1>8. Len(gantt) = 0 /\ Len(gantt') = 0
    BY <1>1, <1>6
  <1>9. IsFcfs(gantt)'
    BY <1>8 DEF IsFcfs
  <1>10. (Len(gantt) + Len(ready) = next - 1)'
    BY <1>5, <1>7, <1>8
  <1>11. (\A x \in 1..Len(ready) : ready[x] = ordered[Len(gantt) + x])'
    BY <1>5, <1>7, <1>8
  <1>12. (\A j \in 1..Len(tasks) :
            remaining[ordered[j]] = IF j <= Len(gantt) THEN 0 ELSE burstTime(ordered[j]))'
    <2>1. \A j \in 1..Len(tasks) : ordered'[j] \in Pid
      BY <1>1, <1>2, ProcessesFit
    <2>2. \A p \in Pid : burstTime(p)' = burstTime(p) /\ remaining'[p] = burstTime(p)
      BY <1>1, <1>6 DEF burstTime
    <2>3. QED
      BY <1>1, <1>8, <2>1, <2>2 DEF burstTime
  <1>13. (clock = IF ready = <<>> THEN EndAfter(gantt, Len(gantt))
                  ELSE Max({EndAfter(gantt, Len(gantt)), arrivalTime(ready[1])}))'
    <2>1. EndAfter(gantt, Len(gantt))' = 0
      BY <1>8 DEF EndAfter
    <2>2. ASSUME ready' # <<>>
          PROVE  arrivalTime(ready[1])' = 0
      <3>1. 1 \in 1..Len(ready') /\ ready'[1] \in Pid
        BY <1>5, <2>2
      <3>2. Present(ready, remaining, clock)'
        BY <1>1 DEF IInv, QueueInv
      <3>3. arrivalTime(ready[1])' <= 0
        BY <1>1, <1>6, <3>1, <3>2 DEF Present
      <3>4. arrivalTime(ready[1])' \in Nat
        BY <1>1, <3>1, ProcessesFit DEF arrivalTime
      <3>5. QED
        BY <3>3, <3>4
    <2>3. Max({0, 0}) = 0
      BY OfTwo
    <2>4. QED
      <3>1. clock' = 0
        BY <1>1, <1>6
      <3>2. CASE ready' = <<>>
        BY <2>1, <3>1, <3>2
      <3>3. CASE ready' # <<>>
        <4>1. Max({EndAfter(gantt, Len(gantt))', arrivalTime(ready[1])'}) = 0
          BY <2>1, <2>2, <2>3, <3>3
        <4>2. QED
          BY <3>1, <3>3, <4>1
      <3>4. QED
        BY <3>2, <3>3
  <1>14. QED
    BY <1>9, <1>10, <1>11, <1>12, <1>13 DEF InTurn

LEMMA SameRule ==
  ASSUME NEW g, UNCHANGED <<process, ordered>>
  PROVE  /\ IsFcfs(g)' <=> IsFcfs(g)
         /\ \A i : FcfsStart(g, i)' = FcfsStart(g, i)
         /\ \A p : arrivalTime(p)' = arrivalTime(p) /\ burstTime(p)' = burstTime(p)
  BY DEF IsFcfs, FcfsStart, arrivalTime, burstTime

LEMMA IdleInTurn ==
  ASSUME IInv, IInv', IdleRoundRobin, LargeQuantum, InTurn(Len(gantt))
  PROVE  InTurn(Len(gantt))'
  <1>1. /\ UNCHANGED request /\ RequestOK /\ process' = process /\ ordered' = ordered
        /\ gantt' = gantt /\ remaining' = remaining /\ tasks' = tasks /\ Pid' = Pid
        /\ ready = <<>> /\ next \in DOMAIN ordered /\ next \in 1..(Len(tasks) + 1)
        /\ clock' = arrivalTime(ordered[next]) /\ Admit(<<>>, clock', <<>>)
        /\ ordered \in [Pid -> Pid] /\ Sorted(ordered) /\ QueueInv /\ clock \in Nat
        /\ pc' = "running" /\ algorithm' = "ROUND_ROBIN"
    BY DEF IdleRoundRobin, RoundRobin, request, IInv, TypeOK, Pid
  <1>2. /\ ordered \in Seq(Pid) /\ Len(ordered) = Len(tasks) /\ Len(tasks) \in Nat
    BY <1>1, SortedHasAll, ProcessesFit
  <1>3. PICK m \in 1..Len(tasks) : m = next /\ ordered[m] \in Pid
    BY <1>1, <1>2
  <1>4. clock' > clock /\ clock' \in Nat
    <2>1. arrivalTime(ordered[m]) > clock
      BY <1>1, <1>2, <1>3 DEF QueueInv, Absent
    <2>2. arrivalTime(ordered[m]) \in Nat
      BY <1>1, <1>3, ProcessesFit
    <2>3. QED
      BY <1>1, <1>3, <2>1, <2>2
  <1>5. PICK e \in Seq(Pid) : e = <<>>
    <2>1. <<>> \in Seq(Pid)
      OBVIOUS
    <2>2. QED
      BY <2>1, Zenon
  <1>6. PICK t : t = clock'
    OBVIOUS
  <1>7. Len(e) = 0 /\ Admit(e, t, e) /\ ordered' \in [Pid -> Pid] /\ Sorted(ordered')
    BY <1>1, <1>5, <1>6
  <1>8. PICK k \in next..(Len(tasks) + 1) :
           /\ next' = k /\ k \in Nat /\ ready' \in Seq(Pid)
           /\ Splices(ready', e, ordered', next, k, e)
           /\ k = next /\ k \in 1..Len(tasks) => arrivalTime(ordered'[k]) > t
    BY <1>1, <1>7, Queued
  <1>9. k # m /\ m <= k
    BY <1>1, <1>3, <1>4, <1>6, <1>8
  <1>10. /\ Len(ready') = k - m
         /\ \A j \in m..(k - 1) : ready'[(j - m) + 1] = ordered[j]
    <2>1. /\ Len(ready') = 0 + (k - m) + 0
          /\ \A j \in m..(k - 1) : ready'[0 + (j - m) + 1] = ordered'[j]
      BY <1>3, <1>7, <1>8 DEF Splices
    <2>2. \A j \in m..(k - 1) : 0 + (j - m) + 1 = (j - m) + 1
      BY <1>3
    <2>3. QED
      BY <1>1, <1>3, <1>8, <2>1, <2>2
  <1>11. PICK n \in Nat : n = Len(gantt) /\ n + 1 = m /\ Len(gantt') = n
    <2>1. Len(gantt) \in Nat /\ Len(ready) = 0
      BY <1>1, SegmentsFit DEF IInv
    <2>2. Len(gantt) + 0 = m - 1
      BY <1>3, <2>1 DEF InTurn
    <2>3. QED
      BY <1>1, <1>3, <2>1, <2>2
  <1>12. IsFcfs(gantt)'
    BY <1>1, SameRule DEF InTurn, IsFcfs, FcfsStart, arrivalTime, burstTime
  <1>13. (Len(gantt) + Len(ready) = next - 1)'
    <2>1. m \in Int /\ n + (k - m) = k - 1
      BY <1>3, <1>8, <1>11
    <2>2. Len(gantt') + Len(ready') = next' - 1
      BY <1>8, <1>10, <1>11, <2>1
    <2>3. QED
      BY <2>2
  <1>14. (\A x \in 1..Len(ready) : ready[x] = ordered[Len(gantt) + x])'
    <2>1. ASSUME NEW x \in 1..(k - m)
          PROVE  ready'[x] = ordered[n + x]
      <3>1. PICK j \in m..(k - 1) : j = n + x
        BY <1>3, <1>8, <1>11
      <3>2. (j - m) + 1 = x
        BY <1>3, <1>11, <3>1
      <3>3. QED
        BY <1>10, <3>1, <3>2
    <2>2. QED
      BY <1>1, <1>10, <1>11, <2>1
  <1>15. (\A j \in 1..Len(tasks) :
            remaining[ordered[j]] = IF j <= Len(gantt) THEN 0 ELSE burstTime(ordered[j]))'
    BY <1>1 DEF InTurn, burstTime
  <1>16. (clock = IF ready = <<>> THEN EndAfter(gantt, Len(gantt))
                  ELSE Max({EndAfter(gantt, Len(gantt)), arrivalTime(ready[1])}))'
    <2>1. EndAfter(gantt, Len(gantt))' = clock
      BY <1>1 DEF EndAfter, InTurn
    <2>2. ready' # <<>> /\ ready'[1] = ordered[m]
      <3>1. m \in m..(k - 1) /\ (m - m) + 1 = 1
        BY <1>3, <1>8, <1>9
      <3>2. Len(ready') # 0
        BY <1>3, <1>8, <1>9, <1>10
      <3>3. QED
        BY <1>8, <1>10, <3>1, <3>2
    <2>3. arrivalTime(ready[1])' = clock'
      BY <1>1, <1>3, <2>2 DEF arrivalTime
    <2>4. \A x, y \in Nat : y > x => Max({x, y}) = y
      BY OfTwo
    <2>5. PICK x \in Nat, y \in Nat : x = clock /\ y = clock'
      BY <1>1, <1>4
    <2>6. Max({x, y}) = y
      BY <1>4, <2>4, <2>5
    <2>7. QED
      BY <2>1, <2>2, <2>3, <2>5, <2>6
  <1>17. QED
    BY <1>12, <1>13, <1>14, <1>15, <1>16 DEF InTurn

-----------------------------------------------------------------------------
LEMMA SliceInTurn ==
  ASSUME IInv, IInv', RunSlice, LargeQuantum, InTurn(Len(gantt))
  PROVE  InTurn(Len(gantt))'
  <1>1. /\ UNCHANGED request /\ RequestOK /\ process' = process /\ ordered' = ordered
        /\ tasks' = tasks /\ Pid' = Pid /\ pc' = "running" /\ algorithm' = "ROUND_ROBIN"
        /\ ready # <<>> /\ ready \in Seq(Pid) /\ next \in 1..(Len(tasks) + 1)
        /\ ordered \in [Pid -> Pid] /\ Sorted(ordered) /\ QueueInv /\ clock \in Nat
        /\ remaining \in [Pid -> Nat] /\ TypeOK
    BY DEF RunSlice, RoundRobin, request, IInv, TypeOK, Pid
  <1>2. /\ ordered \in Seq(Pid) /\ Len(ordered) = Len(tasks) /\ Len(tasks) \in Nat
        /\ \A i, j \in 1..Len(tasks) : ordered[i] = ordered[j] => i = j
        /\ \A j \in 1..Len(tasks) : ordered[j] \in Pid
    BY <1>1, SortedHasAll, ProcessesFit
  <1>3. PICK n \in Nat, L \in Nat, m \in Nat :
          n = Len(gantt) /\ L = Len(ready) - 1 /\ m = next
    <2>1. Len(ready) - 1 \in Nat
      BY <1>1
    <2>2. next \in Nat
      BY <1>1, <1>2
    <2>3. Len(gantt) \in Nat
      BY <1>1, SegmentsFit
    <2>4. QED
      BY <2>1, <2>2, <2>3
  <1>4. Len(ready) = L + 1 /\ n + L + 2 = m /\ m <= Len(tasks) + 1
    <2>1. n + (L + 1) = m - 1 /\ Len(ready) = L + 1
      BY <1>1, <1>3 DEF InTurn
    <2>2. QED
      BY <1>1, <1>2, <1>3, <2>1
  <1>5. PICK p \in Pid : /\ p = Head(ready) /\ p = ready[1]
                         /\ p = ordered[n + 1] /\ n + 1 \in 1..Len(tasks)
    <2>1. Head(ready) = ready[1] /\ Head(ready) \in Pid /\ 1 \in 1..Len(ready)
      BY <1>1, <1>3, <1>4
    <2>2. ready[1] = ordered[n + 1]
      BY <1>3, <2>1 DEF InTurn
    <2>3. n + 1 \in 1..Len(tasks)
      BY <1>2, <1>3, <1>4
    <2>4. QED
      BY <2>1, <2>2, <2>3
  <1>6. PICK b \in Nat \ {0} : b = burstTime(p) /\ remaining[p] = b /\ b <= timeQuantum
    <2>1. remaining[ordered[n + 1]] = burstTime(ordered[n + 1])
      <3>1. ~(n + 1 <= n)
        BY <1>3
      <3>2. QED
        BY <1>3, <1>5, <3>1 DEF InTurn
    <2>2. burstTime(p) \in Nat \ {0} /\ burstTime(p) <= timeQuantum
      BY <1>1, ProcessesFit DEF LargeQuantum
    <2>3. QED
      BY <1>5, <2>1, <2>2
  <1>7. Slice(p) = b
    <2>1. timeQuantum \in Nat
      BY <1>1, RequestAssumption DEF QueueInv
    <2>2. QED
      BY <1>6, <2>1 DEF Slice
  <1>8. PICK t \in Nat : t = clock' /\ t = clock + b
    BY <1>1, <1>5, <1>6, <1>7, SliceFits
  <1>9. /\ remaining'[p] = 0
        /\ \A q \in Pid \ {p} : remaining'[q] = remaining[q]
    <2>1. remaining' = [remaining EXCEPT ![p] = @ - b]
      BY <1>5, <1>7, SliceFits
    <2>2. b - b = 0
      OBVIOUS
    <2>3. QED
      BY <1>1, <1>6, <2>1, <2>2
  <1>10. PICK queue \in Seq(Pid) : /\ queue = Tail(ready) /\ Len(queue) = L
                                   /\ \A y \in 1..L : queue[y] = ready[y + 1]
    <2>1. Tail(ready) \in Seq(Pid) /\ Len(Tail(ready)) = L
      BY <1>1, <1>4
    <2>2. \A y \in 1..L : Tail(ready)[y] = ready[y + 1]
      BY <1>1, <1>4
    <2>3. QED
      BY <2>1, <2>2
  <1>11. PICK e \in Seq(Pid) : e = <<>>
    <2>1. <<>> \in Seq(Pid)
      OBVIOUS
    <2>2. QED
      BY <2>1, Zenon
  <1>12. Len(e) = 0 /\ Admit(queue, t, e) /\ ordered' \in [Pid -> Pid] /\ Sorted(ordered')
    <2>1. Admit(queue, clock', IF remaining'[p] > 0 THEN <<p>> ELSE <<>>)
      BY <1>5, <1>10 DEF RunSlice, Requeue
    <2>2. (IF remaining'[p] > 0 THEN <<p>> ELSE <<>>) = e
      BY <1>9, <1>11
    <2>3. QED
      BY <1>1, <1>8, <1>11, <2>1, <2>2
  <1>13. PICK k \in next..(Len(tasks) + 1) :
           /\ next' = k /\ k \in Nat /\ ready' \in Seq(Pid)
           /\ Splices(ready', queue, ordered', next, k, e)
    BY <1>1, <1>12, Queued
  <1>14. /\ m <= k /\ Len(ready') = L + (k - m)
         /\ \A y \in 1..L : ready'[y] = ready[y + 1]
         /\ \A j \in m..(k - 1) : ready'[L + (j - m) + 1] = ordered[j]
    <2>1. /\ Len(ready') = L + (k - m) + 0
          /\ \A y \in 1..L : ready'[y] = queue[y]
          /\ \A j \in m..(k - 1) : ready'[L + (j - m) + 1] = ordered[j]
      BY <1>1, <1>3, <1>10, <1>12, <1>13 DEF Splices
    <2>2. m <= k /\ k \in Nat
      BY <1>2, <1>3, <1>13
    <2>3. L + (k - m) + 0 = L + (k - m)
      BY <2>2
    <2>4. QED
      BY <1>10, <2>1, <2>2, <2>3
  <1>15. /\ Len(gantt') = n + 1
         /\ \A i \in 1..n : gantt'[i] = gantt[i]
         /\ gantt'[n + 1] = Segment(p, clock, t)
    <2>1. Push(p, clock, t)
      BY <1>5, <1>8 DEF RunSlice, Push
    <2>2. QED
      BY <1>1, <1>3, <2>1, Drawn DEF Segment
  <1>16. gantt'[n + 1].endTime = t
    BY <1>15 DEF Segment
  <1>17. FcfsStart(gantt, n + 1) = clock
    <2>1. (n + 1) - 1 = n
      BY <1>3
    <2>2. clock = Max({EndAfter(gantt, n), arrivalTime(p)})
      BY <1>1, <1>3, <1>5 DEF InTurn
    <2>3. QED
      BY <1>5, <2>1, <2>2 DEF FcfsStart
  <1>18. IsFcfs(gantt)'
    <2>1. \A i \in 1..(n + 1) : FcfsStart(gantt, i)' = FcfsStart(gantt, i)
      <3>1. ASSUME NEW i \in 1..(n + 1)
            PROVE  FcfsStart(gantt, i)' = FcfsStart(gantt, i)
        <4>1. i - 1 \in 1..n \/ i - 1 = 0
          BY <1>3
        <4>2. EndAfter(gantt', i - 1) = EndAfter(gantt, i - 1)
          BY <1>15, <4>1 DEF EndAfter
        <4>3. QED
          BY <1>1, <4>2 DEF FcfsStart, EndAfter, arrivalTime
      <3>2. QED
        BY <3>1
    <2>2. ASSUME NEW i \in 1..(n + 1)
          PROVE  gantt'[i] = Segment(ordered[i], FcfsStart(gantt, i),
                                     FcfsStart(gantt, i) + burstTime(ordered[i]))
      <3>1. CASE i \in 1..n
        BY <1>3, <1>15, <3>1 DEF InTurn, IsFcfs
      <3>2. CASE i = n + 1
        BY <1>5, <1>6, <1>8, <1>15, <1>17, <3>2
      <3>3. QED
        BY <1>3, <3>1, <3>2
    <2>3. \A i : burstTime(ordered[i])' = burstTime(ordered[i])
      BY <1>1 DEF burstTime
    <2>4. \A i \in 1..(n + 1) : (gantt[i] = Segment(ordered[i], FcfsStart(gantt, i),
                                     FcfsStart(gantt, i) + burstTime(ordered[i])))'
      BY <1>1, <2>1, <2>2, <2>3 DEF Segment
    <2>5. QED
      BY <1>15, <2>4 DEF IsFcfs
  <1>19. (Len(gantt) + Len(ready) = next - 1)'
    <2>0. k \in Nat
      BY <1>13
    <2>1. (n + 1) + (L + (k - m)) = k - 1
      BY <1>4, <2>0
    <2>2. Len(gantt') + Len(ready') = next' - 1
      BY <1>13, <1>14, <1>15, <2>1
    <2>3. QED
      BY <2>2
  <1>20. (\A x \in 1..Len(ready) : ready[x] = ordered[Len(gantt) + x])'
    <2>1. ASSUME NEW x \in 1..(L + (k - m))
          PROVE  ready'[x] = ordered[(n + 1) + x]
      <3>1. CASE x \in 1..L
        <4>1. x + 1 \in 1..Len(ready) /\ n + (x + 1) = (n + 1) + x
          BY <1>3, <1>4, <3>1
        <4>2. ready[x + 1] = ordered[n + (x + 1)]
          BY <1>3, <4>1 DEF InTurn
        <4>3. QED
          BY <1>14, <3>1, <4>1, <4>2
      <3>2. CASE x \notin 1..L
        <4>1. PICK j \in m..(k - 1) : j = (n + 1) + x
          BY <1>3, <1>4, <1>13, <3>2
        <4>2. L + (j - m) + 1 = x
          <5>1. j \in Int /\ x \in Int
            BY <1>3, <1>13
          <5>2. m = n + L + 2 /\ j = (n + 1) + x
            BY <1>4, <4>1
          <5>3. QED
            BY <5>1, <5>2
        <4>3. QED
          BY <1>14, <4>1, <4>2
      <3>3. QED
        BY <3>1, <3>2
    <2>2. QED
      BY <1>1, <1>14, <1>15, <2>1
  <1>21. (\A j \in 1..Len(tasks) :
            remaining[ordered[j]] = IF j <= Len(gantt) THEN 0 ELSE burstTime(ordered[j]))'
    <2>1. ASSUME NEW j \in 1..Len(tasks)
          PROVE  remaining'[ordered[j]] = IF j <= n + 1 THEN 0 ELSE burstTime(ordered[j])
      <3>1. CASE j = n + 1
        BY <1>5, <1>9, <3>1
      <3>2. CASE j # n + 1
        <4>1. ordered[j] # p /\ ordered[j] \in Pid
          BY <1>2, <1>5, <3>2
        <4>2. remaining[ordered[j]] = IF j <= n THEN 0 ELSE burstTime(ordered[j])
          BY <1>3 DEF InTurn
        <4>3. j <= n <=> j <= n + 1
          BY <1>3, <3>2
        <4>4. QED
          BY <1>9, <4>1, <4>2, <4>3
      <3>3. QED
        BY <3>1, <3>2
    <2>2. \A j : burstTime(ordered[j])' = burstTime(ordered[j])
      BY <1>1 DEF burstTime
    <2>3. QED
      BY <1>1, <1>15, <2>1, <2>2
  <1>22. (clock = IF ready = <<>> THEN EndAfter(gantt, Len(gantt))
                  ELSE Max({EndAfter(gantt, Len(gantt)), arrivalTime(ready[1])}))'
    <2>1. EndAfter(gantt, Len(gantt))' = t
      BY <1>3, <1>15, <1>16 DEF EndAfter
    <2>2. ASSUME ready' # <<>>
          PROVE  Max({t, arrivalTime(ready[1])'}) = t
      <3>1. 1 \in 1..Len(ready') /\ ready'[1] \in Pid
        BY <1>13, <2>2
      <3>2. Present(ready, remaining, clock)'
        BY <1>1 DEF IInv, QueueInv
      <3>3. arrivalTime(ready[1])' <= t
        BY <1>8, <3>1, <3>2 DEF Present
      <3>4. PICK a \in Nat : a = arrivalTime(ready[1])'
        BY <1>1, <3>1, ProcessesFit DEF arrivalTime
      <3>5. Max({t, a}) = IF t >= a THEN t ELSE a
        BY OfTwo
      <3>6. QED
        BY <3>3, <3>4, <3>5
    <2>3. CASE ready' = <<>>
      BY <1>8, <2>1, <2>3
    <2>4. CASE ready' # <<>>
      BY <1>8, <2>1, <2>2, <2>4
    <2>5. QED
      BY <2>3, <2>4
  <1>23. QED
    BY <1>18, <1>19, <1>20, <1>21, <1>22 DEF InTurn

LEMMA LargeInvariant == Spec => []LargeInv
  <1>1. Init => LargeInv
    BY DEF Init, LargeInv
  <1>2. IInv /\ IInv' /\ LargeInv /\ [Next]_vars => LargeInv'
    <2> SUFFICES ASSUME IInv, IInv', LargeInv, [Next]_vars, LargeQuantum' PROVE LargeInv'
      BY DEF LargeInv
    <2>1. UNCHANGED request
      BY DEF Next, Refuse, Begin, RunFcfs, IdleNonPreemptive, RunNonPreemptive,
             IdleRoundRobin, RunSlice, Return, vars
    <2>2. LargeQuantum /\ algorithm = "ROUND_ROBIN" /\ algorithm' = algorithm
          /\ process' = process
      BY <2>1 DEF LargeQuantum, request, Pid, burstTime
    <2>3. CASE UNCHANGED vars
      <3>1. IsFcfs(gantt) => IsFcfs(gantt)'
        BY <2>2, <2>3 DEF vars, IsFcfs, FcfsStart, EndAfter, arrivalTime, burstTime
      <3>2. InTurn(Len(gantt)) => InTurn(Len(gantt))'
        BY <2>1, <2>2, <2>3, <3>1 DEF vars, request, InTurn, arrivalTime, burstTime, EndAfter
      <3>3. QED
        BY <2>2, <2>3, <3>1, <3>2 DEF LargeInv, vars
    <2>4. CASE Refuse
      BY <2>4 DEF Refuse, LargeInv
    <2>5. CASE Begin
      <3>1. InTurn(Len(gantt))'
        BY <2>2, <2>5, BeginInTurn
      <3>2. QED
        BY <2>5, <3>1 DEF LargeInv, Begin
    <2>6. CASE IdleRoundRobin
      <3>1. InTurn(Len(gantt)) /\ pc' = "running"
        BY <2>2, <2>6 DEF LargeInv, IdleRoundRobin, RoundRobin
      <3>2. InTurn(Len(gantt))'
        BY <2>2, <2>6, <3>1, IdleInTurn
      <3>3. QED
        BY <3>1, <3>2 DEF LargeInv
    <2>7. CASE RunSlice
      <3>1. InTurn(Len(gantt)) /\ pc' = "running"
        BY <2>2, <2>7 DEF LargeInv, RunSlice, RoundRobin
      <3>2. InTurn(Len(gantt))'
        BY <2>2, <2>7, <3>1, SliceInTurn
      <3>3. QED
        BY <3>1, <3>2 DEF LargeInv
    <2>8. CASE Return
      <3>1. InTurn(Len(gantt)) /\ pc' = "returned" /\ gantt' = gantt /\ ordered' = ordered
        BY <2>2, <2>8 DEF LargeInv, Return
      <3>2. ready = <<>> /\ next > Len(ordered)
        BY <2>2, <2>8 DEF Return, LoopEnds
      <3>3. /\ Len(gantt) \in Nat /\ Len(gantt) + Len(ready) = next - 1
            /\ next \in 1..(Len(tasks) + 1)
        BY <3>1, SegmentsFit DEF InTurn, IInv, TypeOK
      <3>4. Len(ordered) = Len(tasks) /\ Len(tasks) \in Nat
        <4>1. ordered \in [Pid -> Pid] /\ Sorted(ordered) /\ RequestOK
          BY <2>8 DEF Return, IInv
        <4>2. QED
          BY <4>1, SortedHasAll, ProcessesFit
      <3>5. Len(gantt) = Len(ordered)
        <4>1. Len(ready) = 0
          BY <3>2
        <4>2. QED
          BY <3>2, <3>3, <3>4, <4>1
      <3>6. IsFcfs(gantt)'
        BY <2>2, <3>1 DEF InTurn, IsFcfs, FcfsStart, EndAfter, arrivalTime, burstTime
      <3>7. QED
        BY <3>1, <3>5, <3>6 DEF LargeInv
    <2>9. CASE RunFcfs \/ IdleNonPreemptive \/ RunNonPreemptive
      BY <2>2, <2>9 DEF RunFcfs, IdleNonPreemptive, RunNonPreemptive, NonPreemptive
    <2>10. QED
      BY <2>3, <2>4, <2>5, <2>6, <2>7, <2>8, <2>9 DEF Next
  <1>3. QED
    BY <1>1, <1>2, Invariant, PTL DEF Spec

(* With a quantum that no burst exceeds, Round Robin draws the chart of    *)
(* first come, first served.                                               *)
THEOREM LargeQuantumServesInTurn == Spec => []LargeQuantumIsFcfs
  <1>1. IInv /\ LargeInv => LargeQuantumIsFcfs
    <2> SUFFICES ASSUME IInv, LargeInv, Returned({"ROUND_ROBIN"}),
                        \A p \in Pid : burstTime(p) <= timeQuantum
                 PROVE  gantt = Fcfs[Len(ordered)]
      BY DEF LargeQuantumIsFcfs
    <2>1. pc = "returned" /\ algorithm = "ROUND_ROBIN"
      BY DEF Returned
    <2>2. IsFcfs(gantt) /\ Len(gantt) = Len(ordered)
      BY <2>1 DEF LargeInv, LargeQuantum
    <2>3. PICK S : gantt \in Seq(S)
      BY DEF IInv, TypeOK
    <2>4. gantt = Fcfs[Len(gantt)]
      BY <2>2, <2>3, FcfsChart
    <2>5. QED
      BY <2>2, <2>4
  <1>2. QED
    BY <1>1, Invariant, LargeInvariant, PTL

-----------------------------------------------------------------------------
(* Shortest job first, when all arrive at once.  WaitAmong(s, I) is the    *)
(* total waiting time of the processes at the places I of the order s, if  *)
(* they are all there is.                                                  *)
AllAtOnce == \A p \in Pid : arrivalTime(p) = 0
Before(I, i) == {k \in I : k < i}
WaitAt(s, I) == [i \in I |-> BurstOf({s[j] : j \in Before(I, i)})]
WaitAmong(s, I) == TotalOf(WaitAt(s, I), I)

LEMMA BurstsFit ==
  ASSUME RequestOK, NEW s \in Orders, NEW J \in SUBSET Pid
  PROVE  /\ IsFiniteSet(J)
         /\ BurstOf({s[j] : j \in J}) \in Nat
         /\ BurstOf({s[j] : j \in J}) = TotalOf([j \in J |-> burstTime(s[j])], J)
         /\ \A k \in J : BurstOf({s[j] : j \in J}) =
                           burstTime(s[k]) + BurstOf({s[j] : j \in J \ {k}})
  <1> DEFINE b == [p \in Pid |-> burstTime(p)]
  <1>1. IsFiniteSet(Pid) /\ \A p \in Pid : b[p] = burstTime(p) /\ b[p] \in Nat
    BY ProcessesFit, FS_Interval
  <1>2. /\ s \in [Pid -> Pid] /\ \A i, j \in Pid : s[i] = s[j] => i = j
    BY DEF Orders
  <1>3. ASSUME NEW K \in SUBSET Pid
        PROVE  /\ IsFiniteSet({s[j] : j \in K}) /\ IsFiniteSet(K)
               /\ \A p \in {s[j] : j \in K} : b[p] \in Nat
    <2>1. {s[j] : j \in K} \in SUBSET Pid
      BY <1>2
    <2>2. QED
      BY <1>1, <2>1, FS_Subset
  <1>4. \A K : BurstOf({s[j] : j \in K}) = TotalOf(b, {s[j] : j \in K})
    BY DEF BurstOf
  <1>5. BurstOf({s[j] : j \in J}) \in Nat
    <2> DEFINE T == {s[j] : j \in J}
    <2>1. IsFiniteSet(T) /\ \A p \in T : b[p] \in Nat
      BY <1>3
    <2> HIDE DEF T, b
    <2>2. TotalOf(b, T) \in Nat
      BY <2>1, TotalNat
    <2>3. QED
      BY <1>4, <2>2 DEF T
  <1>6. BurstOf({s[j] : j \in J}) = TotalOf([j \in J |-> burstTime(s[j])], J)
    <2>1. /\ IsFiniteSet(J) /\ \A i, j \in J : s[i] = s[j] => i = j
          /\ \A j \in J : b[s[j]] \in Int /\ b[s[j]] = burstTime(s[j])
      <3>1. IsFiniteSet(J)
        BY <1>3
      <3>2. \A j \in J : j \in Pid /\ s[j] \in Pid
        BY <1>2
      <3>3. \A j \in J : b[s[j]] \in Int /\ b[s[j]] = burstTime(s[j])
        BY <1>1, <3>2
      <3>4. QED
        BY <1>2, <3>1, <3>2, <3>3
    <2> HIDE DEF b
    <2>2. TotalOf(b, {s[j] : j \in J}) = TotalOf([j \in J |-> b[s[j]]], J)
      BY <2>1, TotalListed
    <2>3. [j \in J |-> b[s[j]]] = [j \in J |-> burstTime(s[j])]
      BY <2>1
    <2>4. QED
      BY <1>4, <2>2, <2>3
  <1>7. ASSUME NEW k \in J
        PROVE  BurstOf({s[j] : j \in J}) = burstTime(s[k]) + BurstOf({s[j] : j \in J \ {k}})
    <2> DEFINE T == {s[j] : j \in J}
               U == {s[j] : j \in J \ {k}}
    <2>1. /\ IsFiniteSet(T) /\ \A p \in T : b[p] \in Int
          /\ s[k] \in T /\ U = T \ {s[k]} /\ b[s[k]] = burstTime(s[k])
      BY <1>1, <1>2, <1>3
    <2>2. BurstOf(T) = TotalOf(b, T) /\ BurstOf(U) = TotalOf(b, U)
      BY <1>4
    <2> HIDE DEF T, U, b
    <2>3. TotalOf(b, T) = b[s[k]] + TotalOf(b, T \ {s[k]})
      BY <2>1, TotalTakes
    <2>4. BurstOf(T) = burstTime(s[k]) + BurstOf(U)
      BY <2>1, <2>2, <2>3
    <2>5. QED
      BY <2>4 DEF T, U
  <1>8. QED
    BY <1>3, <1>5, <1>6, <1>7

LEMMA WaitsFit ==
  ASSUME RequestOK, NEW s \in Orders, NEW I \in SUBSET Pid
  PROVE  /\ IsFiniteSet(I) /\ Cardinality(I) \in Nat
         /\ \A i \in I : WaitAt(s, I)[i] \in Nat
         /\ WaitAmong(s, I) \in Nat
  <1>1. IsFiniteSet(I) /\ Cardinality(I) \in Nat
    BY BurstsFit, FS_CardinalityType
  <1>2. ASSUME NEW i \in I
        PROVE  WaitAt(s, I)[i] \in Nat
    <2>1. Before(I, i) \in SUBSET Pid
      BY DEF Before
    <2>2. QED
      BY <2>1, BurstsFit DEF WaitAt
  <1>3. WaitAmong(s, I) \in Nat
    BY <1>1, <1>2, TotalNat DEF WaitAmong
  <1>4. QED
    BY <1>1, <1>2, <1>3

(* To take the shortest of them out and run it first costs nothing: the    *)
(* others then wait for it, and no longer for as much before it.           *)
LEMMA ShortestTaken ==
  ASSUME RequestOK, NEW s \in Orders, NEW I \in SUBSET Pid, NEW k \in I,
         \A i \in I : burstTime(s[k]) <= burstTime(s[i])
  PROVE  WaitAmong(s, I \ {k}) + Cardinality(I \ {k}) * burstTime(s[k]) <= WaitAmong(s, I)
  <1> DEFINE R == I \ {k}
             F == WaitAt(s, I)
             G == WaitAt(s, R)
             H == [i \in R |-> IF i < k THEN burstTime(s[i]) ELSE 0]
  <1>1. /\ IsFiniteSet(I) /\ IsFiniteSet(R) /\ R \in SUBSET Pid
        /\ \A i \in I : F[i] \in Nat
        /\ \A i \in R : G[i] \in Nat
        /\ I \subseteq Pid /\ \A i \in I : i \in Int
        /\ s \in [Pid -> Pid]
    <2>1. R \in SUBSET Pid
      OBVIOUS
    <2>2. \A i \in Pid : i \in Int
      BY ProcessesFit
    <2>3. QED
      BY <2>1, <2>2, WaitsFit DEF Orders
  <1>2. PICK b \in Nat : b = burstTime(s[k])
    BY <1>1, ProcessesFit
  <1>3. \A i \in R : H[i] \in Nat
    BY <1>1, ProcessesFit
  <1>4. ASSUME NEW i \in R
        PROVE  F[i] + H[i] >= G[i] + b
    <2>0. F[i] = BurstOf({s[j] : j \in Before(I, i)}) /\ G[i] = BurstOf({s[j] : j \in Before(R, i)})
      BY DEF WaitAt
    <2>1. CASE i < k
      <3>1. Before(I, i) = Before(R, i)
        BY <1>1, <2>1 DEF Before
      <3>2. H[i] = burstTime(s[i]) /\ burstTime(s[i]) \in Nat
        BY <1>1, <2>1, ProcessesFit
      <3>3. b <= burstTime(s[i])
        BY <1>2
      <3>4. F[i] = G[i]
        BY <2>0, <3>1
      <3> HIDE DEF F, G, H
      <3>5. QED
        BY <1>1, <3>2, <3>3, <3>4
    <2>2. CASE i > k
      <3>1. k \in Before(I, i) /\ Before(R, i) = Before(I, i) \ {k} /\ Before(I, i) \in SUBSET Pid
        BY <1>1, <2>2 DEF Before
      <3>2. H[i] = 0
        BY <1>1, <2>2
      <3>3. F[i] = b + G[i]
        <4>1. PICK J \in SUBSET Pid : J = Before(I, i)
          BY <3>1
        <4>2. BurstOf({s[j] : j \in J}) = burstTime(s[k]) + BurstOf({s[j] : j \in J \ {k}})
          BY <3>1, <4>1, BurstsFit
        <4>3. QED
          BY <1>2, <2>0, <3>1, <4>1, <4>2
      <3> HIDE DEF F, G, H
      <3>4. QED
        BY <1>1, <3>2, <3>3
    <2>3. i < k \/ i > k
      BY <1>1
    <2>4. QED
      BY <2>1, <2>2, <2>3
  <1>5. TotalOf(H, R) = F[k]
    <2> DEFINE T == Before(I, k)
               bs == [j \in T |-> burstTime(s[j])]
    <2>1. R \cap T = T /\ T \in SUBSET Pid
      BY <1>1 DEF Before
    <2>2. /\ F[k] = BurstOf({s[j] : j \in T})
          /\ BurstOf({s[j] : j \in T}) = TotalOf(bs, T) /\ IsFiniteSet(T)
      BY <2>1, BurstsFit DEF WaitAt
    <2>3. \A j \in T : H[j] = bs[j] /\ bs[j] \in Int
      BY <1>1, <1>3, <2>1 DEF Before
    <2>4. \A j \in R \ T : H[j] = 0
      BY <1>1 DEF Before
    <2>5. IsFiniteSet(R \ T)
      BY <1>1, FS_Difference
    <2> HIDE DEF F, G, H, T, bs, R
    <2>6. TotalOf(bs, T) = TotalOf(H, T)
      BY <2>2, <2>3, TotalSame
    <2>7. TotalOf(H, R \ T) = 0
      BY <2>4, <2>5, TotalZero
    <2>8. TotalOf(H, R) = TotalOf(H, R \cap T) + TotalOf(H, R \ T)
      <3>1. IsFiniteSet(R) /\ \A i \in R : H[i] \in Int
        BY <1>1, <1>3
      <3>2. QED
        BY <3>1, TotalSplits
    <2>9. F[k] \in Nat
      BY <1>1
    <2>10. QED
      BY <2>1, <2>2, <2>6, <2>7, <2>8, <2>9
  <1>6. TotalOf(F, I) = F[k] + TotalOf(F, R)
    <2>1. \A i \in I : F[i] \in Int
      BY <1>1
    <2> HIDE DEF F, G, H
    <2>2. QED
      BY <1>1, <2>1, TotalTakes
  <1>7. TotalOf(F, R) + TotalOf(H, R) >= TotalOf(G, R) + Cardinality(R) * b
    <2>1. \A i \in R : /\ F[i] \in Int /\ H[i] \in Int /\ G[i] \in Int
                       /\ F[i] + H[i] >= G[i] + b
      <3>1. \A i \in R : i \in I
        OBVIOUS
      <3> HIDE DEF F, G, H, R
      <3>2. \A i \in R : F[i] \in Int /\ H[i] \in Int /\ G[i] \in Int
        BY <1>1, <1>3, <3>1
      <3>3. QED
        BY <1>4, <3>2
    <2> HIDE DEF F, G, H, R
    <2>2. QED
      BY <1>1, <2>1, TotalOutweighs
  <1>8. WaitAmong(s, I) = TotalOf(F, I) /\ WaitAmong(s, R) = TotalOf(G, R)
    BY DEF WaitAmong
  <1>9. PICK x \in Int, y \in Int, z \in Int, c \in Nat :
          x = TotalOf(F, R) /\ y = TotalOf(G, R) /\ z = F[k] /\ c = Cardinality(R)
    <2>1. TotalOf(F, R) \in Nat /\ TotalOf(G, R) \in Nat
      <3>1. \A i \in R : F[i] \in Nat /\ G[i] \in Nat
        BY <1>1
      <3> HIDE DEF F, G, H, R
      <3>2. QED
        BY <1>1, <3>1, TotalNat
    <2>2. Cardinality(R) \in Nat /\ F[k] \in Nat
      BY <1>1, FS_CardinalityType
    <2>3. QED
      BY <2>1, <2>2
  <1> HIDE DEF F, G, H, R
  <1>10. x + z >= y + c * b
    BY <1>5, <1>7, <1>9
  <1>11. WaitAmong(s, I) = z + x /\ WaitAmong(s, R) = y
    BY <1>6, <1>8, <1>9
  <1>12. WaitAmong(s, R) + Cardinality(R) * burstTime(s[k]) <= WaitAmong(s, I)
    <2>1. PICK v \in Int : v = c * b
      BY <1>9
    <2>2. y + v <= z + x
      BY <1>10, <2>1
    <2>3. QED
      BY <1>2, <1>9, <1>11, <2>1, <2>2
  <1>13. QED
    BY <1>12 DEF R

-----------------------------------------------------------------------------
(* What has been waited so far, and what is still waited at least, is no   *)
(* more than in any order s.                                               *)
ToRun(s) == {i \in Pid : s[i] \in pending}
WaitToRun(s) == WaitAmong(s, ToRun(s))
WaitOfAll(s) == WaitAmong(s, Pid)
StartTimes == [i \in DOMAIN gantt |-> gantt[i].startTime]

Ahead(s) ==
  TotalOf(StartTimes, DOMAIN gantt) + Cardinality(ToRun(s)) * clock + WaitToRun(s)
    <= WaitOfAll(s)

Whole == \A i \in 1..Len(gantt) :
           gantt[i].endTime = gantt[i].startTime + burstTime(gantt[i].pid)

ShortInv ==
  algorithm = "SJF" => /\ OnceEach /\ Whole
                       /\ pc = "returned" => pending = {}
                       /\ AllAtOnce => \A s \in Orders : Ahead(s)

LEMMA SameWaits ==
  ASSUME process' = process
  PROVE  /\ Pid' = Pid /\ Orders' = Orders /\ AllAtOnce' = AllAtOnce
         /\ \A s : WaitOfAll(s)' = WaitOfAll(s)
         /\ \A s, I : I = ToRun(s)' => WaitToRun(s)' = WaitAmong(s, I)
  <1>1. Pid' = Pid /\ Orders' = Orders /\ \A p : burstTime(p)' = burstTime(p)
    BY DEF Pid, Orders, burstTime
  <1>2. AllAtOnce' = AllAtOnce
    BY DEF AllAtOnce, arrivalTime, Pid
  <1>3. \A s : WaitOfAll(s)' = WaitOfAll(s)
    BY DEF WaitOfAll, WaitAmong, WaitAt, BurstOf, burstTime, Pid
  <1>4. ASSUME NEW s, NEW I, I = ToRun(s)'
        PROVE  WaitToRun(s)' = WaitAmong(s, I)
    BY <1>1, <1>4 DEF WaitToRun, WaitAmong, WaitAt, BurstOf, burstTime, Pid, Before
  <1>5. QED
    BY <1>1, <1>2, <1>3, <1>4

(* An order places every process.                                          *)
LEMMA OrderHasAll ==
  ASSUME RequestOK, NEW s \in Orders, NEW p \in Pid
  PROVE  \E k \in Pid : s[k] = p
  <1>1. IsFiniteSet(Pid)
    BY ProcessesFit, FS_Interval
  <1>2. s \in Injection(Pid, Pid)
    BY DEF Orders, Injection, IsInjective
  <1>3. s \in Surjection(Pid, Pid)
    BY <1>1, <1>2, FS_Injection
  <1>4. QED
    BY <1>3 DEF Surjection

-----------------------------------------------------------------------------
LEMMA RunKeepsAhead ==
  ASSUME IInv, ShortInv, RunNonPreemptive, algorithm = "SJF", AllAtOnce,
         NEW s \in Orders
  PROVE  Ahead(s)'
  <1>1. /\ process' = process /\ Pid' = Pid /\ RequestOK /\ TypeOK
        /\ clock \in Nat /\ pending \subseteq Pid
    BY DEF RunNonPreemptive, IInv, TypeOK, request, Pid
  <1>2. PICK p \in Arrived : /\ \A q \in Arrived : ~isBetter(q, p)
                             /\ clock' = clock + burstTime(p)
                             /\ Push(p, clock, clock') /\ pending' = pending \ {p}
    BY DEF RunNonPreemptive
  <1>3. p \in pending /\ p \in Pid /\ Arrived = pending
    BY <1>1, <1>2 DEF Arrived, AllAtOnce
  <1>4. \A q \in pending : burstTime(p) <= burstTime(q)
    BY <1>1, <1>2, <1>3, ProcessesFit DEF isBetter, Shorter
  <1>5. PICK k \in Pid : s[k] = p
    BY <1>1, <1>3, OrderHasAll
  <1>6. PICK I \in SUBSET Pid : I = ToRun(s)
    BY DEF ToRun
  <1>7. k \in I /\ \A i \in I : burstTime(s[k]) <= burstTime(s[i])
    BY <1>3, <1>4, <1>5, <1>6 DEF ToRun
  <1>8. ToRun(s)' = I \ {k}
    BY <1>1, <1>2, <1>5, <1>6 DEF ToRun, Orders
  <1> PICK J : J = I \ {k}
    OBVIOUS
  <1>9. WaitAmong(s, J) + Cardinality(J) * burstTime(s[k]) <= WaitAmong(s, I)
    BY <1>1, <1>7, ShortestTaken
  <1>10. /\ Cardinality(I) = Cardinality(J) + 1 /\ Cardinality(J) \in Nat
         /\ WaitAmong(s, I) \in Nat /\ WaitAmong(s, J) \in Nat
    <2>1. J \in SUBSET Pid
      OBVIOUS
    <2>2. /\ IsFiniteSet(I) /\ Cardinality(I) \in Nat /\ WaitAmong(s, I) \in Nat
      BY <1>1, WaitsFit
    <2>3. Cardinality(J) \in Nat /\ WaitAmong(s, J) \in Nat
      BY <1>1, <2>1, WaitsFit
    <2>4. Cardinality(J) = Cardinality(I) - 1
      BY <1>7, <2>2, FS_RemoveElement
    <2>5. QED
      BY <2>2, <2>3, <2>4
  <1>11. PICK n \in Nat : n = Len(gantt) /\ DOMAIN gantt = 1..n
    BY <1>1, SegmentsFit
  <1>12. /\ Len(gantt') = n + 1 /\ DOMAIN gantt' = 1..(n + 1)
         /\ \A i \in 1..n : gantt'[i] = gantt[i] /\ gantt[i].startTime \in Nat
         /\ gantt'[n + 1].startTime = clock
    <2>1. /\ Len(gantt') = n + 1
          /\ \A i \in 1..n : gantt'[i] = gantt[i]
          /\ gantt'[n + 1] = [pid |-> p, startTime |-> clock, endTime |-> clock']
      BY <1>1, <1>2, <1>11, Drawn
    <2>2. gantt'[n + 1].startTime = clock
      BY <2>1
    <2>3. DOMAIN gantt' = 1..Len(gantt')
      BY <1>2, <1>1 DEF Push, TypeOK
    <2>4. \A i \in 1..n : gantt[i].startTime \in Nat
      BY <1>1, <1>11, SegmentsFit
    <2>5. QED
      BY <2>1, <2>2, <2>3, <2>4
  <1>13. PICK x \in Nat : /\ x = TotalOf(StartTimes, DOMAIN gantt)
                          /\ TotalOf(StartTimes, DOMAIN gantt)' = x + clock
    <2> PICK ss : ss = StartTimes'
      OBVIOUS
    <2> PICK D : D = 1..n
      OBVIOUS
    <2>1. IsFiniteSet(D) /\ n + 1 \notin D /\ 1..(n + 1) = D \cup {n + 1}
      <3>1. IsFiniteSet(1..n)
        BY FS_Interval
      <3>2. n + 1 \notin 1..n /\ 1..(n + 1) = (1..n) \cup {n + 1}
        OBVIOUS
      <3>3. QED
        BY <3>1, <3>2
    <2>2. \A i \in D : StartTimes[i] \in Nat /\ ss[i] = StartTimes[i]
      BY <1>11, <1>12 DEF StartTimes
    <2>3. ss[n + 1] = clock
      BY <1>12 DEF StartTimes
    <2>4. TotalOf(StartTimes, D) \in Nat
      BY <2>1, <2>2, TotalNat
    <2>5. TotalOf(StartTimes, D) = TotalOf(ss, D)
      BY <2>1, <2>2, TotalSame
    <2>6. TotalOf(ss, D \cup {n + 1}) = ss[n + 1] + TotalOf(ss, D)
      <3>1. \A i \in D : ss[i] \in Int
        BY <2>2
      <3>2. ss[n + 1] \in Int
        BY <1>1, <2>3
      <3>3. QED
        BY <2>1, <3>1, <3>2, TotalAdds
    <2>7. TotalOf(StartTimes, DOMAIN gantt)' = TotalOf(ss, D \cup {n + 1})
      BY <1>12, <2>1
    <2>8. QED
      BY <1>1, <1>11, <2>3, <2>4, <2>5, <2>6, <2>7
  <1>14. Ahead(s)
    BY DEF ShortInv
  <1>15. PICK c \in Nat, b \in Nat, t \in Nat, wi \in Nat, wj \in Nat :
           /\ c = Cardinality(J) /\ b = burstTime(p) /\ t = clock
           /\ wi = WaitAmong(s, I) /\ wj = WaitAmong(s, J)
    <2>1. burstTime(p) \in Nat
      BY <1>1, <1>3, ProcessesFit
    <2>2. QED
      BY <1>1, <1>10, <2>1
  <1>16. PICK w \in Nat : w = WaitOfAll(s)
    BY <1>1, WaitsFit DEF WaitOfAll
  <1>17. x + (c + 1) * t + wi <= w
    BY <1>6, <1>10, <1>13, <1>14, <1>15, <1>16 DEF Ahead, WaitToRun
  <1>18. wj + c * b <= wi
    BY <1>5, <1>9, <1>15
  <1>19. (x + t) + c * (t + b) + wj <= w
    <2>1. (c + 1) * t = c * t + t /\ c * (t + b) = c * t + c * b
      BY <1>15
    <2>2. PICK u \in Int, v \in Int : u = c * t /\ v = c * b
      BY <1>15
    <2>3. x + (u + t) + wi <= w /\ wj + v <= wi
      BY <1>17, <1>18, <2>1, <2>2
    <2>4. (x + t) + (u + v) + wj <= w
      BY <2>3
    <2>5. QED
      BY <2>1, <2>2, <2>4
  <1>20. WaitToRun(s)' = wj /\ WaitOfAll(s)' = w
    BY <1>1, <1>8, <1>15, <1>16, SameWaits
  <1>21. Cardinality(ToRun(s))' = c /\ clock' = t + b
    BY <1>2, <1>8, <1>15
  <1>22. QED
    BY <1>13, <1>15, <1>19, <1>20, <1>21 DEF Ahead

-----------------------------------------------------------------------------
LEMMA RunKeepsWhole ==
  ASSUME IInv, Whole, RunNonPreemptive
  PROVE  Whole'
  <1>1. process' = process /\ TypeOK
    BY DEF RunNonPreemptive, IInv, request
  <1>2. PICK p \in Arrived : clock' = clock + burstTime(p) /\ Push(p, clock, clock')
    BY DEF RunNonPreemptive
  <1>3. PICK n \in Nat : n = Len(gantt)
    BY <1>1, SegmentsFit
  <1>4. /\ Len(gantt') = n + 1
        /\ \A i \in 1..n : gantt'[i] = gantt[i]
        /\ gantt'[n + 1] = [pid |-> p, startTime |-> clock, endTime |-> clock']
    BY <1>1, <1>2, <1>3, Drawn
  <1>5. \A q : burstTime(q)' = burstTime(q)
    BY <1>1 DEF burstTime
  <1>6. ASSUME NEW i \in 1..(n + 1)
        PROVE  gantt'[i].endTime = gantt'[i].startTime + burstTime(gantt'[i].pid)
    <2>1. CASE i \in 1..n
      BY <1>3, <1>4, <2>1 DEF Whole
    <2>2. CASE i = n + 1
      BY <1>2, <1>4, <2>2
    <2>3. QED
      BY <1>3, <2>1, <2>2
  <1>7. QED
    BY <1>1, <1>4, <1>6 DEF Whole, burstTime

LEMMA ShortInvariant == Spec => []ShortInv
  <1>1. Init => ShortInv
    <2> SUFFICES ASSUME Init, algorithm = "SJF" PROVE ShortInv
      BY DEF ShortInv
    <2>1. /\ Len(gantt) = 0 /\ pending = Pid /\ pc = "received" /\ clock = 0 /\ RequestOK
          /\ DOMAIN gantt = {}
      BY Starts DEF Init, IInv
    <2>2. 1..Len(gantt) = {}
      BY <2>1
    <2>3. OnceEach /\ Whole
      BY <2>1, <2>2 DEF OnceEach, Whole
    <2>4. ASSUME NEW s \in Orders
          PROVE  Ahead(s)
      <3>1. ToRun(s) = Pid
        BY <2>1 DEF ToRun, Orders
      <3>2. PICK w \in Nat : w = WaitAmong(s, Pid)
        BY <2>1, WaitsFit
      <3>3. Cardinality(Pid) \in Nat
        BY <2>1, WaitsFit
      <3>4. TotalOf(StartTimes, DOMAIN gantt) = 0
        BY <2>1, TotalOfNone
      <3>5. Cardinality(ToRun(s)) * clock = 0
        BY <2>1, <3>1, <3>3
      <3>6. QED
        BY <3>1, <3>2, <3>4, <3>5 DEF Ahead, WaitToRun, WaitOfAll
    <2>5. QED
      BY <2>1, <2>3, <2>4 DEF ShortInv
  <1>2. IInv /\ ShortInv /\ [Next]_vars => ShortInv'
    <2> SUFFICES ASSUME IInv, ShortInv, [Next]_vars, algorithm' = "SJF"
                 PROVE  ShortInv'
      BY DEF ShortInv
    <2>1. ASSUME UNCHANGED <<request, gantt, pending>>,
                 clock' = clock \/ ~AllAtOnce,
                 pc' = "returned" => pc = "returned" \/ pending = {}
          PROVE  ShortInv'
      <3>1. algorithm' = algorithm /\ process' = process /\ Pid' = Pid
        BY <2>1 DEF request, Pid
      <3>2. OnceEach /\ Whole /\ (pc = "returned" => pending = {})
            /\ (AllAtOnce => \A s \in Orders : Ahead(s))
        BY <3>1 DEF ShortInv
      <3>3. OnceEach' /\ Whole'
        BY <2>1, <3>1, <3>2 DEF OnceEach, Whole, burstTime
      <3>4. ASSUME AllAtOnce', NEW s \in Orders'
            PROVE  Ahead(s)'
        <4>1. AllAtOnce /\ s \in Orders /\ clock' = clock
          BY <2>1, <3>1, <3>4, SameWaits
        <4>2. Ahead(s)
          BY <3>2, <4>1
        <4>3. ToRun(s)' = ToRun(s) /\ StartTimes' = StartTimes
          BY <2>1, <3>1 DEF ToRun, StartTimes
        <4>4. WaitToRun(s)' = WaitToRun(s) /\ WaitOfAll(s)' = WaitOfAll(s)
          BY <3>1, <4>3, SameWaits DEF WaitToRun
        <4>5. QED
          BY <2>1, <4>1, <4>2, <4>3, <4>4 DEF Ahead
      <3>5. QED
        BY <2>1, <3>2, <3>3, <3>4 DEF ShortInv
    <2>2. CASE Refuse \/ Begin \/ UNCHANGED vars
      BY <2>1, <2>2 DEF Refuse, Begin, vars
    <2>3. CASE RunFcfs \/ IdleRoundRobin \/ RunSlice
      BY <2>3 DEF RunFcfs, IdleRoundRobin, RunSlice, RoundRobin, request
    <2>4. CASE IdleNonPreemptive
      <3>1. PICK p \in pending : p \notin Arrived
        BY <2>4 DEF IdleNonPreemptive
      <3>2. p \in Pid /\ clock \in Nat
        BY <3>1 DEF IInv, TypeOK
      <3>3. ~AllAtOnce
        BY <3>1, <3>2 DEF Arrived, AllAtOnce
      <3>4. QED
        BY <2>1, <2>4, <3>3 DEF IdleNonPreemptive, NonPreemptive
    <2>5. CASE RunNonPreemptive
      <3>1. /\ algorithm = "SJF" /\ process' = process /\ pc' = "running"
        BY <2>5 DEF RunNonPreemptive, NonPreemptive, request
      <3>2. OnceEach /\ Whole
        BY <3>1 DEF ShortInv
      <3>3. OnceEach' /\ Whole'
        BY <2>5, <3>2, RunOnce, RunKeepsWhole
      <3>4. ASSUME AllAtOnce', NEW s \in Orders'
            PROVE  Ahead(s)'
        BY <2>5, <3>1, <3>4, RunKeepsAhead, SameWaits
      <3>5. QED
        BY <3>1, <3>3, <3>4 DEF ShortInv
    <2>6. CASE Return
      <3>1. UNCHANGED request /\ UNCHANGED <<gantt, pending, clock>> /\ LoopEnds
            /\ algorithm = "SJF"
        BY <2>6 DEF Return, request
      <3>2. pending = {}
        BY <3>1 DEF LoopEnds
      <3>3. QED
        BY <2>1, <3>1, <3>2
    <2>7. QED
      BY <2>2, <2>3, <2>4, <2>5, <2>6 DEF Next
  <1>3. QED
    BY <1>1, <1>2, Invariant, PTL DEF Spec

(* When all processes arrive at once, no order of running them makes them  *)
(* wait less in total than shortest job first.                             *)
THEOREM ShortestFirstIsBest == Spec => []ShortestFirstIsOptimal
  <1>1. IInv /\ ShortInv /\ Measured => ShortestFirstIsOptimal
    <2> SUFFICES ASSUME IInv, ShortInv, Measured, Returned({"SJF"}),
                        \A p \in Pid : arrivalTime(p) = 0, NEW s \in Orders
                 PROVE  TotalWaiting <= WaitingInOrder(s)
      BY DEF ShortestFirstIsOptimal
    <2>1. /\ pc = "returned" /\ RequestOK /\ TypeOK /\ OnceEach /\ Whole /\ pending = {}
          /\ Ahead(s) /\ clock \in Nat
      BY DEF ShortInv, Returned, AllAtOnce, IInv, TypeOK
    <2>2. PICK n \in Nat : n = Len(gantt) /\ DOMAIN gantt = 1..n
      BY <2>1, SegmentsFit
    <2>3. \A i \in 1..n : /\ gantt[i].pid \in Pid /\ gantt[i].startTime \in Nat
                          /\ gantt[i].endTime \in Nat
                          /\ gantt[i].endTime = gantt[i].startTime + burstTime(gantt[i].pid)
      BY <2>1, <2>2, SegmentsFit DEF Whole
    <2>4. \A i, j \in 1..n : gantt[i].pid = gantt[j].pid => i = j
      BY <2>1, <2>2 DEF OnceEach
    <2>5. Pid = {gantt[i].pid : i \in 1..n}
      BY <2>1, <2>2, <2>3 DEF OnceEach
    <2> DEFINE w == [p \in Pid |-> metrics[p].waitingTime]
               pids == [i \in 1..n |-> gantt[i].pid]
               D == 1..n
    <2>6. ASSUME NEW i \in D
          PROVE  w[pids[i]] = StartTimes[i] /\ StartTimes[i] \in Int
      <3>1. PICK p \in Pid : p = gantt[i].pid
        BY <2>3
      <3>2. Own(p) = {i}
        BY <2>2, <2>4, <3>1 DEF Own
      <3>3. LastOf(p) = gantt[i]
        <4>1. (CHOOSE k \in Own(p) : \A j \in Own(p) : k >= j) = i
          BY <3>2
        <4>2. QED
          BY <4>1 DEF LastOf
      <3>4. metrics[p].waitingTime = gantt[i].endTime - arrivalTime(p) - burstTime(p)
        BY <2>1, <3>3 DEF Measured, Metric
      <3>5. burstTime(p) \in Nat /\ arrivalTime(p) = 0
        BY <2>1, ProcessesFit
      <3>6. gantt[i].endTime = gantt[i].startTime + burstTime(p) /\ gantt[i].startTime \in Nat
        BY <2>3, <3>1
      <3>7. metrics[p].waitingTime = gantt[i].startTime
        BY <3>4, <3>5, <3>6
      <3>8. w[pids[i]] = metrics[p].waitingTime /\ StartTimes[i] = gantt[i].startTime
        BY <2>2, <3>1 DEF StartTimes
      <3>9. QED
        BY <3>6, <3>7, <3>8
    <2>7. IsFiniteSet(D) /\ \A i, j \in D : pids[i] = pids[j] => i = j
      BY <2>2, <2>4, FS_Interval
    <2>8. Pid = {pids[i] : i \in D}
      BY <2>5
    <2>9. TotalWaiting = TotalOf(w, {pids[i] : i \in D})
      BY <2>8 DEF TotalWaiting
    <2> HIDE DEF w, pids, D
    <2>10. TotalOf(w, {pids[i] : i \in D}) = TotalOf([i \in D |-> w[pids[i]]], D)
      BY <2>6, <2>7, TotalListed
    <2>11. TotalOf([i \in D |-> w[pids[i]]], D) = TotalOf(StartTimes, D)
      <3> DEFINE v == [i \in D |-> w[pids[i]]]
      <3>1. \A i \in D : v[i] \in Int /\ v[i] = StartTimes[i]
        BY <2>6
      <3> HIDE DEF v
      <3>2. TotalOf(v, D) = TotalOf(StartTimes, D)
        BY <2>7, <3>1, TotalSame
      <3>3. QED
        BY <3>2 DEF v
    <2>12. TotalWaiting <= WaitOfAll(s)
      <3>1. ToRun(s) = {}
        BY <2>1 DEF ToRun
      <3>2. Cardinality(ToRun(s)) * clock = 0
        BY <2>1, <3>1, FS_EmptySet
      <3>3. WaitToRun(s) = 0
        BY <3>1, TotalOfNone DEF WaitToRun, WaitAmong
      <3>4. TotalOf(StartTimes, D) \in Int
        BY <2>6, <2>7, TotalType
      <3>5. TotalOf(StartTimes, DOMAIN gantt) = TotalWaiting
        BY <2>2, <2>9, <2>10, <2>11 DEF D
      <3>6. TotalOf(StartTimes, D) = TotalWaiting
        BY <2>2, <3>5 DEF D
      <3>7. PICK x \in Int : x = TotalWaiting
        BY <3>4, <3>6
      <3>8. x + 0 + 0 <= WaitOfAll(s)
        BY <2>1, <3>2, <3>3, <3>5, <3>7 DEF Ahead
      <3>9. x + 0 + 0 = x
        OBVIOUS
      <3>10. QED
        BY <3>7, <3>8, <3>9
    <2>13. WaitOfAll(s) = WaitingInOrder(s)
      <3>1. DOMAIN s = Pid /\ Pid = 1..Len(tasks)
        BY <2>1, ProcessesFit DEF Orders
      <3>2. \A i \in Pid : Before(Pid, i) = 1..(i - 1)
        BY <2>1, <3>1, ProcessesFit DEF Before
      <3>3. WaitAt(s, Pid) = [i \in DOMAIN s |-> BurstOf({s[j] : j \in 1..(i - 1)})]
        BY <3>1, <3>2 DEF WaitAt
      <3>4. QED
        BY <3>1, <3>3 DEF WaitOfAll, WaitAmong, WaitingInOrder
    <2>14. QED
      BY <2>12, <2>13
  <1>2. QED
    BY <1>1, Invariant, ShortInvariant, MeasuredInvariant, PTL
=============================================================================
