--------------------------- MODULE StandingsProofs ---------------------------
(***************************************************************************)
(* The table of a group is fair, whatever the number of teams and games.    *)
(* Induction is by a smallest counterexample.  First come sums over finite  *)
(* sets, then the order of the keys and the sorting of the teams by it,     *)
(* then the ranks that follow from the order, and last the columns of the   *)
(* table, which add up games by team, by side and by opponent.              *)
(***************************************************************************)
EXTENDS Standings, FiniteSetTheorems, WellFoundedInduction, TLAPS

(* Induction over sets: a family of subsets of a finite set has a smallest. *)
LEMMA SmallestSet ==
  ASSUME NEW S, IsFiniteSet(S), NEW F \in SUBSET SUBSET S, F # {}
  PROVE  \E T \in F : \A U \in F : U \subseteq T => U = T
  <1>1. IsWellFoundedOn(StrictSubsetOrdering(S), SUBSET S)
    BY FS_StrictSubsetOrderingWellFounded, FS_FiniteSubsetsOfFinite
  <1>2. PICK T \in F : \A U \in F : ~(<<U, T>> \in StrictSubsetOrdering(S))
    BY <1>1, WFMin
  <1>q. QED BY <1>2 DEF StrictSubsetOrdering

(* Of some numbers one is the smallest.                                     *)
LEMMA SmallestNumber ==
  ASSUME NEW S \in SUBSET Nat, S # {}
  PROVE  \E n \in S : \A m \in S : n <= m
  <1>1. PICK k \in S : TRUE
    OBVIOUS
  <1> DEFINE I == 0 .. k
             F == {0 .. m : m \in {m \in S : m <= k}}
  <1>2. F \in SUBSET SUBSET I
    OBVIOUS
  <1>7. F # {}
    <2>1. 0 .. k \in F
      BY <1>1
    <2>q. QED BY <2>1
  <1>3. IsFiniteSet(I)
    BY FS_Interval
  <1> HIDE DEF F, I
  <1>4. PICK T \in F : \A U \in F : U \subseteq T => U = T
    BY <1>2, <1>7, <1>3, SmallestSet
  <1> USE DEF F
  <1>5. PICK n \in S : n <= k /\ T = 0 .. n
    BY <1>4
  <1>6. ASSUME NEW m \in S, m < n PROVE FALSE
    <2>1. 0 .. m \in F /\ 0 .. m \subseteq T /\ n \in T /\ n \notin 0 .. m
      BY <1>5, <1>6
    <2>q. QED BY <1>4, <2>1
  <1>q. QED BY <1>6

-----------------------------------------------------------------------------
(* The sum of a set takes one element after the other out of it.            *)
Picked(s) == CHOOSE x \in s : TRUE

(* h is what the sum over a set adds up. *)
AddsUp(f, S, h) ==
  h = [s \in SUBSET S |-> IF s = {} THEN 0 ELSE f[Picked(s)] + h[s \ {Picked(s)}]]
Adding(f, S) == CHOOSE h : AddsUp(f, S, h)

(* The fold of the community modules is such an h.                          *)
LEMMA SumIs == \A f, S : SumFunctionOnSet(f, S) = Adding(f, S)[S]
  BY DEF SumFunctionOnSet, FoldFunctionOnSet, MapThenFoldSet, Adding, AddsUp, Picked

(* What is picked from a set is in it.                                      *)
LEMMA PickedIsThere == \A s : s # {} => Picked(s) \in s
  BY DEF Picked

(* It does so in one way only. *)
LEMMA OneWay ==
  ASSUME NEW f, NEW S, IsFiniteSet(S), NEW g, NEW h, NEW R, S \subseteq R,
         AddsUp(f, S, g), AddsUp(f, R, h)
  PROVE  \A s \in SUBSET S : g[s] = h[s]
  <1> DEFINE F == {s \in SUBSET S : g[s] # h[s]}
  <1>1. SUFFICES ASSUME F # {} PROVE FALSE
    OBVIOUS
  <1>0. F \in SUBSET SUBSET S
    OBVIOUS
  <1> HIDE DEF F
  <1>2. PICK s \in F : \A u \in F : u \subseteq s => u = s
    BY <1>0, <1>1, SmallestSet
  <1> USE DEF F
  <1>3. /\ g[s] = IF s = {} THEN 0 ELSE f[Picked(s)] + g[s \ {Picked(s)}]
        /\ h[s] = IF s = {} THEN 0 ELSE f[Picked(s)] + h[s \ {Picked(s)}]
    BY <1>2 DEF AddsUp
  <1>4. s # {} => s \ {Picked(s)} \notin F
    BY <1>2, PickedIsThere
  <1>q. QED BY <1>2, <1>3, <1>4

(* And it does so: sums are defined. *)
LEMMA AddingExists ==
  ASSUME NEW f, NEW S, IsFiniteSet(S)
  PROVE  \E h : AddsUp(f, S, h)
  <1> DEFINE F == {T \in SUBSET S : ~ \E h : AddsUp(f, T, h)}
  <1>1. SUFFICES ASSUME F # {} PROVE FALSE
    OBVIOUS
  <1>0. F \in SUBSET SUBSET S
    OBVIOUS
  <1> HIDE DEF F
  <1>2. PICK T \in F : \A U \in F : U \subseteq T => U = T
    BY <1>0, <1>1, SmallestSet
  <1> USE DEF F
  <1>3. ASSUME NEW U \in SUBSET T, U # T PROVE AddsUp(f, U, Adding(f, U))
    BY <1>2, <1>3 DEF Adding
  <1> DEFINE before(s) == Adding(f, s \ {Picked(s)})[s \ {Picked(s)}]
             h == [s \in SUBSET T |-> IF s = {} THEN 0 ELSE f[Picked(s)] + before(s)]
  <1>4. ASSUME NEW s \in SUBSET T, s # {} PROVE h[s \ {Picked(s)}] = before(s)
    <2> DEFINE u == s \ {Picked(s)}
               v == u \ {Picked(u)}
    <2>1. u \in SUBSET T /\ u # T
      BY <1>4, PickedIsThere
    <2>2. AddsUp(f, u, Adding(f, u))
      BY <1>3, <2>1
    <2>3. Adding(f, u)[u] = IF u = {} THEN 0 ELSE f[Picked(u)] + Adding(f, u)[v]
      BY <2>2 DEF AddsUp
    <2>4. CASE u = {}
      BY <2>1, <2>3, <2>4
    <2>5. CASE u # {}
      <3>1. v \in SUBSET T /\ v # T /\ v \subseteq u
        BY <2>1, <2>5, PickedIsThere
      <3>2. AddsUp(f, v, Adding(f, v)) /\ IsFiniteSet(v)
        BY <1>3, <3>1, FS_Subset
      <3> HIDE DEF F, h, u, v
      <3>3. \A w \in SUBSET v : Adding(f, v)[w] = Adding(f, u)[w]
        BY <2>2, <3>1, <3>2, OneWay
      <3> USE DEF F, h, u, v
      <3>4. Adding(f, v)[v] = Adding(f, u)[v]
        BY <3>3
      <3>5. h[u] = f[Picked(u)] + Adding(f, v)[v]
        BY <2>1, <2>5
      <3>q. QED BY <2>3, <2>5, <3>4, <3>5
    <2>q. QED BY <2>4, <2>5
  <1>5. AddsUp(f, T, h)
    BY <1>4 DEF AddsUp
  <1>q. QED BY <1>2, <1>5

(* So a sum is what is picked and the sum of the rest.                      *)
LEMMA SumStep ==
  ASSUME NEW f, NEW S, IsFiniteSet(S)
  PROVE  SumFunctionOnSet(f, S) =
           IF S = {} THEN 0 ELSE f[Picked(S)] + SumFunctionOnSet(f, S \ {Picked(S)})
  <1>1. AddsUp(f, S, Adding(f, S))
    BY AddingExists DEF Adding
  <1>2. Adding(f, S)[S] = IF S = {} THEN 0 ELSE f[Picked(S)] + Adding(f, S)[S \ {Picked(S)}]
    BY <1>1 DEF AddsUp
  <1> DEFINE T == S \ {Picked(S)}
  <1>3. IsFiniteSet(T)
    BY FS_Subset
  <1>4. AddsUp(f, T, Adding(f, T))
    BY <1>3, AddingExists DEF Adding
  <1>5. \A s \in SUBSET T : Adding(f, T)[s] = Adding(f, S)[s]
    BY <1>1, <1>3, <1>4, OneWay
  <1>6. Adding(f, T)[T] = Adding(f, S)[T]
    BY <1>5
  <1>q. QED BY <1>2, <1>6, SumIs

(* Induction over the elements of a finite set. *)
LEMMA SetInduction ==
  ASSUME NEW S, IsFiniteSet(S), NEW Good \in SUBSET SUBSET S, {} \in Good,
         \A T \in SUBSET S : \A x \in T : T \ {x} \in Good => T \in Good
  PROVE  S \in Good
  <1> DEFINE F == (SUBSET S) \ Good
  <1>1. SUFFICES ASSUME F # {} PROVE FALSE
    OBVIOUS
  <1>2. F \in SUBSET SUBSET S
    OBVIOUS
  <1> HIDE DEF F
  <1>3. PICK T \in F : \A U \in F : U \subseteq T => U = T
    BY <1>1, <1>2, SmallestSet
  <1> USE DEF F
  <1>3a. T # {}
    BY <1>3
  <1>4. PICK x \in T : TRUE
    BY <1>3a
  <1>5. T \ {x} \in Good
    BY <1>3, <1>4
  <1>q. QED BY <1>3, <1>4, <1>5

(* The sum of nothing.                                                      *)
LEMMA SumEmpty == \A f : SumFunctionOnSet(f, {}) = 0
  BY SumStep, FS_EmptySet

(* The sum of numbers is a number.                                          *)
LEMMA SumTyped ==
  ASSUME NEW S, IsFiniteSet(S), NEW f, \A x \in S : f[x] \in Int
  PROVE  SumFunctionOnSet(f, S) \in Int
  <1> DEFINE F == {T \in SUBSET S : SumFunctionOnSet(f, T) \notin Int}
  <1>1. SUFFICES ASSUME F # {} PROVE FALSE
    OBVIOUS
  <1>2. F \in SUBSET SUBSET S
    OBVIOUS
  <1> HIDE DEF F
  <1>3. PICK T \in F : \A U \in F : U \subseteq T => U = T
    BY <1>1, <1>2, SmallestSet
  <1>4. T \in SUBSET S /\ SumFunctionOnSet(f, T) \notin Int /\ IsFiniteSet(T)
    BY <1>3, FS_Subset DEF F
  <1>5. T # {} /\ SumFunctionOnSet(f, T) = f[Picked(T)] + SumFunctionOnSet(f, T \ {Picked(T)})
    BY <1>4, SumStep
  <1>6. Picked(T) \in T /\ T \ {Picked(T)} \notin F
    BY <1>3, <1>5, PickedIsThere
  <1>7. SumFunctionOnSet(f, T \ {Picked(T)}) \in Int
    BY <1>4, <1>6 DEF F
  <1>q. QED BY <1>4, <1>5, <1>6, <1>7

(* In whatever order. *)
LEMMA SumTake ==
  ASSUME NEW S, IsFiniteSet(S), NEW f, \A x \in S : f[x] \in Int
  PROVE  \A x \in S : SumFunctionOnSet(f, S) = f[x] + SumFunctionOnSet(f, S \ {x})
  <1> DEFINE P(T) == \A x \in T : SumFunctionOnSet(f, T) = f[x] + SumFunctionOnSet(f, T \ {x})
             F == {T \in SUBSET S : ~P(T)}
  <1>1. SUFFICES ASSUME F # {} PROVE FALSE
    OBVIOUS
  <1>2. F \in SUBSET SUBSET S
    OBVIOUS
  <1> HIDE DEF F
  <1>3. PICK T \in F : \A U \in F : U \subseteq T => U = T
    BY <1>1, <1>2, SmallestSet
  <1>4. T \in SUBSET S /\ ~P(T)
    BY DEF F
  <1>5. PICK x \in T : SumFunctionOnSet(f, T) # f[x] + SumFunctionOnSet(f, T \ {x})
    BY <1>4
  <1> DEFINE p == Picked(T)
  <1>6. p \in T
    BY <1>5, PickedIsThere
  <1> HIDE DEF p
  <1>7. IsFiniteSet(T) /\ IsFiniteSet(T \ {p}) /\ IsFiniteSet(T \ {x})
        /\ IsFiniteSet((T \ {p}) \ {x})
    BY <1>4, FS_Subset
  <1>8. SumFunctionOnSet(f, T) = f[p] + SumFunctionOnSet(f, T \ {p})
    BY <1>5, <1>7, SumStep DEF p
  <1>9. p # x
    BY <1>5, <1>8
  <1>10. P(T \ {p}) /\ P(T \ {x})
    BY <1>3, <1>4, <1>5, <1>6 DEF F
  <1>11. /\ SumFunctionOnSet(f, T \ {p}) = f[x] + SumFunctionOnSet(f, (T \ {p}) \ {x})
         /\ SumFunctionOnSet(f, T \ {x}) = f[p] + SumFunctionOnSet(f, (T \ {x}) \ {p})
    BY <1>5, <1>6, <1>9, <1>10
  <1>12. (T \ {p}) \ {x} = (T \ {x}) \ {p}
    OBVIOUS
  <1>13. f[p] \in Int /\ f[x] \in Int /\ SumFunctionOnSet(f, (T \ {p}) \ {x}) \in Int
    BY <1>4, <1>5, <1>6, <1>7, SumTyped
  <1> DEFINE rest == SumFunctionOnSet(f, (T \ {p}) \ {x})
  <1>14. /\ SumFunctionOnSet(f, T \ {p}) = f[x] + rest
         /\ SumFunctionOnSet(f, T \ {x}) = f[p] + rest
    BY <1>11, <1>12
  <1>15. rest \in Int
    BY <1>13
  <1> HIDE DEF rest
  <1>16. SumFunctionOnSet(f, T) = f[p] + (f[x] + rest)
    BY <1>8, <1>14
  <1>17. f[p] + (f[x] + rest) = f[x] + (f[p] + rest)
    BY <1>13, <1>15
  <1>q. QED BY <1>5, <1>14, <1>16, <1>17

-----------------------------------------------------------------------------
(* The sum of what a set of things has, of each f[x]. *)
Sum(f, S) == SumFunctionOnSet(f, S)

(* The rules the sums below are added up by.                                *)
LEMMA SumRules ==
  ASSUME NEW S, IsFiniteSet(S), NEW f, \A x \in S : f[x] \in Int
  PROVE  /\ Sum(f, {}) = 0 /\ Sum(f, S) \in Int
         /\ \A x \in S : Sum(f, S) = f[x] + Sum(f, S \ {x}) /\ Sum(f, S \ {x}) \in Int
  <1>1. \A x \in S : IsFiniteSet(S \ {x})
    BY FS_Subset
  <1>2. \A x \in S : Sum(f, S \ {x}) \in Int
    BY <1>1, SumTyped DEF Sum
  <1>q. QED BY <1>2, SumEmpty, SumTyped, SumTake DEF Sum

(* Equal summands have equal sums.                                          *)
LEMMA SumSame ==
  ASSUME NEW S, IsFiniteSet(S), NEW f, NEW g, \A x \in S : f[x] \in Int /\ g[x] = f[x]
  PROVE  Sum(f, S) = Sum(g, S)
  <1> DEFINE Good == {T \in SUBSET S : Sum(f, T) = Sum(g, T)}
  <1>1. {} \in Good
    BY SumEmpty DEF Sum
  <1>2. ASSUME NEW T \in SUBSET S, NEW x \in T, T \ {x} \in Good PROVE T \in Good
    <2>1. IsFiniteSet(T)
      BY FS_Subset
    <2>2. Sum(f, T) = f[x] + Sum(f, T \ {x})
      BY <2>1, SumRules
    <2>3. Sum(g, T) = g[x] + Sum(g, T \ {x})
      BY <2>1, SumRules
    <2>q. QED BY <1>2, <2>2, <2>3
  <1> HIDE DEF Good
  <1>3. Good \in SUBSET SUBSET S
    BY DEF Good
  <1>4. S \in Good
    BY <1>1, <1>2, <1>3, SetInduction
  <1>q. QED BY <1>4 DEF Good

(* The sum of two columns is the column of their sums.                      *)
LEMMA SumPlus ==
  ASSUME NEW S, IsFiniteSet(S), NEW f, NEW g, NEW h,
         \A x \in S : f[x] \in Int /\ g[x] \in Int /\ h[x] = f[x] + g[x]
  PROVE  Sum(h, S) = Sum(f, S) + Sum(g, S)
  <1> DEFINE Good == {T \in SUBSET S : Sum(h, T) = Sum(f, T) + Sum(g, T)}
  <1>1. {} \in Good
    BY SumEmpty DEF Sum
  <1>2. ASSUME NEW T \in SUBSET S, NEW x \in T, T \ {x} \in Good PROVE T \in Good
    <2>1. IsFiniteSet(T)
      BY FS_Subset
    <2>2. Sum(f, T) = f[x] + Sum(f, T \ {x}) /\ Sum(f, T \ {x}) \in Int
      BY <2>1, SumRules
    <2>3. Sum(g, T) = g[x] + Sum(g, T \ {x}) /\ Sum(g, T \ {x}) \in Int
      BY <2>1, SumRules
    <2>4. Sum(h, T) = h[x] + Sum(h, T \ {x})
      <3>1. \A y \in T : h[y] \in Int
        OBVIOUS
      <3>q. QED BY <2>1, <3>1, SumRules
    <2>5. Sum(h, T \ {x}) = Sum(f, T \ {x}) + Sum(g, T \ {x})
      BY <1>2
    <2>6. f[x] \in Int /\ g[x] \in Int /\ h[x] = f[x] + g[x]
      OBVIOUS
    <2> HIDE DEF Good
    <2>7. Sum(h, T) = Sum(f, T) + Sum(g, T)
      BY <2>2, <2>3, <2>4, <2>5, <2>6
    <2>q. QED BY <2>7 DEF Good
  <1> HIDE DEF Good
  <1>3. Good \in SUBSET SUBSET S
    BY DEF Good
  <1>4. S \in Good
    BY <1>1, <1>2, <1>3, SetInduction
  <1>q. QED BY <1>4 DEF Good

(* The sum over two sets that share nothing.                                *)
LEMMA SumUnion ==
  ASSUME NEW S, IsFiniteSet(S), NEW R, IsFiniteSet(R), S \cap R = {},
         NEW f, \A x \in S \cup R : f[x] \in Int
  PROVE  Sum(f, S \cup R) = Sum(f, S) + Sum(f, R)
  <1> DEFINE Good == {T \in SUBSET R : Sum(f, S \cup T) = Sum(f, S) + Sum(f, T)}
  <1>0. Sum(f, S) \in Int
    BY SumRules
  <1>1. {} \in Good
    <2>1. S \cup {} = S
      OBVIOUS
    <2>q. QED BY <1>0, <2>1, SumEmpty DEF Sum
  <1>2. ASSUME NEW T \in SUBSET R, NEW x \in T, T \ {x} \in Good PROVE T \in Good
    <2>1. IsFiniteSet(T) /\ IsFiniteSet(S \cup T)
      BY FS_Subset, FS_Union
    <2>2. Sum(f, T) = f[x] + Sum(f, T \ {x}) /\ Sum(f, T \ {x}) \in Int
      BY <2>1, SumRules
    <2>3. Sum(f, S \cup T) = f[x] + Sum(f, (S \cup T) \ {x})
      <3>1. \A y \in S \cup T : f[y] \in Int
        OBVIOUS
      <3>2. x \in S \cup T
        OBVIOUS
      <3>q. QED BY <2>1, <3>1, <3>2, SumRules
    <2>4. (S \cup T) \ {x} = S \cup (T \ {x})
      OBVIOUS
    <2>5. Sum(f, S \cup (T \ {x})) = Sum(f, S) + Sum(f, T \ {x})
      BY <1>2
    <2>6. f[x] \in Int
      OBVIOUS
    <2> HIDE DEF Good
    <2>7. Sum(f, S \cup T) = Sum(f, S) + Sum(f, T)
      <3>1. Sum(f, S \cup T) = f[x] + (Sum(f, S) + Sum(f, T \ {x}))
        BY <2>3, <2>4, <2>5
      <3>q. QED BY <1>0, <2>2, <2>6, <3>1
    <2>q. QED BY <2>7 DEF Good
  <1> HIDE DEF Good
  <1>3. Good \in SUBSET SUBSET R
    BY DEF Good
  <1>4. R \in Good
    BY <1>1, <1>2, <1>3, SetInduction
  <1>q. QED BY <1>4 DEF Good

(* What the parts of a set have adds up to what the set has. *)
LEMMA SumParts ==
  ASSUME NEW C, IsFiniteSet(C), NEW D, IsFiniteSet(D), NEW w \in [C -> D],
         NEW f, \A x \in C : f[x] \in Int,
         NEW h, \A d \in D : h[d] = Sum(f, {x \in C : w[x] = d})
  PROVE  Sum(h, D) = Sum(f, C)
  <1> DEFINE part(d) == {x \in C : w[x] = d}
             over(E) == {x \in C : w[x] \in E}
             Good == {E \in SUBSET D : Sum(h, E) = Sum(f, over(E))}
  <1>1. {} \in Good
    <2>1. over({}) = {}
      OBVIOUS
    <2>q. QED BY <2>1, SumEmpty DEF Sum
  <1>0. \A d \in D : h[d] \in Int
    <2> TAKE d \in D
    <2>1. IsFiniteSet(part(d))
      BY FS_Subset
    <2> HIDE DEF part
    <2>2. \A x \in part(d) : f[x] \in Int
      BY DEF part
    <2>3. Sum(f, part(d)) \in Int
      BY <2>1, <2>2, SumRules
    <2>q. QED BY <2>3 DEF part
  <1>2. ASSUME NEW E \in SUBSET D, NEW d \in E, E \ {d} \in Good PROVE E \in Good
    <2>1. IsFiniteSet(E) /\ IsFiniteSet(part(d)) /\ IsFiniteSet(over(E \ {d}))
      BY FS_Subset
    <2>2. over(E) = over(E \ {d}) \cup part(d) /\ over(E \ {d}) \cap part(d) = {}
      OBVIOUS
    <2>3. \A x \in over(E \ {d}) \cup part(d) : f[x] \in Int
      OBVIOUS
    <2>4. Sum(h, E \ {d}) = Sum(f, over(E \ {d}))
      BY <1>2
    <2>5. h[d] = Sum(f, part(d))
      OBVIOUS
    <2> HIDE DEF Good, over, part
    <2>6. Sum(f, over(E \ {d}) \cup part(d)) = Sum(f, over(E \ {d})) + Sum(f, part(d))
      BY <2>1, <2>2, <2>3, SumUnion
    <2>7. Sum(h, E) = h[d] + Sum(h, E \ {d}) /\ Sum(h, E \ {d}) \in Int /\ h[d] \in Int
      BY <1>0, <2>1, SumRules
    <2>8. Sum(h, E) = Sum(f, over(E))
      BY <2>2, <2>4, <2>5, <2>6, <2>7
    <2>q. QED BY <2>8 DEF Good
  <1> HIDE DEF Good
  <1>3. Good \in SUBSET SUBSET D
    BY DEF Good
  <1>4. D \in Good
    BY <1>1, <1>2, <1>3, SetInduction
  <1>5. over(D) = C
    OBVIOUS
  <1>q. QED BY <1>4, <1>5 DEF Good

(* A sum of ones counts.                                                    *)
LEMMA SumOfOnes ==
  ASSUME NEW S, IsFiniteSet(S), NEW f, \A x \in S : f[x] = 1
  PROVE  Sum(f, S) = Cardinality(S)
  <1> DEFINE Good == {T \in SUBSET S : Sum(f, T) = Cardinality(T)}
  <1>1. {} \in Good
    BY SumEmpty, FS_EmptySet DEF Sum
  <1>2. ASSUME NEW T \in SUBSET S, NEW x \in T, T \ {x} \in Good PROVE T \in Good
    <2>1. IsFiniteSet(T)
      BY FS_Subset
    <2>2. Cardinality(T \ {x}) = Cardinality(T) - 1 /\ Cardinality(T) \in Nat
      BY <2>1, FS_RemoveElement, FS_CardinalityType
    <2>3. Sum(f, T) = f[x] + Sum(f, T \ {x})
      <3>1. \A y \in T : f[y] \in Int
        OBVIOUS
      <3>q. QED BY <2>1, <3>1, SumRules
    <2>q. QED BY <1>2, <2>2, <2>3
  <1> HIDE DEF Good
  <1>3. Good \in SUBSET SUBSET S
    BY DEF Good
  <1>4. S \in Good
    BY <1>1, <1>2, <1>3, SetInduction
  <1>q. QED BY <1>4 DEF Good

(* The parts of a set have as many elements as the set.                     *)
LEMMA CountParts ==
  ASSUME NEW C, IsFiniteSet(C), NEW D, IsFiniteSet(D), NEW w \in [C -> D],
         NEW h, \A d \in D : h[d] = Cardinality({x \in C : w[x] = d})
  PROVE  Sum(h, D) = Cardinality(C)
  <1> DEFINE one == [x \in C |-> 1]
  <1>1. \A x \in C : one[x] = 1
    OBVIOUS
  <1> HIDE DEF one
  <1>2. ASSUME NEW d \in D PROVE h[d] = Sum(one, {x \in C : w[x] = d})
    <2> DEFINE part == {x \in C : w[x] = d}
    <2>1. IsFiniteSet(part) /\ \A x \in part : one[x] = 1
      BY <1>1, FS_Subset
    <2> HIDE DEF part
    <2>2. Sum(one, part) = Cardinality(part)
      BY <2>1, SumOfOnes
    <2>q. QED BY <2>2 DEF part
  <1>3. Sum(h, D) = Sum(one, C)
    BY <1>1, <1>2, SumParts
  <1>q. QED BY <1>1, <1>3, SumOfOnes

-----------------------------------------------------------------------------
(* Keys are six numbers.                                                    *)
Keys6 == [1 .. 6 -> Int]

(* Keys are compared in one order. *)
LEMMA GreaterIsOrder ==
  /\ \A k \in Keys6 : ~Greater(k, k)
  /\ \A k, l, m \in Keys6 : Greater(k, l) /\ Greater(l, m) => Greater(k, m)
  /\ \A k, l \in Keys6 : k = l \/ Greater(k, l) \/ Greater(l, k)
  <1>1. \A k \in Keys6 : ~Greater(k, k)
    BY DEF Greater, Keys6
  <1>2. ASSUME NEW k \in Keys6, NEW l \in Keys6, NEW m \in Keys6, Greater(k, l), Greater(l, m)
        PROVE  Greater(k, m)
    <2>1. PICK i \in 1 .. 6 : k[i] > l[i] /\ \A j \in 1 .. i - 1 : k[j] = l[j]
      BY <1>2 DEF Greater, Keys6
    <2>2. PICK n \in 1 .. 6 : l[n] > m[n] /\ \A j \in 1 .. n - 1 : l[j] = m[j]
      BY <1>2 DEF Greater, Keys6
    <2>3. CASE i <= n
      <3>1. k[i] > m[i] /\ \A j \in 1 .. i - 1 : k[j] = m[j]
        BY <2>1, <2>2, <2>3 DEF Keys6
      <3>q. QED BY <3>1 DEF Greater, Keys6
    <2>4. CASE n < i
      <3>1. k[n] > m[n] /\ \A j \in 1 .. n - 1 : k[j] = m[j]
        BY <2>1, <2>2, <2>4 DEF Keys6
      <3>q. QED BY <3>1 DEF Greater, Keys6
    <2>q. QED BY <2>3, <2>4
  <1>3. ASSUME NEW k \in Keys6, NEW l \in Keys6, k # l
        PROVE  Greater(k, l) \/ Greater(l, k)
    <2> DEFINE different == {i \in 1 .. 6 : k[i] # l[i]}
    <2>1. different # {} /\ different \in SUBSET Nat
      BY <1>3 DEF Keys6
    <2> HIDE DEF different
    <2>2. PICK i \in different : \A j \in different : i <= j
      BY <2>1, SmallestNumber
    <2> USE DEF different
    <2>3. i \in 1 .. 6 /\ k[i] # l[i] /\ \A j \in 1 .. i - 1 : k[j] = l[j]
      BY <2>2
    <2>4. k[i] \in Int /\ l[i] \in Int /\ (k[i] > l[i] \/ l[i] > k[i])
      BY <2>3 DEF Keys6
    <2>q. QED BY <2>3, <2>4 DEF Greater, Keys6
  <1>q. QED BY <1>1, <1>2, <1>3

(* A group that can be sorted: finite, by numbers and keys. *)
Sortable(key) == IsFiniteSet(drawn) /\ drawn \subseteq Int /\ key \in [drawn -> Keys6]

(* Ahead orders the teams: by key, and by name where keys are equal.        *)
LEMMA AheadIsOrder ==
  ASSUME NEW key, Sortable(key)
  PROVE  /\ \A t \in drawn : ~Ahead(key, t, t)
         /\ \A t, u, v \in drawn : Ahead(key, t, u) /\ Ahead(key, u, v) => Ahead(key, t, v)
         /\ \A t, u \in drawn : t = u \/ Ahead(key, t, u) \/ Ahead(key, u, t)
  <1>1. \A t \in drawn : key[t] \in Keys6 /\ t \in Int
    BY DEF Sortable
  <1>2. \A t, u \in Int : ~(t < t) /\ (t = u \/ t < u \/ u < t)
    OBVIOUS
  <1>3. \A t, u, v \in Int : t < u /\ u < v => t < v
    OBVIOUS
  <1>q. QED BY <1>1, <1>2, <1>3, GreaterIsOrder DEF Ahead

(* The teams in the order of their keys.                                    *)
InOrder(key, order) ==
  /\ order \in [1 .. Cardinality(drawn) -> drawn]
  /\ \A i, j \in 1 .. Cardinality(drawn) : i < j => Ahead(key, order[i], order[j])

(* A larger finite set has more elements.                                   *)
LEMMA MoreOf ==
  ASSUME NEW S, IsFiniteSet(S), NEW A \in SUBSET S, NEW B \in SUBSET S, A \subseteq B, NEW x \in B, x \notin A
  PROVE  Cardinality(A) < Cardinality(B) /\ Cardinality(A) \in Nat /\ Cardinality(B) \in Nat
  <1>1. IsFiniteSet(B) /\ IsFiniteSet(A)
    BY FS_Subset
  <1>2. Cardinality(A) <= Cardinality(B) /\ (Cardinality(B) = Cardinality(A) => B = A)
    BY <1>1, FS_Subset
  <1>3. Cardinality(A) \in Nat /\ Cardinality(B) \in Nat
    BY <1>1, FS_CardinalityType
  <1>q. QED BY <1>2, <1>3

(* There is an order: each team comes after as many as are ahead of it. *)
LEMMA OrderExists ==
  ASSUME NEW key, Sortable(key)
  PROVE  \E order : InOrder(key, order)
  <1> DEFINE N == Cardinality(drawn)
             ahead(t) == {u \in drawn : Ahead(key, u, t)}
             at == [t \in drawn |-> 1 + Cardinality(ahead(t))]
  <1>1. IsFiniteSet(drawn) /\ N \in Nat
    BY FS_CardinalityType DEF Sortable
  <1>2. \A t \in drawn : ahead(t) \in SUBSET drawn /\ t \notin ahead(t)
    BY AheadIsOrder
  <1>3. ASSUME NEW t \in drawn PROVE at[t] \in 1 .. N
    <2>1. Cardinality(ahead(t)) < N /\ Cardinality(ahead(t)) \in Nat
      BY <1>1, <1>2, MoreOf
    <2>q. QED BY <1>1, <2>1
  <1>4. ASSUME NEW t \in drawn, NEW u \in drawn, Ahead(key, t, u) PROVE at[t] < at[u]
    <2>1. ahead(t) \subseteq ahead(u) /\ t \in ahead(u) /\ t \notin ahead(t)
      BY <1>4, AheadIsOrder
    <2>2. Cardinality(ahead(t)) < Cardinality(ahead(u)) /\ Cardinality(ahead(t)) \in Nat
          /\ Cardinality(ahead(u)) \in Nat
      BY <1>1, <1>2, <2>1, MoreOf
    <2>q. QED BY <2>2
  <1>5. \A t \in drawn : at[t] \in Int
    BY <1>1, <1>3
  <1>6. at \in [drawn -> 1 .. N]
    BY <1>3
  <1> HIDE DEF at
  <1>7. \A t, u \in drawn : at[t] = at[u] => t = u
    BY <1>4, <1>5, AheadIsOrder
  <1>8. at \in Injection(drawn, 1 .. N)
    BY <1>6, <1>7 DEF Injection, IsInjective
  <1>9. IsFiniteSet(1 .. N) /\ Cardinality(1 .. N) = N
    BY <1>1, FS_Interval
  <1>10. at \in Surjection(drawn, 1 .. N)
    BY <1>8, <1>9, FS_Injection
  <1> DEFINE order == [i \in 1 .. N |-> CHOOSE t \in drawn : at[t] = i]
  <1>11. \A i \in 1 .. N : order[i] \in drawn /\ at[order[i]] = i
    BY <1>10 DEF Surjection
  <1>12. InOrder(key, order)
    <2>1. order \in [1 .. N -> drawn]
      BY <1>11
    <2>2. ASSUME NEW i \in 1 .. N, NEW j \in 1 .. N, i < j
          PROVE  Ahead(key, order[i], order[j])
      <3>1. ~Ahead(key, order[j], order[i]) /\ order[i] # order[j]
        BY <1>4, <1>11, <2>2
      <3>q. QED BY <1>11, <3>1, AheadIsOrder
    <2>q. QED BY <2>1, <2>2 DEF InOrder
  <1>q. QED BY <1>12

(* So Ordered, which chooses one, is in order.                              *)
LEMMA OrderedIsInOrder ==
  ASSUME NEW key, Sortable(key)
  PROVE  InOrder(key, Ordered(key))
  <1> DEFINE N == Cardinality(drawn)
             Good(order) == \A i, j \in DOMAIN order : i < j => Ahead(key, order[i], order[j])
  <1>1. \A order : InOrder(key, order) <=> order \in [1 .. N -> drawn] /\ Good(order)
    BY DEF InOrder
  <1>2. \E order \in [1 .. N -> drawn] : Good(order)
    BY <1>1, OrderExists
  <1>3. Ordered(key) = CHOOSE order \in [1 .. N -> drawn] : Good(order)
    BY DEF Ordered
  <1> HIDE DEF Good, N
  <1>4. Ordered(key) \in [1 .. N -> drawn] /\ Good(Ordered(key))
    BY <1>2, <1>3
  <1>q. QED BY <1>1, <1>4

(* It names every team once. *)
LEMMA InOrderNames ==
  ASSUME NEW key, Sortable(key), NEW order, InOrder(key, order)
  PROVE  /\ \A i, j \in 1 .. Cardinality(drawn) : order[i] = order[j] => i = j
         /\ \A t \in drawn : \E i \in 1 .. Cardinality(drawn) : order[i] = t
  <1> DEFINE N == Cardinality(drawn)
  <1>1. IsFiniteSet(drawn) /\ N \in Nat
    BY FS_CardinalityType DEF Sortable
  <1>2. \A i, j \in 1 .. N : order[i] = order[j] => i = j
    <2> SUFFICES ASSUME NEW i \in 1 .. N, NEW j \in 1 .. N, i < j PROVE order[i] # order[j]
      BY <1>1
    <2>q. QED BY AheadIsOrder DEF InOrder
  <1>3. order \in Injection(1 .. N, drawn)
    BY <1>2 DEF InOrder, Injection, IsInjective
  <1>4. Cardinality(1 .. N) = N
    BY <1>1, FS_Interval
  <1>5. order \in Surjection(1 .. N, drawn)
    BY <1>1, <1>3, <1>4, FS_Injection
  <1>q. QED BY <1>2, <1>5 DEF Surjection

-----------------------------------------------------------------------------
(* The ranks RankedAs gives one place after the other.                      *)
Tied(key, order, i) == i > 1 /\ key[order[i]] = key[order[i - 1]]
Ranking(key, order, rank) ==
  rank = [i \in 0 .. Cardinality(drawn) |-> IF Tied(key, order, i) THEN rank[i - 1] ELSE i]
TheRanking(key, order) == CHOOSE rank : Ranking(key, order, rank)

(* The ranking of RankedAs.                                                 *)
LEMMA RankedIs ==
  \A key, order : RankedAs(key, order) =
    [t \in drawn |-> TheRanking(key, order)[CHOOSE i \in DOMAIN order : order[i] = t]]
  BY DEF RankedAs, TheRanking, Ranking, Tied

(* Those ahead of a team by their keys. *)
Above(key, t) == {u \in drawn : Greater(key[u], key[t])}

(* There is a ranking that follows its own rule.                            *)
LEMMA RankingExists ==
  ASSUME NEW key, Sortable(key), NEW order, InOrder(key, order)
  PROVE  \E rank : Ranking(key, order, rank)
  <1> DEFINE N == Cardinality(drawn)
             same(i) == {m \in 1 .. i : key[order[m]] = key[order[i]]}
             First(i) == CHOOSE m \in same(i) : \A l \in same(i) : m <= l
             rank == [i \in 0 .. N |-> IF i = 0 THEN 0 ELSE First(i)]
  <1>1. N \in Nat
    BY FS_CardinalityType DEF Sortable
  <1>2. ASSUME NEW i \in 1 .. N
        PROVE  First(i) \in same(i) /\ \A l \in same(i) : First(i) <= l
    <2>1. i \in same(i) /\ same(i) \in SUBSET Nat
      BY <1>1
    <2> HIDE DEF same
    <2>2. \E m \in same(i) : \A l \in same(i) : m <= l
      BY <2>1, SmallestNumber
    <2>q. QED BY <2>2
  <1> HIDE DEF First
  <1>3. ASSUME NEW i \in 1 .. N, Tied(key, order, i) PROVE First(i) = First(i - 1)
    <2>1. i - 1 \in 1 .. N
      BY <1>1, <1>3 DEF Tied
    <2>2. \A m \in 1 .. i - 1 : m \in same(i) <=> m \in same(i - 1)
      BY <1>1, <1>3 DEF Tied
    <2>3. i - 1 \in same(i - 1)
      BY <2>1
    <2>4. First(i) <= i - 1
      BY <1>1, <1>2, <2>1, <2>2, <2>3
    <2>5. First(i) \in same(i - 1) /\ First(i - 1) \in same(i)
      BY <1>1, <1>2, <2>1, <2>2, <2>4
    <2>6. First(i) <= First(i - 1) /\ First(i - 1) <= First(i)
      BY <1>2, <2>1, <2>5
    <2>q. QED BY <1>1, <1>2, <2>1, <2>6
  <1>4. ASSUME NEW i \in 1 .. N, ~Tied(key, order, i) PROVE First(i) = i
    <2> DEFINE m == First(i)
    <2>1. m \in 1 .. i /\ key[order[m]] = key[order[i]]
      BY <1>2
    <2> HIDE DEF m
    <2>2. CASE m < i
      <3>1. i - 1 \in 1 .. N /\ m \in 1 .. N /\ m <= i - 1 /\ i > 1
        BY <1>1, <2>1, <2>2
      <3>2. order[i] \in drawn /\ order[m] \in drawn /\ order[i - 1] \in drawn
        BY <3>1 DEF InOrder
      <3>3. Ahead(key, order[i - 1], order[i])
        BY <3>1 DEF InOrder
      <3>4. m = i - 1 \/ Ahead(key, order[m], order[i - 1])
        BY <3>1 DEF InOrder
      <3>5. key[order[i]] \in Keys6 /\ key[order[i - 1]] \in Keys6
        BY <3>2 DEF Sortable
      <3>6. key[order[i - 1]] # key[order[i]]
        BY <1>4, <3>1 DEF Tied
      <3>q. QED BY <2>1, <3>3, <3>4, <3>5, <3>6, GreaterIsOrder DEF Ahead
    <2>q. QED BY <1>1, <2>1, <2>2 DEF m
  <1>5. Ranking(key, order, rank)
    <2>1. ASSUME NEW i \in 0 .. N
          PROVE  rank[i] = IF Tied(key, order, i) THEN rank[i - 1] ELSE i
      <3>1. CASE i = 0
        BY <3>1 DEF Tied
      <3>2. CASE i # 0 /\ Tied(key, order, i)
        <4>1. i \in 1 .. N /\ i - 1 \in 1 .. N
          BY <1>1, <3>2 DEF Tied
        <4>q. QED BY <1>3, <3>2, <4>1
      <3>3. CASE i # 0 /\ ~Tied(key, order, i)
        <4>1. i \in 1 .. N
          BY <1>1, <3>3
        <4>q. QED BY <1>4, <3>3, <4>1
      <3>q. QED BY <3>1, <3>2, <3>3
    <2> HIDE DEF N
    <2>2. rank = [i \in 0 .. N |-> rank[i]]
      OBVIOUS
    <2> HIDE DEF rank
    <2>3. rank = [i \in 0 .. N |-> IF Tied(key, order, i) THEN rank[i - 1] ELSE i]
      BY <2>1, <2>2
    <2>q. QED BY <2>3 DEF Ranking, N
  <1>q. QED BY <1>5

(* A place's rank is the first place with its key. *)
LEMMA RanksAreFirst ==
  ASSUME NEW key, Sortable(key), NEW order, InOrder(key, order), NEW rank, Ranking(key, order, rank)
  PROVE  \A i \in 1 .. Cardinality(drawn) :
           /\ rank[i] \in 1 .. i /\ key[order[rank[i]]] = key[order[i]]
           /\ \A j \in 1 .. rank[i] - 1 : Greater(key[order[j]], key[order[i]])
  <1> DEFINE N == Cardinality(drawn)
             First(i) == /\ rank[i] \in 1 .. i /\ key[order[rank[i]]] = key[order[i]]
                         /\ \A j \in 1 .. rank[i] - 1 : Greater(key[order[j]], key[order[i]])
             wrong == {i \in 1 .. N : ~First(i)}
  <1>1. N \in Nat
    BY FS_CardinalityType DEF Sortable
  <1>2. SUFFICES ASSUME wrong # {} PROVE FALSE
    OBVIOUS
  <1>3. wrong \in SUBSET Nat
    BY <1>1
  <1> HIDE DEF wrong
  <1>4. PICK i \in wrong : \A m \in wrong : i <= m
    BY <1>2, <1>3, SmallestNumber
  <1>5. i \in 1 .. N /\ ~First(i)
    BY <1>4 DEF wrong
  <1>6. rank[i] = IF Tied(key, order, i) THEN rank[i - 1] ELSE i
    BY <1>1, <1>5 DEF Ranking
  <1>7. CASE Tied(key, order, i)
    <2>1. i - 1 \in 1 .. N /\ key[order[i]] = key[order[i - 1]]
      BY <1>1, <1>5, <1>7 DEF Tied
    <2>2. First(i - 1)
      BY <1>1, <1>4, <1>5, <2>1 DEF wrong
    <2>q. QED BY <1>1, <1>5, <1>6, <1>7, <2>1, <2>2
  <1>8. CASE ~Tied(key, order, i)
    <2>1. rank[i] = i
      BY <1>6, <1>8
    <2>2. ASSUME NEW j \in 1 .. i - 1 PROVE Greater(key[order[j]], key[order[i]])
      <3>1. i - 1 \in 1 .. N /\ j \in 1 .. N /\ i > 1 /\ j < i /\ i - 1 < i /\ (j = i - 1 \/ j < i - 1)
        BY <1>1, <1>5, <2>2
      <3>2. order[i] \in drawn /\ order[j] \in drawn /\ order[i - 1] \in drawn
        BY <1>5, <3>1 DEF InOrder
      <3>3. Ahead(key, order[i - 1], order[i]) /\ (j = i - 1 \/ Ahead(key, order[j], order[i - 1]))
        BY <1>5, <3>1 DEF InOrder
      <3>4. key[order[i]] \in Keys6 /\ key[order[j]] \in Keys6 /\ key[order[i - 1]] \in Keys6
        BY <3>2 DEF Sortable
      <3>5. key[order[i - 1]] # key[order[i]]
        BY <1>8, <3>1 DEF Tied
      <3>q. QED BY <3>3, <3>4, <3>5, GreaterIsOrder DEF Ahead
    <2>q. QED BY <1>1, <1>5, <2>1, <2>2
  <1>q. QED BY <1>7, <1>8

(* The rank of a team counts the teams above it. *)
LEMMA RanksCount ==
  ASSUME NEW key, Sortable(key)
  PROVE  /\ RankGroup(key) \in [drawn -> Nat]
         /\ \A t \in drawn : RankGroup(key)[t] = 1 + Cardinality(Above(key, t))
  <1> DEFINE N == Cardinality(drawn)
             order == Ordered(key)
             rank == TheRanking(key, order)
             place(t) == CHOOSE i \in DOMAIN order : order[i] = t
  <1>1. N \in Nat /\ IsFiniteSet(drawn)
    BY FS_CardinalityType DEF Sortable
  <1>2. InOrder(key, order)
    BY OrderedIsInOrder
  <1> HIDE DEF order
  <1>3. Ranking(key, order, rank)
    BY <1>2, RankingExists DEF TheRanking
  <1>4. DOMAIN order = 1 .. N
    BY <1>2 DEF InOrder
  <1>5. RankGroup(key) = [t \in drawn |-> rank[place(t)]]
    BY RankedIs DEF RankGroup, order
  <1>6. \A t \in drawn : place(t) \in 1 .. N /\ order[place(t)] = t
    BY <1>2, <1>4, InOrderNames
  <1> HIDE DEF rank, place
  <1>7. ASSUME NEW t \in drawn PROVE rank[place(t)] = 1 + Cardinality(Above(key, t)) /\ rank[place(t)] \in Nat
    <2> DEFINE i == place(t)
               r == rank[i]
               before == [j \in 1 .. r - 1 |-> order[j]]
    <2>1. i \in 1 .. N /\ order[i] = t
      BY <1>6
    <2> HIDE DEF i
    <2>2. /\ r \in 1 .. i /\ key[order[r]] = key[t]
          /\ \A j \in 1 .. r - 1 : Greater(key[order[j]], key[t])
      BY <1>2, <1>3, <2>1, RanksAreFirst
    <2> HIDE DEF r
    <2>3. 1 .. r - 1 \subseteq 1 .. N /\ r \in 1 .. N
      BY <1>1, <2>1, <2>2
    <2>4. before \in [1 .. r - 1 -> Above(key, t)]
      BY <1>2, <2>2, <2>3 DEF Above, InOrder
    <2>5. \A j, l \in 1 .. r - 1 : before[j] = before[l] => j = l
      BY <1>2, <2>3, InOrderNames
    <2>6. ASSUME NEW u \in Above(key, t) PROVE \E j \in 1 .. r - 1 : before[j] = u
      <3>1. u \in drawn /\ Greater(key[u], key[t])
        BY DEF Above
      <3>2. PICK j \in 1 .. N : order[j] = u
        BY <1>2, <3>1, InOrderNames
      <3>3. CASE j < r
        <4>1. j \in 1 .. r - 1
          BY <1>1, <2>3, <3>2, <3>3
        <4>q. QED BY <3>2, <4>1
      <3>4. CASE j = r
        BY <2>1, <2>2, <3>1, <3>2, <3>4, GreaterIsOrder DEF Sortable
      <3>5. CASE r < j
        <4>1. Ahead(key, order[r], u) /\ order[r] \in drawn
          BY <1>2, <2>3, <3>2, <3>5 DEF InOrder
        <4>2. key[t] \in Keys6 /\ key[u] \in Keys6
          BY <3>1 DEF Sortable
        <4>q. QED BY <2>2, <3>1, <4>1, <4>2, GreaterIsOrder DEF Ahead
      <3>q. QED BY <1>1, <2>3, <3>2, <3>3, <3>4, <3>5
    <2> HIDE DEF before
    <2>7. before \in Injection(1 .. r - 1, Above(key, t)) /\ before \in Surjection(1 .. r - 1, Above(key, t))
      BY <2>4, <2>5, <2>6 DEF Injection, IsInjective, Surjection
    <2>8. IsFiniteSet(Above(key, t))
      BY <1>1, FS_Subset DEF Above
    <2>9. Cardinality(1 .. r - 1) = r - 1
      BY <2>3, FS_Interval
    <2>10. Cardinality(1 .. r - 1) = Cardinality(Above(key, t))
      BY <2>7, <2>8, FS_Injection
    <2>11. Cardinality(Above(key, t)) \in Nat
      BY <2>8, FS_CardinalityType
    <2>q. QED BY <2>3, <2>9, <2>10, <2>11 DEF r, i
  <1>q. QED BY <1>5, <1>7

(* A team is ahead by rank just when it is by key.                          *)
LEMMA RanksFollowKeys ==
  ASSUME NEW key, Sortable(key), NEW t \in drawn, NEW u \in drawn
  PROVE  RankGroup(key)[t] < RankGroup(key)[u] <=> Greater(key[t], key[u])
  <1>1. /\ Above(key, t) \in SUBSET drawn /\ Above(key, u) \in SUBSET drawn /\ IsFiniteSet(drawn)
        /\ \A v \in drawn : key[v] \in Keys6
    BY DEF Above, Sortable
  <1>2. ASSUME NEW v \in drawn, NEW w \in drawn, Greater(key[v], key[w])
        PROVE  RankGroup(key)[v] < RankGroup(key)[w]
    <2>1. /\ Above(key, v) \in SUBSET drawn /\ Above(key, w) \in SUBSET drawn
          /\ Above(key, v) \subseteq Above(key, w) /\ v \in Above(key, w) /\ v \notin Above(key, v)
      BY <1>1, <1>2, GreaterIsOrder DEF Above
    <2>2. Cardinality(Above(key, v)) < Cardinality(Above(key, w))
          /\ Cardinality(Above(key, v)) \in Nat /\ Cardinality(Above(key, w)) \in Nat
      BY <1>1, <2>1, MoreOf
    <2>q. QED BY <2>2, RanksCount
  <1>3. CASE Greater(key[t], key[u])
    BY <1>2, <1>3
  <1>4. CASE Greater(key[u], key[t])
    <2>1. ~Greater(key[t], key[u])
      BY <1>1, <1>4, GreaterIsOrder
    <2>2. RankGroup(key)[u] < RankGroup(key)[t] /\ RankGroup(key)[u] \in Nat /\ RankGroup(key)[t] \in Nat
      BY <1>2, <1>4, RanksCount
    <2>q. QED BY <2>1, <2>2
  <1>5. CASE key[t] = key[u]
    <2>1. Above(key, t) = Above(key, u)
      BY <1>5 DEF Above
    <2>2. RankGroup(key)[t] = RankGroup(key)[u] /\ RankGroup(key)[t] \in Nat
      BY <2>1, RanksCount
    <2>q. QED BY <1>1, <1>5, <2>2, GreaterIsOrder
  <1>q. QED BY <1>1, <1>3, <1>4, <1>5, GreaterIsOrder

-----------------------------------------------------------------------------
(* Finitely many teams, ordered by name, and games between two of them.     *)
StandingsAssumptions ==
  /\ IsFiniteSet(Teams) /\ Teams \subseteq Int /\ IsFiniteSet(Games)
  /\ Home \in [Games -> Teams] /\ Away \in [Games -> Teams]
  /\ \A g \in Games : Home[g] # Away[g]
  /\ \A outcome \in Outcomes : outcome.home \in Int /\ outcome.away \in Int

(* What the table of a group is made from. *)
Fit ==
  /\ StandingsAssumptions
  /\ drawn \in SUBSET Teams
  /\ \A g \in Games : result[g].home \in Int /\ result[g].away \in Int

(* The games of a team, those at home and those away, and their scores.     *)
Own(t, games) == {g \in games : t \in {Home[g], Away[g]}}
AtHome(t, games) == {g \in games : Home[g] = t}
Visiting(t, games) == {g \in games : Away[g] = t}
HomeScores == [g \in Games |-> result[g].home]
AwayScores == [g \in Games |-> result[g].away]

(* The facts about a group that the sums need.                              *)
LEMMA FitTypes ==
  ASSUME Fit
  PROVE  /\ IsFiniteSet(drawn) /\ drawn \subseteq Int /\ drawn \subseteq Teams
         /\ IsFiniteSet(Games) /\ IsFiniteSet(Counted) /\ Counted \in SUBSET Games
         /\ \A G \in SUBSET Games : IsFiniteSet(G)
         /\ \A g \in Games : /\ Home[g] \in Teams /\ Away[g] \in Teams /\ Home[g] # Away[g]
                             /\ HomeScores[g] = result[g].home /\ AwayScores[g] = result[g].away
                             /\ HomeScores[g] \in Int /\ AwayScores[g] \in Int
         /\ \A g \in Counted : Home[g] \in drawn /\ Away[g] \in drawn
  BY FS_Subset DEF Fit, StandingsAssumptions, Counted, Resolved, HomeScores, AwayScores

(* A team plays its games at home or away.                                  *)
LEMMA TwoSides ==
  ASSUME Fit, NEW G \in SUBSET Games, NEW t
  PROVE  /\ Own(t, G) = AtHome(t, G) \cup Visiting(t, G) /\ AtHome(t, G) \cap Visiting(t, G) = {}
         /\ Own(t, G) \in SUBSET Games /\ AtHome(t, G) \in SUBSET Games /\ Visiting(t, G) \in SUBSET Games
         /\ IsFiniteSet(Own(t, G)) /\ IsFiniteSet(AtHome(t, G)) /\ IsFiniteSet(Visiting(t, G))
  <1>1. /\ Own(t, G) = AtHome(t, G) \cup Visiting(t, G) /\ AtHome(t, G) \cap Visiting(t, G) = {}
        /\ Own(t, G) \in SUBSET Games /\ AtHome(t, G) \in SUBSET Games /\ Visiting(t, G) \in SUBSET Games
    BY FitTypes DEF Own, AtHome, Visiting
  <1>q. QED BY <1>1, FitTypes

(* The sum over a function's domain.                                        *)
LEMMA SumOfFunction ==
  ASSUME NEW S, NEW f, DOMAIN f = S
  PROVE  SumFunction(f) = Sum(f, S)
  BY DEF SumFunction, Sum

(* What a team scored and conceded, summed over its games at home and away. *)
LEMMA ScoredIs ==
  ASSUME Fit, NEW G \in SUBSET Games, NEW t
  PROVE  /\ Total(t, G).for = Sum(HomeScores, AtHome(t, G)) + Sum(AwayScores, Visiting(t, G))
         /\ Total(t, G).against = Sum(AwayScores, AtHome(t, G)) + Sum(HomeScores, Visiting(t, G))
  <1> DEFINE side(g) == IF t = Home[g] THEN "home" ELSE "away"
             other(g) == IF t = Home[g] THEN "away" ELSE "home"
             own == Own(t, G)
             f == [g \in own |-> result[g][side(g)]]
             a == [g \in own |-> result[g][other(g)]]
             H == AtHome(t, G)
             V == Visiting(t, G)
  <1>1. Total(t, G).for = SumFunction(f) /\ Total(t, G).against = SumFunction(a)
    BY DEF Total, Own
  <1>2. /\ \A g \in H : f[g] = HomeScores[g] /\ a[g] = AwayScores[g]
        /\ \A g \in V : f[g] = AwayScores[g] /\ a[g] = HomeScores[g]
    <2>1. ASSUME NEW g \in H PROVE f[g] = HomeScores[g] /\ a[g] = AwayScores[g]
      <3>1. g \in own /\ t = Home[g] /\ g \in Games
        BY DEF Own, AtHome
      <3>2. f[g] = result[g].home /\ a[g] = result[g].away
        BY <3>1
      <3>q. QED BY <3>1, <3>2, FitTypes
    <2>2. ASSUME NEW g \in V PROVE f[g] = AwayScores[g] /\ a[g] = HomeScores[g]
      <3>1. g \in own /\ t = Away[g] /\ g \in Games
        BY DEF Own, Visiting
      <3>2. t # Home[g]
        BY <3>1, FitTypes
      <3>3. f[g] = result[g].away /\ a[g] = result[g].home
        BY <3>1, <3>2
      <3>q. QED BY <3>1, <3>3, FitTypes
    <2>q. QED BY <2>1, <2>2
  <1>3. /\ own = H \cup V /\ H \cap V = {} /\ IsFiniteSet(H) /\ IsFiniteSet(V)
        /\ H \in SUBSET Games /\ V \in SUBSET Games
    BY TwoSides
  <1>4. DOMAIN f = own /\ DOMAIN a = own
    OBVIOUS
  <1> HIDE DEF own, f, a, H, V
  <1>5. SumFunction(f) = Sum(f, H \cup V) /\ SumFunction(a) = Sum(a, H \cup V)
    BY <1>3, <1>4, SumOfFunction
  <1>6. /\ \A g \in H : HomeScores[g] \in Int /\ AwayScores[g] \in Int
        /\ \A g \in V : HomeScores[g] \in Int /\ AwayScores[g] \in Int
    BY <1>3, FitTypes
  <1>7. Sum(f, H \cup V) = Sum(f, H) + Sum(f, V)
    <2>1. \A g \in H \cup V : f[g] \in Int
      BY <1>2, <1>6
    <2>q. QED BY <2>1, <1>3, SumUnion
  <1>8. Sum(a, H \cup V) = Sum(a, H) + Sum(a, V)
    <2>1. \A g \in H \cup V : a[g] \in Int
      BY <1>2, <1>6
    <2>q. QED BY <2>1, <1>3, SumUnion
  <1>9. Sum(f, H) = Sum(HomeScores, H) /\ Sum(f, V) = Sum(AwayScores, V)
    <2>1. /\ \A g \in H : HomeScores[g] \in Int /\ f[g] = HomeScores[g]
          /\ \A g \in V : AwayScores[g] \in Int /\ f[g] = AwayScores[g]
      BY <1>2, <1>6
    <2>q. QED BY <2>1, <1>3, SumSame
  <1>10. Sum(a, H) = Sum(AwayScores, H) /\ Sum(a, V) = Sum(HomeScores, V)
    <2>1. /\ \A g \in H : AwayScores[g] \in Int /\ a[g] = AwayScores[g]
          /\ \A g \in V : HomeScores[g] \in Int /\ a[g] = HomeScores[g]
      BY <1>2, <1>6
    <2>q. QED BY <2>1, <1>3, SumSame
  <1>q. QED BY <1>1, <1>5, <1>7, <1>8, <1>9, <1>10 DEF H, V

(* What a team scored and conceded are numbers.                             *)
LEMMA ScoresAreNumbers ==
  ASSUME Fit, NEW G \in SUBSET Games, NEW t
  PROVE  Total(t, G).for \in Int /\ Total(t, G).against \in Int
  <1>1. \A S \in SUBSET Games : Sum(HomeScores, S) \in Int /\ Sum(AwayScores, S) \in Int
    <2>1. ASSUME NEW S \in SUBSET Games
          PROVE  Sum(HomeScores, S) \in Int /\ Sum(AwayScores, S) \in Int
      <3>1. IsFiniteSet(S) /\ (\A g \in S : HomeScores[g] \in Int) /\ (\A g \in S : AwayScores[g] \in Int)
        BY FitTypes
      <3>q. QED BY <3>1, SumRules
    <2>q. QED BY <2>1
  <1>q. QED BY <1>1, TwoSides, ScoredIs

(* Points are numbers; of one game they are the points of the side.         *)
LEMMA PointsAreNumbers ==
  ASSUME Fit, NEW G \in SUBSET Games, NEW t
  PROVE  /\ Total(t, G).points \in Int
         /\ \A g : G = {g} /\ g \in Own(t, G) =>
              Total(t, G).points = IF t = Home[g] THEN CompetitionPoints(g).home ELSE CompetitionPoints(g).away
  <1> DEFINE side(g) == IF t = Home[g] THEN "home" ELSE "away"
             own == Own(t, G)
             p == [g \in own |-> CompetitionPoints(g)[side(g)]]
  <1>1. Total(t, G).points = SumFunction(p)
    BY DEF Total, Own
  <1>2. \A g \in own :
          /\ p[g] = IF t = Home[g] THEN CompetitionPoints(g).home ELSE CompetitionPoints(g).away
          /\ p[g] \in Int
    BY DEF CompetitionPoints
  <1>3. DOMAIN p = own
    OBVIOUS
  <1>4. IsFiniteSet(own) /\ own \in SUBSET G
    BY TwoSides DEF Own
  <1> HIDE DEF own, p
  <1>5. SumFunction(p) = Sum(p, own)
    BY <1>3, SumOfFunction
  <1>6. Sum(p, own) \in Int /\ \A g \in own : Sum(p, own) = p[g] + Sum(p, own \ {g})
    BY <1>2, <1>4, SumRules
  <1>7. ASSUME NEW g, G = {g}, g \in own
        PROVE  Sum(p, own) = p[g]
    <2>1. own \ {g} = {}
      BY <1>4, <1>7
    <2>2. Sum(p, {}) = 0
      BY SumEmpty DEF Sum
    <2>q. QED BY <1>2, <1>6, <1>7, <2>1, <2>2
  <1>q. QED BY <1>1, <1>2, <1>5, <1>6, <1>7 DEF own

-----------------------------------------------------------------------------
(* What all teams have of a column is a sum over the teams. *)
LEMMA SumOfColumn ==
  ASSUME Fit, NEW field, NEW h, \A t \in drawn : h[t] \in Int /\ h[t] = Total(t, Counted)[field]
  PROVE  SumOf(Table, field) = Sum(h, drawn)
  <1> DEFINE c == [t \in drawn |-> Table[t][field]]
  <1>1. DOMAIN c = drawn /\ \A t \in drawn : c[t] = h[t]
    BY DEF Table
  <1>2. SumOf(Table, field) = SumFunction(c)
    BY DEF SumOf
  <1> HIDE DEF c
  <1>3. SumFunction(c) = Sum(c, drawn)
    BY <1>1, SumOfFunction
  <1>4. Sum(h, drawn) = Sum(c, drawn)
    BY <1>1, FitTypes, SumSame
  <1>q. QED BY <1>2, <1>3, <1>4

(* Each game that counts has one winner. *)
LEMMA WinsAddUp ==
  ASSUME Fit
  PROVE  SumOf(Table, "wins") = Cardinality(Counted)
  <1> DEFINE winner == [g \in Counted |-> IF HomeWon(g) THEN Home[g] ELSE Away[g]]
             won(t) == {g \in Counted : winner[g] = t}
             h == [t \in drawn |-> Cardinality(won(t))]
  <1>1. winner \in [Counted -> drawn]
    BY FitTypes
  <1>2. ASSUME NEW t \in drawn PROVE Total(t, Counted).wins = Cardinality(won(t))
    <2> DEFINE W == {g \in Own(t, Counted) : HomeWon(g) <=> t = Home[g]}
    <2>1. Total(t, Counted).wins = Cardinality(W)
      BY DEF Total, Own
    <2>2. ASSUME NEW g \in Counted PROVE g \in W <=> g \in won(t)
      BY FitTypes DEF Own
    <2>3. W \subseteq Counted /\ won(t) \subseteq Counted
      BY DEF Own
    <2> HIDE DEF W, won
    <2>4. W = won(t)
      BY <2>2, <2>3
    <2>q. QED BY <2>1, <2>4
  <1>3. \A t \in drawn : won(t) \in SUBSET Counted
    OBVIOUS
  <1> HIDE DEF winner
  <1>4. \A t \in drawn : Cardinality(won(t)) \in Nat
    BY <1>3, FitTypes, FS_CardinalityType
  <1>5. Sum(h, drawn) = Cardinality(Counted)
    <2>1. \A t \in drawn : h[t] = Cardinality({g \in Counted : winner[g] = t})
      OBVIOUS
    <2> HIDE DEF h
    <2>q. QED BY <2>1, <1>1, FitTypes, CountParts
  <1>6. \A t \in drawn : h[t] \in Int /\ h[t] = Total(t, Counted).wins
    BY <1>2, <1>4
  <1> HIDE DEF h
  <1>7. SumOf(Table, "wins") = Sum(h, drawn)
    BY <1>6, SumOfColumn
  <1>q. QED BY <1>5, <1>7

(* Each game that counts was played at home by one team and away by another. *)
LEMMA PlayedAddUp ==
  ASSUME Fit
  PROVE  SumOf(Table, "played") = 2 * Cardinality(Counted)
  <1> DEFINE home == [g \in Counted |-> Home[g]]
             away == [g \in Counted |-> Away[g]]
             hosted == [t \in drawn |-> Cardinality({g \in Counted : home[g] = t})]
             visited == [t \in drawn |-> Cardinality({g \in Counted : away[g] = t})]
             both == [t \in drawn |-> hosted[t] + visited[t]]
  <1>1. home \in [Counted -> drawn] /\ away \in [Counted -> drawn]
    BY FitTypes
  <1>2. ASSUME NEW t \in drawn
        PROVE  /\ hosted[t] = Cardinality(AtHome(t, Counted)) /\ visited[t] = Cardinality(Visiting(t, Counted))
               /\ hosted[t] \in Nat /\ visited[t] \in Nat
               /\ both[t] = Total(t, Counted).played
    <2>1. {g \in Counted : home[g] = t} = AtHome(t, Counted)
          /\ {g \in Counted : away[g] = t} = Visiting(t, Counted)
      BY DEF AtHome, Visiting
    <2>2. hosted[t] = Cardinality(AtHome(t, Counted)) /\ visited[t] = Cardinality(Visiting(t, Counted))
      BY <2>1
    <2>3. Total(t, Counted).played = Cardinality(Own(t, Counted))
      BY DEF Total, Own
    <2>4. both[t] = hosted[t] + visited[t]
      OBVIOUS
    <2> HIDE DEF hosted, visited, both
    <2>5. Counted \in SUBSET Games
      BY FitTypes
    <2>6. /\ Own(t, Counted) = AtHome(t, Counted) \cup Visiting(t, Counted)
          /\ AtHome(t, Counted) \cap Visiting(t, Counted) = {}
          /\ IsFiniteSet(AtHome(t, Counted)) /\ IsFiniteSet(Visiting(t, Counted))
      BY <2>5, TwoSides
    <2>7. /\ Cardinality(AtHome(t, Counted)) \in Nat /\ Cardinality(Visiting(t, Counted)) \in Nat
          /\ Cardinality(Own(t, Counted)) =
               Cardinality(AtHome(t, Counted)) + Cardinality(Visiting(t, Counted))
      <3> DEFINE A == AtHome(t, Counted)
                 B == Visiting(t, Counted)
      <3>1. IsFiniteSet(A) /\ IsFiniteSet(B) /\ A \cap B = {} /\ Own(t, Counted) = A \cup B
        BY <2>6
      <3> HIDE DEF A, B
      <3>2. Cardinality(A \cup B) = Cardinality(A) + Cardinality(B) - Cardinality(A \cap B)
        BY <3>1, FS_Union
      <3>3. Cardinality(A) \in Nat /\ Cardinality(B) \in Nat
        BY <3>1, FS_CardinalityType
      <3>4. Cardinality(A \cap B) = 0
        BY <3>1, FS_EmptySet
      <3>q. QED BY <3>1, <3>2, <3>3, <3>4 DEF A, B
    <2>q. QED BY <2>2, <2>3, <2>4, <2>7
  <1>3. Sum(hosted, drawn) = Cardinality(Counted)
    <2>1. \A t \in drawn : hosted[t] = Cardinality({g \in Counted : home[g] = t})
      OBVIOUS
    <2> HIDE DEF hosted, home
    <2>q. QED BY <2>1, <1>1, FitTypes, CountParts
  <1>4. Sum(visited, drawn) = Cardinality(Counted)
    <2>1. \A t \in drawn : visited[t] = Cardinality({g \in Counted : away[g] = t})
      OBVIOUS
    <2> HIDE DEF visited, away
    <2>q. QED BY <2>1, <1>1, FitTypes, CountParts
  <1>5. \A t \in drawn : both[t] = hosted[t] + visited[t]
    OBVIOUS
  <1> HIDE DEF hosted, visited, both
  <1>6. Sum(both, drawn) = Sum(hosted, drawn) + Sum(visited, drawn)
    BY <1>2, <1>5, FitTypes, SumPlus
  <1>7. \A t \in drawn : both[t] \in Int /\ both[t] = Total(t, Counted).played
    BY <1>2, <1>5
  <1>8. SumOf(Table, "played") = Sum(both, drawn)
    BY <1>7, SumOfColumn
  <1>9. Cardinality(Counted) \in Nat
    BY FitTypes, FS_CardinalityType
  <1>q. QED BY <1>3, <1>4, <1>6, <1>8, <1>9

(* The games in which a team is on one side. *)
Part(side, t) == {g \in Counted : side[g] = t}

(* What one team scores its opponent concedes. *)
LEMMA ScoresByTeam ==
  ASSUME Fit, NEW f, \A g \in Games : f[g] \in Int, NEW side \in [Counted -> drawn],
         NEW h, \A t \in drawn : h[t] = Sum(f, Part(side, t))
  PROVE  Sum(h, drawn) = Sum(f, Counted) /\ \A t \in drawn : h[t] \in Int
  <1>1. /\ IsFiniteSet(Counted) /\ IsFiniteSet(drawn)
        /\ \A g \in Counted : f[g] \in Int
    BY FitTypes
  <1>2. Sum(h, drawn) = Sum(f, Counted)
    <2>1. \A t \in drawn : h[t] = Sum(f, {g \in Counted : side[g] = t})
      BY DEF Part
    <2>q. QED BY <1>1, <2>1, SumParts
  <1>3. ASSUME NEW t \in drawn PROVE h[t] \in Int
    <2> DEFINE S == Part(side, t)
    <2>1. S \in SUBSET Counted /\ IsFiniteSet(S)
      BY <1>1, FS_Subset DEF Part
    <2>2. \A g \in S : f[g] \in Int
      BY <1>1, <2>1
    <2>3. h[t] = Sum(f, S)
      OBVIOUS
    <2> HIDE DEF S
    <2>q. QED BY <2>1, <2>2, <2>3, SumRules
  <1>q. QED BY <1>2, <1>3

(* So what all have scored all have conceded.                               *)
LEMMA ScoresAddUp ==
  ASSUME Fit
  PROVE  SumOf(Table, "for") = SumOf(Table, "against")
  <1> DEFINE home == [g \in Counted |-> Home[g]]
             away == [g \in Counted |-> Away[g]]
             hh == [t \in drawn |-> Sum(HomeScores, Part(home, t))]
             ah == [t \in drawn |-> Sum(AwayScores, Part(home, t))]
             ha == [t \in drawn |-> Sum(HomeScores, Part(away, t))]
             aa == [t \in drawn |-> Sum(AwayScores, Part(away, t))]
             for == [t \in drawn |-> hh[t] + aa[t]]
             against == [t \in drawn |-> ah[t] + ha[t]]
  <1>1. home \in [Counted -> drawn] /\ away \in [Counted -> drawn]
    BY FitTypes
  <1>2. (\A g \in Games : HomeScores[g] \in Int) /\ (\A g \in Games : AwayScores[g] \in Int)
    BY FitTypes
  <1>3. \A t \in drawn : hh[t] = Sum(HomeScores, Part(home, t))
    OBVIOUS
  <1>4. \A t \in drawn : ah[t] = Sum(AwayScores, Part(home, t))
    OBVIOUS
  <1>5. \A t \in drawn : ha[t] = Sum(HomeScores, Part(away, t))
    OBVIOUS
  <1>6. \A t \in drawn : aa[t] = Sum(AwayScores, Part(away, t))
    OBVIOUS
  <1>7. \A t \in drawn : for[t] = hh[t] + aa[t] /\ against[t] = ah[t] + ha[t]
    OBVIOUS
  <1>8. ASSUME NEW t \in drawn
        PROVE  hh[t] + aa[t] = Total(t, Counted).for /\ ah[t] + ha[t] = Total(t, Counted).against
    <2>1. Part(home, t) = AtHome(t, Counted)
          /\ Part(away, t) = Visiting(t, Counted)
      BY DEF AtHome, Visiting, Part
    <2>2. Counted \in SUBSET Games
      BY FitTypes
    <2> HIDE DEF hh, ah, ha, aa
    <2>3. /\ hh[t] = Sum(HomeScores, AtHome(t, Counted)) /\ aa[t] = Sum(AwayScores, Visiting(t, Counted))
          /\ ah[t] = Sum(AwayScores, AtHome(t, Counted)) /\ ha[t] = Sum(HomeScores, Visiting(t, Counted))
      BY <1>3, <1>4, <1>5, <1>6, <2>1
    <2>q. QED BY <2>2, <2>3, ScoredIs
  <1> HIDE DEF home, away, hh, ah, ha, aa, for, against
  <1>9. Sum(hh, drawn) = Sum(HomeScores, Counted) /\ \A t \in drawn : hh[t] \in Int
    BY <1>1, <1>2, <1>3, ScoresByTeam
  <1>10. Sum(ah, drawn) = Sum(AwayScores, Counted) /\ \A t \in drawn : ah[t] \in Int
    BY <1>1, <1>2, <1>4, ScoresByTeam
  <1>11. Sum(ha, drawn) = Sum(HomeScores, Counted) /\ \A t \in drawn : ha[t] \in Int
    BY <1>1, <1>2, <1>5, ScoresByTeam
  <1>12. Sum(aa, drawn) = Sum(AwayScores, Counted) /\ \A t \in drawn : aa[t] \in Int
    BY <1>1, <1>2, <1>6, ScoresByTeam
  <1>13. Sum(for, drawn) = Sum(hh, drawn) + Sum(aa, drawn)
    BY <1>7, <1>9, <1>12, FitTypes, SumPlus
  <1>14. Sum(against, drawn) = Sum(ah, drawn) + Sum(ha, drawn)
    BY <1>7, <1>10, <1>11, FitTypes, SumPlus
  <1>15. /\ \A t \in drawn : for[t] \in Int /\ for[t] = Total(t, Counted).for
         /\ \A t \in drawn : against[t] \in Int /\ against[t] = Total(t, Counted).against
    BY <1>7, <1>8, <1>9, <1>10, <1>11, <1>12
  <1>16. SumOf(Table, "for") = Sum(for, drawn)
    <2>1. \A t \in drawn : for[t] \in Int /\ for[t] = Total(t, Counted)["for"]
      BY <1>15
    <2>q. QED BY <2>1, SumOfColumn
  <1>17. SumOf(Table, "against") = Sum(against, drawn)
    <2>1. \A t \in drawn : against[t] \in Int /\ against[t] = Total(t, Counted)["against"]
      BY <1>15
    <2>q. QED BY <2>1, SumOfColumn
  <1>18. Sum(HomeScores, Counted) \in Int /\ Sum(AwayScores, Counted) \in Int
    <2>1. /\ IsFiniteSet(Counted)
          /\ \A g \in Counted : HomeScores[g] \in Int
          /\ \A g \in Counted : AwayScores[g] \in Int
      BY FitTypes
    <2>q. QED BY <2>1, SumRules
  <1>q. QED BY <1>9, <1>10, <1>11, <1>12, <1>13, <1>14, <1>16, <1>17, <1>18

-----------------------------------------------------------------------------
(* The key of a team, and what it has from the games of its cohort.         *)
Key(t) == OfficialKeys(Table)[t]
Mutual(t) == Total(t, AmongCohort(t, Table))

(* The games of a cohort are games.                                         *)
LEMMA CohortsAreCounted ==
  ASSUME Fit, NEW t
  PROVE  AmongCohort(t, Table) \in SUBSET Games
  BY FitTypes DEF AmongCohort

(* Teams can be sorted by their keys; what the first three numbers are.     *)
LEMMA KeysAreSortable ==
  ASSUME Fit
  PROVE  /\ Sortable(OfficialKeys(Table))
         /\ \A t \in drawn :
              /\ Key(t)[1] = Total(t, Counted).points /\ Key(t)[2] = Mutual(t).points
              /\ Key(t)[3] = Mutual(t).for - Mutual(t).against
  <1>1. ASSUME NEW t \in drawn
        PROVE  /\ Key(t) \in Keys6
               /\ Key(t)[1] = Total(t, Counted).points /\ Key(t)[2] = Mutual(t).points
               /\ Key(t)[3] = Mutual(t).for - Mutual(t).against
    <2>1. Key(t) = OfficialKey(Total(t, Counted), Mutual(t))
      BY DEF Key, OfficialKeys, Table, Mutual
    <2>2. /\ Counted \in SUBSET Games /\ AmongCohort(t, Table) \in SUBSET Games
      BY FitTypes, CohortsAreCounted
    <2>3. /\ Total(t, Counted).points \in Int /\ Mutual(t).points \in Int
          /\ Total(t, Counted).for \in Int /\ Mutual(t).for \in Int
          /\ Total(t, Counted).against \in Int /\ Mutual(t).against \in Int
      BY <2>2, PointsAreNumbers, ScoresAreNumbers DEF Mutual
    <2>4. ASSUME NEW all, NEW mutual,
                 all.points \in Int, mutual.points \in Int, all.for \in Int, mutual.for \in Int,
                 all.against \in Int, mutual.against \in Int
          PROVE  /\ OfficialKey(all, mutual) \in Keys6
                 /\ OfficialKey(all, mutual)[1] = all.points /\ OfficialKey(all, mutual)[2] = mutual.points
                 /\ OfficialKey(all, mutual)[3] = mutual.for - mutual.against
      BY <2>4 DEF OfficialKey, Keys6
    <2>q. QED BY <2>1, <2>3, <2>4
  <1>2. OfficialKeys(Table) = [t \in drawn |-> Key(t)]
    BY DEF OfficialKeys, Key
  <1>3. OfficialKeys(Table) \in [drawn -> Keys6]
    BY <1>1, <1>2
  <1>q. QED BY <1>1, <1>3, FitTypes DEF Sortable

(* The first of two keys decides, then the second, then the third. *)
LEMMA KeysDecide ==
  ASSUME Fit, NEW t \in drawn, NEW u \in drawn,
         \/ Key(t)[1] > Key(u)[1]
         \/ Key(t)[1] = Key(u)[1] /\ Key(t)[2] > Key(u)[2]
         \/ Key(t)[1] = Key(u)[1] /\ Key(t)[2] = Key(u)[2] /\ Key(t)[3] > Key(u)[3]
  PROVE  RankGroup(OfficialKeys(Table))[t] < RankGroup(OfficialKeys(Table))[u]
  <1>1. Sortable(OfficialKeys(Table)) /\ Key(t) \in Keys6 /\ Key(u) \in Keys6
    BY KeysAreSortable DEF Sortable, Key
  <1>2. Greater(Key(t), Key(u))
    <2>1. DOMAIN Key(t) = 1 .. 6
      BY <1>1 DEF Keys6
    <2>2. CASE Key(t)[1] > Key(u)[1]
      <3>1. 1 \in DOMAIN Key(t) /\ \A j \in 1 .. 1 - 1 : Key(t)[j] = Key(u)[j]
        BY <2>1
      <3>q. QED BY <2>2, <3>1 DEF Greater
    <2>3. CASE Key(t)[1] = Key(u)[1] /\ Key(t)[2] > Key(u)[2]
      <3>1. 2 \in DOMAIN Key(t) /\ \A j \in 1 .. 2 - 1 : Key(t)[j] = Key(u)[j]
        BY <2>1, <2>3
      <3>q. QED BY <2>3, <3>1 DEF Greater
    <2>4. CASE Key(t)[1] = Key(u)[1] /\ Key(t)[2] = Key(u)[2] /\ Key(t)[3] > Key(u)[3]
      <3>1. 3 \in DOMAIN Key(t) /\ \A j \in 1 .. 3 - 1 : Key(t)[j] = Key(u)[j]
        <4>1. \A j \in 1 .. 2 : j = 1 \/ j = 2
          OBVIOUS
        <4>q. QED BY <2>1, <2>4, <4>1
      <3>q. QED BY <2>4, <3>1 DEF Greater
    <2>q. QED BY <2>2, <2>3, <2>4
  <1>q. QED BY <1>1, <1>2, RanksFollowKeys DEF Key

(* Teams with more points are ahead.                                        *)
LEMMA PointsLead ==
  ASSUME Fit, NEW t \in drawn, NEW u \in drawn, Table[t].points > Table[u].points
  PROVE  RankGroup(OfficialKeys(Table))[t] < RankGroup(OfficialKeys(Table))[u]
  BY KeysAreSortable, KeysDecide DEF Table

(* A rank counts the teams ahead.                                           *)
LEMMA RanksCountTeams ==
  ASSUME Fit, NEW t \in drawn
  PROVE  LET rank == RankGroup(OfficialKeys(Table))
         IN  rank[t] = 1 + Cardinality({u \in drawn : rank[u] < rank[t]})
  <1> DEFINE key == OfficialKeys(Table)
             rank == RankGroup(key)
             before == {u \in drawn : rank[u] < rank[t]}
  <1>1. Sortable(key)
    BY KeysAreSortable
  <1> HIDE DEF key
  <1>2. \A u \in drawn : rank[u] < rank[t] <=> Greater(key[u], key[t])
    BY <1>1, RanksFollowKeys
  <1>3. rank[t] = 1 + Cardinality(Above(key, t))
    BY <1>1, RanksCount
  <1> HIDE DEF rank
  <1>4. before = Above(key, t)
    BY <1>2 DEF Above
  <1>5. rank[t] = 1 + Cardinality(before)
    BY <1>3, <1>4
  <1>q. QED BY <1>5 DEF before, rank, key

(* Of two teams alone with their points the one that won their game leads. *)
LEMMA WinnersLead ==
  ASSUME Fit, NEW t \in drawn, NEW u \in drawn,
         Cohort(t, Table) = {t, u}, Cardinality(Met(t, u)) = 1, Beat(t, u)
  PROVE  RankGroup(OfficialKeys(Table))[t] < RankGroup(OfficialKeys(Table))[u]
  <1>1. Met(t, u) \in SUBSET Games /\ IsFiniteSet(Met(t, u))
    BY FitTypes DEF Met
  <1>2. PICK g : Met(t, u) = {g}
    BY <1>1, FS_Singleton
  <1>3. g \in Games /\ g \in Counted /\ {Home[g], Away[g]} = {t, u} /\ Home[g] # Away[g]
        /\ (HomeWon(g) <=> t = Home[g])
    BY <1>1, <1>2, FitTypes DEF Met, Beat
  <1>4. t # u
    BY <1>3
  <1>5. Table[u].points = Table[t].points /\ Cohort(u, Table) = Cohort(t, Table)
    BY DEF Cohort
  <1>6. AmongCohort(t, Table) = {g} /\ AmongCohort(u, Table) = {g}
    <2>1. \A e \in Counted : {Home[e], Away[e]} \subseteq {t, u} <=> e \in Met(t, u)
      BY FitTypes DEF Met
    <2>2. AmongCohort(t, Table) = Met(t, u) /\ AmongCohort(u, Table) = Met(t, u)
      BY <1>5, <2>1 DEF AmongCohort, Met
    <2>q. QED BY <1>2, <2>2
  <1>7. {g} \in SUBSET Games /\ g \in Own(t, {g}) /\ g \in Own(u, {g})
    BY <1>3 DEF Own
  <1>8. /\ Mutual(t).points = IF t = Home[g] THEN CompetitionPoints(g).home ELSE CompetitionPoints(g).away
        /\ Mutual(u).points = IF u = Home[g] THEN CompetitionPoints(g).home ELSE CompetitionPoints(g).away
    BY <1>6, <1>7, PointsAreNumbers DEF Mutual
  <1>9. CASE t = Home[g]
    <2>1. HomeWon(g) /\ u # Home[g]
      BY <1>3, <1>4, <1>9
    <2>2. CompetitionPoints(g).home = 2 /\ CompetitionPoints(g).away \in {0, 1}
      BY <2>1 DEF CompetitionPoints
    <2>q. QED BY <1>5, <1>8, <1>9, <2>1, <2>2, KeysAreSortable, KeysDecide DEF Table
  <1>10. CASE t # Home[g]
    <2>1. ~HomeWon(g) /\ u = Home[g]
      BY <1>3, <1>10
    <2>2. CompetitionPoints(g).away = 2 /\ CompetitionPoints(g).home \in {0, 1}
      BY <2>1 DEF CompetitionPoints
    <2>q. QED BY <1>5, <1>8, <1>10, <2>1, <2>2, KeysAreSortable, KeysDecide DEF Table
  <1>q. QED BY <1>9, <1>10

(* What a team has of a game that it played. *)
GameMargin(t) ==
  [g \in Games |-> IF t = Home[g] THEN HomeScores[g] - AwayScores[g]
                   ELSE AwayScores[g] - HomeScores[g]]

(* The difference of a team's scores, game by game.                         *)
LEMMA MarginIs ==
  ASSUME Fit, NEW G \in SUBSET Games, NEW t
  PROVE  /\ \A g \in Games : GameMargin(t)[g] \in Int
         /\ Total(t, G).for - Total(t, G).against = Sum(GameMargin(t), Own(t, G))
  <1> DEFINE m == GameMargin(t)
             H == AtHome(t, G)
             V == Visiting(t, G)
             back == [g \in Games |-> HomeScores[g] - AwayScores[g]]
  <1>1. \A g \in Games : m[g] \in Int
    BY FitTypes DEF GameMargin
  <1>2. /\ Own(t, G) = H \cup V /\ H \cap V = {} /\ IsFiniteSet(H) /\ IsFiniteSet(V)
        /\ H \in SUBSET Games /\ V \in SUBSET Games
    BY TwoSides
  <1>3. /\ \A g \in H : /\ HomeScores[g] \in Int /\ AwayScores[g] \in Int /\ m[g] \in Int
                        /\ HomeScores[g] = m[g] + AwayScores[g]
        /\ \A g \in V : /\ HomeScores[g] \in Int /\ AwayScores[g] \in Int /\ m[g] \in Int
                        /\ AwayScores[g] = m[g] + HomeScores[g]
    <2>1. ASSUME NEW g \in H PROVE HomeScores[g] = m[g] + AwayScores[g]
      <3>1. g \in Games /\ t = Home[g]
        BY DEF AtHome
      <3>q. QED BY <3>1, FitTypes DEF GameMargin
    <2>2. ASSUME NEW g \in V PROVE AwayScores[g] = m[g] + HomeScores[g]
      <3>1. g \in Games /\ t = Away[g] /\ t # Home[g]
        BY FitTypes DEF Visiting
      <3>q. QED BY <3>1, FitTypes DEF GameMargin
    <2>q. QED BY <1>1, <1>2, <2>1, <2>2, FitTypes
  <1>4. Total(t, G).for = Sum(HomeScores, H) + Sum(AwayScores, V)
        /\ Total(t, G).against = Sum(AwayScores, H) + Sum(HomeScores, V)
    BY ScoredIs
  <1> HIDE DEF m, H, V
  <1>5. Sum(HomeScores, H) = Sum(m, H) + Sum(AwayScores, H)
    BY <1>2, <1>3, SumPlus
  <1>6. Sum(AwayScores, V) = Sum(m, V) + Sum(HomeScores, V)
    BY <1>2, <1>3, SumPlus
  <1>7. Sum(m, H \cup V) = Sum(m, H) + Sum(m, V)
    <2>1. \A g \in H \cup V : m[g] \in Int
      BY <1>3
    <2>q. QED BY <1>2, <2>1, SumUnion
  <1>8. /\ Sum(m, H) \in Int /\ Sum(m, V) \in Int
        /\ Sum(AwayScores, H) \in Int /\ Sum(HomeScores, V) \in Int
    <2>1. \A g \in H : m[g] \in Int /\ AwayScores[g] \in Int
      BY <1>3
    <2>2. \A g \in V : m[g] \in Int /\ HomeScores[g] \in Int
      BY <1>3
    <2>3. Sum(m, H) \in Int /\ Sum(AwayScores, H) \in Int
      BY <1>2, <2>1, SumRules
    <2>4. Sum(m, V) \in Int /\ Sum(HomeScores, V) \in Int
      BY <1>2, <2>2, SumRules
    <2>q. QED BY <2>3, <2>4
  <1>9. Sum(m, Own(t, G)) = Sum(m, H) + Sum(m, V)
    BY <1>2, <1>7
  <1>10. Total(t, G).for - Total(t, G).against = Sum(m, Own(t, G))
    BY <1>4, <1>5, <1>6, <1>8, <1>9
  <1>q. QED BY <1>1, <1>10 DEF m

(* In a game of two teams one concedes what the other scores. *)
LEMMA MetScores ==
  ASSUME Fit, NEW t \in drawn, NEW u \in drawn, t # u
  PROVE  /\ Met(t, u) \in SUBSET Games /\ Own(t, Met(t, u)) = Met(t, u)
         /\ Total(u, Met(t, u)).for = Total(t, Met(t, u)).against
  <1> DEFINE M == Met(t, u)
  <1>1. M \in SUBSET Games /\ Own(t, M) = M
    BY FitTypes DEF Met, Own
  <1>2. AtHome(u, M) = Visiting(t, M) /\ Visiting(u, M) = AtHome(t, M)
    <2>1. ASSUME NEW g \in M
          PROVE  (Home[g] = u <=> Away[g] = t) /\ (Away[g] = u <=> Home[g] = t)
      BY FitTypes DEF Met
    <2> HIDE DEF M
    <2>q. QED BY <2>1 DEF AtHome, Visiting
  <1> HIDE DEF M
  <1>3. /\ Total(u, M).for = Sum(HomeScores, AtHome(u, M)) + Sum(AwayScores, Visiting(u, M))
        /\ Total(t, M).against = Sum(AwayScores, AtHome(t, M)) + Sum(HomeScores, Visiting(t, M))
    BY <1>1, ScoredIs
  <1>4. Sum(HomeScores, AtHome(u, M)) \in Int /\ Sum(AwayScores, Visiting(u, M)) \in Int
    <2> DEFINE A == AtHome(u, M)
               B == Visiting(u, M)
    <2>1. A \in SUBSET Games /\ B \in SUBSET Games /\ IsFiniteSet(A) /\ IsFiniteSet(B)
      BY <1>1, TwoSides
    <2> HIDE DEF A, B
    <2>2. (\A g \in A : HomeScores[g] \in Int) /\ (\A g \in B : AwayScores[g] \in Int)
      BY <2>1, FitTypes
    <2>3. Sum(HomeScores, A) \in Int /\ Sum(AwayScores, B) \in Int
      BY <2>1, <2>2, SumRules
    <2>q. QED BY <2>3 DEF A, B
  <1>q. QED BY <1>1, <1>2, <1>3, <1>4 DEF M

(* The same of parts that have a name. *)
Of(w, C, d) == {x \in C : w[x] = d}

LEMMA SumOfParts ==
  ASSUME NEW C, IsFiniteSet(C), NEW D, IsFiniteSet(D), NEW w \in [C -> D],
         NEW f, \A x \in C : f[x] \in Int,
         NEW h, \A d \in D : h[d] = Sum(f, Of(w, C, d))
  PROVE  Sum(h, D) = Sum(f, C)
  <1>1. \A d \in D : h[d] = Sum(f, {x \in C : w[x] = d})
    BY DEF Of
  <1>q. QED BY <1>1, SumParts

(* The margins of a team add up to the difference of its table. *)
LEMMA MarginsAddUp ==
  ASSUME Fit, NEW t \in drawn
  PROVE  Margins(t) = Total(t, Counted).for - Total(t, Counted).against
  <1> DEFINE C == Own(t, Counted)
             D == drawn \ {t}
             m == GameMargin(t)
             opponent == [g \in C |-> IF t = Home[g] THEN Away[g] ELSE Home[g]]
             h == [u \in D |-> Margin(t, u)]
  <1>1. C \in SUBSET Games /\ IsFiniteSet(C) /\ IsFiniteSet(D) /\ Counted \in SUBSET Games
    BY FitTypes, TwoSides, FS_Subset
  <1>2. opponent \in [C -> D]
    BY FitTypes DEF Own
  <1>3. \A g \in C : m[g] \in Int
    BY <1>1, MarginIs
  <1>4. ASSUME NEW u \in D PROVE h[u] = Sum(m, Of(opponent, C, u))
    <2> DEFINE M == Met(t, u)
    <2>1. M \in SUBSET Games /\ Own(t, M) = M /\ Total(u, M).for = Total(t, M).against
      BY MetScores
    <2>2. h[u] = Total(t, M).for - Total(u, M).for
      BY DEF Margin
    <2>3. Total(t, M).for - Total(t, M).against = Sum(m, M)
      BY <2>1, MarginIs
    <2>4. \A g \in Counted : g \in M <=> g \in C /\ opponent[g] = u
      BY FitTypes DEF Met, Own
    <2>5. M \subseteq Counted /\ C \subseteq Counted
      BY DEF Met, Own
    <2> HIDE DEF M, C, m, opponent, h
    <2>6. M = Of(opponent, C, u)
      BY <2>4, <2>5 DEF Of
    <2>q. QED BY <2>1, <2>2, <2>3, <2>6
  <1>5. Margins(t) = SumFunction(h) /\ DOMAIN h = D
    BY DEF Margins
  <1>6. Total(t, Counted).for - Total(t, Counted).against = Sum(m, C)
    BY <1>1, MarginIs
  <1> HIDE DEF C, D, m, opponent, h
  <1>7. Sum(h, D) = Sum(m, C)
    <2>1. \A u \in D : h[u] = Sum(m, Of(opponent, C, u))
      BY <1>4
    <2>q. QED BY <1>1, <1>2, <1>3, <2>1, SumOfParts
  <1>8. SumFunction(h) = Sum(h, D)
    BY <1>5, SumOfFunction
  <1>q. QED BY <1>5, <1>6, <1>7, <1>8

(* Where all have the same points the margins decide. *)
LEMMA MarginsLead ==
  ASSUME Fit, NEW t \in drawn, NEW u \in drawn, Cohort(t, Table) = drawn, Margins(t) > Margins(u)
  PROVE  RankGroup(OfficialKeys(Table))[t] < RankGroup(OfficialKeys(Table))[u]
  <1>1. Table[u].points = Table[t].points /\ Cohort(u, Table) = drawn
    BY DEF Cohort
  <1>2. AmongCohort(t, Table) = Counted /\ AmongCohort(u, Table) = Counted
    BY <1>1, FitTypes DEF AmongCohort
  <1>3. Mutual(t) = Table[t] /\ Mutual(u) = Table[u]
        /\ Table[t] = Total(t, Counted) /\ Table[u] = Total(u, Counted)
    BY <1>2 DEF Mutual, Table
  <1>4. Key(t)[1] = Key(u)[1] /\ Key(t)[2] = Key(u)[2]
        /\ Key(t)[3] = Margins(t) /\ Key(u)[3] = Margins(u)
    BY <1>1, <1>3, KeysAreSortable, MarginsAddUp
  <1>q. QED BY <1>4, KeysDecide

(* The table of a group is fair.                                            *)
LEMMA FitIsFair == ASSUME Fit PROVE StandingsAreFair
  <1>1. Balanced(Table)
    BY WinsAddUp, PlayedAddUp, ScoresAddUp DEF Balanced
  <1>2. Fair(Table, RankGroup(OfficialKeys(Table)))
    BY PointsLead, RanksCountTeams, WinnersLead, MarginsLead DEF Fair
  <1>q. QED BY <1>1, <1>2 DEF StandingsAreFair

(* A typed state has all the table needs.                                   *)
LEMMA TypedIsFit == ASSUME StandingsAssumptions, TypeOK PROVE Fit
  BY DEF StandingsAssumptions, TypeOK, Fit, Scheduled

(* The types hold at first.                                                 *)
LEMMA StandingsTyped == Init => TypeOK
  BY DEF Init, TypeOK, Scheduled

(* They are kept.                                                           *)
LEMMA StandingsStep == TypeOK /\ [Next]_vars => TypeOK'
  BY DEF TypeOK, Next, Draw, Record, vars

(* The table of a group is the one the rules ask for, for any number of     *)
(* teams, any games between them, and any draws, results, corrections and   *)
(* voids in any order (services/standings.py).                              *)
THEOREM TablesAreFair == StandingsAssumptions /\ Spec => [](TypeOK /\ StandingsAreFair)
  <1> SUFFICES ASSUME StandingsAssumptions PROVE Spec => [](TypeOK /\ StandingsAreFair)
    OBVIOUS
  <1>1. TypeOK => StandingsAreFair
    BY TypedIsFit, FitIsFair
  <1>q. QED BY <1>1, StandingsTyped, StandingsStep, PTL DEF Spec
=============================================================================
