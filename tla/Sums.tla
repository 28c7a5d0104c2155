-------------------------------- MODULE Sums --------------------------------
(***************************************************************************)
(* Sums of the values of a function over a finite set, as MapThenSumSet    *)
(* defines them: what is left when one element is taken out, that equal    *)
(* values have equal sums, and how a sum changes with its values.  The     *)
(* proofs of the components that count stock, entries or pieces rest on    *)
(* these lemmas.  Of products, as MapThenFoldSet defines them, that every  *)
(* factor divides them, for the scale tax figures are counted in.          *)
(*                                                                         *)
(* The induction they need is over the finite subsets of a set: a          *)
(* non-empty family of them has a member that contains no other (Smallest).*)
(* It also gives that, among finitely many sessions that wait for each     *)
(* other, each has a way out if every one that waits for itself through    *)
(* others is let out (EveryoneHasWayOut), and the induction over numbers   *)
(* up to a last one that proofs about lists of operations use (Counting).  *)
(***************************************************************************)
EXTENDS Integers, FiniteSets, FiniteSetsExt, Waits, FiniteSetTheorems, WellFoundedInduction, TLAPS

(* A non-empty family of subsets of a finite set has a minimal member. *)
LEMMA Smallest ==
    ASSUME NEW S, IsFiniteSet(S), NEW F, F \subseteq SUBSET S, F # {}
    PROVE  \E T \in F : \A U \in F : U \subseteq T => U = T
<1>1. IsWellFoundedOn(StrictSubsetOrdering(S), FiniteSubsetsOf(S))
  BY FS_StrictSubsetOrderingWellFounded, Zenon
<1>2. F \subseteq FiniteSubsetsOf(S)
  BY FS_FiniteSubsetsOfFinite
<1>3. PICK T \in F : \A U \in F : ~(<<U, T>> \in StrictSubsetOrdering(S))
  BY <1>1, <1>2, WFMin, Zenon
<1>4. \A U \in F : U \subseteq T => U = T
  BY <1>2, <1>3 DEF StrictSubsetOrdering, FiniteSubsetsOf
<1> QED
  BY <1>4

(* The element a fold takes next, and the function a fold is defined by: *)
Pick(s) == CHOOSE x \in s : TRUE

(* it adds, or multiplies. *)
Unit(times) == IF times THEN 1 ELSE 0
Joined(times, x, y) == IF times THEN x * y ELSE x + y

Folds(h, times, g, S) ==
    h = [s \in SUBSET S |-> IF s = {} THEN Unit(times)
                            ELSE Joined(times, g[Pick(s)], h[s \ {Pick(s)}])]

LEMMA PickIn == ASSUME NEW s, s # {} PROVE Pick(s) \in s
  BY DEF Pick

(* Such a function on the subsets of S is one on the subsets of T, when T is in S. *)
LEMMA FoldBelow ==
    ASSUME NEW S, NEW T \in SUBSET S, NEW times, NEW g, NEW h, Folds(h, times, g, S)
    PROVE  Folds([s \in SUBSET T |-> h[s]], times, g, T)
<1> DEFINE k == [s \in SUBSET T |-> h[s]]
<1>1. \A s \in SUBSET T : s # {} => s \ {Pick(s)} \in SUBSET T
  OBVIOUS
<1>2. \A s \in SUBSET T : h[s] = IF s = {} THEN Unit(times) ELSE Joined(times, g[Pick(s)], k[s \ {Pick(s)}])
  BY <1>1 DEF Folds
<1> QED
  BY <1>2 DEF Folds

(* On a finite set there is exactly one. *)
LEMMA FoldUnique ==
    ASSUME NEW S, IsFiniteSet(S), NEW times, NEW g, NEW h, NEW k, Folds(h, times, g, S), Folds(k, times, g, S)
    PROVE  h = k
<1> DEFINE F == {T \in SUBSET S : h[T] # k[T]}
<1>1. ASSUME F # {} PROVE FALSE
  <2>1. PICK T \in F : \A U \in F : U \subseteq T => U = T
    <3>1. F \subseteq SUBSET S
      OBVIOUS
    <3> HIDE DEF F
    <3> QED
      BY <1>1, <3>1, Smallest
  <2>2. T # {}
    BY DEF Folds
  <2>3. Pick(T) \in T
    BY <2>2, PickIn
  <2>4. T \ {Pick(T)} \notin F
    BY <2>1, <2>3
  <2>5. T \ {Pick(T)} \in SUBSET S
    OBVIOUS
  <2>6. h[T \ {Pick(T)}] = k[T \ {Pick(T)}]
    BY <2>4, <2>5
  <2>7. h[T] = k[T]
    BY <2>2, <2>6 DEF Folds
  <2> QED
    BY <2>7
<1>2. \A T \in SUBSET S : h[T] = k[T]
  BY <1>1
<1> QED
  BY <1>2 DEF Folds

LEMMA FoldExists ==
    ASSUME NEW S, IsFiniteSet(S), NEW times, NEW g
    PROVE  \E h : Folds(h, times, g, S)
<1> DEFINE F == {T \in SUBSET S : ~\E h : Folds(h, times, g, T)}
<1>1. ASSUME F # {} PROVE FALSE
  <2>1. PICK T \in F : \A U \in F : U \subseteq T => U = T
    <3>1. F \subseteq SUBSET S
      OBVIOUS
    <3> HIDE DEF F
    <3> QED
      BY <1>1, <3>1, Smallest
  <2>2. \A U \in SUBSET T : U # T => \E h : Folds(h, times, g, U)
    BY <2>1
  <2> DEFINE one(U) == CHOOSE h : Folds(h, times, g, U)
             v(s) == IF s = {} THEN Unit(times)
                     ELSE Joined(times, g[Pick(s)], one(s \ {Pick(s)})[s \ {Pick(s)}])
             h == [s \in SUBSET T |-> v(s)]
  <2>3. \A U \in SUBSET T : U # T => Folds(one(U), times, g, U)
    BY <2>2
  <2>4. \A s \in SUBSET T : s # {} => s \ {Pick(s)} \in SUBSET T /\ s \ {Pick(s)} # T
    BY PickIn
  <2>5. ASSUME NEW U \in SUBSET T, U # T PROVE h[U] = one(U)[U]
    <3> DEFINE W == U \ {Pick(U)}
    <3>1. Folds(one(U), times, g, U)
      BY <2>3, <2>5
    <3>2. one(U)[U] = IF U = {} THEN Unit(times) ELSE Joined(times, g[Pick(U)], one(U)[W])
      BY <3>1 DEF Folds
    <3>3. CASE U # {}
      <4>1. W \in SUBSET U /\ W \in SUBSET T /\ W # T
        BY <2>4, <3>3
      <4>2. Folds(one(W), times, g, W)
        BY <2>3, <4>1
      <4>3. Folds([s \in SUBSET W |-> one(U)[s]], times, g, W)
        <5> HIDE DEF one, W
        <5> QED
          BY <3>1, <4>1, FoldBelow
      <4>4. IsFiniteSet(W)
        BY <4>1, FS_Subset
      <4>5. [s \in SUBSET W |-> one(U)[s]] = one(W)
        BY <4>2, <4>3, <4>4, FoldUnique, Zenon
      <4>6. one(U)[W] = one(W)[W]
        <5> HIDE DEF one, W
        <5>1. W \in SUBSET W
          OBVIOUS
        <5>2. [s \in SUBSET W |-> one(U)[s]][W] = one(U)[W]
          BY <5>1
        <5> QED
          BY <5>2, <4>5
      <4> QED
        BY <3>2, <3>3, <4>6
    <3> QED
      BY <3>2, <3>3
  <2>6. ASSUME NEW s \in SUBSET T, s # {} PROVE one(s \ {Pick(s)})[s \ {Pick(s)}] = h[s \ {Pick(s)}]
    <3> HIDE DEF h, one
    <3> QED
      BY <2>4, <2>5, <2>6
  <2>7. h = [s \in SUBSET T |-> IF s = {} THEN Unit(times) ELSE Joined(times, g[Pick(s)], h[s \ {Pick(s)}])]
    <3> DEFINE w(s) == IF s = {} THEN Unit(times) ELSE Joined(times, g[Pick(s)], h[s \ {Pick(s)}])
    <3>1. \A s \in SUBSET T : v(s) = w(s)
      <4> HIDE DEF h, one
      <4> QED
        BY <2>6
    <3>2. h = [s \in SUBSET T |-> w(s)]
      <4> HIDE DEF v, w
      <4> QED
        BY <3>1
    <3> QED
      BY <3>2
  <2>8. Folds(h, times, g, T)
    BY <2>7 DEF Folds
  <2> QED
    BY <2>1, <2>8
<1> QED
  BY <1>1

(* The sum of g over S, and the function it is defined by. *)
Total(g, S) == MapThenSumSet(LAMBDA i : g[i], S)

Adds(h, g, S) == h = [s \in SUBSET S |-> IF s = {} THEN 0 ELSE g[Pick(s)] + h[s \ {Pick(s)}]]

LEMMA AddsFolds == \A h, g, S : Adds(h, g, S) <=> Folds(h, FALSE, g, S)
  BY DEF Adds, Folds, Unit, Joined

LEMMA Unique ==
    ASSUME NEW S, IsFiniteSet(S), NEW g, NEW h, NEW k, Adds(h, g, S), Adds(k, g, S)
    PROVE  h = k
  BY AddsFolds, FoldUnique

LEMMA Exists == ASSUME NEW S, IsFiniteSet(S), NEW g PROVE \E h : Adds(h, g, S)
  BY AddsFolds, FoldExists

LEMMA Below ==
    ASSUME NEW S, NEW T \in SUBSET S, NEW g, NEW h, Adds(h, g, S)
    PROVE  Adds([s \in SUBSET T |-> h[s]], g, T)
<1> DEFINE k == [s \in SUBSET T |-> h[s]]
<1>1. \A s \in SUBSET T : s # {} => s \ {Pick(s)} \in SUBSET T
  OBVIOUS
<1>2. \A s \in SUBSET T : h[s] = IF s = {} THEN 0 ELSE g[Pick(s)] + k[s \ {Pick(s)}]
  BY <1>1 DEF Adds
<1> QED
  BY <1>2 DEF Adds

LEMMA TotalIs == ASSUME NEW g, NEW S PROVE Total(g, S) = (CHOOSE h : Adds(h, g, S))[S]
  BY DEF Total, MapThenSumSet, MapThenFoldSet, Adds, Pick

(* Hence a sum is defined by its recursion, *)
LEMMA TotalStep ==
    ASSUME NEW S, IsFiniteSet(S), NEW g
    PROVE  /\ S = {} => Total(g, S) = 0
           /\ S # {} => Total(g, S) = g[Pick(S)] + Total(g, S \ {Pick(S)})
<1> DEFINE h == CHOOSE f : Adds(f, g, S)
           T == S \ {Pick(S)}
           k == CHOOSE f : Adds(f, g, T)
<1>1. Adds(h, g, S)
  BY Exists
<1>2. T \in SUBSET S /\ IsFiniteSet(T)
  BY FS_Subset
<1>3. Adds(k, g, T)
  BY <1>2, Exists
<1>4. Total(g, S) = h[S] /\ Total(g, T) = k[T]
  BY TotalIs
<1>5. [s \in SUBSET T |-> h[s]] = k
  <2> HIDE DEF h, k, T
  <2>1. Adds([s \in SUBSET T |-> h[s]], g, T)
    BY <1>1, <1>2, Below
  <2> QED
    BY <2>1, <1>2, <1>3, Unique
<1>6. k[T] = h[T]
  <2> HIDE DEF h, k, T
  <2>1. [s \in SUBSET T |-> h[s]][T] = h[T]
    OBVIOUS
  <2> QED
    BY <2>1, <1>5
<1>7. h[S] = IF S = {} THEN 0 ELSE g[Pick(S)] + h[T]
  BY <1>1 DEF Adds
<1> HIDE DEF h, k
<1> QED
  BY <1>4, <1>6, <1>7

(* is an integer, *)
LEMMA TotalInt ==
    ASSUME NEW S, IsFiniteSet(S), NEW g, \A i \in S : g[i] \in Int
    PROVE  Total(g, S) \in Int
<1> DEFINE F == {T \in SUBSET S : Total(g, T) \notin Int}
<1>1. ASSUME F # {} PROVE FALSE
  <2>1. PICK T \in F : \A U \in F : U \subseteq T => U = T
    <3>1. F \subseteq SUBSET S
      OBVIOUS
    <3> HIDE DEF F
    <3> QED
      BY <1>1, <3>1, Smallest
  <2>2. IsFiniteSet(T) /\ T \in SUBSET S
    BY FS_Subset
  <2>3. T # {}
    BY <2>2, TotalStep
  <2>4. Pick(T) \in T
    BY <2>3, PickIn
  <2>5. Total(g, T \ {Pick(T)}) \in Int
    BY <2>1, <2>2, <2>4
  <2>6. Total(g, T) = g[Pick(T)] + Total(g, T \ {Pick(T)})
    BY <2>2, <2>3, TotalStep
  <2>7. Total(g, T) \in Int
    BY <2>2, <2>4, <2>5, <2>6
  <2> QED
    BY <2>7
<1> QED
  BY <1>1

(* Nothing adds up to nothing. *)
LEMMA TotalZero ==
    ASSUME NEW S, IsFiniteSet(S), NEW g, \A i \in S : g[i] = 0
    PROVE  Total(g, S) = 0
<1> DEFINE F == {T \in SUBSET S : Total(g, T) # 0}
<1>1. ASSUME F # {} PROVE FALSE
  <2>1. PICK T \in F : \A U \in F : U \subseteq T => U = T
    <3>1. F \subseteq SUBSET S
      OBVIOUS
    <3> HIDE DEF F
    <3> QED
      BY <1>1, <3>1, Smallest
  <2>2. IsFiniteSet(T) /\ T \in SUBSET S
    BY FS_Subset
  <2>3. T # {} /\ Total(g, T) = g[Pick(T)] + Total(g, T \ {Pick(T)})
    BY <2>2, TotalStep
  <2>4. Pick(T) \in T
    BY <2>3, PickIn
  <2>5. Total(g, T \ {Pick(T)}) = 0
    BY <2>1, <2>2, <2>4
  <2> QED
    BY <2>2, <2>3, <2>4, <2>5
<1> QED
  BY <1>1

(* does not depend on the order, *)
LEMMA TotalRemove ==
    ASSUME NEW S, IsFiniteSet(S), NEW g, \A i \in S : g[i] \in Int, NEW e \in S
    PROVE  Total(g, S) = g[e] + Total(g, S \ {e})
<1> DEFINE F == {T \in SUBSET S : \E x \in T : Total(g, T) # g[x] + Total(g, T \ {x})}
<1>1. ASSUME F # {} PROVE FALSE
  <2>1. PICK T \in F : \A U \in F : U \subseteq T => U = T
    <3>1. F \subseteq SUBSET S
      OBVIOUS
    <3> HIDE DEF F
    <3> QED
      BY <1>1, <3>1, Smallest
  <2>2. IsFiniteSet(T) /\ T \in SUBSET S
    BY FS_Subset
  <2>3. PICK x \in T : Total(g, T) # g[x] + Total(g, T \ {x})
    OBVIOUS
  <2> DEFINE p == Pick(T)
             A == T \ {p}
             B == T \ {x}
  <2>4. p \in T /\ Total(g, T) = g[p] + Total(g, A)
    BY <2>2, PickIn, TotalStep
  <2>5. x # p /\ x \in A /\ p \in B
    BY <2>3, <2>4
  <2>6. A \notin F /\ B \notin F
    BY <2>1, <2>4, <2>3
  <2>7. A \in SUBSET S /\ B \in SUBSET S
    BY <2>2
  <2>8. Total(g, A) = g[x] + Total(g, A \ {x})
    BY <2>5, <2>6, <2>7
  <2>9. Total(g, B) = g[p] + Total(g, B \ {p})
    BY <2>5, <2>6, <2>7
  <2>10. A \ {x} = B \ {p}
    OBVIOUS
  <2>11. Total(g, A \ {x}) \in Int
    <3>1. IsFiniteSet(A \ {x}) /\ \A i \in A \ {x} : g[i] \in Int
      BY <2>7, FS_Subset
    <3> HIDE DEF A
    <3> QED
      BY <3>1, TotalInt
  <2>12. g[x] \in Int /\ g[p] \in Int
    BY <2>2, <2>4
  <2>13. Total(g, T) = g[x] + Total(g, B)
    <3> HIDE DEF A, B, p, F
    <3>1. Total(g, B) = g[p] + Total(g, A \ {x})
      BY <2>9, <2>10
    <3>2. Total(g, T) = g[p] + (g[x] + Total(g, A \ {x}))
      BY <2>4, <2>8
    <3> DEFINE w == Total(g, A \ {x})
    <3>3. w \in Int
      BY <2>11
    <3> HIDE DEF w
    <3>4. \A a, b, c \in Int : a + (b + c) = b + (a + c)
      OBVIOUS
    <3>5. g[p] + (g[x] + w) = g[x] + (g[p] + w)
      BY <3>3, <3>4, <2>12
    <3> QED
      BY <3>1, <3>2, <3>5 DEF w
  <2> QED
    BY <2>3, <2>13
<1> QED
  BY <1>1

(* nor on anything but the values, *)
LEMMA TotalSame ==
    ASSUME NEW S, IsFiniteSet(S), NEW g, NEW k, \A i \in S : g[i] = k[i]
    PROVE  Total(g, S) = Total(k, S)
<1> DEFINE F == {T \in SUBSET S : Total(g, T) # Total(k, T)}
<1>1. ASSUME F # {} PROVE FALSE
  <2>1. PICK T \in F : \A U \in F : U \subseteq T => U = T
    <3>1. F \subseteq SUBSET S
      OBVIOUS
    <3> HIDE DEF F
    <3> QED
      BY <1>1, <3>1, Smallest
  <2>2. IsFiniteSet(T) /\ T \in SUBSET S
    BY FS_Subset
  <2>3. T # {}
    BY <2>2, TotalStep
  <2>4. Pick(T) \in T
    BY <2>3, PickIn
  <2>5. Total(g, T \ {Pick(T)}) = Total(k, T \ {Pick(T)})
    BY <2>1, <2>2, <2>4
  <2>6. g[Pick(T)] = k[Pick(T)]
    BY <2>2, <2>4
  <2>7. Total(g, T) = Total(k, T)
    BY <2>2, <2>3, <2>5, <2>6, TotalStep
  <2> QED
    BY <2>7
<1> QED
  BY <1>1

(* and changes by the sum of the changes. *)
LEMMA TotalChange ==
    ASSUME NEW S, IsFiniteSet(S), NEW g, NEW k, NEW d, NEW A \in SUBSET S,
           \A i \in S : g[i] \in Int /\ k[i] \in Int,
           \A i \in A : d[i] \in Int /\ k[i] = g[i] + d[i],
           \A i \in S \ A : k[i] = g[i]
    PROVE  Total(k, S) = Total(g, S) + Total(d, A)
<1> DEFINE m(B) == [i \in S |-> IF i \in B THEN k[i] ELSE g[i]]
           F == {B \in SUBSET A : Total(m(B), S) # Total(g, S) + Total(d, B)}
<1>1. \A B \in SUBSET A : \A i \in S : m(B)[i] \in Int
  OBVIOUS
<1>2. IsFiniteSet(A) /\ Total(g, S) \in Int
  BY FS_Subset, TotalInt
<1>3. ASSUME F # {} PROVE FALSE
  <2>1. PICK B \in F : \A U \in F : U \subseteq B => U = B
    <3>1. F \subseteq SUBSET A
      OBVIOUS
    <3> HIDE DEF F
    <3> QED
      BY <1>2, <1>3, <3>1, Smallest
  <2>2. IsFiniteSet(B) /\ B \in SUBSET A
    BY <1>2, FS_Subset
  <2>3. B # {}
    <3>1. SUFFICES ASSUME B = {} PROVE FALSE
      OBVIOUS
    <3>2. Total(m({}), S) = Total(g, S)
      <4>1. \A i \in S : m({})[i] = g[i]
        OBVIOUS
      <4> HIDE DEF m
      <4> QED
        BY <4>1, TotalSame
    <3>3. Total(d, {}) = 0
      BY TotalStep, FS_EmptySet
    <3> HIDE DEF m
    <3> QED
      BY <1>2, <3>1, <3>2, <3>3
  <2>4. PICK x \in B : TRUE
    BY <2>3
  <2> DEFINE C == B \ {x}
  <2>5. C \in SUBSET A /\ C \notin F /\ x \in S
    BY <2>1, <2>2
  <2>6. Total(m(C), S) = Total(g, S) + Total(d, C)
    BY <2>5
  <2>7. Total(d, B) = d[x] + Total(d, C)
    <3>1. \A i \in B : d[i] \in Int
      BY <2>2
    <3> QED
      BY <2>2, <3>1, TotalRemove
  <2>8. m(B)[x] = g[x] + d[x] /\ m(C)[x] = g[x] /\ g[x] \in Int /\ d[x] \in Int
    BY <2>2, <2>5
  <2>9. \A i \in S \ {x} : m(B)[i] = m(C)[i]
    OBVIOUS
  <2>10. IsFiniteSet(S \ {x}) /\ \A i \in S \ {x} : m(C)[i] \in Int
    BY <1>1, <2>5, FS_Subset
  <2>11. \A i \in S : m(B)[i] \in Int /\ m(C)[i] \in Int
    BY <1>1, <2>2, <2>5
  <2>12. Total(d, C) \in Int
    <3>1. IsFiniteSet(C) /\ \A i \in C : d[i] \in Int
      BY <2>2, <2>5, FS_Subset
    <3> HIDE DEF C
    <3> QED
      BY <3>1, TotalInt
  <2> HIDE DEF m, C, F
  <2>13. Total(m(B), S \ {x}) = Total(m(C), S \ {x}) /\ Total(m(C), S \ {x}) \in Int
    BY <2>9, <2>10, TotalSame, TotalInt
  <2>14. Total(m(B), S) = m(B)[x] + Total(m(B), S \ {x})
    BY <2>5, <2>11, TotalRemove
  <2>15. Total(m(C), S) = m(C)[x] + Total(m(C), S \ {x})
    BY <2>5, <2>11, TotalRemove
  <2>16. Total(m(B), S) = Total(g, S) + Total(d, B)
    BY <1>2, <2>6, <2>7, <2>8, <2>12, <2>13, <2>14, <2>15
  <2> QED
    BY <2>16 DEF F
<1>4. Total(m(A), S) = Total(g, S) + Total(d, A)
  <2> HIDE DEF m
  <2> QED
    BY <1>3
<1>5. Total(m(A), S) = Total(k, S)
  <2>1. \A i \in S : m(A)[i] = k[i]
    OBVIOUS
  <2> HIDE DEF m
  <2> QED
    BY <2>1, TotalSame
<1> QED
  BY <1>4, <1>5

(* What g has at e, nothing where it is not defined. *)
Was(g, S, e) == IF e \in S THEN g[e] ELSE 0

(* From g on S to k on T, one value is put in or changed: the one at e. *)
PutAt(g, S, k, T, e) ==
    /\ IsFiniteSet(S) /\ T = S \union {e}
    /\ \A i \in S : g[i] \in Int
    /\ \A i \in S : i # e => k[i] = g[i]
    /\ k[e] \in Int

LEMMA TotalPut ==
    ASSUME NEW g, NEW S, NEW k, NEW T, NEW e, PutAt(g, S, k, T, e)
    PROVE  Total(k, T) = Total(g, S) + (k[e] - Was(g, S, e))
<1>0. /\ IsFiniteSet(S) /\ T = S \union {e}
      /\ \A i \in S : g[i] \in Int
      /\ \A i \in S : i # e => k[i] = g[i]
      /\ k[e] \in Int
  BY DEF PutAt
<1> DEFINE R == S \ {e}
<1>1. IsFiniteSet(R) /\ IsFiniteSet(T)
  BY <1>0, FS_Subset, FS_AddElement
<1>2. (\A i \in R : k[i] = g[i] /\ g[i] \in Int) /\ \A i \in T : k[i] \in Int
  BY <1>0
<1>3. T \ {e} = R /\ e \in T
  BY <1>0
<1>4. Total(k, T) = k[e] + Total(k, R)
  <2> HIDE DEF R
  <2> QED
    BY <1>1, <1>2, <1>3, TotalRemove
<1>5. Total(k, R) = Total(g, R) /\ Total(g, R) \in Int
  <2> HIDE DEF R
  <2> QED
    BY <1>1, <1>2, TotalSame, TotalInt
<1>6. CASE e \in S
  <2>1. Total(g, S) = g[e] + Total(g, R)
    BY <1>0, <1>6, TotalRemove
  <2>2. g[e] \in Int /\ Was(g, S, e) = g[e]
    BY <1>0, <1>6 DEF Was
  <2> HIDE DEF R
  <2> QED
    BY <1>0, <1>4, <1>5, <2>1, <2>2
<1>7. CASE e \notin S
  <2>1. R = S /\ Was(g, S, e) = 0
    BY <1>7 DEF Was
  <2> HIDE DEF R
  <2> QED
    BY <1>0, <1>4, <1>5, <2>1
<1> QED
  BY <1>6, <1>7

-----------------------------------------------------------------------------
(* Products. *)

(* The product of g over S, as MapThenFoldSet defines it. *)
Product(g, S) == MapThenFoldSet(LAMBDA x, y : x * y, 1, LAMBDA i : g[i],
                                LAMBDA s : CHOOSE x \in s : TRUE, S)

Multiplies(h, g, S) ==
    h = [s \in SUBSET S |-> IF s = {} THEN 1 ELSE g[Pick(s)] * h[s \ {Pick(s)}]]

LEMMA ProductIs == ASSUME NEW g, NEW S PROVE Product(g, S) = (CHOOSE h : Multiplies(h, g, S))[S]
  BY DEF Product, MapThenFoldSet, Multiplies, Pick

LEMMA MultipliesFolds == \A h, g, S : Multiplies(h, g, S) <=> Folds(h, TRUE, g, S)
  BY DEF Multiplies, Folds, Unit, Joined

(* Positive numbers have a positive product, and each of them divides it. *)
LEMMA ProductDivides ==
    ASSUME NEW S, IsFiniteSet(S), NEW g, \A i \in S : g[i] \in Nat \ {0}
    PROVE  /\ Product(g, S) \in Nat \ {0}
           /\ \A i \in S : \E k \in Nat : Product(g, S) = g[i] * k
<1> DEFINE h == CHOOSE f : Multiplies(f, g, S)
           Good(T) == h[T] \in Nat \ {0} /\ \A i \in T : \E k \in Nat : h[T] = g[i] * k
           F == {T \in SUBSET S : ~Good(T)}
<1>1. Multiplies(h, g, S)
  <2>1. \E f : Multiplies(f, g, S)
    BY MultipliesFolds, FoldExists
  <2> QED
    BY <2>1
<1>2. Product(g, S) = h[S]
  BY ProductIs
<1> HIDE DEF h
<1>3. ASSUME F # {} PROVE FALSE
  <2>1. PICK T \in F : \A U \in F : U \subseteq T => U = T
    <3>1. F \subseteq SUBSET S
      OBVIOUS
    <3> HIDE DEF F
    <3> QED
      BY <1>3, <3>1, Smallest
  <2> DEFINE p == Pick(T)
             U == T \ {p}
  <2>2. T # {}
    <3>1. h[{}] = 1
      BY <1>1 DEF Multiplies
    <3>2. Good({})
      BY <3>1
    <3>3. ~Good(T)
      OBVIOUS
    <3> HIDE DEF Good
    <3> QED
      BY <3>2, <3>3
  <2>3. p \in T /\ U \in SUBSET S
    BY <2>2, PickIn
  <2>4. Good(U)
    BY <2>1, <2>3
  <2>5. h[T] = g[p] * h[U]
    BY <1>1, <2>2 DEF Multiplies
  <2>6. g[p] \in Nat \ {0}
    BY <2>3
  <2> HIDE DEF U, p
  <2>7. h[T] \in Nat \ {0}
    BY <2>4, <2>5, <2>6
  <2>8. ASSUME NEW i \in T PROVE \E k \in Nat : h[T] = g[i] * k
    <3>1. CASE i = p
      BY <2>4, <2>5, <3>1
    <3>2. CASE i # p
      <4>1. PICK k \in Nat : h[U] = g[i] * k
        BY <2>4, <3>2 DEF U
      <4>2. g[i] \in Nat
        BY <2>8
      <4>3. \A a, b, c \in Nat : a * (b * c) = b * (a * c) /\ a * c \in Nat
        OBVIOUS
      <4>4. h[T] = g[i] * (g[p] * k) /\ g[p] * k \in Nat
        BY <2>5, <2>6, <4>1, <4>2, <4>3
      <4> QED
        BY <4>4
    <3> QED
      BY <3>1, <3>2
  <2> QED
    BY <2>1, <2>7, <2>8
<1>4. S \in SUBSET S
  OBVIOUS
<1> QED
  BY <1>2, <1>3, <1>4

-----------------------------------------------------------------------------
(* Counting.                                                                *)

(* What holds of 0, and of i + 1 when it holds of i, holds up to n: a set S *)
(* of numbers stands for what holds.  Of the intervals that end outside S   *)
(* the least would end next to one that ends in it.                         *)
LEMMA Counting ==
    ASSUME NEW n \in Nat, NEW S, 0 \in S, \A i \in 0 .. n - 1 : i \in S => i + 1 \in S
    PROVE  \A i \in 0 .. n : i \in S
<1> DEFINE F == {0 .. i : i \in {j \in 0 .. n : j \notin S}}
<1> SUFFICES ASSUME NEW k \in 0 .. n, k \notin S
             PROVE  FALSE
  OBVIOUS
<1>1. F # {} /\ F \subseteq SUBSET (0 .. n)
  OBVIOUS
<1>2. IsFiniteSet(0 .. n)
  BY FS_Interval
<1>3. PICK T \in F : \A U \in F : U \subseteq T => U = T
  <2> DEFINE I == 0 .. n
  <2>1. F # {} /\ F \subseteq SUBSET I /\ IsFiniteSet(I)
    BY <1>1, <1>2
  <2> HIDE DEF F, I
  <2> QED
    BY <2>1, Smallest
<1>4. PICK i \in 0 .. n : i \notin S /\ T = 0 .. i
  OBVIOUS
<1>5. i # 0 /\ i - 1 \in 0 .. n - 1 /\ i - 1 \in 0 .. n
  BY <1>4
<1>6. i - 1 \notin S
  BY <1>4, <1>5
<1>7. 0 .. (i - 1) \in F
  BY <1>5, <1>6
<1>8. 0 .. (i - 1) \subseteq T /\ 0 .. (i - 1) # T
  <2>1. i \in 0 .. i /\ i \notin 0 .. (i - 1)
    BY <1>5
  <2> QED
    BY <1>4, <2>1
<1> QED
  BY <1>3, <1>7, <1>8

-----------------------------------------------------------------------------
(* Sessions that wait.                                                      *)

(* Among finitely many sessions, when each of some waits for one of them,   *)
(* one of them waits for itself: of the sets that are closed and hold whom  *)
(* some session waits for, but not that session, the least would hold       *)
(* another such session, and could do without it.                           *)
LEMMA SomeoneOnCycle ==
    ASSUME NEW S, IsFiniteSet(S), NEW E \in SUBSET (S \X S), NEW B \in SUBSET S, B # {},
           \A s \in B : \E u \in B : <<s, u>> \in E
    PROVE  \E s \in B : OnCycle(s, E, S)
<1> USE DEF OnCycle, Behind
<1> DEFINE After(s) == {u \in S : <<s, u>> \in E}
           Leaves(R, s) == Closed(R, E) /\ After(s) \subseteq R /\ s \notin R
           F == {R \in SUBSET S : \E s \in B : Leaves(R, s)}
<1> SUFFICES ASSUME \A s \in B : ~OnCycle(s, E, S)
             PROVE  FALSE
  OBVIOUS
<1>1. \A s \in B : \E R \in SUBSET S : Leaves(R, s)
  BY DEF OnCycle
<1>2. PICK R \in F : \A Q \in F : Q \subseteq R => Q = R
  <2>1. F \subseteq SUBSET S /\ F # {}
    BY <1>1
  <2> HIDE DEF F
  <2> QED
    BY <2>1, Smallest
<1>3. PICK s \in B : Leaves(R, s)
  OBVIOUS
<1>4. PICK u \in B : <<s, u>> \in E
  OBVIOUS
<1>5. PICK Q \in SUBSET S : Leaves(Q, u)
  BY <1>1
<1>6. u \in R /\ After(u) \subseteq R
  BY <1>3, <1>4 DEF Closed
<1>7. Leaves(Q \cap R, u)
  BY <1>3, <1>5, <1>6 DEF Closed
<1>8. Q \cap R = R
  BY <1>2, <1>7
<1> QED
  BY <1>5, <1>6, <1>8

(* When everyone of A is in M or waits for someone of A, and whoever waits  *)
(* for itself is in M, then none of A is stuck: those it waits for in the   *)
(* end cannot all wait and form no cycle.                                   *)
LEMMA EveryoneHasWayOut ==
    ASSUME NEW S, IsFiniteSet(S), NEW E \in SUBSET (S \X S), NEW A \in SUBSET S, NEW M,
           \A s \in A : s \in M \/ \E u \in A : <<s, u>> \in E,
           \A s \in A : OnCycle(s, E, S) => s \in M,
           NEW s \in A
    PROVE  HasWayOut(s, M, E, S)
<1> DEFINE B == {u \in A : u = s \/ Behind(s, u, E, S)}
<1> SUFFICES ASSUME \A u \in B : u \notin M
             PROVE  FALSE
  BY DEF HasWayOut
<1>1. ASSUME NEW u \in B PROVE \E v \in B : <<u, v>> \in E
  <2>1. PICK v \in A : <<u, v>> \in E
    OBVIOUS
  <2>2. Behind(s, v, E, S)
    BY <2>1 DEF Behind, Closed
  <2> QED
    BY <2>1, <2>2
<1>2. B \in SUBSET S /\ B # {}
  OBVIOUS
<1>3. PICK u \in B : OnCycle(u, E, S)
  <2> HIDE DEF B
  <2> QED
    BY <1>1, <1>2, SomeoneOnCycle
<1> QED
  BY <1>3
=============================================================================
