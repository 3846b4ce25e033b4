-------------------------- MODULE EvalStateProofs ---------------------------
(* Proofs about EvalState, for windows of any length, any grid and any       *)
(* weights: what a stone adds to the indices, the score, the threat counts   *)
(* and the hot windows is exactly what a recount from all stones would add,  *)
(* and taking it back restores the evaluation without the stone.             *)
EXTENDS EvalState, FiniteSetTheorems, TLAPS

-----------------------------------------------------------------------------
(* Induction, for sets. *)

LEMMA NatSetInduction ==
    ASSUME NEW S, 0 \in S, \A n \in Nat : n \in S => n + 1 \in S
    PROVE  Nat \subseteq S
<1> SUFFICES ASSUME NEW N \in Nat, N \notin S PROVE FALSE
  OBVIOUS
<1> DEFINE T == S \cap (0 .. N)
           f == [n \in T |-> n + 1]
<1>1. IsFiniteSet(T) /\ IsFiniteSet(T \ {0}) /\ Cardinality(T) \in Nat
  <2>1. IsFiniteSet(0 .. N)
    BY FS_Interval
  <2>2. IsFiniteSet(T)
    BY <2>1, FS_Subset
  <2> QED
    BY <2>2, FS_Subset, FS_CardinalityType
<1>2. Cardinality(T \ {0}) = Cardinality(T) - 1
  <2>1. 0 \in T
    OBVIOUS
  <2> HIDE DEF T
  <2> QED
    BY <1>1, <2>1, FS_RemoveElement
<1>3. f \in Injection(T, T \ {0})
  <2>1. f \in [T -> T \ {0}]
    OBVIOUS
  <2>2. \A a, b \in T : f[a] = f[b] => a = b
    OBVIOUS
  <2> QED
    BY <2>1, <2>2 DEF Injection, IsInjective
<1>4. Cardinality(T) <= Cardinality(T \ {0})
  BY <1>1, <1>3, FS_Injection
<1> QED
  BY <1>1, <1>2, <1>4

(* A family of subsets that has a set whenever it has the sets with one      *)
(* element less, and one that is closed under adding an element.             *)
LEMMA RemovalInduction ==
    ASSUME NEW S, IsFiniteSet(S), NEW P,
           \A T \in SUBSET S : (\A x \in T : T \ {x} \in P) => T \in P
    PROVE  \A T \in SUBSET S : T \in P
<1> DEFINE N == {n \in Nat : \A T \in SUBSET S : Cardinality(T) = n => T \in P}
<1>1. \A T \in SUBSET S : IsFiniteSet(T) /\ Cardinality(T) \in Nat
  BY FS_Subset, FS_CardinalityType
<1>2. 0 \in N
  <2> SUFFICES ASSUME NEW T \in SUBSET S, Cardinality(T) = 0 PROVE T \in P
    OBVIOUS
  <2>1. T = {}
    BY <1>1, FS_EmptySet
  <2> QED
    BY <2>1
<1>3. ASSUME NEW n \in Nat, n \in N
      PROVE  n + 1 \in N
  <2> SUFFICES ASSUME NEW T \in SUBSET S, Cardinality(T) = n + 1 PROVE T \in P
    OBVIOUS
  <2>1. ASSUME NEW x \in T
        PROVE  T \ {x} \in P
    <3>1. Cardinality(T \ {x}) = Cardinality(T) - 1
      BY <1>1, FS_RemoveElement
    <3>2. T \ {x} \in SUBSET S /\ Cardinality(T) - 1 = n
      BY <1>3
    <3> QED
      BY <1>3, <3>1, <3>2
  <2> QED
    BY <2>1
<1>4. Nat \subseteq N
  <2> HIDE DEF N
  <2> QED
    BY <1>2, <1>3, NatSetInduction
<1> QED
  BY <1>1, <1>4

LEMMA SubsetInduction ==
    ASSUME NEW S, IsFiniteSet(S), NEW P, {} \in P,
           \A T \in SUBSET S : \A x \in S \ T : T \in P => T \cup {x} \in P
    PROVE  S \in P
<1>1. ASSUME NEW T \in SUBSET S, \A x \in T : T \ {x} \in P
      PROVE  T \in P
  <2>1. CASE T = {}
    BY <2>1
  <2>2. ASSUME NEW x \in T
        PROVE  T \in P
    <3>1. T \ {x} \in SUBSET S /\ x \in S \ (T \ {x}) /\ (T \ {x}) \cup {x} = T
      OBVIOUS
    <3> QED
      BY <1>1, <3>1
  <2> QED
    BY <2>1, <2>2
<1>2. \A T \in SUBSET S : T \in P
  BY <1>1, RemovalInduction
<1> QED
  BY <1>2

-----------------------------------------------------------------------------
(* Sums over finite sets. *)

(* A sum that does not depend on the order. *)
Additive(G, f, S) ==
    /\ G \in [SUBSET S -> Int]
    /\ G[{}] = 0
    /\ \A T \in SUBSET S : \A x \in T : G[T] = f[x] + G[T \ {x}]

LEMMA SumExists ==
    ASSUME NEW S, IsFiniteSet(S), NEW f, \A x \in S : f[x] \in Int
    PROVE  \E G : Additive(G, f, S)
<1> DEFINE P == {T \in SUBSET S : \E G : Additive(G, f, T)}
<1>1. {} \in P
  <2> DEFINE G == [T \in SUBSET {} |-> 0]
  <2>1. Additive(G, f, {})
    BY DEF Additive
  <2> QED
    BY <2>1
<1>2. ASSUME NEW T \in SUBSET S, NEW y \in S \ T, T \in P
      PROVE  T \cup {y} \in P
  <2>1. PICK G : Additive(G, f, T)
    BY <1>2
  <2>2. G \in [SUBSET T -> Int] /\ G[{}] = 0
    BY <2>1 DEF Additive
  <2> DEFINE V == T \cup {y}
             H == [U \in SUBSET V |-> IF y \in U THEN f[y] + G[U \ {y}] ELSE G[U]]
  <2>3. \A U \in SUBSET V : U \ {y} \in SUBSET T /\ (y \notin U => U \in SUBSET T)
    OBVIOUS
  <2>4. f[y] \in Int
    OBVIOUS
  <2>5. H \in [SUBSET V -> Int]
    BY <2>2, <2>3, <2>4
  <2>6. H[{}] = 0
    BY <2>2
  <2>7. ASSUME NEW U \in SUBSET V, NEW x \in U
        PROVE  H[U] = f[x] + H[U \ {x}]
    <3>1. CASE x = y
      <4>1. H[U] = f[y] + G[U \ {y}] /\ H[U \ {y}] = G[U \ {y}]
        BY <3>1
      <4> QED
        BY <3>1, <4>1
    <3>2. CASE x # y /\ y \notin U
      <4>1. H[U] = G[U] /\ H[U \ {x}] = G[U \ {x}] /\ U \in SUBSET T
        BY <2>3, <3>2
      <4> QED
        BY <2>1, <4>1 DEF Additive
    <3>3. CASE x # y /\ y \in U
      <4> DEFINE W == U \ {y}
      <4>1. W \in SUBSET T /\ x \in W /\ U \ {x} \in SUBSET V /\ y \in U \ {x}
        BY <3>3
      <4>2. (U \ {x}) \ {y} = W \ {x} /\ W \ {x} \in SUBSET T
        OBVIOUS
      <4>3. H[U] = f[y] + G[W] /\ H[U \ {x}] = f[y] + G[(U \ {x}) \ {y}]
        BY <3>3, <4>1
      <4>4. G[W] = f[x] + G[W \ {x}]
        BY <2>1, <4>1 DEF Additive
      <4>5. f[x] \in Int /\ G[W \ {x}] \in Int
        BY <2>2, <4>1, <4>2
      <4> HIDE DEF H, W
      <4>6. H[U \ {x}] = f[y] + G[W \ {x}]
        BY <4>2, <4>3
      <4> QED
        BY <2>4, <4>3, <4>4, <4>5, <4>6
    <3> QED
      BY <3>1, <3>2, <3>3
  <2>8. Additive(H, f, V)
    <3> HIDE DEF H, V
    <3> QED
      BY <2>5, <2>6, <2>7 DEF Additive
  <2> QED
    BY <2>8
<1>3. S \in P
  <2> HIDE DEF P
  <2> QED
    BY <1>1, <1>2, SubsetInduction
<1> QED
  BY <1>3

(* The sum of the community modules takes the elements out one by one.       *)
TakenOut(it, f, S) ==
    it = [s \in SUBSET S |->
            IF s = {} THEN 0
            ELSE f[CHOOSE x \in s : TRUE] + it[s \ {CHOOSE x \in s : TRUE}]]

LEMMA SumTakesOut ==
    ASSUME NEW S, NEW f, NEW G, Additive(G, f, S)
    PROVE  TakenOut(G, f, S)
<1>1. G = [s \in SUBSET S |-> G[s]]
  BY DEF Additive
<1>2. ASSUME NEW s \in SUBSET S
      PROVE  G[s] = IF s = {} THEN 0
                    ELSE f[CHOOSE x \in s : TRUE] + G[s \ {CHOOSE x \in s : TRUE}]
  <2>1. s # {} => (CHOOSE x \in s : TRUE) \in s
    OBVIOUS
  <2> QED
    BY <2>1 DEF Additive
<1> QED
  BY <1>1, <1>2 DEF TakenOut

LEMMA TakenOutIsSum ==
    ASSUME NEW S, IsFiniteSet(S), NEW f, NEW G, Additive(G, f, S),
           NEW it, TakenOut(it, f, S)
    PROVE  it = G
<1> DEFINE P == {T \in SUBSET S : it[T] = G[T]}
           e(s) == CHOOSE x \in s : TRUE
<1>1. \A s \in SUBSET S : it[s] = IF s = {} THEN 0 ELSE f[e(s)] + it[s \ {e(s)}]
  BY DEF TakenOut
<1>2. \A s \in SUBSET S : s # {} => e(s) \in s
  OBVIOUS
<1> HIDE DEF e
<1>3. ASSUME NEW T \in SUBSET S, \A x \in T : T \ {x} \in P
      PROVE  T \in P
  <2>1. CASE T = {}
    BY <1>1, <2>1 DEF Additive
  <2>2. CASE T # {}
    <3>1. e(T) \in T /\ it[T] = f[e(T)] + it[T \ {e(T)}]
      BY <1>1, <1>2, <2>2
    <3>2. it[T \ {e(T)}] = G[T \ {e(T)}]
      BY <1>3, <3>1
    <3>3. G[T] = f[e(T)] + G[T \ {e(T)}]
      BY <3>1 DEF Additive
    <3> QED
      BY <3>1, <3>2, <3>3
  <2> QED
    BY <2>1, <2>2
<1>4. \A T \in SUBSET S : T \in P
  <2> HIDE DEF P
  <2> QED
    BY <1>3, RemovalInduction
<1>5. it = [s \in SUBSET S |-> it[s]] /\ G = [s \in SUBSET S |-> G[s]]
  BY DEF TakenOut, Additive
<1> QED
  BY <1>4, <1>5

-----------------------------------------------------------------------------
(* The sum of a function over a finite set: what MapThenSumSet computes, in  *)
(* whatever order it takes the elements.                                     *)
Total(f, S) == MapThenSumSet(LAMBDA x : f[x], S)

LEMMA TotalIsSum ==
    ASSUME NEW S, IsFiniteSet(S), NEW f, NEW G, Additive(G, f, S)
    PROVE  Total(f, S) = G[S]
<1> DEFINE it == CHOOSE it : it = [s \in SUBSET S |->
                   IF s = {} THEN 0
                   ELSE f[CHOOSE x \in s : TRUE] + it[s \ {CHOOSE x \in s : TRUE}]]
<1>1. Total(f, S) = it[S]
  BY Zenon DEF Total, MapThenSumSet, MapThenFoldSet
<1>2. TakenOut(G, f, S)
  BY SumTakesOut
<1>3. TakenOut(it, f, S)
  BY <1>2, Zenon DEF TakenOut
<1> HIDE DEF it
<1>4. it = G
  BY <1>3, TakenOutIsSum
<1> QED
  BY <1>1, <1>4

(* What a sum is: it can be taken apart at any element. *)
LEMMA TotalAdds ==
    ASSUME NEW S, IsFiniteSet(S), NEW f, \A x \in S : f[x] \in Int
    PROVE  /\ Total(f, {}) = 0
           /\ Total(f, S) \in Int
           /\ \A x \in S : Total(f, S) = f[x] + Total(f, S \ {x})
<1>1. PICK G : Additive(G, f, S)
  BY SumExists
<1>2. ASSUME NEW T \in SUBSET S
      PROVE  Total(f, T) = G[T]
  <2> DEFINE H == [U \in SUBSET T |-> G[U]]
  <2>1. Additive(H, f, T)
    BY <1>1 DEF Additive
  <2>2. IsFiniteSet(T)
    BY FS_Subset
  <2> HIDE DEF H
  <2>3. Total(f, T) = H[T]
    BY <2>1, <2>2, TotalIsSum
  <2> QED
    BY <2>3 DEF H
<1>3. Total(f, S) = G[S] /\ Total(f, {}) = G[{}] /\ \A x \in S : Total(f, S \ {x}) = G[S \ {x}]
  BY <1>2
<1> QED
  BY <1>1, <1>3 DEF Additive

LEMMA TotalGrows ==
    ASSUME NEW S, IsFiniteSet(S), NEW x, x \notin S, NEW f, \A y \in S \cup {x} : f[y] \in Int
    PROVE  Total(f, S \cup {x}) = Total(f, S) + f[x]
<1> DEFINE T == S \cup {x}
<1>1. IsFiniteSet(T) /\ x \in T /\ T \ {x} = S
  BY FS_AddElement
<1> HIDE DEF T
<1>2. Total(f, T) = f[x] + Total(f, S)
  BY <1>1, TotalAdds DEF T
<1>3. Total(f, S) \in Int /\ f[x] \in Int
  BY TotalAdds
<1> QED
  BY <1>2, <1>3 DEF T

LEMMA TotalSame ==
    ASSUME NEW S, IsFiniteSet(S), NEW f, NEW g, \A x \in S : f[x] \in Int /\ f[x] = g[x]
    PROVE  Total(f, S) = Total(g, S)
<1>1. PICK G : Additive(G, f, S)
  BY SumExists
<1>2. Additive(G, g, S)
  BY <1>1 DEF Additive
<1> QED
  BY <1>1, <1>2, TotalIsSum

(* A sum changes by the sum of the changes. *)
LEMMA TotalChanges ==
    ASSUME NEW S, IsFiniteSet(S), NEW T, T \subseteq S, NEW f, NEW g, NEW d,
           \A x \in S : f[x] \in Int /\ g[x] \in Int,
           \A x \in S \ T : g[x] = f[x],
           \A x \in T : d[x] = g[x] - f[x]
    PROVE  Total(g, S) = Total(f, S) + Total(d, T)
<1> DEFINE P == {U \in SUBSET S : Total(g, U) = Total(f, U) + Total(d, U \cap T)}
<1>1. \A x \in T : d[x] \in Int
  OBVIOUS
<1>2. {} \in P
  <2>1. Total(f, {}) = 0 /\ Total(g, {}) = 0
    BY TotalAdds
  <2>2. Total(d, {}) = 0 /\ {} \cap T = {}
    BY FS_EmptySet, TotalAdds
  <2> QED
    BY <2>1, <2>2
<1>3. ASSUME NEW U \in SUBSET S, NEW x \in S \ U, U \in P
      PROVE  U \cup {x} \in P
  <2> DEFINE V == U \cup {x}
  <2>1. IsFiniteSet(U) /\ IsFiniteSet(U \cap T)
    <3>1. IsFiniteSet(U)
      BY FS_Subset
    <3> QED
      BY <3>1, FS_Subset
  <2>2. /\ Total(f, V) = Total(f, U) + f[x]
        /\ Total(g, V) = Total(g, U) + g[x]
    BY <2>1, TotalGrows
  <2>3. Total(f, U) \in Int /\ Total(g, U) \in Int /\ Total(d, U \cap T) \in Int
    BY <1>1, <2>1, TotalAdds
  <2>4. Total(g, U) = Total(f, U) + Total(d, U \cap T)
    BY <1>3
  <2>5. f[x] \in Int /\ g[x] \in Int
    OBVIOUS
  <2>6. PICK a \in Int, b \in Int, c \in Int, m \in Int, n \in Int :
          /\ a = Total(f, U) /\ b = Total(g, U) /\ c = Total(d, U \cap T)
          /\ m = f[x] /\ n = g[x]
    BY <2>3, <2>5, Zenon
  <2>7. b = a + c
    BY <2>4, <2>6, Zenon
  <2>8. CASE x \in T
    <3>1. V \cap T = (U \cap T) \cup {x} /\ x \notin U \cap T
      BY <2>8
    <3>2. Total(d, (U \cap T) \cup {x}) = Total(d, U \cap T) + d[x]
      BY <1>1, <2>1, <2>8, TotalGrows
    <3>3. d[x] = g[x] - f[x]
      BY <2>8
    <3>4. b + n = (a + m) + (c + (n - m))
      BY <2>7
    <3>5. Total(g, V) = Total(f, V) + Total(d, V \cap T)
      BY <2>2, <2>6, <3>1, <3>2, <3>3, <3>4, Zenon
    <3> QED
      BY <3>5
  <2>9. CASE x \notin T
    <3>1. V \cap T = U \cap T /\ g[x] = f[x]
      BY <2>9
    <3>2. b + m = (a + m) + c
      BY <2>7
    <3>3. Total(g, V) = Total(f, V) + Total(d, V \cap T)
      BY <2>2, <2>6, <3>1, <3>2, Zenon
    <3> QED
      BY <3>3
  <2> QED
    BY <2>8, <2>9
<1>4. S \in P
  <2> HIDE DEF P
  <2> QED
    BY <1>2, <1>3, SubsetInduction
<1> QED
  <2>1. S \cap T = T
    OBVIOUS
  <2> QED
    BY <1>4, <2>1

-----------------------------------------------------------------------------
(* Cells along a line. *)

(* The components of the three directions. *)
LEMMA DirectionsAre ==
    ASSUME NEW dir \in DOMAIN Directions
    PROVE  LET d == Directions[dir]
           IN  \/ d[1] = 1 /\ d[2] = 0
               \/ d[1] = 0 /\ d[2] = 1
               \/ d[1] = 1 /\ d[2] = -1
<1>1. dir = 1 \/ dir = 2 \/ dir = 3
  BY DEF Directions
<1> QED
  BY <1>1 DEF Directions

(* Steps along a direction: they lead to different cells, there and back.    *)
LEMMA AlongIsOneToOne ==
    ASSUME NEW cell \in Cells, NEW dir \in DOMAIN Directions
    PROVE  \A m, n \in Int :
              Along(cell, Directions[dir], m) = Along(cell, Directions[dir], n) => m = n
<1>1. PICK q \in Int, r \in Int : cell = <<q, r>>
  BY DEF Cells
<1> QED
  BY <1>1, DirectionsAre DEF Along

LEMMA AlongBack ==
    ASSUME NEW cell \in Cells, NEW dir \in DOMAIN Directions
    PROVE  LET d == Directions[dir]
           IN  /\ Along(cell, d, 0) = cell
               /\ \A n \in Int : Along(cell, <<-d[1], -d[2]>>, n) = Along(cell, d, -n)
<1>1. PICK q \in Int, r \in Int : cell = <<q, r>>
  BY DEF Cells
<1> QED
  BY <1>1, DirectionsAre DEF Along

LEMMA AlongAdds ==
    ASSUME NEW cell \in Cells, NEW dir \in DOMAIN Directions, NEW m \in Int, NEW n \in Int
    PROVE  LET d == Directions[dir]
           IN  /\ Along(cell, d, m) \in Cells
               /\ Along(Along(cell, d, m), d, n) = Along(cell, d, m + n)
<1>1. PICK q \in Int, r \in Int : cell = <<q, r>>
  BY DEF Cells
<1> QED
  BY <1>1, DirectionsAre DEF Along, Cells

-----------------------------------------------------------------------------
(* The powers of three. *)
LEMMA PowersExist ==
    ASSUME NEW N \in Nat
    PROVE  \E g \in [0 .. N -> Nat] : g[0] = 1 /\ \A n \in 1 .. N : g[n] = 3 * g[n - 1]
<1> DEFINE S == {k \in Nat : \E g \in [0 .. k -> Nat] :
                    g[0] = 1 /\ \A n \in 1 .. k : g[n] = 3 * g[n - 1]}
<1>1. 0 \in S
  <2> DEFINE g == [n \in 0 .. 0 |-> 1]
  <2>1. g \in [0 .. 0 -> Nat] /\ g[0] = 1 /\ 1 .. 0 = {}
    OBVIOUS
  <2> QED
    BY <2>1
<1>2. ASSUME NEW k \in Nat, k \in S
      PROVE  k + 1 \in S
  <2>1. PICK g \in [0 .. k -> Nat] : g[0] = 1 /\ \A n \in 1 .. k : g[n] = 3 * g[n - 1]
    BY <1>2
  <2> DEFINE h == [n \in 0 .. k + 1 |-> IF n = k + 1 THEN 3 * g[k] ELSE g[n]]
  <2>2. h \in [0 .. k + 1 -> Nat]
    OBVIOUS
  <2>3. h[0] = 1
    BY <2>1
  <2>4. ASSUME NEW n \in 1 .. k + 1
        PROVE  h[n] = 3 * h[n - 1]
    <3>1. CASE n = k + 1
      BY <3>1
    <3>2. CASE n \in 1 .. k
      BY <2>1, <3>2
    <3> QED
      BY <3>1, <3>2
  <2> HIDE DEF h
  <2>5. \E x \in [0 .. k + 1 -> Nat] : x[0] = 1 /\ \A n \in 1 .. k + 1 : x[n] = 3 * x[n - 1]
    BY <2>2, <2>3, <2>4
  <2>6. k + 1 \in Nat
    OBVIOUS
  <2> QED
    BY <2>5, <2>6, Zenon
<1>3. Nat \subseteq S
  <2> HIDE DEF S
  <2> QED
    BY <1>1, <1>2, NatSetInduction
<1> QED
  BY <1>3

LEMMA PowersAre ==
    /\ Pow3 \in [0 .. WinLength -> Nat \ {0}]
    /\ Pow3[0] = 1
    /\ \A n \in 0 .. WinLength - 1 : Pow3[n + 1] = 3 * Pow3[n]
<1>1. WinLength \in Nat /\ WinLength >= 4
  BY WinLengthOK
<1>2. PICK g \in [0 .. WinLength -> Nat] :
        g[0] = 1 /\ \A n \in 1 .. WinLength : g[n] = 3 * g[n - 1]
  BY <1>1, PowersExist
<1>3. g = [n \in 0 .. WinLength |-> IF n = 0 THEN 1 ELSE 3 * g[n - 1]]
  <2>1. \A n \in 0 .. WinLength : g[n] = IF n = 0 THEN 1 ELSE 3 * g[n - 1]
    BY <1>2
  <2> QED
    BY <2>1
<1>4. Pow3 = [n \in 0 .. WinLength |-> IF n = 0 THEN 1 ELSE 3 * Pow3[n - 1]]
  BY <1>3, Zenon DEF Pow3
<1>5. \A m \in 0 .. WinLength : Pow3[m] = IF m = 0 THEN 1 ELSE 3 * Pow3[m - 1]
  <2> DEFINE e(m) == IF m = 0 THEN 1 ELSE 3 * Pow3[m - 1]
  <2>1. Pow3 = [m \in 0 .. WinLength |-> e(m)]
    BY <1>4
  <2> HIDE DEF e
  <2>2. \A m \in 0 .. WinLength : Pow3[m] = e(m)
    BY <2>1
  <2> QED
    BY <2>2 DEF e
<1>6. Pow3[0] = 1
  BY <1>1, <1>5
<1>7. ASSUME NEW n \in 0 .. WinLength - 1
      PROVE  Pow3[n + 1] = 3 * Pow3[n]
  <2>1. n + 1 \in 0 .. WinLength /\ n + 1 # 0 /\ n + 1 - 1 = n
    BY <1>1
  <2>2. Pow3[n + 1] = 3 * Pow3[n + 1 - 1]
    BY <1>5, <2>1
  <2> QED
    BY <2>1, <2>2
<1>8. \A n \in 0 .. WinLength : Pow3[n] \in Nat \ {0}
  <2> DEFINE S == {n \in Nat : n <= WinLength => Pow3[n] \in Nat \ {0}}
  <2>1. 0 \in S
    BY <1>6
  <2>2. ASSUME NEW n \in Nat, n \in S
        PROVE  n + 1 \in S
    <3> SUFFICES ASSUME n + 1 <= WinLength PROVE Pow3[n + 1] \in Nat \ {0}
      OBVIOUS
    <3>1. n \in 0 .. WinLength - 1 /\ Pow3[n] \in Nat \ {0}
      BY <1>1, <2>2
    <3> QED
      BY <1>7, <3>1
  <2>3. Nat \subseteq S
    <3> HIDE DEF S
    <3> QED
      BY <2>1, <2>2, NatSetInduction
  <2> QED
    BY <2>3
<1>9. Pow3 = [n \in 0 .. WinLength |-> Pow3[n]]
  BY <1>4
<1> QED
  BY <1>6, <1>7, <1>8, <1>9

(* Digits of base three below a place are less than the place.               *)
LEMMA DigitsBelow ==
    ASSUME NEW f, NEW A \in SUBSET Offsets,
           \A off \in A : f[off] = Pow3[off] \/ f[off] = 2 * Pow3[off],
           NEW k \in 0 .. WinLength, A \subseteq 0 .. k - 1
    PROVE  Total(f, A) \in 0 .. Pow3[k] - 1
<1> DEFINE S == {n \in Nat : n <= WinLength => \A B \in SUBSET A :
                    B \subseteq 0 .. n - 1 => Total(f, B) \in 0 .. Pow3[n] - 1}
<1>1. WinLength \in Nat /\ Offsets = 0 .. WinLength - 1
  BY WinLengthOK DEF Offsets
<1>2. \A n \in 0 .. WinLength : Pow3[n] \in Nat
  BY PowersAre
<1>3. \A off \in A : f[off] \in Int
  BY <1>1, <1>2
<1>4. \A B \in SUBSET A : IsFiniteSet(B)
  <2>1. IsFiniteSet(Offsets)
    BY <1>1, FS_Interval
  <2>2. \A B \in SUBSET A : B \in SUBSET Offsets
    OBVIOUS
  <2> QED
    BY <2>1, <2>2, FS_Subset
<1>5. 0 \in S
  <2>1. Total(f, {}) = 0
    BY FS_EmptySet, TotalAdds
  <2>2. \A B : B \subseteq 0 .. 0 - 1 => B = {}
    OBVIOUS
  <2>3. Pow3[0] = 1
    BY PowersAre
  <2>4. ASSUME NEW B \in SUBSET A, B \subseteq 0 .. 0 - 1
        PROVE  Total(f, B) \in 0 .. Pow3[0] - 1
    <3>1. B = {}
      BY <2>2, <2>4
    <3> QED
      BY <2>1, <2>3, <3>1
  <2> QED
    BY <2>4
<1>6. ASSUME NEW n \in Nat, n \in S
      PROVE  n + 1 \in S
  <2> SUFFICES ASSUME n + 1 <= WinLength, NEW B \in SUBSET A, B \subseteq 0 .. n + 1 - 1
               PROVE  Total(f, B) \in 0 .. Pow3[n + 1] - 1
    OBVIOUS
  <2> DEFINE C == B \ {n}
  <2>1. n \in 0 .. WinLength - 1 /\ n \in 0 .. WinLength
    BY <1>1
  <2>2. Pow3[n] \in Nat /\ Pow3[n + 1] = 3 * Pow3[n]
    BY <1>2, <2>1, PowersAre
  <2>3. C \in SUBSET A /\ C \subseteq 0 .. n - 1
    OBVIOUS
  <2>4. Total(f, C) \in 0 .. Pow3[n] - 1
    BY <1>6, <2>1, <2>3
  <2>5. CASE n \in B
    <3>1. Total(f, B) = f[n] + Total(f, C)
      BY <1>3, <1>4, <2>5, TotalAdds
    <3>2. f[n] = Pow3[n] \/ f[n] = 2 * Pow3[n]
      BY <2>5
    <3> HIDE DEF C
    <3> QED
      BY <2>2, <2>4, <3>1, <3>2
  <2>6. CASE n \notin B
    <3>1. C = B
      BY <2>6
    <3> QED
      BY <2>2, <2>4, <3>1
  <2> QED
    BY <2>5, <2>6
<1>7. Nat \subseteq S
  <2> HIDE DEF S
  <2> QED
    BY <1>5, <1>6, NatSetInduction
<1> QED
  BY <1>1, <1>7

LEMMA DigitsBound ==
    ASSUME NEW f, NEW A \in SUBSET Offsets,
           \A off \in A : f[off] = Pow3[off] \/ f[off] = 2 * Pow3[off]
    PROVE  Total(f, A) \in Patterns
<1>1. WinLength \in 0 .. WinLength /\ A \subseteq 0 .. WinLength - 1
  BY WinLengthOK DEF Offsets
<1> QED
  BY <1>1, DigitsBelow DEF Patterns

(* A sum over two parts. *)
LEMMA TotalOfTwo ==
    ASSUME NEW S, IsFiniteSet(S), NEW T, IsFiniteSet(T), S \cap T = {},
           NEW f, \A x \in S \cup T : f[x] \in Int
    PROVE  Total(f, S \cup T) = Total(f, S) + Total(f, T)
<1> DEFINE P == {U \in SUBSET T : Total(f, S \cup U) = Total(f, S) + Total(f, U)}
<1>1. {} \in P
  <2>1. Total(f, {}) = 0 /\ Total(f, S) \in Int /\ S \cup {} = S
    BY TotalAdds, FS_EmptySet
  <2> QED
    BY <2>1
<1>2. ASSUME NEW U \in SUBSET T, NEW x \in T \ U, U \in P
      PROVE  U \cup {x} \in P
  <2>1. IsFiniteSet(U) /\ IsFiniteSet(S \cup U)
    BY FS_Subset, FS_Union
  <2>2. x \notin S \cup U /\ x \notin U /\ (S \cup U) \cup {x} = S \cup (U \cup {x})
    OBVIOUS
  <2>3. \A y \in (S \cup U) \cup {x} : f[y] \in Int
    OBVIOUS
  <2>4. Total(f, (S \cup U) \cup {x}) = Total(f, S \cup U) + f[x]
    BY <2>1, <2>2, <2>3, TotalGrows
  <2>5. Total(f, U \cup {x}) = Total(f, U) + f[x]
    BY <2>1, <2>2, <2>3, TotalGrows
  <2>6. Total(f, S) \in Int /\ Total(f, U) \in Int /\ f[x] \in Int
    BY <2>1, TotalAdds
  <2>7. Total(f, S \cup U) = Total(f, S) + Total(f, U)
    BY <1>2
  <2>8. Total(f, S \cup (U \cup {x})) = Total(f, S) + Total(f, U \cup {x})
    <3>1. Total(f, S \cup (U \cup {x})) = Total(f, S \cup U) + f[x]
      BY <2>2, <2>4, Zenon
    <3>2. \A a, b, c \in Int : (a + b) + c = a + (b + c)
      OBVIOUS
    <3>3. (Total(f, S) + Total(f, U)) + f[x] = Total(f, S) + (Total(f, U) + f[x])
      BY <2>6, <3>2, Zenon
    <3> QED
      BY <2>5, <2>7, <3>1, <3>3, Zenon
  <2> QED
    BY <2>8
<1> HIDE DEF P
<1>3. T \in P
  BY <1>1, <1>2, SubsetInduction
<1> QED
  BY <1>3 DEF P

(* A higher power is a multiple of a lower one. *)
LEMMA PowersDivide ==
    ASSUME NEW n \in 0 .. WinLength, NEW k \in n .. WinLength
    PROVE  \E m \in Nat : Pow3[k] = m * Pow3[n]
<1> DEFINE S == {j \in Nat : n + j <= WinLength => \E m \in Nat : Pow3[n + j] = m * Pow3[n]}
<1>1. WinLength \in Nat
  BY WinLengthOK
<1>2. Pow3[n] \in Nat
  BY PowersAre, <1>1
<1>3. 0 \in S
  <2>1. Pow3[n + 0] = 1 * Pow3[n]
    BY <1>1, <1>2
  <2> QED
    BY <2>1
<1>4. ASSUME NEW j \in Nat, j \in S
      PROVE  j + 1 \in S
  <2> SUFFICES ASSUME n + (j + 1) <= WinLength
               PROVE  \E m \in Nat : Pow3[n + (j + 1)] = m * Pow3[n]
    OBVIOUS
  <2>1. PICK m \in Nat : Pow3[n + j] = m * Pow3[n]
    BY <1>1, <1>4
  <2>2. n + j \in 0 .. WinLength - 1 /\ n + (j + 1) = (n + j) + 1
    BY <1>1
  <2>3. Pow3[n + (j + 1)] = 3 * Pow3[n + j]
    BY <2>2, PowersAre
  <2>4. 3 * (m * Pow3[n]) = (3 * m) * Pow3[n]
    BY <1>2
  <2>5. 3 * m \in Nat
    OBVIOUS
  <2> QED
    BY <2>1, <2>3, <2>4, <2>5
<1>5. Nat \subseteq S
  <2> HIDE DEF S
  <2> QED
    BY <1>3, <1>4, NatSetInduction
<1>6. k - n \in Nat /\ n + (k - n) = k /\ k <= WinLength
  BY <1>1
<1> QED
  BY <1>5, <1>6

(* Digits from a place on are a multiple of it. *)
LEMMA DigitsAbove ==
    ASSUME NEW f, NEW A \in SUBSET Offsets,
           \A off \in A : f[off] = Pow3[off] \/ f[off] = 2 * Pow3[off],
           NEW n \in 0 .. WinLength, \A off \in A : off >= n
    PROVE  \E m \in Nat : Total(f, A) = m * Pow3[n]
<1> DEFINE P == {B \in SUBSET A : \E m \in Nat : Total(f, B) = m * Pow3[n]}
<1>1. WinLength \in Nat /\ Offsets = 0 .. WinLength - 1
  BY WinLengthOK DEF Offsets
<1>2. Pow3[n] \in Nat /\ \A off \in A : Pow3[off] \in Nat /\ f[off] \in Int
  BY PowersAre, <1>1
<1>3. IsFiniteSet(A)
  <2>1. IsFiniteSet(Offsets)
    BY <1>1, FS_Interval
  <2> QED
    BY <2>1, FS_Subset
<1>4. {} \in P
  <2>1. Total(f, {}) = 0 * Pow3[n]
    BY <1>2, FS_EmptySet, TotalAdds
  <2> QED
    BY <2>1
<1>5. ASSUME NEW B \in SUBSET A, NEW x \in A \ B, B \in P
      PROVE  B \cup {x} \in P
  <2>1. PICK m \in Nat : Total(f, B) = m * Pow3[n]
    BY <1>5
  <2>2. x \in n .. WinLength
    BY <1>1
  <2>3. PICK j \in Nat : Pow3[x] = j * Pow3[n]
    BY <2>2, PowersDivide
  <2>4. Total(f, B \cup {x}) = Total(f, B) + f[x]
    BY <1>2, <1>3, FS_Subset, TotalGrows
  <2>5. /\ m * Pow3[n] + j * Pow3[n] = (m + j) * Pow3[n]
        /\ m * Pow3[n] + 2 * (j * Pow3[n]) = (m + 2 * j) * Pow3[n]
        /\ m + j \in Nat /\ m + 2 * j \in Nat
    BY <1>2
  <2>6. f[x] = j * Pow3[n] \/ f[x] = 2 * (j * Pow3[n])
    BY <2>3
  <2>7. \E i \in Nat : Total(f, B \cup {x}) = i * Pow3[n]
    BY <2>1, <2>4, <2>5, <2>6
  <2> QED
    BY <2>7
<1> HIDE DEF P
<1>6. A \in P
  BY <1>3, <1>4, <1>5, SubsetInduction
<1> QED
  BY <1>6 DEF P

(* Division with remainder. *)
LEMMA DivIs ==
    ASSUME NEW P \in Nat, P > 0, NEW q \in Nat, NEW r \in Nat, r < P
    PROVE  (q * P + r) \div P = q
<1> DEFINE n == q * P + r
           k == n \div P
<1>1. n \in Nat
  OBVIOUS
<1>2. k \in Int /\ k * P <= n /\ n < (k + 1) * P
  <2> HIDE DEF n
  <2> QED
    BY <1>1
<1> HIDE DEF k
<1>3. n = q * P + r
  OBVIOUS
<1> HIDE DEF n
<1>4. (k + 1) * P = k * P + P /\ (q + 1) * P = q * P + P
  BY <1>2
<1>5. ~(k < q)
  <2> SUFFICES ASSUME k < q PROVE FALSE
    OBVIOUS
  <2>1. k + 1 <= q
    BY <1>2
  <2>2. (k + 1) * P <= q * P
    BY <2>1, <1>2
  <2> QED
    BY <2>2, <1>2, <1>3
<1>6. ~(q < k)
  <2> SUFFICES ASSUME q < k PROVE FALSE
    OBVIOUS
  <2>1. q + 1 <= k
    BY <1>2
  <2>2. (q + 1) * P <= k * P
    BY <2>1, <1>2
  <2> QED
    BY <2>2, <1>2, <1>3, <1>4
<1> QED
  BY <1>2, <1>5, <1>6 DEF k, n

(* The index of a window can be read cell by cell. *)
LEMMA DigitOfTotal ==
    ASSUME NEW f, NEW A \in SUBSET Offsets,
           \A x \in A : f[x] = Pow3[x] \/ f[x] = 2 * Pow3[x],
           NEW off \in Offsets, NEW d \in 0 .. 2,
           off \in A => f[off] = d * Pow3[off],
           off \notin A => d = 0
    PROVE  (Total(f, A) \div Pow3[off]) % 3 = d
<1> DEFINE low == {x \in A : x < off}
           high == {x \in A : x > off}
           mid == {x \in A : x = off}
           P == Pow3[off]
<1>1. WinLength \in Nat /\ Offsets = 0 .. WinLength - 1 /\ off \in 0 .. WinLength - 1
  BY WinLengthOK DEF Offsets
<1>2. /\ P \in Nat /\ P > 0 /\ Pow3[off + 1] = 3 * P
      /\ \A x \in A : f[x] \in Int
  <2>1. \A x \in 0 .. WinLength - 1 : Pow3[x] \in Nat \ {0}
    BY PowersAre, <1>1
  <2>2. Pow3[off + 1] = 3 * P
    BY PowersAre, <1>1
  <2>3. \A x \in A : Pow3[x] \in Nat
    BY <1>1, <2>1
  <2> QED
    BY <1>1, <2>1, <2>2, <2>3
<1>3. /\ IsFiniteSet(low) /\ IsFiniteSet(mid) /\ IsFiniteSet(high) /\ IsFiniteSet(low \cup mid)
      /\ low \cap mid = {} /\ (low \cup mid) \cap high = {}
      /\ A = (low \cup mid) \cup high
  <2> HIDE DEF P
  <2>1. IsFiniteSet(A)
    <3>1. IsFiniteSet(Offsets)
      BY <1>1, FS_Interval
    <3> QED
      BY <3>1, FS_Subset
  <2>2. A = (low \cup mid) \cup high
    <3>1. \A x \in A : x < off \/ x = off \/ x > off
      BY <1>1
    <3> QED
      BY <3>1
  <2>3. low \cap mid = {} /\ (low \cup mid) \cap high = {}
    <3>1. \A x \in A : ~(x < off /\ x = off) /\ ~(x < off /\ x > off) /\ ~(x = off /\ x > off)
      BY <1>1
    <3> QED
      BY <3>1
  <2>4. low \subseteq A /\ mid \subseteq A /\ high \subseteq A /\ low \cup mid \subseteq A
    OBVIOUS
  <2> QED
    BY <2>1, <2>2, <2>3, <2>4, FS_Subset
<1>4. Total(f, low) \in 0 .. P - 1
  <2>1. low \in SUBSET Offsets /\ off \in 0 .. WinLength /\ low \subseteq 0 .. off - 1
    <3>1. \A x \in A : x < off => x \in 0 .. off - 1
      BY <1>1
    <3>2. low \in SUBSET Offsets
      OBVIOUS
    <3>3. off \in 0 .. WinLength
      BY <1>1
    <3>4. low \subseteq 0 .. off - 1
      BY <3>1
    <3> QED
      BY <3>2, <3>3, <3>4
  <2>2. \A x \in low : f[x] = Pow3[x] \/ f[x] = 2 * Pow3[x]
    OBVIOUS
  <2> HIDE DEF low
  <2> QED
    BY <2>1, <2>2, DigitsBelow
<1>5. \E m \in Nat : Total(f, high) = m * Pow3[off + 1]
  <2>1. high \in SUBSET Offsets /\ off + 1 \in 0 .. WinLength /\ \A x \in high : x >= off + 1
    <3>1. \A x \in A : x > off => x >= off + 1
      BY <1>1
    <3>2. high \in SUBSET Offsets
      OBVIOUS
    <3>3. off + 1 \in 0 .. WinLength
      BY <1>1
    <3>4. \A x \in high : x >= off + 1
      BY <3>1
    <3> QED
      BY <3>2, <3>3, <3>4
  <2>2. \A x \in high : f[x] = Pow3[x] \/ f[x] = 2 * Pow3[x]
    OBVIOUS
  <2> HIDE DEF high
  <2> QED
    BY <2>1, <2>2, DigitsAbove
<1>6. Total(f, mid) = d * P
  <2>1. CASE off \in A
    <3>1. mid = {off} /\ off \in mid /\ mid \ {off} = {}
      BY <2>1
    <3>2. Total(f, mid) = f[off] + Total(f, {})
      <4>1. \A x \in mid : f[x] \in Int
        BY <1>2
      <4> HIDE DEF mid
      <4> QED
        BY <1>3, <3>1, <4>1, TotalAdds
    <3>3. Total(f, {}) = 0
      BY FS_EmptySet, TotalAdds
    <3>4. f[off] = d * P /\ f[off] \in Int
      BY <1>2, <2>1
    <3>5. \A x \in Int : x + 0 = x
      OBVIOUS
    <3> QED
      BY <3>2, <3>3, <3>4, <3>5, Zenon
  <2>2. CASE off \notin A
    <3>1. mid = {} /\ d = 0
      BY <2>2
    <3>2. Total(f, {}) = 0
      BY FS_EmptySet, TotalAdds
    <3>3. 0 * P = 0
      BY <1>2
    <3> QED
      BY <3>1, <3>2, <3>3, Zenon
  <2> HIDE DEF mid, low, high, P
  <2> QED
    BY <2>1, <2>2
<1>7. Total(f, A) = (Total(f, low) + Total(f, mid)) + Total(f, high)
  <2>1. Total(f, (low \cup mid) \cup high) = Total(f, low \cup mid) + Total(f, high)
    <3>1. \A x \in (low \cup mid) \cup high : f[x] \in Int
      BY <1>2
    <3> HIDE DEF low, mid, high
    <3> QED
      BY <1>3, <3>1, TotalOfTwo
  <2>2. Total(f, low \cup mid) = Total(f, low) + Total(f, mid)
    <3>1. \A x \in low \cup mid : f[x] \in Int
      BY <1>2
    <3> HIDE DEF low, mid, high
    <3> QED
      BY <1>3, <3>1, TotalOfTwo
  <2> QED
    BY <1>3, <2>1, <2>2
<1> HIDE DEF low, mid, high, P
<1>8. PICK m \in Nat : Total(f, high) = m * (3 * P)
  BY <1>2, <1>5
<1> DEFINE q == d + 3 * m
<1>9. q \in Nat /\ Total(f, A) = q * P + Total(f, low)
  <2>1. m * (3 * P) = (3 * m) * P /\ (d + 3 * m) * P = d * P + (3 * m) * P
    BY <1>2
  <2> QED
    BY <1>2, <1>4, <1>6, <1>7, <1>8, <2>1
<1>10. Total(f, low) \in Nat /\ Total(f, low) < P
  BY <1>2, <1>4
<1>11. Total(f, A) \div P = q
  <2> HIDE DEF q
  <2> QED
    BY <1>2, <1>9, <1>10, DivIs
<1>12. q % 3 = d
  OBVIOUS
<1> QED
  BY <1>11, <1>12 DEF P

-----------------------------------------------------------------------------
(* Windows. *)

(* A cell lies in a window at most once, and Steps says where.               *)
LEMMA CoversIs ==
    ASSUME NEW w \in GridWindows, NEW cell \in Cells
    PROVE  /\ \A off \in Offsets : CellAt(w, off) = cell => Steps(w, cell) = off
           /\ Covers(w, cell) <=> \E off \in Offsets : CellAt(w, off) = cell
           /\ Covers(w, cell) => Steps(w, cell) \in Offsets
<1>1. PICK q \in Int, r \in Int : cell = <<q, r>>
  BY DEF Cells
<1>2. PICK wq \in Int, wr \in Int, dir \in DOMAIN Directions : w = <<<<wq, wr>>, dir>>
  BY GridOK DEF GridWindows
<1> DEFINE d == Directions[dir]
<1>3. \/ d[1] = 1 /\ d[2] = 0
      \/ d[1] = 0 /\ d[2] = 1
      \/ d[1] = 1 /\ d[2] = -1
  BY DirectionsAre
<1>4. \A off : CellAt(w, off) = <<wq + off * d[1], wr + off * d[2]>>
  BY <1>2 DEF CellAt, Along
<1>5. Steps(w, cell) = Larger(Magnitude(q - wq), Magnitude(r - wr))
  BY <1>1, <1>2 DEF Steps
<1> HIDE DEF d
<1>6. Offsets \subseteq Nat /\ \A n \in Nat : n \in Offsets <=> n < WinLength
  BY WinLengthOK DEF Offsets
<1>7. ASSUME NEW off \in Offsets, CellAt(w, off) = cell
      PROVE  Steps(w, cell) = off
  <2>1. off \in Nat /\ q = wq + off * d[1] /\ r = wr + off * d[2]
    BY <1>1, <1>4, <1>6, <1>7
  <2>2. CASE d[1] = 1 /\ d[2] = 0
    <3>1. q - wq = off /\ r - wr = 0
      BY <2>1, <2>2
    <3> QED
      BY <1>5, <2>1, <3>1 DEF Larger, Magnitude
  <2>3. CASE d[1] = 0 /\ d[2] = 1
    <3>1. q - wq = 0 /\ r - wr = off
      BY <2>1, <2>3
    <3> QED
      BY <1>5, <2>1, <3>1 DEF Larger, Magnitude
  <2>4. CASE d[1] = 1 /\ d[2] = -1
    <3>1. q - wq = off /\ r - wr = -off
      BY <2>1, <2>4
    <3> QED
      BY <1>5, <2>1, <3>1 DEF Larger, Magnitude
  <2> QED
    BY <1>3, <2>2, <2>3, <2>4
<1>8. Steps(w, cell) \in Nat
  BY <1>5 DEF Larger, Magnitude
<1>9. Covers(w, cell) <=> Steps(w, cell) \in Offsets /\ CellAt(w, Steps(w, cell)) = cell
  BY <1>6, <1>8 DEF Covers
<1> QED
  BY <1>7, <1>9

(* The stones of a board: finitely many cells, each owned by a player.       *)
StonesOK(stones) ==
    /\ IsFiniteSet(DOMAIN stones)
    /\ stones \in [DOMAIN stones -> Players]
    /\ DOMAIN stones \subseteq Cells

(* One stone more and one stone less. *)
Added(stones, more, cell) ==
    /\ StonesOK(stones) /\ StonesOK(more)
    /\ cell \in Cells /\ cell \notin DOMAIN stones
    /\ DOMAIN more = DOMAIN stones \cup {cell}
    /\ \A c \in DOMAIN stones : more[c] = stones[c]

-----------------------------------------------------------------------------
(* The index of a window. *)

Taken(stones, w) == {off \in Offsets : CellAt(w, off) \in DOMAIN stones}
Digits(stones, w) ==
    [off \in Offsets |-> (stones[CellAt(w, off)] + 1) * Pow3[off]]

LEMMA DigitsAre ==
    ASSUME NEW stones, StonesOK(stones), NEW w
    PROVE  /\ IsFiniteSet(Taken(stones, w)) /\ Taken(stones, w) \in SUBSET Offsets
           /\ \A off \in Taken(stones, w) :
                 /\ \/ Digits(stones, w)[off] = Pow3[off]
                    \/ Digits(stones, w)[off] = 2 * Pow3[off]
                 /\ Digits(stones, w)[off] \in Int
<1>1. IsFiniteSet(Offsets)
  BY WinLengthOK, FS_Interval DEF Offsets
<1>2. IsFiniteSet(Taken(stones, w)) /\ Taken(stones, w) \in SUBSET Offsets
  BY <1>1, FS_Subset DEF Taken
<1>3. ASSUME NEW off \in Taken(stones, w)
      PROVE  /\ \/ Digits(stones, w)[off] = Pow3[off]
                \/ Digits(stones, w)[off] = 2 * Pow3[off]
             /\ Digits(stones, w)[off] \in Int
  <2>1. off \in Offsets /\ stones[CellAt(w, off)] \in Players
    BY DEF Taken, StonesOK
  <2>2. Digits(stones, w)[off] = (stones[CellAt(w, off)] + 1) * Pow3[off]
    BY <2>1 DEF Digits
  <2>3. Pow3[off] \in Nat
    BY <2>1, PowersAre, WinLengthOK DEF Offsets
  <2> QED
    BY <2>1, <2>2, <2>3 DEF Players
<1> QED
  BY <1>2, <1>3

LEMMA IndexIsTotal ==
    ASSUME NEW stones, StonesOK(stones), NEW w
    PROVE  IndexOf(stones, w) = Total(Digits(stones, w), Taken(stones, w))
<1> DEFINE S == Taken(stones, w)
           f == Digits(stones, w)
           it == CHOOSE it : it = [s \in SUBSET S |->
                   IF s = {} THEN 0
                   ELSE (stones[CellAt(w, CHOOSE x \in s : TRUE)] + 1)
                          * Pow3[CHOOSE x \in s : TRUE]
                        + it[s \ {CHOOSE x \in s : TRUE}]]
<1>1. IndexOf(stones, w) = it[S]
  BY Zenon DEF IndexOf, MapThenSumSet, MapThenFoldSet, Taken
<1>2. IsFiniteSet(S) /\ S \in SUBSET Offsets /\ \A x \in S : f[x] \in Int
  BY DigitsAre
<1>3. PICK G : Additive(G, f, S)
  BY <1>2, SumExists
<1> HIDE DEF S, f
<1>4. ASSUME NEW g
      PROVE  TakenOut(g, f, S) <=>
               g = [s \in SUBSET S |->
                      IF s = {} THEN 0
                      ELSE (stones[CellAt(w, CHOOSE x \in s : TRUE)] + 1)
                             * Pow3[CHOOSE x \in s : TRUE]
                           + g[s \ {CHOOSE x \in s : TRUE}]]
  <2> DEFINE a(s) == IF s = {} THEN 0
                     ELSE f[CHOOSE x \in s : TRUE] + g[s \ {CHOOSE x \in s : TRUE}]
             b(s) == IF s = {} THEN 0
                     ELSE (stones[CellAt(w, CHOOSE x \in s : TRUE)] + 1)
                            * Pow3[CHOOSE x \in s : TRUE]
                          + g[s \ {CHOOSE x \in s : TRUE}]
  <2>1. ASSUME NEW s \in SUBSET S
        PROVE  a(s) = b(s)
    <3>1. s # {} => (CHOOSE x \in s : TRUE) \in Offsets
      BY <1>2
    <3>2. \A off \in Offsets : f[off] = (stones[CellAt(w, off)] + 1) * Pow3[off]
      BY DEF f, Digits
    <3> QED
      BY <3>1, <3>2, Zenon
  <2> HIDE DEF a, b
  <2>2. [s \in SUBSET S |-> a(s)] = [s \in SUBSET S |-> b(s)]
    BY <2>1
  <2> QED
    BY <2>2, Zenon DEF TakenOut, a, b
<1>5. TakenOut(it, f, S)
  <2>1. TakenOut(G, f, S)
    BY <1>3, SumTakesOut
  <2>2. G = [s \in SUBSET S |->
                IF s = {} THEN 0
                ELSE (stones[CellAt(w, CHOOSE x \in s : TRUE)] + 1)
                       * Pow3[CHOOSE x \in s : TRUE]
                     + G[s \ {CHOOSE x \in s : TRUE}]]
    BY <1>4, <2>1
  <2>3. it = [s \in SUBSET S |->
                IF s = {} THEN 0
                ELSE (stones[CellAt(w, CHOOSE x \in s : TRUE)] + 1)
                       * Pow3[CHOOSE x \in s : TRUE]
                     + it[s \ {CHOOSE x \in s : TRUE}]]
    BY <2>2, Zenon
  <2> HIDE DEF it
  <2> QED
    BY <1>4, <2>3, Zenon
<1> HIDE DEF it
<1>6. it = G
  BY <1>2, <1>3, <1>5, TakenOutIsSum
<1> QED
  BY <1>1, <1>2, <1>3, <1>6, TotalIsSum DEF S, f

-----------------------------------------------------------------------------
LEMMA IndexIsPattern ==
    ASSUME NEW stones, StonesOK(stones), NEW w
    PROVE  IndexOf(stones, w) \in Patterns
  BY IndexIsTotal, DigitsAre, DigitsBound

(* The stone adds its digit to the windows it lies in, and to no other.      *)
LEMMA IndexWithStone ==
    ASSUME NEW few, NEW more, NEW cell, Added(few, more, cell), NEW w \in GridWindows
    PROVE  IndexOf(more, w) = IndexOf(few, w)
             + (IF Covers(w, cell) THEN (more[cell] + 1) * Pow3[Steps(w, cell)] ELSE 0)
<1> DEFINE A == Taken(few, w)
           B == Taken(more, w)
           f == Digits(few, w)
           g == Digits(more, w)
<1>1. StonesOK(few) /\ StonesOK(more) /\ cell \in Cells
  BY DEF Added
<1>2. IndexOf(few, w) = Total(f, A) /\ IndexOf(more, w) = Total(g, B)
  BY <1>1, IndexIsTotal
<1>3. IsFiniteSet(A) /\ A \in SUBSET Offsets /\ \A off \in A : f[off] \in Int
  BY <1>1, DigitsAre
<1>4. \A off \in B : g[off] \in Int
  BY <1>1, DigitsAre
<1>5. \A off \in A : f[off] = g[off]
  BY DEF Taken, Digits, Added
<1>6. Total(f, A) = Total(g, A) /\ Total(f, A) \in Int
  BY <1>3, <1>5, TotalSame, TotalAdds
<1>7. CASE ~Covers(w, cell)
  <2>1. B = A
    BY <1>1, <1>7, CoversIs DEF Taken, Added
  <2> QED
    BY <1>2, <1>6, <1>7, <2>1
<1>8. CASE Covers(w, cell)
  <2> DEFINE off == Steps(w, cell)
  <2>1. /\ off \in Offsets /\ CellAt(w, off) = cell
        /\ \A o \in Offsets : CellAt(w, o) = cell => o = off
    BY <1>1, <1>8, CoversIs DEF Covers
  <2>2. B = A \cup {off} /\ off \notin A
    BY <2>1 DEF Taken, Added
  <2>3. g[off] = (more[cell] + 1) * Pow3[off]
    BY <2>1 DEF Digits
  <2>4. \A y \in A \cup {off} : g[y] \in Int
    BY <1>4, <2>2
  <2> HIDE DEF A, B, f, g, off
  <2>5. Total(g, A \cup {off}) = Total(g, A) + g[off]
    BY <1>3, <2>2, <2>4, TotalGrows
  <2> QED
    BY <1>2, <1>6, <1>8, <2>2, <2>3, <2>5 DEF off
<1> QED
  BY <1>7, <1>8

-----------------------------------------------------------------------------
(* The score. *)

LEMMA GridIsFinite == IsFiniteSet(GridWindows)
<1>1. IsFiniteSet(-GridRadius .. GridRadius)
  BY GridOK, FS_Interval
<1>2. IsFiniteSet(DOMAIN Directions)
  <2>1. DOMAIN Directions = 1 .. 3
    BY DEF Directions
  <2>2. 1 \in Int /\ 3 \in Int
    OBVIOUS
  <2>3. IsFiniteSet(1 .. 3)
    BY <2>2, FS_Interval, Zenon
  <2> QED
    BY <2>1, <2>3
<1>3. IsFiniteSet((-GridRadius .. GridRadius) \X (-GridRadius .. GridRadius))
  BY <1>1, FS_Product
<1> QED
  BY <1>2, <1>3, FS_Product DEF GridWindows

Score(idx) == MapThenSumSet(LAMBDA w : PatternValue[idx[w]], GridWindows)

LEMMA ScoreIsTotal ==
    ASSUME NEW idx \in [GridWindows -> Patterns]
    PROVE  Score(idx) = Total([w \in GridWindows |-> PatternValue[idx[w]]], GridWindows)
<1> DEFINE S == GridWindows
           f == [w \in GridWindows |-> PatternValue[idx[w]]]
           it == CHOOSE it : it = [s \in SUBSET S |->
                    IF s = {} THEN 0
                    ELSE PatternValue[idx[CHOOSE x \in s : TRUE]]
                         + it[s \ {CHOOSE x \in s : TRUE}]]
<1>1. Score(idx) = it[S]
  BY Zenon DEF Score, MapThenSumSet, MapThenFoldSet
<1>2. IsFiniteSet(S) /\ \A x \in S : f[x] \in Int
  BY GridIsFinite, GridOK
<1>3. PICK G : Additive(G, f, S)
  BY <1>2, SumExists
<1>4. \A x \in S : f[x] = PatternValue[idx[x]]
  OBVIOUS
<1> HIDE DEF S, f
<1>5. ASSUME NEW g
      PROVE  TakenOut(g, f, S) <=> g = [s \in SUBSET S |->
                  IF s = {} THEN 0
                  ELSE PatternValue[idx[CHOOSE x \in s : TRUE]]
                       + g[s \ {CHOOSE x \in s : TRUE}]]
  <2> DEFINE a(s) == IF s = {} THEN 0
                     ELSE f[CHOOSE x \in s : TRUE] + g[s \ {CHOOSE x \in s : TRUE}]
             b(s) == IF s = {} THEN 0
                     ELSE PatternValue[idx[CHOOSE x \in s : TRUE]]
                          + g[s \ {CHOOSE x \in s : TRUE}]
  <2>1. ASSUME NEW s \in SUBSET S
        PROVE  a(s) = b(s)
    <3>1. s # {} => (CHOOSE x \in s : TRUE) \in S
      OBVIOUS
    <3> QED
      BY <1>4, <3>1, Zenon
  <2> HIDE DEF a, b
  <2>2. [s \in SUBSET S |-> a(s)] = [s \in SUBSET S |-> b(s)]
    BY <2>1
  <2> QED
    BY <2>2, Zenon DEF TakenOut, a, b
<1>6. TakenOut(it, f, S)
  <2>1. TakenOut(G, f, S)
    BY <1>3, SumTakesOut
  <2>2. G = [s \in SUBSET S |->
               IF s = {} THEN 0
               ELSE PatternValue[idx[CHOOSE x \in s : TRUE]]
                    + G[s \ {CHOOSE x \in s : TRUE}]]
    BY <1>5, <2>1
  <2>3. it = [s \in SUBSET S |->
                IF s = {} THEN 0
                ELSE PatternValue[idx[CHOOSE x \in s : TRUE]]
                     + it[s \ {CHOOSE x \in s : TRUE}]]
    BY <2>2, Zenon
  <2> HIDE DEF it
  <2> QED
    BY <1>5, <2>3, Zenon
<1> HIDE DEF it
<1>7. it = G
  BY <1>2, <1>3, <1>6, TakenOutIsSum
<1> QED
  BY <1>1, <1>2, <1>3, <1>7, TotalIsSum DEF S, f

LEMMA ScoreChangeIsTotal ==
    ASSUME NEW old \in [GridWindows -> Patterns], NEW new \in [GridWindows -> Patterns],
           NEW touched \in SUBSET GridWindows
    PROVE  ScoreChange(old, new, touched) = Total([w \in touched |-> PatternValue[new[w]] - PatternValue[old[w]]], touched)
<1> DEFINE S == touched
           f == [w \in touched |-> PatternValue[new[w]] - PatternValue[old[w]]]
           it == CHOOSE it : it = [s \in SUBSET S |->
                    IF s = {} THEN 0
                    ELSE (PatternValue[new[CHOOSE x \in s : TRUE]] - PatternValue[old[CHOOSE x \in s : TRUE]])
                         + it[s \ {CHOOSE x \in s : TRUE}]]
<1>1. ScoreChange(old, new, touched) = it[S]
  BY Zenon DEF ScoreChange, MapThenSumSet, MapThenFoldSet
<1>2. IsFiniteSet(S) /\ \A x \in S : f[x] \in Int
  BY GridIsFinite, GridOK, FS_Subset
<1>3. PICK G : Additive(G, f, S)
  BY <1>2, SumExists
<1>4. \A x \in S : f[x] = (PatternValue[new[x]] - PatternValue[old[x]])
  OBVIOUS
<1> HIDE DEF S, f
<1>5. ASSUME NEW g
      PROVE  TakenOut(g, f, S) <=> g = [s \in SUBSET S |->
                  IF s = {} THEN 0
                  ELSE (PatternValue[new[CHOOSE x \in s : TRUE]] - PatternValue[old[CHOOSE x \in s : TRUE]])
                       + g[s \ {CHOOSE x \in s : TRUE}]]
  <2> DEFINE a(s) == IF s = {} THEN 0
                     ELSE f[CHOOSE x \in s : TRUE] + g[s \ {CHOOSE x \in s : TRUE}]
             b(s) == IF s = {} THEN 0
                     ELSE (PatternValue[new[CHOOSE x \in s : TRUE]] - PatternValue[old[CHOOSE x \in s : TRUE]])
                          + g[s \ {CHOOSE x \in s : TRUE}]
  <2>1. ASSUME NEW s \in SUBSET S
        PROVE  a(s) = b(s)
    <3>1. s # {} => (CHOOSE x \in s : TRUE) \in S
      OBVIOUS
    <3> QED
      BY <1>4, <3>1, Zenon
  <2> HIDE DEF a, b
  <2>2. [s \in SUBSET S |-> a(s)] = [s \in SUBSET S |-> b(s)]
    BY <2>1
  <2> QED
    BY <2>2, Zenon DEF TakenOut, a, b
<1>6. TakenOut(it, f, S)
  <2>1. TakenOut(G, f, S)
    BY <1>3, SumTakesOut
  <2>2. G = [s \in SUBSET S |->
               IF s = {} THEN 0
               ELSE (PatternValue[new[CHOOSE x \in s : TRUE]] - PatternValue[old[CHOOSE x \in s : TRUE]])
                    + G[s \ {CHOOSE x \in s : TRUE}]]
    BY <1>5, <2>1
  <2>3. it = [s \in SUBSET S |->
                IF s = {} THEN 0
                ELSE (PatternValue[new[CHOOSE x \in s : TRUE]] - PatternValue[old[CHOOSE x \in s : TRUE]])
                     + it[s \ {CHOOSE x \in s : TRUE}]]
    BY <2>2, Zenon
  <2> HIDE DEF it
  <2> QED
    BY <1>5, <2>3, Zenon
<1> HIDE DEF it
<1>7. it = G
  BY <1>2, <1>3, <1>6, TakenOutIsSum
<1> QED
  BY <1>1, <1>2, <1>3, <1>7, TotalIsSum DEF S, f

(* place adds to the score what the touched windows change.                  *)
LEMMA ScoreFollows ==
    ASSUME NEW old \in [GridWindows -> Patterns], NEW new \in [GridWindows -> Patterns],
           NEW touched \in SUBSET GridWindows,
           \A w \in GridWindows \ touched : new[w] = old[w]
    PROVE  /\ Score(new) = Score(old) + ScoreChange(old, new, touched)
           /\ Score(old) \in Int
           /\ ScoreChange(old, new, touched) \in Int
<1> DEFINE f == [w \in GridWindows |-> PatternValue[old[w]]]
           g == [w \in GridWindows |-> PatternValue[new[w]]]
           d == [w \in touched |-> PatternValue[new[w]] - PatternValue[old[w]]]
<1>1. Score(old) = Total(f, GridWindows) /\ Score(new) = Total(g, GridWindows)
  BY ScoreIsTotal
<1>2. ScoreChange(old, new, touched) = Total(d, touched)
  BY ScoreChangeIsTotal
<1>3. /\ \A w \in GridWindows : f[w] \in Int /\ g[w] \in Int
      /\ \A w \in GridWindows \ touched : g[w] = f[w]
      /\ \A w \in touched : d[w] = g[w] - f[w] /\ d[w] \in Int
  BY GridOK
<1>4. IsFiniteSet(GridWindows) /\ IsFiniteSet(touched)
  BY GridIsFinite, FS_Subset
<1> HIDE DEF f, g, d
<1>5. Total(g, GridWindows) = Total(f, GridWindows) + Total(d, touched)
  BY <1>3, <1>4, TotalChanges
<1>6. Total(f, GridWindows) \in Int /\ Total(d, touched) \in Int
  BY <1>3, <1>4, TotalAdds
<1> QED
  BY <1>1, <1>2, <1>5, <1>6

-----------------------------------------------------------------------------
(* The evaluation of the stones on a board, counted from scratch, with the   *)
(* stack of the changes that led there.                                      *)
Idx(stones) == [w \in GridWindows |-> IndexOf(stones, w)]
CountIn(idx, p, t) == Cardinality({w \in GridWindows : ThreatOf[idx[w]][p] = t})

EvalOf(stones, deltas) ==
    [indices |-> Idx(stones),
     score   |-> Score(Idx(stones)),
     counts  |-> [p \in Players |-> [t \in Threats |-> CountIn(Idx(stones), p, t)]],
     hot     |-> [p \in Players |-> {w \in GridWindows : IsHot(Idx(stones)[w], p)}],
     deltas  |-> deltas]

DeltaOf(few, more, cell) ==
    [cell   |-> cell,
     val    |-> more[cell] + 1,
     score  |-> Score(Idx(more)) - Score(Idx(few)),
     counts |-> [p \in Players |-> [t \in Threats |->
                    CountIn(Idx(more), p, t) - CountIn(Idx(few), p, t)]]]

LEMMA CountFollows ==
    ASSUME NEW old, NEW new, NEW touched \in SUBSET GridWindows, NEW p, NEW t \in Threats,
           \A w \in GridWindows \ touched : new[w] = old[w]
    PROVE  /\ CountIn(new, p, t) \in Int /\ CountIn(old, p, t) \in Int
           /\ CountChange(old, new, touched, p)[t] = CountIn(new, p, t) - CountIn(old, p, t)
<1> DEFINE A == {w \in GridWindows : ThreatOf[new[w]][p] = t}
           B == {w \in GridWindows : ThreatOf[old[w]][p] = t}
           At == {w \in touched : ThreatOf[new[w]][p] = t}
           Bt == {w \in touched : ThreatOf[old[w]][p] = t}
<1>1. CountChange(old, new, touched, p)[t] = Cardinality(At) - Cardinality(Bt)
  BY DEF CountChange
<1>2. /\ At = A \cap touched /\ Bt = B \cap touched
      /\ A \ touched = B \ touched
  OBVIOUS
<1>3. IsFiniteSet(A) /\ IsFiniteSet(B)
  BY GridIsFinite, FS_Subset
<1> HIDE DEF A, B, At, Bt
<1>4. /\ Cardinality(A \ touched) = Cardinality(A) - Cardinality(A \cap touched)
      /\ Cardinality(B \ touched) = Cardinality(B) - Cardinality(B \cap touched)
  BY <1>3, FS_Difference
<1>5. /\ IsFiniteSet(A \cap touched) /\ IsFiniteSet(B \cap touched)
  BY <1>3, FS_Subset
<1>6. PICK a \in Nat, b \in Nat, m \in Nat, n \in Nat :
        /\ a = Cardinality(A) /\ b = Cardinality(B)
        /\ m = Cardinality(At) /\ n = Cardinality(Bt)
  BY <1>2, <1>3, <1>5, FS_CardinalityType
<1>7. a - m = b - n
  BY <1>2, <1>4, <1>6, Zenon
<1>8. m - n = a - b
  BY <1>7
<1>9. CountIn(new, p, t) = a /\ CountIn(old, p, t) = b
  BY <1>6 DEF CountIn, A, B
<1> QED
  BY <1>1, <1>6, <1>8, <1>9

(* update_hot turns the hot windows of the old indices into those of the new.*)
LEMMA HotFollows ==
    ASSUME NEW old, NEW new, NEW touched \in SUBSET GridWindows,
           \A w \in GridWindows \ touched : new[w] = old[w]
    PROVE  HotAfter([p \in Players |-> {w \in GridWindows : IsHot(old[w], p)}],
                    old, new, touched)
             = [p \in Players |-> {w \in GridWindows : IsHot(new[w], p)}]
<1> DEFINE hot == [p \in Players |-> {w \in GridWindows : IsHot(old[w], p)}]
<1>1. ASSUME NEW p \in Players
      PROVE  (hot[p] \ {w \in touched : IsHot(old[w], p) /\ ~IsHot(new[w], p)})
                \cup {w \in touched : ~IsHot(old[w], p) /\ IsHot(new[w], p)}
              = {w \in GridWindows : IsHot(new[w], p)}
  <2>1. hot[p] = {w \in GridWindows : IsHot(old[w], p)}
    OBVIOUS
  <2> HIDE DEF hot
  <2> QED
    BY <2>1
<1> HIDE DEF hot
<1>2. HotAfter(hot, old, new, touched) = [p \in Players |-> {w \in GridWindows : IsHot(new[w], p)}]
  BY <1>1 DEF HotAfter
<1> QED
  BY <1>2 DEF hot

LEMMA IndicesFollow ==
    ASSUME NEW few, NEW more, NEW cell, Added(few, more, cell)
    PROVE  /\ Idx(few) \in [GridWindows -> Patterns]
           /\ Idx(more) \in [GridWindows -> Patterns]
           /\ Touched(cell) \in SUBSET GridWindows
           /\ \A w \in GridWindows \ Touched(cell) : Idx(more)[w] = Idx(few)[w]
           /\ WithStone(Idx(few), cell, more[cell] + 1) = Idx(more)
           /\ WithStone(Idx(more), cell, -(more[cell] + 1)) = Idx(few)
<1>1. \A w \in GridWindows : IndexOf(few, w) \in Patterns /\ IndexOf(more, w) \in Patterns
  BY IndexIsPattern DEF Added
<1>2. Patterns \subseteq Int
  BY DEF Patterns
<1>3. Idx(few) \in [GridWindows -> Patterns] /\ Idx(more) \in [GridWindows -> Patterns]
  BY <1>1 DEF Idx
<1>4. more[cell] \in Players
  BY DEF Added, StonesOK
<1>5. ASSUME NEW w \in GridWindows
      PROVE  /\ Idx(few)[w] + (IF Covers(w, cell) THEN (more[cell] + 1) * Pow3[Steps(w, cell)] ELSE 0)
                  = Idx(more)[w]
             /\ Idx(more)[w] + (IF Covers(w, cell) THEN (-(more[cell] + 1)) * Pow3[Steps(w, cell)] ELSE 0)
                  = Idx(few)[w]
             /\ ~Covers(w, cell) => Idx(more)[w] = Idx(few)[w]
  <2>1. PICK a \in Int, b \in Int : a = Idx(few)[w] /\ b = Idx(more)[w]
    BY <1>2, <1>3
  <2>2. b = a + (IF Covers(w, cell) THEN (more[cell] + 1) * Pow3[Steps(w, cell)] ELSE 0)
    BY <2>1, IndexWithStone DEF Idx
  <2>3. CASE Covers(w, cell)
    <3>1. Pow3[Steps(w, cell)] \in Int
      <4>1. Steps(w, cell) \in Offsets
        BY <2>3, CoversIs DEF Added
      <4>2. Steps(w, cell) \in 0 .. WinLength
        BY <4>1, WinLengthOK DEF Offsets
      <4> QED
        BY <4>2, PowersAre
    <3>2. PICK m \in Int : m = Pow3[Steps(w, cell)]
      BY <3>1
    <3>3. b = a + (more[cell] + 1) * m
      BY <2>2, <2>3, <3>2
    <3>4. b + (-(more[cell] + 1)) * m = a
      BY <1>4, <3>3 DEF Players
    <3> QED
      BY <2>1, <2>3, <3>2, <3>3, <3>4
  <2>4. CASE ~Covers(w, cell)
    BY <2>1, <2>2, <2>4
  <2> QED
    BY <2>3, <2>4
<1>6. \A w \in GridWindows \ Touched(cell) : Idx(more)[w] = Idx(few)[w]
  BY <1>5 DEF Touched
<1>7. WithStone(Idx(few), cell, more[cell] + 1) = Idx(more)
  <2>1. Idx(more) = [w \in GridWindows |-> Idx(more)[w]]
    BY <1>3
  <2> QED
    BY <1>5, <2>1 DEF WithStone
<1>8. WithStone(Idx(more), cell, -(more[cell] + 1)) = Idx(few)
  <2>1. Idx(few) = [w \in GridWindows |-> Idx(few)[w]]
    BY <1>3
  <2> QED
    BY <1>5, <2>1 DEF WithStone
<1>9. Touched(cell) \in SUBSET GridWindows
  BY DEF Touched
<1> QED
  BY <1>3, <1>6, <1>7, <1>8, <1>9

-----------------------------------------------------------------------------
(* A stone that is placed turns the evaluation of the stones before it into  *)
(* that of all stones, and records the difference.                           *)
LEMMA EvalAfterPlace ==
    ASSUME NEW few, NEW more, NEW cell, Added(few, more, cell), NEW ds
    PROVE  EvalPlace(EvalOf(few, ds), cell, more[cell])
             = EvalOf(more, Append(ds, DeltaOf(few, more, cell)))
<1> DEFINE e == EvalOf(few, ds)
           old == Idx(few)
           new == WithStone(e.indices, cell, more[cell] + 1)
           touched == Touched(cell)
           delta == [cell   |-> cell,
                     val    |-> more[cell] + 1,
                     score  |-> ScoreChange(e.indices, new, touched),
                     counts |-> [p \in Players |->
                                    CountChange(e.indices, new, touched, p)]]
<1>1. /\ e.indices = old /\ e.score = Score(old) /\ e.deltas = ds
      /\ e.counts = [p \in Players |-> [t \in Threats |-> CountIn(old, p, t)]]
      /\ e.hot = [p \in Players |-> {w \in GridWindows : IsHot(old[w], p)}]
  BY DEF EvalOf
<1>2. EvalPlace(e, cell, more[cell])
        = [indices |-> new,
           score   |-> e.score + delta.score,
           counts  |-> [p \in Players |->
                         [t \in Threats |-> e.counts[p][t] + delta.counts[p][t]]],
           hot     |-> HotAfter(e.hot, e.indices, new, touched),
           deltas  |-> Append(e.deltas, delta)]
  BY Zenon DEF EvalPlace
<1> HIDE DEF e
<1>3. /\ old \in [GridWindows -> Patterns] /\ Idx(more) \in [GridWindows -> Patterns]
      /\ touched \in SUBSET GridWindows
      /\ \A w \in GridWindows \ touched : Idx(more)[w] = old[w]
      /\ new = Idx(more)
  BY <1>1, IndicesFollow
<1> HIDE DEF old, new, touched
<1>4. /\ Score(new) = Score(old) + ScoreChange(old, new, touched)
      /\ Score(old) \in Int
      /\ ScoreChange(old, new, touched) \in Int
  BY <1>3, ScoreFollows
<1>5. ASSUME NEW p \in Players, NEW t \in Threats
      PROVE  /\ CountIn(new, p, t) \in Int /\ CountIn(old, p, t) \in Int
             /\ CountChange(old, new, touched, p)[t] = CountIn(new, p, t) - CountIn(old, p, t)
  BY <1>3, CountFollows
<1>6. HotAfter(e.hot, e.indices, new, touched)
        = [p \in Players |-> {w \in GridWindows : IsHot(new[w], p)}]
  BY <1>1, <1>3, HotFollows
<1>7. delta = DeltaOf(few, more, cell)
  <2>1. ScoreChange(e.indices, new, touched) = Score(new) - Score(old)
    BY <1>1, <1>4
  <2>2. ASSUME NEW p \in Players
        PROVE  CountChange(e.indices, new, touched, p)
                 = [t \in Threats |-> CountIn(new, p, t) - CountIn(old, p, t)]
    <3>1. CountChange(e.indices, new, touched, p)
            = [t \in Threats |-> CountChange(e.indices, new, touched, p)[t]]
      BY DEF CountChange
    <3> QED
      BY <1>1, <1>5, <3>1
  <2> QED
    BY <1>3, <2>1, <2>2 DEF DeltaOf, old
<1>8. delta.score = Score(new) - Score(old)
  BY <1>1, <1>4
<1>9. e.score + delta.score = Score(new)
  BY <1>1, <1>4, <1>8
<1>10. ASSUME NEW p \in Players, NEW t \in Threats
       PROVE  e.counts[p][t] + delta.counts[p][t] = CountIn(new, p, t)
  <2>1. e.counts[p][t] = CountIn(old, p, t)
    BY <1>1
  <2>2. delta.counts[p][t] = CountIn(new, p, t) - CountIn(old, p, t)
    BY <1>1, <1>5
  <2> QED
    BY <1>5, <2>1, <2>2
<1> HIDE DEF delta
<1>11. [p \in Players |-> [t \in Threats |-> e.counts[p][t] + delta.counts[p][t]]]
         = [p \in Players |-> [t \in Threats |-> CountIn(new, p, t)]]
  BY <1>10
<1>12. EvalPlace(e, cell, more[cell])
         = [indices |-> new,
            score   |-> Score(new),
            counts  |-> [p \in Players |-> [t \in Threats |-> CountIn(new, p, t)]],
            hot     |-> [p \in Players |-> {w \in GridWindows : IsHot(new[w], p)}],
            deltas  |-> Append(ds, delta)]
  BY <1>1, <1>2, <1>6, <1>9, <1>11
<1> QED
  BY <1>3, <1>7, <1>12 DEF EvalOf, e

(* Taking the last difference back returns to the evaluation without the     *)
(* stone.                                                                    *)
LEMMA EvalAfterUnplace ==
    ASSUME NEW few, NEW more, NEW cell, Added(few, more, cell), NEW ds,
           ds[Len(ds)] = DeltaOf(few, more, cell)
    PROVE  EvalUnplace(EvalOf(more, ds)) = EvalOf(few, SubSeq(ds, 1, Len(ds) - 1))
<1> DEFINE e == EvalOf(more, ds)
           now == Idx(more)
           delta == e.deltas[Len(e.deltas)]
           old == WithStone(e.indices, delta.cell, -delta.val)
           touched == Touched(cell)
<1>1. /\ e.indices = now /\ e.score = Score(now) /\ e.deltas = ds
      /\ e.counts = [p \in Players |-> [t \in Threats |-> CountIn(now, p, t)]]
      /\ e.hot = [p \in Players |-> {w \in GridWindows : IsHot(now[w], p)}]
  BY DEF EvalOf
<1>2. EvalUnplace(e)
        = [indices |-> old,
           score   |-> e.score - delta.score,
           counts  |-> [p \in Players |->
                         [t \in Threats |-> e.counts[p][t] - delta.counts[p][t]]],
           hot     |-> HotAfter(e.hot, e.indices, old, Touched(delta.cell)),
           deltas  |-> SubSeq(e.deltas, 1, Len(e.deltas) - 1)]
  BY Zenon DEF EvalUnplace
<1> HIDE DEF e
<1>3. delta = DeltaOf(few, more, cell)
  BY <1>1
<1>4. /\ delta.cell = cell /\ delta.val = more[cell] + 1
      /\ delta.score = Score(now) - Score(Idx(few))
      /\ \A p \in Players, t \in Threats :
            delta.counts[p][t] = CountIn(now, p, t) - CountIn(Idx(few), p, t)
  BY <1>3 DEF DeltaOf
<1> HIDE DEF delta
<1>5. /\ now \in [GridWindows -> Patterns] /\ Idx(few) \in [GridWindows -> Patterns]
      /\ touched \in SUBSET GridWindows
      /\ \A w \in GridWindows \ touched : Idx(few)[w] = now[w]
      /\ old = Idx(few)
  BY <1>1, <1>4, IndicesFollow
<1> HIDE DEF now, old, touched
<1>6. Score(now) \in Int /\ Score(old) \in Int
  BY <1>5, ScoreFollows
<1>7. ASSUME NEW p \in Players, NEW t \in Threats
      PROVE  CountIn(now, p, t) \in Int /\ CountIn(old, p, t) \in Int
  BY <1>5, CountFollows
<1>8. HotAfter(e.hot, e.indices, old, Touched(delta.cell))
        = [p \in Players |-> {w \in GridWindows : IsHot(old[w], p)}]
  BY <1>1, <1>4, <1>5, HotFollows DEF touched
<1>9. e.score - delta.score = Score(old)
  BY <1>1, <1>4, <1>5, <1>6
<1>10. ASSUME NEW p \in Players, NEW t \in Threats
       PROVE  e.counts[p][t] - delta.counts[p][t] = CountIn(old, p, t)
  <2>1. e.counts[p][t] = CountIn(now, p, t)
    BY <1>1
  <2>2. delta.counts[p][t] = CountIn(now, p, t) - CountIn(old, p, t)
    BY <1>4, <1>5
  <2> QED
    BY <1>7, <2>1, <2>2
<1>11. [p \in Players |-> [t \in Threats |-> e.counts[p][t] - delta.counts[p][t]]]
         = [p \in Players |-> [t \in Threats |-> CountIn(old, p, t)]]
  BY <1>10
<1>12. EvalUnplace(e)
         = [indices |-> old,
            score   |-> Score(old),
            counts  |-> [p \in Players |-> [t \in Threats |-> CountIn(old, p, t)]],
            hot     |-> [p \in Players |-> {w \in GridWindows : IsHot(old[w], p)}],
            deltas  |-> SubSeq(ds, 1, Len(ds) - 1)]
  BY <1>1, <1>2, <1>8, <1>9, <1>11
<1> QED
  BY <1>5, <1>12 DEF EvalOf, e

-----------------------------------------------------------------------------
(* A board without stones. *)

LEMMA TotalOfZeros ==
    ASSUME NEW S, IsFiniteSet(S), NEW f, \A x \in S : f[x] = 0
    PROVE  Total(f, S) = 0
<1> DEFINE G == [T \in SUBSET S |-> 0]
<1>1. Additive(G, f, S)
  BY DEF Additive
<1> HIDE DEF G
<1> QED
  BY <1>1, TotalIsSum DEF G

LEMMA ZeroIsPattern == 0 \in Patterns
<1>1. PICK n \in Nat \ {0} : n = Pow3[WinLength]
  <2>1. WinLength \in 0 .. WinLength
    BY WinLengthOK
  <2> QED
    BY <2>1, PowersAre
<1>2. 0 \in 0 .. n - 1
  OBVIOUS
<1> QED
  BY <1>1, <1>2 DEF Patterns

LEMMA NoThreats == \A p \in Players : ThreatOf[0][p] = "none"
<1> SUFFICES ASSUME NEW p \in Players PROVE ThreatOf[0][p] = "none"
  OBVIOUS
<1>1. 0 \in Patterns
  BY ZeroIsPattern
<1>2. ASSUME NEW x \in Players
      PROVE  PatternCounts[0][x] = 0
  <2>1. {off \in Offsets : (0 \div Pow3[off]) % 3 = x + 1} = {}
    <3> SUFFICES ASSUME NEW off \in Offsets PROVE (0 \div Pow3[off]) % 3 # x + 1
      OBVIOUS
    <3>1. PICK n \in Nat \ {0} : n = Pow3[off]
      BY PowersAre, WinLengthOK DEF Offsets
    <3>2. 0 \div n = 0
      OBVIOUS
    <3> QED
      BY <3>1, <3>2 DEF Players
  <2> QED
    BY <1>1, <2>1, FS_EmptySet DEF PatternCounts
<1>3. PatternCounts[0][p] = 0 /\ PatternCounts[0][1 - p] = 0
  BY <1>2 DEF Players
<1> QED
  BY <1>1, <1>3, WinLengthOK DEF ThreatOf

LEMMA EmptyIsEvaluated ==
    ASSUME NEW stones, StonesOK(stones), DOMAIN stones = {}
    PROVE  EmptyEval = EvalOf(stones, <<>>)
<1>1. ASSUME NEW w \in GridWindows
      PROVE  IndexOf(stones, w) = 0
  <2>1. Taken(stones, w) = {}
    BY DEF Taken
  <2> QED
    BY <2>1, IndexIsTotal, TotalOfZeros, FS_EmptySet
<1> DEFINE zero == [w \in GridWindows |-> 0]
<1>2. Idx(stones) = zero
  BY <1>1 DEF Idx
<1>3. zero \in [GridWindows -> Patterns]
  BY ZeroIsPattern
<1>4. Score(zero) = 0
  <2> DEFINE f == [w \in GridWindows |-> PatternValue[zero[w]]]
  <2>1. Score(zero) = Total(f, GridWindows)
    BY <1>3, ScoreIsTotal
  <2>2. \A w \in GridWindows : f[w] = 0
    BY GridOK
  <2> HIDE DEF f
  <2> QED
    BY <2>1, <2>2, TotalOfZeros, GridIsFinite
<1>5. \A w \in GridWindows : zero[w] = 0
  OBVIOUS
<1>6. ASSUME NEW p \in Players
      PROVE  /\ {w \in GridWindows : IsHot(zero[w], p)} = {}
             /\ \A t \in Threats : CountIn(zero, p, t) = 0
  <2>1. ThreatOf[0][p] = "none"
    BY NoThreats
  <2>2. \A t \in Threats : {w \in GridWindows : ThreatOf[zero[w]][p] = t} = {}
    BY <1>5, <2>1 DEF Threats
  <2> QED
    BY <1>5, <2>1, <2>2, FS_EmptySet DEF IsHot, CountIn
<1> HIDE DEF zero
<1> QED
  BY <1>2, <1>4, <1>6 DEF EvalOf, EmptyEval, zero
=============================================================================
