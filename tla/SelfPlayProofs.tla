-------------------------- MODULE SelfPlayProofs ---------------------------
(* What holds of the search and of a self-played game for any cells, roots,  *)
(* budgets and lengths of games: answers reach the leaves they were asked    *)
(* for, statistics are those of the simulations made, no visit is lost, and  *)
(* a game comes to its end; that the entries of a restart buffer keep their  *)
(* places, for any capacity, positions, scores, games and offers; and that   *)
(* checkpoints are judged by the arena's games, whatever the players answer. *)
EXTENDS SelfPlayGame, MctsCaller, RegretRestarts, ArenaMatch, FiniteSetTheorems,
        SequenceTheorems, WellFoundedInduction, TLAPS

-----------------------------------------------------------------------------
(* The tokens of the search engine. *)

IsSeq(h) == h \in Seq({h[i] : i \in 1 .. Len(h)})

LEMMA AppendToSeq ==
    ASSUME NEW h, IsSeq(h), NEW x
    PROVE  LET longer == Append(h, x)
           IN  /\ IsSeq(longer)
               /\ Len(h) \in Nat
               /\ Len(longer) = Len(h) + 1
               /\ \A i \in 1 .. Len(h) : longer[i] = h[i]
               /\ longer[Len(h) + 1] = x
<1> DEFINE longer == Append(h, x)
           S == {h[i] : i \in 1 .. Len(h)} \cup {x}
           T == {longer[i] : i \in 1 .. Len(longer)}
<1>1. h \in Seq(S) /\ x \in S
  BY DEF IsSeq
<1>2. longer \in Seq(S) /\ Len(h) \in Nat /\ Len(longer) = Len(h) + 1
  BY <1>1
<1>3. longer \in Seq(T)
  BY <1>2
<1>4. (\A i \in 1 .. Len(h) : longer[i] = h[i]) /\ longer[Len(h) + 1] = x
  BY <1>1
<1> QED
  BY <1>2, <1>3, <1>4 DEF IsSeq

(* Batches are numbered, each number stands for the leaves it was given out  *)
(* for, and the number that is pending is the newest one, for the leaves     *)
(* that are pending.                                                         *)
TokenInv ==
    /\ batchGen \in Nat
    /\ IsSeq(issued)
    /\ Len(issued) = batchGen
    /\ pendingGen # 0 => pendingGen = batchGen /\ issued[pendingGen] = pending
    /\ misapplied = FALSE

tokenVars == <<batchGen, issued, pendingGen, pending, misapplied>>

LEMMA TokensUnchanged == TokenInv /\ UNCHANGED tokenVars => TokenInv'
BY DEF TokenInv, tokenVars

LEMMA NoTokens ==
    ASSUME batchGen' = 0, issued' = <<>>, pendingGen' = 0, misapplied' = FALSE
    PROVE  TokenInv'
BY DEF TokenInv, IsSeq

LEMMA TokensStart == EngineInit => TokenInv
BY DEF EngineInit, TokenInv, IsSeq

LEMMA FreshEngineTokens ==
    ASSUME TokenInv, NEW pos, FreshEngine(pos)
    PROVE  TokenInv'
BY NoTokens DEF FreshEngine, TokenInv

(* What the calls do to the tokens. *)
LEMMA SelectTokens ==
    ASSUME TokenInv, NEW leaves, SelectLeaves(leaves)
    PROVE  TokenInv'
<1>1. /\ pending' = leaves /\ batchGen' = batchGen + 1
      /\ issued' = Append(issued, leaves) /\ misapplied' = misapplied
      /\ pendingGen' = IF leaves = <<>> THEN 0 ELSE batchGen + 1
  BY DEF SelectLeaves
<1>2. /\ IsSeq(issued') /\ Len(issued') = batchGen + 1
      /\ issued'[batchGen + 1] = leaves
  BY <1>1, AppendToSeq DEF TokenInv
<1> QED
  BY <1>1, <1>2 DEF TokenInv

LEMMA BackpropTokens ==
    ASSUME TokenInv, NEW token, NEW value, ExpandAndBackprop(token, value)
    PROVE  TokenInv'
<1>1. issued[token] = pending
  BY DEF ExpandAndBackprop, BatchTokenValid, TokenInv
<1>2. /\ misapplied' = (misapplied \/ issued[token] # pending)
      /\ pendingGen' = 0
      /\ batchGen' = batchGen /\ issued' = issued
  BY DEF ExpandAndBackprop
<1>3. misapplied' = FALSE
  <2>1. misapplied = FALSE
    BY DEF TokenInv
  <2> QED
    BY <1>1, <1>2, <2>1, Zenon
<1> QED
  BY <1>2, <1>3 DEF TokenInv

LEMMA ReRootTokens ==
    ASSUME TokenInv, ReRootMissing \/ \E kid \in arena[root].kids : ReRoot(kid)
    PROVE  TokenInv'
<1>1. pendingGen' = 0 /\ batchGen' = batchGen /\ issued' = issued /\ misapplied' = misapplied
  BY DEF ReRoot, ReRootMissing
<1> QED
  BY <1>1 DEF TokenInv

LEMMA RootTokens ==
    ASSUME TokenInv, InitRoot \/ \E token : ExpandRoot(token)
    PROVE  TokenInv'
<1>1. UNCHANGED tokenVars
  BY DEF InitRoot, ExpandRoot, tokenVars
<1> QED
  BY <1>1, TokensUnchanged

(* A network answer is never applied to other leaves than those it was asked *)
(* for, whatever calls are made and whatever tokens are presented, for any   *)
(* game, budget and batch size.                                              *)
THEOREM StaleAnswersFailHolds == CallerSpec => []StaleAnswersFail
<1>1. TokenInv /\ [CallerNext]_engineVars => TokenInv'
  <2> SUFFICES ASSUME TokenInv, [CallerNext]_engineVars PROVE TokenInv'
    OBVIOUS
  <2>1. CASE InitRoot \/ \E token : ExpandRoot(token)
    BY <2>1, RootTokens
  <2>2. ASSUME NEW leaves, SelectLeaves(leaves) PROVE TokenInv'
    BY <2>2, SelectTokens
  <2>3. ASSUME NEW token, NEW value, ExpandAndBackprop(token, value) PROVE TokenInv'
    BY <2>3, BackpropTokens
  <2>4. CASE ReRootMissing \/ \E kid \in arena[root].kids : ReRoot(kid)
    BY <2>4, ReRootTokens
  <2>5. CASE UNCHANGED engineVars
    BY <2>5, TokensUnchanged DEF engineVars, tokenVars
  <2> QED
    BY <2>1, <2>2, <2>3, <2>4, <2>5 DEF CallerNext
<1>2. TokenInv => StaleAnswersFail
  BY DEF TokenInv, StaleAnswersFail
<1> QED
  BY <1>1, <1>2, TokensStart, PTL DEF CallerSpec

(* The same for the worker, whose engine is replaced when it does not reuse  *)
(* the tree.                                                                 *)
THEOREM GameAnswersFit == GameSpec => []StaleAnswersFail
<1>1. TokenInv /\ [GameNext]_allVars => TokenInv'
  <2> SUFFICES ASSUME TokenInv, [GameNext]_allVars PROVE TokenInv'
    OBVIOUS
  <2>1. CASE InitRoot \/ \E token : ExpandRoot(token)
    BY <2>1, RootTokens
  <2>2. ASSUME NEW leaves, SelectLeaves(leaves) PROVE TokenInv'
    BY <2>2, SelectTokens
  <2>3. ASSUME NEW token, NEW value, ExpandAndBackprop(token, value) PROVE TokenInv'
    BY <2>3, BackpropTokens
  <2>4. CASE Pick
    <3>1. PICK kid \in arena[root].kids :
            IF cfg.reuse THEN ReRoot(kid) ELSE FreshEngine(arena[kid].pos)
      BY <2>4 DEF Pick
    <3> QED
      BY <3>1, ReRootTokens, FreshEngineTokens
  <2>5. CASE UNCHANGED engineVars
    BY <2>5, TokensUnchanged DEF engineVars, tokenVars
  <2>6. CASE BeginMove \/ RootAnswered \/ RootFails
    BY <2>1, <2>6 DEF BeginMove, RootAnswered, RootFails
  <2>7. CASE StopAtHead \/ PairsAnswered \/ RootFallbackRefused \/ GraphRootFails \/ SearchDone \/ LeafFails
    BY <2>5, <2>7 DEF StopAtHead, PairsAnswered, RootFallbackRefused, GraphRootFails, SearchDone, LeafFails
  <2>8. CASE Select
    BY <2>2, <2>8 DEF Select
  <2>9. CASE OnlyTerminal \/ LeafAnswered
    BY <2>3, <2>9 DEF OnlyTerminal, LeafAnswered
  <2>10. CASE UNCHANGED allVars
    BY <2>5, <2>10 DEF allVars
  <2> QED
    BY <2>4, <2>6, <2>7, <2>8, <2>9, <2>10 DEF GameNext
<1>2. TokenInv => StaleAnswersFail
  BY DEF TokenInv, StaleAnswersFail
<1>3. GameInit => TokenInv
  BY TokensStart DEF GameInit
<1> QED
  BY <1>1, <1>2, <1>3, PTL DEF GameSpec

-----------------------------------------------------------------------------
(* Folds. *)

LEMMA NatSetInduction ==
    ASSUME NEW S, 0 \in S, \A n \in Nat : n \in S => n + 1 \in S
    PROVE  Nat \subseteq S
<1> SUFFICES ASSUME NEW N \in Nat, N \notin S PROVE FALSE
  OBVIOUS
<1> DEFINE T == S \cap (0 .. N)
           f == [n \in T |-> n + 1]
<1>1. IsFiniteSet(T) /\ IsFiniteSet(T \ {0}) /\ Cardinality(T) \in Nat
  <2>1. IsFiniteSet(0 .. N)
    BY FS_Interval
  <2>2. IsFiniteSet(T)
    BY <2>1, FS_Subset
  <2> QED
    BY <2>2, FS_Subset, FS_CardinalityType
<1>2. Cardinality(T \ {0}) = Cardinality(T) - 1
  <2>1. 0 \in T
    OBVIOUS
  <2> HIDE DEF T
  <2> QED
    BY <1>1, <2>1, FS_RemoveElement
<1>3. f \in Injection(T, T \ {0})
  <2>1. f \in [T -> T \ {0}]
    OBVIOUS
  <2>2. \A a, b \in T : f[a] = f[b] => a = b
    OBVIOUS
  <2> QED
    BY <2>1, <2>2 DEF Injection, IsInjective
<1>4. Cardinality(T) <= Cardinality(T \ {0})
  BY <1>1, <1>3, FS_Injection
<1> QED
  BY <1>1, <1>2, <1>4

(* The greatest of some of the first numbers. *)
LEMMA GreatestIsThere ==
    ASSUME NEW n \in Nat, NEW T \in SUBSET (1 .. n), T # {}
    PROVE  Max(T) \in T
<1> DEFINE S == {k \in Nat : \A U \in SUBSET (1 .. k) : U # {} => \E x \in U : \A y \in U : x >= y}
<1>1. 0 \in S
  <2>1. 1 .. 0 = {}
    OBVIOUS
  <2> QED
    BY <2>1
<1>2. ASSUME NEW k \in Nat, k \in S PROVE k + 1 \in S
  <2> SUFFICES ASSUME NEW U \in SUBSET (1 .. k + 1), U # {} PROVE \E x \in U : \A y \in U : x >= y
    OBVIOUS
  <2>1. CASE k + 1 \in U
    BY <2>1
  <2>2. CASE k + 1 \notin U
    <3>1. U \in SUBSET (1 .. k)
      BY <2>2
    <3> QED
      BY <1>2, <3>1
  <2> QED
    BY <2>1, <2>2
<1>3. n \in S
  <2> HIDE DEF S
  <2> QED
    BY <1>1, <1>2, NatSetInduction
<1>4. \E x \in T : \A y \in T : x >= y
  BY <1>3
<1> HIDE DEF S
<1> QED
  BY <1>4 DEF Max

LEMMA GreatestIs ==
    ASSUME NEW k \in Nat \ {0}
    PROVE  Max(1 .. k) = k /\ (1 .. k) \ {k} = 1 .. k - 1
<1>1. Max(1 .. k) \in 1 .. k
  <2> DEFINE T == 1 .. k
  <2>1. T \in SUBSET (1 .. k) /\ T # {} /\ k \in Nat
    OBVIOUS
  <2> HIDE DEF T
  <2>2. Max(T) \in T
    BY <2>1, GreatestIsThere
  <2> QED
    BY <2>2 DEF T
<1>2. \E x \in 1 .. k : \A y \in 1 .. k : x >= y
  <2>1. k \in 1 .. k /\ \A y \in 1 .. k : k >= y
    OBVIOUS
  <2> QED
    BY <2>1
<1>3. \A y \in 1 .. k : Max(1 .. k) >= y
  BY <1>2 DEF Max
<1> QED
  BY <1>1, <1>3

(* What a fold computes exists, for a function that gives values of A. *)
Folds(G, F, base, s, n) ==
    \A T \in SUBSET (1 .. n) :
        G[T] = IF T = {} THEN base ELSE F[<<G[T \ {Max(T)}], s[Max(T)]>>]

LEMMA FoldExists ==
    ASSUME NEW n \in Nat, NEW A, NEW base \in A, NEW S, NEW s, \A k \in 1 .. n : s[k] \in S,
           NEW F \in [A \X S -> A]
    PROVE  \E G \in [SUBSET (1 .. n) -> A] : Folds(G, F, base, s, n)
<1> DEFINE Fold(k) == \E G \in [SUBSET (1 .. k) -> A] : Folds(G, F, base, s, k)
           P == {k \in Nat : k <= n => Fold(k)}
<1>1. Fold(0)
  <2> DEFINE G == [T \in SUBSET (1 .. 0) |-> base]
  <2>1. G \in [SUBSET (1 .. 0) -> A] /\ \A T \in SUBSET (1 .. 0) : T = {} /\ G[T] = base
    OBVIOUS
  <2>2. Folds(G, F, base, s, 0)
    BY <2>1 DEF Folds
  <2> HIDE DEF G
  <2>3. \E x \in [SUBSET (1 .. 0) -> A] : Folds(x, F, base, s, 0)
    BY <2>1, <2>2
  <2> QED
    BY <2>3
<1>2. ASSUME NEW k \in Nat, k + 1 <= n, Fold(k) PROVE Fold(k + 1)
  <2>1. PICK G \in [SUBSET (1 .. k) -> A] : Folds(G, F, base, s, k)
    BY <1>2
  <2> DEFINE m == k + 1
             H == [T \in SUBSET (1 .. m) |-> IF m \in T THEN F[<<G[T \ {m}], s[m]>>] ELSE G[T]]
  <2>2. /\ m \in 1 .. n /\ m \in Nat \ {0}
        /\ \A T \in SUBSET (1 .. m) : T \ {m} \in SUBSET (1 .. k) /\ (m \notin T => T \in SUBSET (1 .. k))
    <3>1. m \in 1 .. n /\ m \in Nat \ {0} /\ (1 .. m) \ {m} = 1 .. k
      BY <1>2
    <3> HIDE DEF m
    <3> QED
      BY <3>1
  <2>3. s[m] \in S
    BY <2>2
  <2> HIDE DEF m
  <2>4. ASSUME NEW T \in SUBSET (1 .. m) PROVE H[T] \in A
    <3>1. G[T \ {m}] \in A /\ (m \notin T => G[T] \in A)
      BY <2>2
    <3>2. <<G[T \ {m}], s[m]>> \in A \X S
      BY <2>3, <3>1
    <3> QED
      BY <3>1, <3>2
  <2>5. H \in [SUBSET (1 .. m) -> A]
    BY <2>4
  <2>6. ASSUME NEW T \in SUBSET (1 .. m), T # {}
        PROVE  H[T] = F[<<H[T \ {Max(T)}], s[Max(T)]>>]
    <3>1. CASE m \in T
      <4>1. Max(T) = m
        <5>1. Max(T) \in T
          BY <2>2, <2>6, GreatestIsThere
        <5>2. \E x \in T : \A y \in T : x >= y
          BY <2>2, <3>1
        <5>3. Max(T) >= m
          BY <3>1, <5>2 DEF Max
        <5>4. Max(T) \in 1 .. m
          BY <5>1
        <5> QED
          BY <2>2, <5>3, <5>4
      <4>2. H[T \ {m}] = G[T \ {m}] /\ H[T] = F[<<G[T \ {m}], s[m]>>]
        BY <2>2, <3>1
      <4> QED
        BY <4>1, <4>2
    <3>2. CASE m \notin T
      <4>1. T \in SUBSET (1 .. k) /\ H[T] = G[T] /\ H[T \ {Max(T)}] = G[T \ {Max(T)}]
        BY <2>2, <3>2
      <4>2. G[T] = F[<<G[T \ {Max(T)}], s[Max(T)]>>]
        BY <2>1, <2>6, <4>1 DEF Folds
      <4> QED
        BY <4>1, <4>2
    <3> QED
      BY <3>1, <3>2
  <2>7. H[{}] = base
    <3>1. {} \in SUBSET (1 .. k) /\ {} \in SUBSET (1 .. m) /\ H[{}] = G[{}]
      OBVIOUS
    <3> QED
      BY <2>1, <3>1 DEF Folds
  <2> HIDE DEF H
  <2>8. Folds(H, F, base, s, m)
    BY <2>6, <2>7 DEF Folds
  <2> QED
    BY <2>5, <2>8 DEF m
<1> HIDE DEF Fold
<1>3. 0 \in P /\ \A k \in Nat : k \in P => k + 1 \in P
  BY <1>1, <1>2
<1>4. n \in P
  <2> HIDE DEF P
  <2> QED
    BY <1>3, NatSetInduction
<1>5. Fold(n)
  BY <1>4
<1> QED
  BY <1>5 DEF Fold

-----------------------------------------------------------------------------
(* Nodes. *)

Nodes == [pos : Seq(GameCells), line : Seq(Nat), kids : SUBSET Nat, visits : Int, total : Int,
          real : Int, rtotal : Int, ends : Int]

LEMMA PlayerIs == ASSUME NEW pos \in Seq(GameCells) PROVE Player(pos) \in {0, 1}
<1>1. Len(pos) \in Nat
  OBVIOUS
<1>2. \A n \in Int : Mover(n) \in {0, 1}
  BY DEF Mover
<1> QED
  BY <1>1, <1>2 DEF Player

Walks(b) == [arena : {a \in Seq(Nodes) : Len(a) = Len(b)}, value : Int, player : {0, 1}]

(* A node is given a visit and a value. *)
Counted(node, x) == [node EXCEPT !.visits = @ + 1, !.total = @ + x]

LEMMA CountedIs ==
    ASSUME NEW node \in Nodes, NEW x \in Int
    PROVE  /\ Counted(node, x) \in Nodes
           /\ Counted(node, x).visits = node.visits + 1
           /\ Counted(node, x).total = node.total + x
           /\ Counted(node, x).pos = node.pos /\ Counted(node, x).line = node.line
           /\ Counted(node, x).kids = node.kids /\ Counted(node, x).ends = node.ends
           /\ Counted(node, x).real = node.real /\ Counted(node, x).rtotal = node.rtotal
<1>1. node.visits + 1 \in Int /\ node.total + x \in Int
  BY DEF Nodes
<1> QED
  BY <1>1 DEF Counted, Nodes

LEMMA BackUpIs ==
    ASSUME NEW b, NEW st \in Walks(b), NEW i \in 1 .. Len(b)
    PROVE  LET p == Player(st.arena[i].pos)
               v == IF p # st.player THEN -st.value ELSE st.value
               next == BackUp(st, i)
           IN  /\ next.arena = [st.arena EXCEPT ![i] = Counted(st.arena[i], v)]
               /\ next.value = v /\ next.player = p
               /\ next \in Walks(b)
<1> DEFINE a == st.arena
           p == Player(a[i].pos)
           v == IF p # st.player THEN -st.value ELSE st.value
           next == BackUp(st, i)
<1>1. a \in Seq(Nodes) /\ Len(a) = Len(b) /\ st.value \in Int /\ st.player \in {0, 1}
  BY DEF Walks
<1>2. i \in DOMAIN a /\ a[i] \in Nodes
  BY <1>1
<1>3. p \in {0, 1}
  BY <1>2, PlayerIs DEF Nodes
<1>4. v \in Int
  BY <1>1
<1>5. next = [arena |-> [a EXCEPT ![i].visits = @ + 1, ![i].total = @ + v], value |-> v, player |-> p]
  BY DEF BackUp
<1> HIDE DEF next, v, p, a
<1>6. [a EXCEPT ![i].visits = @ + 1, ![i].total = @ + v] = [a EXCEPT ![i] = Counted(a[i], v)]
  BY <1>1, <1>2 DEF Counted, Nodes
<1>7. [a EXCEPT ![i] = Counted(a[i], v)] \in Seq(Nodes) /\ Len([a EXCEPT ![i] = Counted(a[i], v)]) = Len(b)
  BY <1>1, <1>2, <1>4, CountedIs
<1>8. next \in Walks(b)
  BY <1>3, <1>4, <1>5, <1>6, <1>7 DEF Walks
<1> QED
  BY <1>5, <1>6, <1>8 DEF next, v, p, a

Walk(start, s) == FoldLeft(BackUp, start, s)

WalkSteps(g, start, s, n) ==
    /\ g[0] = start
    /\ \A k \in 1 .. n : g[k] = BackUp(g[k - 1], s[k])
    /\ g[n] = Walk(start, s)

LEMMA WalkFolds ==
    ASSUME NEW b \in Seq(Nodes), NEW n \in Nat, NEW s, DOMAIN s = 1 .. n,
           \A k \in 1 .. n : s[k] \in 1 .. Len(b), NEW start \in Walks(b)
    PROVE  \E g : WalkSteps(g, start, s, n)
<1> DEFINE F == [q \in Walks(b) \X (1 .. Len(b)) |-> BackUp(q[1], q[2])]
           D == SUBSET (1 .. n)
           it == CHOOSE it : it = [T \in D |-> IF T = {} THEN start ELSE BackUp(it[T \ {Max(T)}], s[Max(T)])]
           g == [k \in 0 .. n |-> it[1 .. k]]
<1>1. F \in [Walks(b) \X (1 .. Len(b)) -> Walks(b)]
  BY BackUpIs
<1>2. \A x \in Walks(b), i \in 1 .. Len(b) : F[<<x, i>>] = BackUp(x, i)
  OBVIOUS
<1> HIDE DEF F
<1>3. PICK G \in [D -> Walks(b)] : Folds(G, F, start, s, n)
  BY <1>1, FoldExists
<1>4. ASSUME NEW T \in D
      PROVE  G[T] = IF T = {} THEN start ELSE BackUp(G[T \ {Max(T)}], s[Max(T)])
  <2>1. T # {} => Max(T) \in 1 .. n
    BY GreatestIsThere
  <2>2. T # {} => s[Max(T)] \in 1 .. Len(b) /\ G[T \ {Max(T)}] \in Walks(b)
    BY <2>1
  <2> QED
    BY <1>2, <1>3, <2>2 DEF Folds
<1>5. G = [T \in D |-> IF T = {} THEN start ELSE BackUp(G[T \ {Max(T)}], s[Max(T)])]
  BY <1>4
<1>6. it = [T \in D |-> IF T = {} THEN start ELSE BackUp(it[T \ {Max(T)}], s[Max(T)])]
  BY <1>5, Zenon
<1>7. Walk(start, s) = it[1 .. n]
  BY Zenon DEF Walk, FoldLeft, MapThenFoldSet
<1> HIDE DEF it
<1>8. g[0] = start
  <2>1. 1 .. 0 = {} /\ {} \in D /\ g[0] = it[1 .. 0]
    OBVIOUS
  <2> QED
    BY <1>6, <2>1
<1>9. ASSUME NEW k \in 1 .. n PROVE g[k] = BackUp(g[k - 1], s[k])
  <2>1. 1 .. k \in D /\ 1 .. k # {} /\ g[k] = it[1 .. k] /\ g[k - 1] = it[1 .. k - 1]
    <3>1. k \in 0 .. n /\ k - 1 \in 0 .. n /\ 1 \in 1 .. k /\ 1 .. k \subseteq 1 .. n
      BY <1>9
    <3> HIDE DEF D
    <3>2. g[k] = it[1 .. k] /\ g[k - 1] = it[1 .. k - 1]
      BY <3>1
    <3> HIDE DEF g
    <3> QED
      BY <3>1, <3>2 DEF D
  <2>2. it[1 .. k] = BackUp(it[(1 .. k) \ {Max(1 .. k)}], s[Max(1 .. k)])
    BY <1>6, <2>1
  <2>3. Max(1 .. k) = k /\ (1 .. k) \ {k} = 1 .. k - 1
    BY GreatestIs
  <2> QED
    BY <2>1, <2>2, <2>3
<1>10. g[n] = it[1 .. n]
  OBVIOUS
<1> HIDE DEF g
<1> QED
  BY <1>7, <1>8, <1>9, <1>10 DEF WalkSteps

Walked(b, v, p, s) == Walk([arena |-> b, value |-> v, player |-> p], s).arena
WorthTo(b, v, p, i) == IF Player(b[i].pos) = p THEN v ELSE -v

(* What a walk up needs of the nodes it passes, and what it leaves: a visit  *)
(* for every one of them, valued for the player who moves there.             *)
WayUp(b, n, s) ==
    /\ b \in Seq(Nodes) /\ n \in Nat /\ DOMAIN s = 1 .. n
    /\ \A k \in 1 .. n : s[k] \in 1 .. Len(b)
    /\ \A k, l \in 1 .. n : s[k] = s[l] => k = l

Tallied(b, c, n, s, v, p) ==
    /\ c \in Seq(Nodes) /\ Len(c) = Len(b)
    /\ \A i \in 1 .. Len(b) :
          c[i] = IF \E k \in 1 .. n : s[k] = i THEN Counted(b[i], WorthTo(b, v, p, i)) ELSE b[i]

LEMMA WalkCounts ==
    ASSUME NEW b, NEW n, NEW s, WayUp(b, n, s), NEW v \in Int, NEW p \in {0, 1}
    PROVE  Tallied(b, Walked(b, v, p, s), n, s, v, p)
<1> SUFFICES ASSUME b \in Seq(Nodes), n \in Nat, DOMAIN s = 1 .. n,
                    \A k \in 1 .. n : s[k] \in 1 .. Len(b),
                    \A k, l \in 1 .. n : s[k] = s[l] => k = l
             PROVE  /\ Walked(b, v, p, s) \in Seq(Nodes) /\ Len(Walked(b, v, p, s)) = Len(b)
                    /\ \A i \in 1 .. Len(b) :
                          Walked(b, v, p, s)[i] =
                              IF \E k \in 1 .. n : s[k] = i THEN Counted(b[i], WorthTo(b, v, p, i)) ELSE b[i]
  BY DEF WayUp, Tallied
<1> DEFINE start == [arena |-> b, value |-> v, player |-> p]
           worth(i) == IF Player(b[i].pos) = p THEN v ELSE -v
<1>1. start \in Walks(b)
  BY DEF Walks
<1>2. start.arena = b /\ start.value = v /\ start.player = p
  OBVIOUS
<1> HIDE DEF start
<1>3. PICK g : WalkSteps(g, start, s, n)
  BY <1>1, WalkFolds
<1>4. /\ g[0] = start /\ g[n] = Walk(start, s)
       /\ \A k \in 1 .. n : g[k] = BackUp(g[k - 1], s[k])
  BY <1>3 DEF WalkSteps
<1> DEFINE Good(k) == /\ g[k] \in Walks(b)
                      /\ g[k].value = IF g[k].player = p THEN v ELSE -v
                      /\ \A i \in 1 .. Len(b) :
                            g[k].arena[i] = IF \E l \in 1 .. k : s[l] = i THEN Counted(b[i], worth(i)) ELSE b[i]
           P == {k \in Nat : k <= n => Good(k)}
<1>5. Good(0)
  <2>1. 1 .. 0 = {}
    OBVIOUS
  <2> QED
    BY <1>1, <1>2, <1>4, <2>1
<1>6. ASSUME NEW k \in Nat, k + 1 <= n, Good(k) PROVE Good(k + 1)
  <2> DEFINE m == k + 1
             st == g[k]
             here == s[m]
             q == Player(st.arena[here].pos)
             x == IF q # st.player THEN -st.value ELSE st.value
  <2>1. m \in 1 .. n /\ m - 1 = k
    BY <1>6
  <2>2. here \in 1 .. Len(b) /\ g[m] = BackUp(st, here) /\ st \in Walks(b)
    BY <1>4, <1>6, <2>1
  <2>3. /\ g[m].arena = [st.arena EXCEPT ![here] = Counted(st.arena[here], x)]
        /\ g[m].value = x /\ g[m].player = q /\ g[m] \in Walks(b)
    <3> HIDE DEF st, here, m
    <3> QED
      BY <2>2, BackUpIs
  <2>4. ~ \E l \in 1 .. k : s[l] = here
    <3>1. ASSUME NEW l \in 1 .. k PROVE s[l] # s[m]
      <4>1. l \in 1 .. n /\ m \in 1 .. n /\ l # m
        BY <1>6
      <4> HIDE DEF m, start, worth, P, Good, st
      <4> QED
        BY ONLY <4>1, \A i, j \in 1 .. n : s[i] = s[j] => i = j, Zenon
    <3> HIDE DEF m
    <3> QED
      BY ONLY <3>1, Zenon DEF here
  <2>5. \A i \in 1 .. Len(b) : st.arena[i] = IF \E l \in 1 .. k : s[l] = i THEN Counted(b[i], worth(i)) ELSE b[i]
    BY <1>6
  <2>6. st.arena[here] = b[here] /\ b[here] \in Nodes
    <3>1. here \in 1 .. Len(b) /\ b[here] \in Nodes
      BY <2>2
    <3> HIDE DEF st, here, worth
    <3> QED
      BY ONLY <3>1, <2>4, <2>5, Zenon
  <2>7. q \in {0, 1} /\ q = Player(b[here].pos) /\ st.player \in {0, 1}
    BY <2>2, <2>6, PlayerIs DEF Nodes, Walks
  <2>8. st.value = IF st.player = p THEN v ELSE -v
    BY <1>6
  <2> HIDE DEF q
  <2>9. x = IF q = p THEN v ELSE -v
    BY <2>7, <2>8
  <2> HIDE DEF x
  <2>10. x = worth(here)
    BY <2>7, <2>9
  <2>11. DOMAIN st.arena = 1 .. Len(b)
    BY <2>2 DEF Walks
  <2>12. \A l \in 1 .. m : l \in 1 .. k \/ l = m
    BY <2>1
  <2>13. \A i \in 1 .. Len(b) : (\E l \in 1 .. m : s[l] = i) <=> (i = here \/ \E l \in 1 .. k : s[l] = i)
    BY <2>1, <2>12
  <2> HIDE DEF m, st, here, worth
  <2>14. ASSUME NEW i \in 1 .. Len(b)
         PROVE  g[m].arena[i] = IF \E l \in 1 .. m : s[l] = i THEN Counted(b[i], worth(i)) ELSE b[i]
    <3>1. CASE i = here
      BY <2>3, <2>6, <2>10, <2>11, <2>13, <3>1
    <3>2. CASE i # here
      <4>1. g[m].arena[i] = st.arena[i]
        BY <2>3, <2>11, <3>2
      <4> QED
        BY <2>13, <2>5, <3>2, <4>1
    <3> QED
      BY <3>1, <3>2
  <2>15. g[m].value = IF g[m].player = p THEN v ELSE -v
    BY <2>3, <2>9
  <2> QED
    BY <2>3, <2>14, <2>15 DEF m
<1> HIDE DEF Good
<1>7. 0 \in P /\ \A k \in Nat : k \in P => k + 1 \in P
  BY <1>5, <1>6
<1>8. n \in P
  <2> HIDE DEF P
  <2> QED
    BY <1>7, NatSetInduction
<1>9. Good(n)
  BY <1>8
<1>10. g[n].arena \in Seq(Nodes) /\ Len(g[n].arena) = Len(b)
  BY <1>9 DEF Good, Walks
<1> QED
  <2>1. Walked(b, v, p, s) = g[n].arena
    BY <1>4 DEF Walked, start
  <2>2. \A i \in 1 .. Len(b) : worth(i) = WorthTo(b, v, p, i)
    BY DEF WorthTo, worth
  <2> HIDE DEF worth
  <2> QED
    BY <1>9, <1>10, <2>1, <2>2 DEF Good

-----------------------------------------------------------------------------
(* The shape of the tree: a node's line are the nodes above it, one deeper   *)
(* each, and a node's children have the node at the end of their line.       *)

LineOK(a, i) ==
    LET line == a[i].line
    IN  /\ Len(line) >= 1
        /\ line[Len(line)] = i
        /\ Len(a[i].pos) = Len(a[1].pos) + Len(line) - 1
        /\ \A k \in 1 .. Len(line) :
              /\ line[k] \in 1 .. Len(a)
              /\ Len(a[line[k]].line) = k
              /\ \A l \in 1 .. k : a[line[k]].line[l] = line[l]

KidsOK(a, i) == \A j \in a[i].kids : j \in 1 .. Len(a) /\ a[j].line = Append(a[i].line, j)

TreeOK(a) ==
    /\ a \in Seq(Nodes)
    /\ Len(a) >= 1
    /\ \A i \in 1 .. Len(a) : LineOK(a, i) /\ KidsOK(a, i)

(* A node keeps its place while its statistics change. *)
SamePlace(x, y) == y.pos = x.pos /\ y.line = x.line

LEMMA ShapeKept ==
    ASSUME NEW a, TreeOK(a), NEW b \in Seq(Nodes), Len(b) = Len(a),
           \A i \in 1 .. Len(a) : SamePlace(a[i], b[i]) /\ b[i].kids \subseteq a[i].kids
    PROVE  TreeOK(b)
<1>1. ASSUME NEW i \in 1 .. Len(b) PROVE LineOK(b, i) /\ KidsOK(b, i)
  <2>1. i \in 1 .. Len(a) /\ 1 \in 1 .. Len(a) /\ a \in Seq(Nodes)
    BY DEF TreeOK
  <2>2. LineOK(a, i) /\ KidsOK(a, i)
    BY <2>1 DEF TreeOK
  <2>3. \A j \in 1 .. Len(a) : b[j].line = a[j].line /\ b[j].pos = a[j].pos
    BY DEF SamePlace
  <2>4. b[i].line = a[i].line /\ b[i].pos = a[i].pos /\ b[1].pos = a[1].pos
    BY <2>1, <2>3
  <2>5. \A k \in 1 .. Len(a[i].line) : a[i].line[k] \in 1 .. Len(a)
    BY <2>2 DEF LineOK
  <2>6. \A k \in 1 .. Len(a[i].line) : b[a[i].line[k]].line = a[a[i].line[k]].line
    BY <2>3, <2>5
  <2>7. LineOK(b, i)
    <3> DEFINE line == a[i].line
    <3>1. /\ Len(line) >= 1 /\ line[Len(line)] = i
          /\ Len(b[i].pos) = Len(b[1].pos) + Len(line) - 1
      BY <2>2, <2>4 DEF LineOK
    <3>2. \A k \in 1 .. Len(line) : /\ line[k] \in 1 .. Len(b) /\ Len(b[line[k]].line) = k
                                  /\ \A l \in 1 .. k : b[line[k]].line[l] = line[l]
      <4>1. \A k \in 1 .. Len(line) : /\ line[k] \in 1 .. Len(a) /\ Len(a[line[k]].line) = k
                                    /\ \A l \in 1 .. k : a[line[k]].line[l] = line[l]
        BY <2>2, Zenon DEF LineOK
      <4>2. \A k \in 1 .. Len(line) : b[line[k]].line = a[line[k]].line
        BY <2>6
      <4> HIDE DEF line
      <4> QED
        BY <4>1, <4>2
    <3>3. b[i].line = line
      BY <2>4
    <3> HIDE DEF line
    <3> QED
      BY ONLY <3>1, <3>2, <3>3, Zenon DEF LineOK
  <2>8. KidsOK(b, i)
    BY <2>1, <2>2, <2>3 DEF KidsOK
  <2> QED
    BY <2>7, <2>8
<1> QED
  BY <1>1 DEF TreeOK

LEMMA NodeIs ==
    ASSUME NEW pos \in Seq(GameCells), NEW line \in Seq(Nat)
    PROVE  /\ Node(pos, line) \in Nodes
           /\ Node(pos, line).pos = pos /\ Node(pos, line).line = line
           /\ Node(pos, line).kids = {} /\ Node(pos, line).visits = 0
           /\ Node(pos, line).total = 0 /\ Node(pos, line).real = 0
           /\ Node(pos, line).rtotal = 0 /\ Node(pos, line).ends = 0
BY DEF Node, Nodes

LEMMA FreshTree == ASSUME NEW pos \in Seq(GameCells) PROVE TreeOK(FreshArena(pos))
<1> DEFINE line == <<1>>
           a == <<Node(pos, line)>>
<1>1. line \in Seq(Nat) /\ line \in Seq(1 .. 1) /\ Len(line) = 1 /\ line[1] = 1
  OBVIOUS
<1> HIDE DEF line
<1>2. Node(pos, line) \in Nodes /\ Node(pos, line).pos = pos /\ Node(pos, line).line = line /\ Node(pos, line).kids = {}
  BY <1>1, NodeIs
<1>3. a \in Seq(Nodes) /\ Len(a) = 1 /\ a[1] = Node(pos, line)
  BY <1>2
<1>4. Len(pos) \in Nat
  OBVIOUS
<1> HIDE DEF a
<1>5. LineOK(a, 1) /\ KidsOK(a, 1)
  <2>1. /\ Len(a) = 1 /\ a[1].line = line /\ a[1].pos = pos /\ a[1].kids = {}
        /\ Len(pos) \in Nat
    BY <1>2, <1>3, <1>4
  <2>2. \A k \in 1 .. Len(line) : k = 1
    BY <1>1
  <2>3. \A k \in 1 .. 1 : k = 1
    OBVIOUS
  <2>4. LineOK(a, 1)
    <3>1. /\ Len(line) >= 1 /\ line[Len(line)] = 1
          /\ Len(a[1].pos) = Len(a[1].pos) + Len(line) - 1
      BY <1>1, <2>1
    <3>2. \A k \in 1 .. Len(line) : /\ line[k] \in 1 .. Len(a) /\ Len(a[line[k]].line) = k
                                  /\ \A l \in 1 .. k : a[line[k]].line[l] = line[l]
      BY <1>1, <2>1, <2>2, <2>3
    <3> QED
      BY <2>1, <3>1, <3>2, Zenon DEF LineOK
  <2> QED
    BY <2>1, <2>4 DEF KidsOK
<1>6. TreeOK(a)
  BY <1>3, <1>5 DEF TreeOK
<1> QED
  BY <1>6 DEF FreshArena, a, line

(* The list of a finite set has each of its elements once. *)
LEMMA ListOfSet ==
    ASSUME NEW S, IsFiniteSet(S)
    PROVE  LET s == SetToSeq(S)
           IN  /\ Cardinality(S) \in Nat
               /\ s \in Seq(S) /\ Len(s) = Cardinality(S)
               /\ \A x \in S : \E k \in 1 .. Len(s) : s[k] = x
               /\ \A k, l \in 1 .. Len(s) : s[k] = s[l] => k = l
<1> DEFINE n == Cardinality(S)
           s == SetToSeq(S)
<1>1. PICK m \in Nat : ExistsBijection(1 .. m, S)
  BY FS_NatBijection
<1>2. n = m
  BY <1>1, FS_CountingElements
<1>3. PICK f : f \in Bijection(1 .. n, S)
  BY <1>1, <1>2 DEF ExistsBijection
<1>4. f \in [1 .. n -> S] /\ IsInjective(f)
  BY <1>3 DEF Bijection, Injection
<1>5. s \in [1 .. n -> S] /\ IsInjective(s)
  BY <1>4, Zenon DEF SetToSeq
<1> HIDE DEF s
<1>6. n \in Nat /\ s \in Seq(S) /\ Len(s) = n
  BY <1>1, <1>2, <1>5
<1>7. \A k, l \in 1 .. n : s[k] = s[l] => k = l
  BY <1>5 DEF IsInjective
<1>8. \A x \in S : \E k \in 1 .. n : s[k] = x
  <2> DEFINE T == {s[k] : k \in 1 .. n}
  <2>1. s \in Injection(1 .. n, T)
    BY <1>5 DEF Injection, IsInjective
  <2>2. T \subseteq S /\ IsFiniteSet(T) /\ Cardinality(T) <= n /\ IsFiniteSet(1 .. n) /\ Cardinality(1 .. n) = n
    <3>1. T \subseteq S
      BY <1>5
    <3>2. IsFiniteSet(1 .. n) /\ Cardinality(1 .. n) = n
      BY <1>6, FS_Interval
    <3> HIDE DEF T, n
    <3> QED
      BY <3>1, <3>2, FS_Subset DEF n
  <2>3. n <= Cardinality(T)
    <3> HIDE DEF T
    <3> QED
      BY <2>1, <2>2, FS_Injection
  <2>4. T = S
    <3> HIDE DEF T
    <3>1. Cardinality(T) \in Nat
      BY <2>2, FS_CardinalityType
    <3> QED
      BY <1>6, <2>2, <2>3, <3>1, FS_Subset
  <2> QED
    BY <2>4
<1> QED
  BY <1>6, <1>7, <1>8 DEF s

Blank(node) == /\ node.kids = {} /\ node.visits = 0 /\ node.total = 0
               /\ node.real = 0 /\ node.rtotal = 0 /\ node.ends = 0

WithKids(node, kids) == [node EXCEPT !.kids = kids]

LEMMA WithKidsIs ==
    ASSUME NEW node \in Nodes, NEW kids \in SUBSET Nat
    PROVE  LET new == WithKids(node, kids)
           IN  /\ new \in Nodes /\ SamePlace(node, new) /\ new.kids = kids
               /\ new.visits = node.visits /\ new.total = node.total /\ new.real = node.real
               /\ new.rtotal = node.rtotal /\ new.ends = node.ends
BY DEF WithKids, Nodes, SamePlace

(* A new leaf of a line. *)
LEMMA LineGrows ==
    ASSUME NEW a, TreeOK(a), NEW i \in 1 .. Len(a), NEW b \in Seq(Nodes), Len(b) >= Len(a),
           \A j \in 1 .. Len(a) : SamePlace(a[j], b[j]),
           NEW n \in Len(a) + 1 .. Len(b), b[n].line = Append(a[i].line, n),
           Len(b[n].pos) = Len(a[i].pos) + 1
    PROVE  LineOK(b, n)
<1> DEFINE old == a[i].line
           line == Append(old, n)
<1>1. /\ Len(old) >= 1 /\ old[Len(old)] = i
      /\ Len(a[i].pos) = Len(a[1].pos) + Len(old) - 1
      /\ \A k \in 1 .. Len(old) : /\ old[k] \in 1 .. Len(a) /\ Len(a[old[k]].line) = k
                                  /\ \A l \in 1 .. k : a[old[k]].line[l] = old[l]
  <2>1. LineOK(a, i)
    BY DEF TreeOK
  <2> QED
    BY <2>1, Zenon DEF LineOK
<1>2. Len(a) \in Nat /\ Len(b) \in Nat /\ Len(a) >= 1 /\ a \in Seq(Nodes)
  BY DEF TreeOK
<1>3. Len(a[i].pos) \in Nat /\ Len(a[1].pos) \in Nat /\ old \in Seq(Nat) /\ Len(old) \in Nat
  <2>1. a[i] \in Nodes /\ a[1] \in Nodes
    BY <1>2
  <2>2. a[i].pos \in Seq(GameCells) /\ a[1].pos \in Seq(GameCells) /\ old \in Seq(Nat)
    BY <2>1 DEF Nodes
  <2> DEFINE x == a[i].pos
             y == a[1].pos
  <2>3. x \in Seq(GameCells) /\ y \in Seq(GameCells) /\ old \in Seq(Nat)
    BY <2>2
  <2> HIDE DEF x, y, old
  <2>4. Len(x) \in Nat /\ Len(y) \in Nat /\ Len(old) \in Nat
    BY ONLY <2>3
  <2> QED
    BY <2>3, <2>4 DEF x, y
<1>4. n \in 1 .. Len(b) /\ n \in Nat
  BY <1>2
<1> HIDE DEF old
<1>5. /\ Len(line) = Len(old) + 1 /\ line[Len(old) + 1] = n
      /\ \A k \in 1 .. Len(old) : line[k] = old[k]
  BY <1>4, <1>3
<1>6. b[1].pos = a[1].pos
  BY <1>2 DEF SamePlace
<1>7. b[n].line = line
  BY DEF old
<1> HIDE DEF line
<1>8. ASSUME NEW k \in 1 .. Len(line)
      PROVE  /\ line[k] \in 1 .. Len(b) /\ Len(b[line[k]].line) = k
             /\ \A l \in 1 .. k : b[line[k]].line[l] = line[l]
  <2>1. CASE k = Len(old) + 1
    BY <1>4, <1>5, <1>7, <2>1
  <2>2. CASE k # Len(old) + 1
    <3>1. k \in 1 .. Len(old) /\ \A l \in 1 .. k : l \in 1 .. Len(old)
      BY <1>5, <1>3, <2>2, SMTT(20)
    <3>2. line[k] = old[k] /\ old[k] \in 1 .. Len(a)
      BY <1>1, <1>5, <3>1
    <3>3. b[line[k]].line = a[old[k]].line
      BY <3>2 DEF SamePlace
    <3>4. line[k] \in 1 .. Len(b)
      BY <1>2, <3>2
    <3>5. Len(a[old[k]].line) = k /\ \A l \in 1 .. k : a[old[k]].line[l] = old[l]
      BY <1>1, <3>1
    <3>6. \A l \in 1 .. k : old[l] = line[l]
      BY <1>5, <3>1
    <3> QED
      BY ONLY <3>3, <3>4, <3>5, <3>6
  <2> QED
    BY <2>1, <2>2
<1>9. Len(b[n].pos) = Len(b[1].pos) + Len(line) - 1 /\ Len(line) >= 1 /\ line[Len(line)] = n
  BY <1>1, <1>5, <1>6, <1>3
<1> QED
  BY ONLY <1>7, <1>8, <1>9, Zenon DEF LineOK

LEMMA ExpandIs ==
    ASSUME NEW a, TreeOK(a), NEW i \in 1 .. Len(a), NEW legal \in SUBSET GameCells, IsFiniteSet(legal)
    PROVE  LET b == Expand(a, i, legal)
           IN  /\ TreeOK(b) /\ Len(b) >= Len(a) /\ (legal # {} => Len(b) > Len(a))
               /\ \A j \in 1 .. Len(a) :
                     b[j] = IF j = i /\ legal # {} THEN WithKids(a[j], Len(a) + 1 .. Len(b)) ELSE a[j]
               /\ \A j \in Len(a) + 1 .. Len(b) : Blank(b[j])
<1> DEFINE b == Expand(a, i, legal)
           moves == SetToSeq(legal)
           N == Len(a)
           m == Len(moves)
           kid(k) == Node(Append(a[i].pos, moves[k]), Append(a[i].line, N + k))
           kept == [a EXCEPT ![i].kids = N + 1 .. N + m]
           new == [k \in 1 .. m |-> kid(k)]
<1>1. a \in Seq(Nodes) /\ N \in Nat /\ N >= 1 /\ a[i] \in Nodes /\ i \in DOMAIN a
  BY DEF TreeOK
<1>2. moves \in Seq(legal) /\ m \in Nat
  <2>1. moves \in Seq(legal)
    BY ListOfSet
  <2> HIDE DEF moves
  <2> QED
    BY <2>1
<1>3. CASE legal = {}
  <2>1. b = a
    BY <1>3 DEF Expand
  <2> HIDE DEF b
  <2>2. \A j \in Len(a) + 1 .. Len(b) : FALSE
    BY <1>1, <2>1
  <2> QED
    BY <1>1, <1>3, <2>1, <2>2 DEF b
<1>4. CASE legal # {}
  <2>1. b = kept \o new
    BY <1>4 DEF Expand
  <2>2. a[i].pos \in Seq(GameCells) /\ a[i].line \in Seq(Nat)
    BY <1>1 DEF Nodes
  <2> HIDE DEF moves, N
  <2>3. ASSUME NEW k \in 1 .. m
        PROVE  /\ kid(k) \in Nodes /\ Blank(kid(k))
               /\ kid(k).line = Append(a[i].line, N + k)
               /\ Len(kid(k).pos) = Len(a[i].pos) + 1
    <3> DEFINE pos == Append(a[i].pos, moves[k])
               line == Append(a[i].line, N + k)
    <3>1. moves[k] \in GameCells
      BY <1>2
    <3>2. pos \in Seq(GameCells) /\ Len(pos) = Len(a[i].pos) + 1
      BY <2>2, <3>1
    <3>3. N + k \in Nat
      BY <1>1
    <3>4. a[i].line \in Seq(Nat)
      BY <1>1 DEF Nodes
    <3>5. line \in Seq(Nat)
      BY <3>4, <3>3
    <3> HIDE DEF pos, line
    <3>6. kid(k) = Node(pos, line)
      BY DEF pos, line
    <3> HIDE DEF kid
    <3>7. /\ Node(pos, line) \in Nodes /\ Node(pos, line).pos = pos
          /\ Node(pos, line).line = line /\ Blank(Node(pos, line))
      BY <3>2, <3>5, NodeIs DEF Blank
    <3>8. kid(k) \in Nodes /\ Blank(kid(k)) /\ kid(k).line = line /\ Len(kid(k).pos) = Len(a[i].pos) + 1
      BY <3>2, <3>6, <3>7
    <3> QED
      BY <3>8 DEF line
  <2>4. kept = [a EXCEPT ![i] = WithKids(a[i], N + 1 .. N + m)]
    BY <1>1 DEF WithKids
  <2>5. N + 1 .. N + m \in SUBSET Nat
    BY <1>1, <1>2
  <2> DEFINE who == WithKids(a[i], N + 1 .. N + m)
  <2>6. who \in Nodes /\ SamePlace(a[i], who) /\ who.kids = N + 1 .. N + m
    <3> DEFINE kids == N + 1 .. N + m
    <3> HIDE DEF kids
    <3> QED
      BY <1>1, <2>5, WithKidsIs DEF kids
  <2> HIDE DEF kid, kept
  <2>7. new \in Seq(Nodes) /\ Len(new) = m /\ \A k \in 1 .. m : new[k] = kid(k)
    BY <1>2, <2>3
  <2> HIDE DEF m, new, who
  <2>8. kept \in Seq(Nodes) /\ Len(kept) = N /\ \A j \in 1 .. N : kept[j] = IF j = i THEN who ELSE a[j]
    BY <1>1, <2>4, <2>6 DEF N, who
  <2> HIDE DEF b
  <2>9. /\ b \in Seq(Nodes) /\ Len(b) = N + m
        /\ \A j \in 1 .. N : b[j] = kept[j]
        /\ \A k \in 1 .. m : b[N + k] = new[k]
    <3>1. N \in Nat /\ m \in Nat /\ Len(kept) = N /\ Len(new) = m /\ kept \in Seq(Nodes) /\ new \in Seq(Nodes)
      BY <1>1, <1>2, <2>7, <2>8
    <3>2. ASSUME NEW x \in Seq(Nodes), NEW y \in Seq(Nodes)
          PROVE  LET z == x \o y
                 IN  /\ z \in Seq(Nodes) /\ Len(z) = Len(x) + Len(y)
                     /\ \A j \in 1 .. Len(x) : z[j] = x[j]
                     /\ \A k \in 1 .. Len(y) : z[Len(x) + k] = y[k]
      OBVIOUS
    <3> QED
      BY <2>1, <3>1, <3>2
  <2>10. \A n \in N + 1 .. N + m : n - N \in 1 .. m /\ n = N + (n - N)
    BY <1>1, <1>2
  <2>11. ASSUME NEW n \in N + 1 .. N + m
         PROVE  /\ Blank(b[n]) /\ b[n].line = Append(a[i].line, n)
                /\ Len(b[n].pos) = Len(a[i].pos) + 1
    <3>1. b[n] = kid(n - N) /\ n - N \in 1 .. m /\ N + (n - N) = n
      BY <2>7, <2>9, <2>10
    <3> QED
      BY <2>3, <3>1
  <2>12. \A j \in 1 .. N : SamePlace(a[j], b[j])
    BY <2>6, <2>8, <2>9 DEF SamePlace
  <2>13. ASSUME NEW n \in 1 .. Len(b) PROVE LineOK(b, n) /\ KidsOK(b, n)
    <3>1. CASE n \in 1 .. N
      <4>1. LineOK(a, n) /\ KidsOK(a, n)
        BY <3>1 DEF TreeOK, N
      <4>2. LineOK(b, n)
        <5> DEFINE line == a[n].line
        <5>1. /\ Len(line) >= 1 /\ line[Len(line)] = n
              /\ Len(a[n].pos) = Len(a[1].pos) + Len(line) - 1
              /\ \A k \in 1 .. Len(line) : /\ line[k] \in 1 .. N /\ Len(a[line[k]].line) = k
                                            /\ \A l \in 1 .. k : a[line[k]].line[l] = line[l]
          BY <4>1, Zenon DEF LineOK, N
        <5>2. b[n].line = line /\ b[n].pos = a[n].pos /\ b[1].pos = a[1].pos
          BY <1>1, <2>12, <3>1 DEF SamePlace
        <5> HIDE DEF line
        <5>3. 1 .. N \subseteq 1 .. Len(b)
          BY <1>1, <1>2, <2>9
        <5>4. \A k \in 1 .. Len(line) : b[line[k]].line = a[line[k]].line
          BY <2>12, <5>1 DEF SamePlace
        <5>5. \A k \in 1 .. Len(line) : /\ line[k] \in 1 .. Len(b) /\ Len(b[line[k]].line) = k
                                          /\ \A l \in 1 .. k : b[line[k]].line[l] = line[l]
          BY <5>1, <5>3, <5>4
        <5>6. /\ Len(line) >= 1 /\ line[Len(line)] = n
              /\ Len(b[n].pos) = Len(b[1].pos) + Len(line) - 1
          BY <5>1, <5>2
        <5>7. b[n].line = line
          BY <5>2
        <5> QED
          BY ONLY <5>5, <5>6, <5>7, Zenon DEF LineOK
      <4>3. b[n].line = a[n].line
        BY <2>12, <3>1 DEF SamePlace
      <4>4. ASSUME NEW j \in b[n].kids PROVE j \in 1 .. Len(b) /\ b[j].line = Append(b[n].line, j)
        <5>1. CASE n = i
          <6>1. j \in N + 1 .. N + m
            BY <2>6, <2>8, <2>9, <3>1, <4>4, <5>1
          <6>2. j \in 1 .. Len(b)
            BY <1>1, <1>2, <2>9, <6>1
          <6>3. b[j].line = Append(a[i].line, j)
            BY <2>11, <6>1
          <6> QED
            BY <4>3, <5>1, <6>2, <6>3
        <5>2. CASE n # i
          <6>1. j \in a[n].kids
            BY <2>8, <2>9, <3>1, <4>4, <5>2
          <6>2. j \in 1 .. N /\ a[j].line = Append(a[n].line, j)
            BY <4>1, <6>1 DEF KidsOK, N
          <6>3. j \in 1 .. Len(b)
            BY <1>1, <1>2, <2>9, <6>2
          <6>4. b[j].line = a[j].line
            BY <2>12, <6>2 DEF SamePlace
          <6> QED
            BY <4>3, <6>2, <6>3, <6>4
        <5> QED
          BY <5>1, <5>2
      <4> QED
        BY <4>2, <4>4 DEF KidsOK
    <3>2. CASE n \notin 1 .. N
      <4>1. n \in N + 1 .. N + m
        BY <1>1, <1>2, <2>9, <3>2
      <4>2. Len(b) >= Len(a) /\ n \in Len(a) + 1 .. Len(b)
        BY <1>1, <1>2, <2>9, <4>1 DEF N
      <4>3. LineOK(b, n)
        BY <2>9, <2>11, <2>12, <4>1, <4>2, LineGrows DEF N
      <4>4. b[n].kids = {}
        BY <2>11, <4>1 DEF Blank
      <4> QED
        BY <4>3, <4>4 DEF KidsOK
    <3> QED
      BY <3>1, <3>2
  <2>14. TreeOK(b) /\ Len(b) >= Len(a)
    BY <1>1, <1>2, <2>9, <2>13 DEF TreeOK, N
  <2>15. \A j \in 1 .. Len(a) : b[j] = IF j = i THEN WithKids(a[j], Len(a) + 1 .. Len(b)) ELSE a[j]
    BY <2>8, <2>9 DEF N, who
  <2>16. \A j \in Len(a) + 1 .. Len(b) : Blank(b[j])
    BY <2>9, <2>11 DEF N
  <2>17. Len(b) > Len(a)
    <3>1. PICK x : x \in legal
      BY <1>4
    <3>2. PICK k \in 1 .. m : moves[k] = x
      BY <3>1, ListOfSet DEF moves, m
    <3>3. m > 0
      BY <1>2, <3>2
    <3> QED
      BY <1>1, <1>2, <2>9, <3>3 DEF N
  <2> QED
    BY <1>4, <2>14, <2>15, <2>16, <2>17 DEF b
<1> QED
  BY <1>3, <1>4

-----------------------------------------------------------------------------
(* Paths, with the tree they are read in as an argument. *)

Reach(t, i) == Len(t[i].pos) - Len(t[1].pos)
PathIn(t, r, i) == SubSeq(t[i].line, Reach(t, r) + 1, Len(t[i].line))
On(t, r, leaf, i) == i \in ToSet(PathIn(t, r, leaf))
Under(t, r, i) == Reach(t, i) >= Reach(t, r)
ThroughIn(t, r, leaves, i) == Cardinality({k \in DOMAIN leaves : On(t, r, leaves[k], i)})

(* A batch: leaves below the root. *)
Batch(t, r, leaves) ==
    /\ leaves \in Seq(1 .. Len(t))
    /\ \A k \in 1 .. Len(leaves) : Under(t, r, leaves[k])

LEMMA LineIs ==
    ASSUME NEW t, TreeOK(t), NEW i \in 1 .. Len(t)
    PROVE  /\ t[i] \in Nodes /\ t[i].line \in Seq(Nat) /\ Len(t[i].line) \in Nat
           /\ Len(t[i].pos) \in Nat /\ Reach(t, i) = Len(t[i].line) - 1 /\ Len(t[i].line) >= 1
           /\ t[i].line[Len(t[i].line)] = i
           /\ \A k \in 1 .. Len(t[i].line) :
                 /\ t[i].line[k] \in 1 .. Len(t) /\ Reach(t, t[i].line[k]) = k - 1
                 /\ Len(t[t[i].line[k]].line) = k
                 /\ \A l \in 1 .. k : t[t[i].line[k]].line[l] = t[i].line[l]
<1>1. t \in Seq(Nodes) /\ Len(t) >= 1 /\ \A j \in 1 .. Len(t) : LineOK(t, j)
  BY DEF TreeOK
<1>2. ASSUME NEW j \in 1 .. Len(t)
      PROVE  /\ t[j] \in Nodes /\ t[j].line \in Seq(Nat) /\ Len(t[j].line) \in Nat
             /\ Len(t[j].pos) \in Nat
  <2>1. t[j] \in Nodes
    BY <1>1
  <2>2. t[j].line \in Seq(Nat) /\ t[j].pos \in Seq(GameCells)
    BY <2>1 DEF Nodes
  <2> QED
    BY <2>1, <2>2
<1>3. 1 \in 1 .. Len(t)
  BY <1>1
<1>4. ASSUME NEW j \in 1 .. Len(t)
      PROVE  Reach(t, j) = Len(t[j].line) - 1
  <2>1. Len(t[j].pos) = Len(t[1].pos) + Len(t[j].line) - 1
    BY <1>1, Zenon DEF LineOK
  <2>2. Len(t[j].pos) \in Nat /\ Len(t[1].pos) \in Nat /\ Len(t[j].line) \in Nat
    BY <1>2, <1>3
  <2> QED
    BY <2>1, <2>2 DEF Reach
<1>5. /\ Len(t[i].line) >= 1 /\ t[i].line[Len(t[i].line)] = i
      /\ \A k \in 1 .. Len(t[i].line) :
            /\ t[i].line[k] \in 1 .. Len(t) /\ Len(t[t[i].line[k]].line) = k
            /\ \A l \in 1 .. k : t[t[i].line[k]].line[l] = t[i].line[l]
  BY <1>1, Zenon DEF LineOK
<1>6. \A k \in 1 .. Len(t[i].line) : Reach(t, t[i].line[k]) = k - 1
  BY <1>4, <1>5
<1> QED
  BY <1>2, <1>4, <1>5, <1>6

(* A path goes down one level at a time and ends with its leaf. *)
LEMMA PathIs ==
    ASSUME NEW t, TreeOK(t), NEW r \in 1 .. Len(t), NEW i \in 1 .. Len(t), Under(t, r, i)
    PROVE  LET s == PathIn(t, r, i)
           IN  /\ s \in Seq(Nat) /\ Len(s) = Reach(t, i) - Reach(t, r) + 1
               /\ Len(s) \in Nat \ {0} /\ DOMAIN s = 1 .. Len(s)
               /\ \A k \in 1 .. Len(s) :
                     /\ s[k] = t[i].line[Reach(t, r) + k]
                     /\ s[k] \in 1 .. Len(t)
                     /\ Reach(t, s[k]) = Reach(t, r) + k - 1
               /\ \A k, l \in 1 .. Len(s) : s[k] = s[l] => k = l
<1> DEFINE line == t[i].line
           d == Reach(t, r) + 1
           s == PathIn(t, r, i)
<1>1. /\ line \in Seq(Nat) /\ Len(line) \in Nat /\ Reach(t, i) = Len(line) - 1 /\ Len(line) >= 1
      /\ \A k \in 1 .. Len(line) : line[k] \in 1 .. Len(t) /\ Reach(t, line[k]) = k - 1
  BY LineIs, SMTT(20)
<1>2. Reach(t, r) \in Nat /\ Reach(t, i) >= Reach(t, r)
  BY LineIs DEF Under
<1>3. d \in Nat /\ d >= 1 /\ Reach(t, r) = d - 1
  BY <1>2
<1>4. d <= Len(line)
  BY <1>1, <1>3, <1>2
<1>5. s = SubSeq(line, d, Len(line))
  BY DEF PathIn
<1> HIDE DEF line, d, s
<1>6. /\ s \in Seq(Nat) /\ Len(s) = Len(line) - d + 1 /\ \A k \in 1 .. Len(s) : s[k] = line[d + k - 1]
  <2> DEFINE e == Len(line)
  <2>1. d \in Int /\ e \in Int /\ \A k \in d .. e : line[k] \in Nat
    BY <1>1, <1>3, <1>4
  <2>2. e - d + 1 = Len(line) - d + 1 /\ d <= e
    BY <1>4
  <2> HIDE DEF e
  <2>3. s = SubSeq(line, d, e)
    BY <1>5 DEF e
  <2>4. s \in Seq(Nat) /\ Len(s) = e - d + 1 /\ \A k \in 1 .. e - d + 1 : s[k] = line[d + k - 1]
    BY <2>1, <2>3, <2>2, SubSeqProperties
  <2> QED
    BY <2>4, <2>2
<1>7. Len(s) \in Nat \ {0} /\ DOMAIN s = 1 .. Len(s)
  <2>1. Len(line) - d + 1 \in Nat \ {0}
    BY <1>1, <1>3, <1>4
  <2> QED
    BY ONLY <1>6, <2>1
<1>8. ASSUME NEW k \in 1 .. Len(s)
      PROVE  s[k] = line[Reach(t, r) + k] /\ s[k] \in 1 .. Len(t) /\ Reach(t, s[k]) = Reach(t, r) + k - 1
  <2>1. k \in Nat /\ k >= 1 /\ k <= Len(line) - d + 1 /\ s[k] = line[d + k - 1]
    BY <1>6, <1>7
  <2> DEFINE m == d + k - 1
  <2>2. m \in 1 .. Len(line) /\ m = Reach(t, r) + k /\ m - 1 = Reach(t, r) + k - 1
    BY <1>1, <1>3, <1>4, <1>2, <2>1
  <2>3. s[k] = line[m]
    BY <2>1
  <2> HIDE DEF m
  <2>4. Reach(t, line[m]) = m - 1 /\ line[m] \in 1 .. Len(t)
    BY <1>1, <2>2
  <2> QED
    BY <2>2, <2>4, <2>3
<1>9. ASSUME NEW k \in 1 .. Len(s), NEW l \in 1 .. Len(s), s[k] = s[l] PROVE k = l
  BY <1>8, <1>2, <1>7, <1>9
<1>10. Len(s) = Reach(t, i) - Reach(t, r) + 1
  BY <1>1, <1>3, <1>6, <1>2
<1> QED
  BY <1>6, <1>8, <1>7, <1>9, <1>10 DEF line, s

(* The walk from a leaf to the root goes along its path. *)
LEMMA UpwardsIs ==
    ASSUME NEW t, TreeOK(t), NEW r \in 1 .. Len(t), NEW i \in 1 .. Len(t), Under(t, r, i)
    PROVE  LET s == Reverse(PathIn(t, r, i))
               n == Len(PathIn(t, r, i))
           IN  /\ n \in Nat /\ DOMAIN s = 1 .. n
               /\ \A k \in 1 .. n : s[k] \in 1 .. Len(t)
               /\ \A k, l \in 1 .. n : s[k] = s[l] => k = l
               /\ \A j : (\E k \in 1 .. n : s[k] = j) <=> On(t, r, i, j)
<1> DEFINE p == PathIn(t, r, i)
           s == Reverse(p)
           n == Len(p)
<1>1. /\ n \in Nat /\ DOMAIN p = 1 .. n
      /\ \A k \in 1 .. n : p[k] \in 1 .. Len(t)
      /\ \A k, l \in 1 .. n : p[k] = p[l] => k = l
  <2>1. TreeOK(t) /\ r \in 1 .. Len(t) /\ i \in 1 .. Len(t) /\ Under(t, r, i)
    OBVIOUS
  <2>2. n \in Nat /\ DOMAIN p = 1 .. n
    BY ONLY <2>1, PathIs
  <2>3. \A k \in 1 .. n : p[k] \in 1 .. Len(t)
    BY ONLY <2>1, PathIs
  <2>4. \A k, l \in 1 .. n : p[k] = p[l] => k = l
    BY ONLY <2>1, PathIs
  <2> QED
    BY <2>2, <2>3, <2>4
<1>2. \A j : On(t, r, i, j) <=> j \in ToSet(p)
  BY DEF On
<1> HIDE DEF p
<1>3. DOMAIN s = 1 .. n /\ \A k \in 1 .. n : s[k] = p[(n - k) + 1]
  BY <1>1 DEF Reverse
<1> HIDE DEF n, s
<1>4. \A k \in 1 .. n : (n - k) + 1 \in 1 .. n /\ (n - ((n - k) + 1)) + 1 = k
  BY <1>1
<1>5. ASSUME NEW j PROVE (\E k \in 1 .. n : s[k] = j) <=> j \in ToSet(p)
  <2>1. ASSUME NEW k \in 1 .. n, s[k] = j PROVE j \in ToSet(p)
    BY <1>1, <1>3, <1>4, <2>1 DEF ToSet
  <2>2. ASSUME j \in ToSet(p) PROVE \E k \in 1 .. n : s[k] = j
    <3>1. PICK l \in 1 .. n : p[l] = j
      BY <1>1, <2>2 DEF ToSet
    <3>2. s[(n - l) + 1] = j
      BY <1>3, <1>4, <3>1
    <3> QED
      BY <1>4, <3>2
  <2> QED
    BY <2>1, <2>2
<1>6. ASSUME NEW k \in 1 .. n, NEW l \in 1 .. n, s[k] = s[l] PROVE k = l
  <2>1. (n - k) + 1 = (n - l) + 1
    BY <1>1, <1>3, <1>4, <1>6
  <2> QED
    BY <1>1, <2>1
<1>7. \A k \in 1 .. n : s[k] \in 1 .. Len(t)
  BY <1>1, <1>3, <1>4
<1> QED
  BY <1>1, <1>3, <1>5, <1>2, <1>6, <1>7 DEF s, n, p

LEMMA OnIsNode ==
    ASSUME NEW t, TreeOK(t), NEW r \in 1 .. Len(t), NEW i \in 1 .. Len(t), Under(t, r, i),
           NEW j, On(t, r, i, j)
    PROVE  j \in 1 .. Len(t)
<1> DEFINE s == Reverse(PathIn(t, r, i))
           n == Len(PathIn(t, r, i))
<1>1. /\ \A k \in 1 .. n : s[k] \in 1 .. Len(t)
      /\ (\E k \in 1 .. n : s[k] = j) <=> On(t, r, i, j)
  BY UpwardsIs
<1> HIDE DEF s, n
<1> QED
  BY <1>1

-----------------------------------------------------------------------------
(* How many leaves have a node on their path. *)

LEMMA CountUpTo ==
    ASSUME NEW n \in Nat, NEW X \in SUBSET (1 .. n)
    PROVE  /\ IsFiniteSet(X) /\ Cardinality(X) \in Nat
           /\ X \cap (1 .. 0) = {} /\ Cardinality(X \cap (1 .. 0)) = 0
           /\ X \cap (1 .. n) = X
           /\ \A k \in 1 .. n :
                 Cardinality(X \cap (1 .. k)) =
                     Cardinality(X \cap (1 .. k - 1)) + (IF k \in X THEN 1 ELSE 0)
           /\ \A k \in 0 .. n : Cardinality(X \cap (1 .. k)) \in Nat
<1>1. IsFiniteSet(1 .. n)
  BY FS_Interval
<1>2. \A Y \in SUBSET (1 .. n) : IsFiniteSet(Y) /\ Cardinality(Y) \in Nat
  BY <1>1, FS_Subset, FS_CardinalityType
<1>3. 1 .. 0 = {}
  OBVIOUS
<1>4. X \cap (1 .. 0) = {} /\ Cardinality(X \cap (1 .. 0)) = 0
  BY <1>3, FS_EmptySet
<1>5. ASSUME NEW k \in 1 .. n
      PROVE  Cardinality(X \cap (1 .. k)) = Cardinality(X \cap (1 .. k - 1)) + (IF k \in X THEN 1 ELSE 0)
  <2> DEFINE Y == X \cap (1 .. k - 1)
  <2>1. Y \in SUBSET (1 .. n) /\ k \notin Y
    OBVIOUS
  <2>2. IsFiniteSet(Y) /\ Cardinality(Y) \in Nat
    BY <1>2, <2>1
  <2>3. X \cap (1 .. k) = IF k \in X THEN Y \cup {k} ELSE Y
    OBVIOUS
  <2> HIDE DEF Y
  <2>4. Cardinality(Y \cup {k}) = Cardinality(Y) + 1
    BY <2>1, <2>2, FS_AddElement
  <2> QED
    BY <2>2, <2>3, <2>4 DEF Y
<1>6. \A k \in 0 .. n : X \cap (1 .. k) \in SUBSET (1 .. n)
  OBVIOUS
<1> QED
  BY <1>2, <1>4, <1>5, <1>6

LEMMA ThroughIs ==
    ASSUME NEW t, NEW r, NEW leaves, NEW n \in Nat, DOMAIN leaves = 1 .. n, NEW i
    PROVE  ThroughIn(t, r, leaves, i) \in Nat
<1>1. {k \in DOMAIN leaves : On(t, r, leaves[k], i)} \in SUBSET (1 .. n)
  OBVIOUS
<1> QED
  BY <1>1, CountUpTo DEF ThroughIn

LEMMA ThroughOne ==
    ASSUME NEW t, NEW r, NEW leaf, NEW i
    PROVE  ThroughIn(t, r, <<leaf>>, i) = IF On(t, r, leaf, i) THEN 1 ELSE 0
<1> DEFINE X == {k \in DOMAIN <<leaf>> : On(t, r, <<leaf>>[k], i)}
<1>1. X = IF On(t, r, leaf, i) THEN {1} ELSE {}
  <2>1. DOMAIN <<leaf>> = {1} /\ <<leaf>>[1] = leaf
    OBVIOUS
  <2> QED
    BY <2>1
<1>2. Cardinality({1}) = 1 /\ Cardinality({}) = 0
  BY FS_Singleton, FS_EmptySet
<1> QED
  BY <1>1, <1>2 DEF ThroughIn

(* A node with other statistics. *)
Recounted(node, visits, total) == [node EXCEPT !.visits = visits, !.total = total]

LEMMA RecountedIs ==
    ASSUME NEW node \in Nodes, NEW visits \in Int, NEW total \in Int
    PROVE  LET new == Recounted(node, visits, total)
           IN  /\ new \in Nodes /\ SamePlace(node, new) /\ new.kids = node.kids
               /\ new.visits = visits /\ new.total = total
               /\ new.real = node.real /\ new.rtotal = node.rtotal /\ new.ends = node.ends
BY DEF Recounted, Nodes, SamePlace

PassedBy(leaves, i) == ThroughIn(arena, root, leaves, i)

LEMMA ThroughAre == \A leaves, i : Through(leaves, i) = PassedBy(leaves, i)
BY DEF Through, PassedBy, ThroughIn, On, PathIn, Path, Depth, Reach

LEMMA NodeHas ==
    ASSUME NEW node \in Nodes
    PROVE  /\ node.visits \in Int /\ node.total \in Int /\ node.real \in Int
           /\ node.rtotal \in Int /\ node.ends \in Int /\ node.kids \in SUBSET Nat
           /\ node.pos \in Seq(GameCells) /\ node.line \in Seq(Nat)
BY DEF Nodes

LEMMA RemoveIs ==
    ASSUME NEW a \in Seq(Nodes), NEW leaves, \A i : PassedBy(leaves, i) \in Nat
    PROVE  LET b == RemoveVirtualLoss(a, leaves)
           IN  /\ b \in Seq(Nodes) /\ Len(b) = Len(a)
               /\ \A i \in 1 .. Len(a) :
                     b[i] = Recounted(a[i], a[i].visits - PassedBy(leaves, i), a[i].total + PassedBy(leaves, i))
<1> DEFINE b == RemoveVirtualLoss(a, leaves)
           new(i) == Recounted(a[i], a[i].visits - PassedBy(leaves, i), a[i].total + PassedBy(leaves, i))
<1>1. b = [i \in 1 .. Len(a) |-> new(i)]
  <2>1. b = [i \in 1 .. Len(a) |->
                [a[i] EXCEPT !.visits = a[i].visits - PassedBy(leaves, i), !.total = a[i].total + PassedBy(leaves, i)]]
    <3>1. DOMAIN a = 1 .. Len(a)
      OBVIOUS
    <3> QED
      BY <3>1, ThroughAre, Zenon DEF RemoveVirtualLoss
  <2> QED
    BY <2>1 DEF Recounted
<1>2. \A i \in 1 .. Len(a) : a[i] \in Nodes /\ a[i].visits \in Int /\ a[i].total \in Int
  BY NodeHas
<1>3. \A i \in 1 .. Len(a) : new(i) \in Nodes
  BY <1>2, RecountedIs
<1>4. Len(a) \in Nat
  OBVIOUS
<1> HIDE DEF b, new
<1>5. b \in Seq(Nodes) /\ Len(b) = Len(a) /\ \A i \in 1 .. Len(a) : b[i] = new(i)
  BY <1>1, <1>3, <1>4
<1> QED
  BY <1>5 DEF b, new

LEMMA AddIs ==
    ASSUME NEW a \in Seq(Nodes), NEW leaves, \A i : PassedBy(leaves, i) \in Nat
    PROVE  LET b == AddVirtualLoss(a, leaves)
           IN  /\ b \in Seq(Nodes) /\ Len(b) = Len(a)
               /\ \A i \in 1 .. Len(a) :
                     b[i] = Recounted(a[i], a[i].visits + PassedBy(leaves, i), a[i].total - PassedBy(leaves, i))
<1> DEFINE b == AddVirtualLoss(a, leaves)
           new(i) == Recounted(a[i], a[i].visits + PassedBy(leaves, i), a[i].total - PassedBy(leaves, i))
<1>1. b = [i \in 1 .. Len(a) |-> new(i)]
  <2>1. b = [i \in 1 .. Len(a) |->
                [a[i] EXCEPT !.visits = a[i].visits + PassedBy(leaves, i), !.total = a[i].total - PassedBy(leaves, i)]]
    <3>1. DOMAIN a = 1 .. Len(a)
      OBVIOUS
    <3> QED
      BY <3>1, ThroughAre, Zenon DEF AddVirtualLoss
  <2> QED
    BY <2>1 DEF Recounted
<1>2. \A i \in 1 .. Len(a) : a[i] \in Nodes /\ a[i].visits \in Int /\ a[i].total \in Int
  BY NodeHas
<1>3. \A i \in 1 .. Len(a) : new(i) \in Nodes
  BY <1>2, RecountedIs
<1>4. Len(a) \in Nat
  OBVIOUS
<1> HIDE DEF b, new
<1>5. b \in Seq(Nodes) /\ Len(b) = Len(a) /\ \A i \in 1 .. Len(a) : b[i] = new(i)
  BY <1>1, <1>3, <1>4
<1> QED
  BY <1>5 DEF b, new

LEMMA MovesAre ==
    ASSUME NEW pos \in Seq(GameCells)
    PROVE  /\ Legal(pos) \in SUBSET GameCells /\ IsFiniteSet(Legal(pos))
           /\ RootLegal(pos) \in SUBSET GameCells /\ IsFiniteSet(RootLegal(pos))
<1>1. Legal(pos) \in SUBSET GameCells /\ RootLegal(pos) \in SUBSET GameCells
  BY EngineConstants DEF Legal, RootLegal
<1> QED
  BY <1>1, EngineConstants, FS_Subset

-----------------------------------------------------------------------------
(* One leaf of a batch. *)

Grown(t, a) ==
    /\ Len(a) >= Len(t)
    /\ \A i \in 1 .. Len(t) : SamePlace(t[i], a[i])
    /\ \A i \in Len(t) + 1 .. Len(a) : Blank(a[i])

Said(leaf, value) == IF Decided(arena[leaf].pos) THEN 1 ELSE value
Worth(i, leaf, value) ==
    IF Player(arena[i].pos) = Player(arena[leaf].pos) THEN Said(leaf, value) ELSE -Said(leaf, value)

(* What a leaf does to the tree: it opens its moves, and the nodes on its    *)
(* path give back a virtual loss for a visit.                                *)
LeafStep(a, b, leaf, value) ==
    /\ \A i \in 1 .. Len(a) :
          /\ SamePlace(a[i], b[i]) /\ b[i].visits = a[i].visits
          /\ b[i].real = a[i].real /\ b[i].rtotal = a[i].rtotal /\ b[i].ends = a[i].ends
          /\ b[i].total = a[i].total + (IF On(arena, root, leaf, i) THEN 1 + Worth(i, leaf, value) ELSE 0)
          /\ b[i].kids = IF i = leaf /\ Legal(arena[leaf].pos) # {} THEN Len(a) + 1 .. Len(b) ELSE a[i].kids
    /\ Len(b) >= Len(a)
    /\ \A i \in Len(a) + 1 .. Len(b) : Blank(b[i])

LEMMA LeafStepIs ==
    ASSUME TreeOK(arena), root \in 1 .. Len(arena), NEW a, TreeOK(a), Grown(arena, a),
           NEW leaf \in 1 .. Len(arena), Under(arena, root, leaf), NEW value \in Int
    PROVE  LET b == BackpropLeaf(a, leaf, value)
           IN  TreeOK(b) /\ Grown(arena, b) /\ LeafStep(a, b, leaf, value)
<1> DEFINE N == Len(arena)
           pos == arena[leaf].pos
           legal == Legal(pos)
           removed == RemoveVirtualLoss(a, <<leaf>>)
           opened == Expand(removed, leaf, legal)
           v == Said(leaf, value)
           p == Player(pos)
           s == Reverse(PathIn(arena, root, leaf))
           n == Len(PathIn(arena, root, leaf))
           b == Walked(opened, v, p, s)
<1>1. a[leaf].pos = pos /\ pos \in Seq(GameCells)
  <2>1. a[leaf].pos = pos
    BY DEF Grown, SamePlace
  <2>2. arena[leaf] \in Nodes
    BY LineIs
  <2> QED
    BY <2>1, <2>2 DEF Nodes
<1>2. BackpropLeaf(a, leaf, value) = b
  BY <1>1, Zenon DEF BackpropLeaf, Walked, Walk, Path, PathIn, Depth, Reach, Said
<1>3. v \in Int /\ p \in {0, 1} /\ legal \in SUBSET GameCells /\ IsFiniteSet(legal)
  BY <1>1, PlayerIs, MovesAre DEF Said
<1>4. a \in Seq(Nodes) /\ N \in Nat /\ Len(a) \in Nat /\ Len(a) >= N
  BY DEF TreeOK, Grown
<1>5. \A i : PassedBy(<<leaf>>, i) = IF On(arena, root, leaf, i) THEN 1 ELSE 0
  BY ThroughOne DEF PassedBy
<1>6. /\ removed \in Seq(Nodes) /\ Len(removed) = Len(a)
      /\ \A i \in 1 .. Len(a) :
            removed[i] = Recounted(a[i], a[i].visits - PassedBy(<<leaf>>, i), a[i].total + PassedBy(<<leaf>>, i))
  BY <1>4, <1>5, RemoveIs
<1>7. ASSUME NEW i \in 1 .. Len(a)
      PROVE  /\ a[i] \in Nodes /\ a[i].visits \in Int /\ a[i].total \in Int
             /\ removed[i] \in Nodes /\ SamePlace(a[i], removed[i]) /\ removed[i].kids = a[i].kids
             /\ removed[i].visits = a[i].visits - PassedBy(<<leaf>>, i)
             /\ removed[i].total = a[i].total + PassedBy(<<leaf>>, i)
             /\ removed[i].real = a[i].real /\ removed[i].rtotal = a[i].rtotal
             /\ removed[i].ends = a[i].ends
  <2>1. a[i] \in Nodes /\ a[i].visits \in Int /\ a[i].total \in Int
    BY <1>4, NodeHas
  <2>2. a[i].visits - PassedBy(<<leaf>>, i) \in Int /\ a[i].total + PassedBy(<<leaf>>, i) \in Int
    BY <1>5, <2>1
  <2> HIDE DEF removed
  <2> QED
    BY <1>6, <2>1, <2>2, RecountedIs
<1> HIDE DEF removed, opened, legal, pos, v, p, b
<1>8. TreeOK(removed)
  BY <1>4, <1>6, <1>7, ShapeKept
<1>9. leaf \in 1 .. Len(removed)
  BY <1>4, <1>6
<1>10. /\ TreeOK(opened) /\ Len(opened) >= Len(a)
       /\ \A j \in 1 .. Len(a) :
             opened[j] = IF j = leaf /\ legal # {} THEN WithKids(removed[j], Len(a) + 1 .. Len(opened)) ELSE removed[j]
       /\ \A j \in Len(a) + 1 .. Len(opened) : Blank(opened[j])
  <2> DEFINE r == removed
  <2> HIDE DEF r
  <2>1. opened = Expand(r, leaf, legal) /\ TreeOK(r) /\ leaf \in 1 .. Len(r) /\ Len(r) = Len(a)
    BY <1>6, <1>8, <1>9 DEF opened, r
  <2>2. /\ TreeOK(opened) /\ Len(opened) >= Len(r)
        /\ \A j \in 1 .. Len(r) :
              opened[j] = IF j = leaf /\ legal # {} THEN WithKids(r[j], Len(r) + 1 .. Len(opened)) ELSE r[j]
        /\ \A j \in Len(r) + 1 .. Len(opened) : Blank(opened[j])
    <3>1. legal \in SUBSET GameCells /\ IsFiniteSet(legal) /\ TreeOK(r) /\ leaf \in 1 .. Len(r)
      BY <1>3, <2>1
    <3> DEFINE o == Expand(r, leaf, legal)
    <3>2. /\ TreeOK(o) /\ Len(o) >= Len(r)
          /\ \A j \in 1 .. Len(r) :
                o[j] = IF j = leaf /\ legal # {} THEN WithKids(r[j], Len(r) + 1 .. Len(o)) ELSE r[j]
          /\ \A j \in Len(r) + 1 .. Len(o) : Blank(o[j])
      BY ONLY <3>1, ExpandIs
    <3>3. opened = o
      BY <2>1
    <3> HIDE DEF o
    <3> QED
      BY ONLY <3>2, <3>3
  <2> QED
    BY <2>1, <2>2 DEF r
<1>11. opened \in Seq(Nodes) /\ Len(opened) \in Nat
  BY <1>10 DEF TreeOK
<1>12. ASSUME NEW i \in 1 .. Len(a)
       PROVE  /\ opened[i] \in Nodes /\ SamePlace(a[i], opened[i])
              /\ opened[i].visits = a[i].visits - PassedBy(<<leaf>>, i)
              /\ opened[i].total = a[i].total + PassedBy(<<leaf>>, i)
              /\ opened[i].real = a[i].real /\ opened[i].rtotal = a[i].rtotal
              /\ opened[i].ends = a[i].ends
              /\ opened[i].kids = IF i = leaf /\ legal # {} THEN Len(a) + 1 .. Len(opened) ELSE a[i].kids
  <2> DEFINE kids == Len(a) + 1 .. Len(opened)
             w == WithKids(removed[i], kids)
  <2>1. kids \in SUBSET Nat
    BY <1>4
  <2>2. opened[i] = IF i = leaf /\ legal # {} THEN w ELSE removed[i]
    BY <1>10
  <2> HIDE DEF kids
  <2>3. /\ w \in Nodes /\ SamePlace(removed[i], w) /\ w.kids = kids
        /\ w.visits = removed[i].visits /\ w.total = removed[i].total /\ w.real = removed[i].real
        /\ w.rtotal = removed[i].rtotal /\ w.ends = removed[i].ends
    BY <1>7, <2>1, WithKidsIs
  <2> HIDE DEF w
  <2> QED
    BY <1>7, <2>2, <2>3 DEF SamePlace, kids
<1>13. /\ n \in Nat /\ DOMAIN s = 1 .. n
       /\ \A k \in 1 .. n : s[k] \in 1 .. Len(arena)
       /\ \A k, l \in 1 .. n : s[k] = s[l] => k = l
       /\ \A j : (\E k \in 1 .. n : s[k] = j) <=> On(arena, root, leaf, j)
  BY UpwardsIs
<1> HIDE DEF n, s
<1>14. \A k \in 1 .. n : s[k] \in 1 .. Len(opened)
  BY <1>4, <1>10, <1>11, <1>13
<1> DEFINE worth(i) == WorthTo(opened, v, p, i)
<1>15. /\ b \in Seq(Nodes) /\ Len(b) = Len(opened)
       /\ \A i \in 1 .. Len(opened) :
             b[i] = IF On(arena, root, leaf, i) THEN Counted(opened[i], worth(i)) ELSE opened[i]
  <2>1. /\ b \in Seq(Nodes) /\ Len(b) = Len(opened)
        /\ \A i \in 1 .. Len(opened) :
              b[i] = IF \E k \in 1 .. n : s[k] = i THEN Counted(opened[i], worth(i)) ELSE opened[i]
    <3>1. WayUp(opened, n, s) /\ v \in Int /\ p \in {0, 1}
      BY <1>3, <1>11, <1>13, <1>14 DEF WayUp
    <3>2. Tallied(opened, Walked(opened, v, p, s), n, s, v, p)
      BY ONLY <3>1, WalkCounts
    <3>3. b = Walked(opened, v, p, s)
      BY DEF b
    <3> QED
      BY <3>2, <3>3 DEF Tallied
  <2> HIDE DEF worth
  <2> QED
    BY <1>13, <2>1
<1>16. ASSUME NEW i \in 1 .. Len(opened)
       PROVE  /\ opened[i] \in Nodes /\ worth(i) \in Int
              /\ SamePlace(opened[i], b[i]) /\ b[i].kids = opened[i].kids
              /\ b[i].real = opened[i].real /\ b[i].rtotal = opened[i].rtotal
              /\ b[i].ends = opened[i].ends
              /\ b[i].visits = opened[i].visits + (IF On(arena, root, leaf, i) THEN 1 ELSE 0)
              /\ b[i].total = opened[i].total + (IF On(arena, root, leaf, i) THEN worth(i) ELSE 0)
  <2>1. opened[i] \in Nodes
    BY <1>11
  <2>2. worth(i) \in Int
    BY <1>3 DEF WorthTo
  <2> HIDE DEF worth
  <2>3. opened[i] \in Nodes /\ worth(i) \in Int /\ opened[i].visits \in Int /\ opened[i].total \in Int
    BY <2>1, <2>2, NodeHas
  <2>4. CASE On(arena, root, leaf, i)
    <3> DEFINE x == worth(i)
               c == Counted(opened[i], x)
    <3>1. b[i] = c /\ x \in Int
      BY <1>15, <2>3, <2>4
    <3> HIDE DEF x
    <3>2. /\ c.visits = opened[i].visits + 1 /\ c.total = opened[i].total + x
          /\ c.pos = opened[i].pos /\ c.line = opened[i].line
          /\ c.kids = opened[i].kids /\ c.ends = opened[i].ends
          /\ c.real = opened[i].real /\ c.rtotal = opened[i].rtotal
      BY <2>3, <3>1, CountedIs
    <3> QED
      BY <2>3, <2>4, <3>1, <3>2 DEF SamePlace, x
  <2>5. CASE ~On(arena, root, leaf, i)
    <3>1. b[i] = opened[i]
      BY <1>15, <2>5
    <3> QED
      BY <2>3, <2>5, <3>1 DEF SamePlace
  <2> QED
    BY <2>4, <2>5
<1>17. TreeOK(b)
  BY <1>10, <1>15, <1>16, ShapeKept
<1>18. \A i : On(arena, root, leaf, i) => i \in 1 .. N
  BY <1>13
<1>19. ASSUME NEW i \in Len(a) + 1 .. Len(b) PROVE Blank(b[i])
  <2>1. i \in 1 .. Len(opened) /\ Blank(opened[i]) /\ i \notin 1 .. N
    BY <1>4, <1>10, <1>15
  <2>2. ~On(arena, root, leaf, i)
    BY <1>18, <2>1
  <2> QED
    BY <1>15, <2>1, <2>2
<1>20. ASSUME NEW i \in 1 .. Len(a)
       PROVE  /\ SamePlace(a[i], b[i]) /\ b[i].visits = a[i].visits
              /\ b[i].real = a[i].real /\ b[i].rtotal = a[i].rtotal /\ b[i].ends = a[i].ends
              /\ b[i].total = a[i].total + (IF On(arena, root, leaf, i) THEN 1 + Worth(i, leaf, value) ELSE 0)
              /\ b[i].kids = IF i = leaf /\ legal # {} THEN Len(a) + 1 .. Len(b) ELSE a[i].kids
  <2>1. i \in 1 .. Len(opened)
    BY <1>4, <1>10, <1>11
  <2>2. On(arena, root, leaf, i) => worth(i) = Worth(i, leaf, value)
    <3>1. ASSUME On(arena, root, leaf, i) PROVE opened[i].pos = arena[i].pos
      BY <1>12, <1>18, <3>1 DEF SamePlace, Grown
    <3> QED
      BY <3>1 DEF Worth, WorthTo, p, pos, v
  <2>3. /\ opened[i] \in Nodes /\ worth(i) \in Int
        /\ SamePlace(opened[i], b[i]) /\ b[i].kids = opened[i].kids
        /\ b[i].real = opened[i].real /\ b[i].rtotal = opened[i].rtotal
        /\ b[i].ends = opened[i].ends
        /\ b[i].visits = opened[i].visits + (IF On(arena, root, leaf, i) THEN 1 ELSE 0)
        /\ b[i].total = opened[i].total + (IF On(arena, root, leaf, i) THEN worth(i) ELSE 0)
    BY <1>16, <2>1
  <2> HIDE DEF worth
  <2>4. b[i].visits = a[i].visits
    <3>1. a[i].visits \in Int
      BY <1>7, <2>1
    <3>2. opened[i].visits = a[i].visits - (IF On(arena, root, leaf, i) THEN 1 ELSE 0)
      BY <1>5, <1>12
    <3> QED
      BY ONLY <2>3, <3>1, <3>2
  <2>5. b[i].total = a[i].total + (IF On(arena, root, leaf, i) THEN 1 + Worth(i, leaf, value) ELSE 0)
    <3>1. CASE On(arena, root, leaf, i)
      <4> DEFINE x == worth(i)
      <4>1. x \in Int /\ x = Worth(i, leaf, value)
        BY <2>2, <2>3, <3>1
      <4>2. b[i].total = (a[i].total + 1) + x
        BY <1>5, <1>12, <2>3, <3>1
      <4>3. a[i].total \in Int
        BY <1>7
      <4> HIDE DEF x
      <4>4. b[i].total = a[i].total + (1 + x)
        BY <4>1, <4>2, <4>3
      <4> QED
        BY <3>1, <4>1, <4>4
    <3>2. CASE ~On(arena, root, leaf, i)
      BY <1>5, <1>7, <1>12, <2>3, <3>2
    <3> QED
      BY <3>1, <3>2
  <2> QED
    BY <1>12, <1>15, <2>3, <2>4, <2>5 DEF SamePlace
<1>21. Len(b) >= Len(a)
  BY <1>10, <1>15
<1>22. LeafStep(a, b, leaf, value)
  BY <1>19, <1>20, <1>21 DEF LeafStep, legal, pos
<1>23. Grown(arena, b)
  <2>1. ASSUME NEW i \in N + 1 .. Len(b) PROVE Blank(b[i])
    <3>1. CASE i \in 1 .. Len(a)
      <4>1. Blank(a[i]) /\ i # leaf /\ i \notin 1 .. N
        BY <1>4, <2>1, <3>1 DEF Grown
      <4>2. ~On(arena, root, leaf, i) /\ a[i].total \in Int
        BY <1>7, <1>18, <3>1, <4>1
      <4> QED
        BY <1>20, <3>1, <4>1, <4>2 DEF Blank
    <3>2. CASE i \notin 1 .. Len(a)
      BY <1>4, <1>19, <2>1, <3>2
    <3> QED
      BY <3>1, <3>2
  <2>2. \A i \in 1 .. N : SamePlace(arena[i], b[i])
    BY <1>4, <1>20 DEF Grown, SamePlace
  <2>3. Len(b) >= N
    BY <1>4, <1>11, <1>15, <1>21
  <2> QED
    BY <2>1, <2>2, <2>3 DEF Grown
<1> QED
  BY <1>2, <1>17, <1>22, <1>23

-----------------------------------------------------------------------------
(* The leaves of a batch, one after another. *)

BackpropAll(leaves, value) ==
    LET one(a, k) == BackpropLeaf(a, leaves[k], value[k])
    IN  FoldLeft(one, arena, [k \in DOMAIN leaves |-> k])

Later == {a \in Seq(Nodes) : TreeOK(a) /\ Grown(arena, a)}

LEMMA GrownItself == ASSUME TreeOK(arena) PROVE arena \in Later
<1>1. arena \in Seq(Nodes) /\ Len(arena) \in Nat
  BY DEF TreeOK
<1>2. \A i \in Len(arena) + 1 .. Len(arena) : FALSE
  BY <1>1
<1> QED
  BY <1>1, <1>2 DEF Later, Grown, SamePlace

LEMMA BackpropFolds ==
    ASSUME TreeOK(arena), root \in 1 .. Len(arena), NEW leaves, Batch(arena, root, leaves),
           NEW value, \A k \in 1 .. Len(leaves) : value[k] \in Int
    PROVE  \E g : /\ g[0] = arena
                  /\ \A k \in 1 .. Len(leaves) :
                        g[k] \in Later /\ LeafStep(g[k - 1], g[k], leaves[k], value[k])
                  /\ g[Len(leaves)] = BackpropAll(leaves, value)
<1> DEFINE n == Len(leaves)
           D == SUBSET (1 .. n)
           next(a, k) == BackpropLeaf(a, leaves[k], value[k])
           F == [q \in Later \X (1 .. n) |-> next(q[1], q[2])]
           s == [k \in DOMAIN leaves |-> k]
           it == CHOOSE it : it = [S \in D |-> IF S = {} THEN arena ELSE next(it[S \ {Max(S)}], s[Max(S)])]
           g == [k \in 0 .. n |-> it[1 .. k]]
<1>1. leaves \in Seq(1 .. Len(arena)) /\ n \in Nat /\ DOMAIN leaves = 1 .. n
  BY DEF Batch
<1>2. \A k \in 1 .. n : leaves[k] \in 1 .. Len(arena) /\ Under(arena, root, leaves[k])
  BY <1>1 DEF Batch
<1>3. DOMAIN s = 1 .. n /\ \A k \in 1 .. n : s[k] = k
  BY <1>1
<1>4. ASSUME NEW a \in Later, NEW k \in 1 .. n
      PROVE  next(a, k) \in Later /\ LeafStep(a, next(a, k), leaves[k], value[k])
  <2>1. TreeOK(a) /\ Grown(arena, a)
    BY DEF Later
  <2>2. TreeOK(next(a, k)) /\ Grown(arena, next(a, k)) /\ LeafStep(a, next(a, k), leaves[k], value[k])
    <3>1. leaves[k] \in 1 .. Len(arena) /\ Under(arena, root, leaves[k]) /\ value[k] \in Int
      BY <1>2
    <3> QED
      BY <2>1, <3>1, LeafStepIs
  <2> HIDE DEF next
  <2> QED
    BY <2>2 DEF Later, TreeOK
<1>5. F \in [Later \X (1 .. n) -> Later]
  BY <1>4
<1>6. \A a \in Later, k \in 1 .. n : F[<<a, k>>] = next(a, k)
  OBVIOUS
<1> HIDE DEF F, n
<1>7. PICK G \in [D -> Later] : Folds(G, F, arena, s, n)
  <2>1. arena \in Later /\ \A k \in 1 .. n : s[k] \in 1 .. n
    BY <1>3, GrownItself
  <2> HIDE DEF s
  <2> QED
    BY <1>1, <1>5, <2>1, FoldExists
<1>8. ASSUME NEW S \in D
      PROVE  G[S] = IF S = {} THEN arena ELSE next(G[S \ {Max(S)}], s[Max(S)])
  <2>1. S # {} => Max(S) \in 1 .. n
    BY <1>1, GreatestIsThere
  <2>2. S # {} => s[Max(S)] \in 1 .. n /\ G[S \ {Max(S)}] \in Later
    BY <1>3, <2>1
  <2> HIDE DEF next
  <2> QED
    BY <1>6, <1>7, <2>2 DEF Folds
<1>9. G = [S \in D |-> IF S = {} THEN arena ELSE next(G[S \ {Max(S)}], s[Max(S)])]
  <2> HIDE DEF next, s
  <2> QED
    BY <1>8
<1>10. it = [S \in D |-> IF S = {} THEN arena ELSE next(it[S \ {Max(S)}], s[Max(S)])]
  <2> HIDE DEF next, s
  <2> QED
    BY <1>9, Zenon
<1>11. BackpropAll(leaves, value) = it[1 .. n]
  BY <1>3, Zenon DEF BackpropAll, FoldLeft, MapThenFoldSet
<1> HIDE DEF it, next
<1>12. g[0] = arena
  <2>1. 1 .. 0 = {} /\ {} \in D /\ g[0] = it[1 .. 0]
    BY <1>1
  <2> QED
    BY <1>10, <2>1
<1>13. ASSUME NEW k \in 1 .. n PROVE g[k] = next(g[k - 1], k)
  <2>1. 1 .. k \in D /\ 1 .. k # {} /\ g[k] = it[1 .. k] /\ g[k - 1] = it[1 .. k - 1]
    <3>1. k \in 0 .. n /\ k - 1 \in 0 .. n /\ 1 \in 1 .. k /\ 1 .. k \subseteq 1 .. n
      BY <1>1, <1>13
    <3> HIDE DEF D
    <3>2. g[k] = it[1 .. k] /\ g[k - 1] = it[1 .. k - 1]
      BY <3>1
    <3> HIDE DEF g
    <3> QED
      BY <3>1, <3>2 DEF D
  <2>2. it[1 .. k] = next(it[(1 .. k) \ {Max(1 .. k)}], s[Max(1 .. k)])
    BY <1>10, <2>1
  <2>3. Max(1 .. k) = k /\ (1 .. k) \ {k} = 1 .. k - 1
    BY <1>1, GreatestIs
  <2>4. s[k] = k
    BY <1>3
  <2> HIDE DEF s, g
  <2> QED
    BY <2>1, <2>2, <2>3, <2>4
<1>14. g[n] = it[1 .. n]
  BY <1>1
<1> HIDE DEF g
<1> DEFINE P == {k \in Nat : k <= n => g[k] \in Later}
<1>15. 0 \in P /\ \A k \in Nat : k \in P => k + 1 \in P
  <2>1. 0 \in P
    BY <1>12, GrownItself
  <2>2. ASSUME NEW k \in Nat, k \in P PROVE k + 1 \in P
    <3>1. ASSUME k + 1 <= n PROVE g[k + 1] \in Later
      <4>1. k + 1 \in 1 .. n /\ g[k] \in Later /\ (k + 1) - 1 = k
        BY <1>1, <2>2, <3>1
      <4>2. g[k + 1] = next(g[k], k + 1)
        BY <1>13, <4>1
      <4> QED
        BY <1>4, <4>1, <4>2
    <3> QED
      BY <3>1
  <2> QED
    BY <2>1, <2>2
<1>16. \A k \in 0 .. n : g[k] \in Later
  <2>1. Nat \subseteq P
    <3> HIDE DEF P
    <3> QED
      BY <1>15, NatSetInduction
  <2> QED
    BY <1>1, <2>1
<1>17. \A k \in 1 .. n : g[k] \in Later /\ LeafStep(g[k - 1], g[k], leaves[k], value[k])
  <2> SUFFICES ASSUME NEW k \in 1 .. n
               PROVE  g[k] \in Later /\ LeafStep(g[k - 1], g[k], leaves[k], value[k])
    OBVIOUS
  <2>1. k - 1 \in 0 .. n
    BY <1>1
  <2> QED
    BY <1>4, <1>13, <1>16, <2>1
<1> QED
  BY <1>11, <1>12, <1>14, <1>17 DEF n

Alike(b) ==
    {a \in Seq(Nodes) : /\ Len(a) = Len(b)
                        /\ \A i \in 1 .. Len(b) : SamePlace(b[i], a[i]) /\ a[i].kids = b[i].kids}

AccountAll(b, leaves, value) ==
    LET account(a, k) == Account(a, leaves[k], value[k])
    IN  FoldLeft(account, b, [k \in DOMAIN leaves |-> k])

(* What is written down for a leaf. *)
AccountStep(a, b, leaf, value) ==
    \A i \in 1 .. Len(a) :
        /\ SamePlace(a[i], b[i]) /\ b[i].kids = a[i].kids
        /\ b[i].visits = a[i].visits /\ b[i].total = a[i].total
        /\ b[i].real = a[i].real + (IF On(arena, root, leaf, i) THEN 1 ELSE 0)
        /\ b[i].rtotal = a[i].rtotal + (IF On(arena, root, leaf, i) THEN Worth(i, leaf, value) ELSE 0)
        /\ b[i].ends = a[i].ends + (IF On(arena, root, leaf, i) /\ i = leaf THEN 1 ELSE 0)

LEMMA AlikeItself == ASSUME NEW b \in Later PROVE b \in Alike(b)
BY DEF Alike, Later, SamePlace

Booked(node, x, y) == [node EXCEPT !.real = @ + 1, !.rtotal = @ + x, !.ends = @ + y]

LEMMA BookedIs ==
    ASSUME NEW node \in Nodes, NEW x \in Int, NEW y \in Int
    PROVE  LET new == Booked(node, x, y)
           IN  /\ new \in Nodes /\ SamePlace(node, new) /\ new.kids = node.kids
               /\ new.visits = node.visits /\ new.total = node.total
               /\ new.real = node.real + 1 /\ new.rtotal = node.rtotal + x /\ new.ends = node.ends + y
<1>1. node.real + 1 \in Int /\ node.rtotal + x \in Int /\ node.ends + y \in Int
  BY NodeHas
<1> QED
  BY <1>1 DEF Booked, Nodes, SamePlace

LEMMA AccountIs ==
    ASSUME TreeOK(arena), root \in 1 .. Len(arena), NEW b \in Later, NEW a \in Alike(b),
           NEW leaf \in 1 .. Len(arena), Under(arena, root, leaf), NEW value \in Int
    PROVE  LET c == Account(a, leaf, value)
           IN  c \in Alike(b) /\ AccountStep(a, c, leaf, value)
<1> DEFINE c == Account(a, leaf, value)
           v == Said(leaf, value)
           worth(i) == IF Player(a[i].pos) = Player(a[leaf].pos) THEN v ELSE -v
           here(i) == IF i = leaf THEN 1 ELSE 0
           on(i) == On(arena, root, leaf, i)
           new(i) == IF on(i) THEN Booked(a[i], worth(i), here(i)) ELSE a[i]
<1>1. /\ a \in Seq(Nodes) /\ DOMAIN a = 1 .. Len(a) /\ Len(a) = Len(b) /\ Len(a) \in Nat
      /\ Len(arena) <= Len(a) /\ Len(arena) \in Nat
      /\ \A i \in 1 .. Len(a) : SamePlace(b[i], a[i]) /\ a[i].kids = b[i].kids
      /\ \A i \in 1 .. Len(arena) : SamePlace(arena[i], a[i])
  <2>1. a \in Seq(Nodes) /\ Len(a) = Len(b) /\ b \in Seq(Nodes) /\ Grown(arena, b) /\ arena \in Seq(Nodes)
        /\ \A i \in 1 .. Len(b) : SamePlace(b[i], a[i]) /\ a[i].kids = b[i].kids
    BY DEF Alike, Later, TreeOK
  <2>2. DOMAIN a = 1 .. Len(a) /\ Len(a) \in Nat /\ Len(arena) \in Nat
    BY <2>1
  <2>3. Len(b) >= Len(arena) /\ \A i \in 1 .. Len(arena) : SamePlace(arena[i], b[i])
    BY <2>1 DEF Grown
  <2>4. ASSUME NEW i \in 1 .. Len(arena) PROVE SamePlace(arena[i], a[i])
    <3>1. i \in 1 .. Len(b)
      BY <2>1, <2>2, <2>3
    <3> QED
      BY <2>1, <2>3, <3>1 DEF SamePlace
  <2>5. Len(arena) <= Len(a)
    BY <2>1, <2>2, <2>3
  <2> QED
    BY <2>1, <2>2, <2>4, <2>5
<1>2. a[leaf].pos = arena[leaf].pos
  BY <1>1 DEF SamePlace
<1>3. v \in Int
  BY DEF Said
<1>4. \A i : on(i) => i \in 1 .. Len(arena)
  BY UpwardsIs
<1>5. \A i : i \in ToSet(Path(leaf)) <=> on(i)
  BY DEF On, PathIn, Path, Depth, Reach
<1>6. ASSUME NEW i \in 1 .. Len(a)
      PROVE  /\ a[i] \in Nodes /\ worth(i) \in Int /\ here(i) \in Int
             /\ (on(i) => worth(i) = Worth(i, leaf, value))
  <2>1. a[i] \in Nodes /\ worth(i) \in Int /\ here(i) \in Int
    BY <1>1, <1>3
  <2>2. ASSUME on(i) PROVE a[i].pos = arena[i].pos
    BY <1>1, <1>4, <2>2 DEF SamePlace
  <2> QED
    BY <1>2, <2>1, <2>2 DEF Worth
<1>7. c = [i \in 1 .. Len(a) |-> new(i)]
  <2> DEFINE sign(i) == IF Player(a[i].pos) = Player(a[leaf].pos) THEN 1 ELSE -1
  <2>1. \A i \in 1 .. Len(a) : sign(i) * v = worth(i)
    BY <1>3
  <2>2. c = [i \in DOMAIN a |->
               IF i \in ToSet(Path(leaf))
               THEN [a[i] EXCEPT !.real = @ + 1, !.rtotal = @ + sign(i) * v, !.ends = @ + here(i)]
               ELSE a[i]]
    BY <1>2, Zenon DEF Account, Said
  <2>3. \A i \in 1 .. Len(a) : new(i) =
               IF i \in ToSet(Path(leaf))
               THEN [a[i] EXCEPT !.real = @ + 1, !.rtotal = @ + sign(i) * v, !.ends = @ + here(i)]
               ELSE a[i]
    <3> HIDE DEF sign, worth, here, on
    <3> QED
      BY <1>5, <2>1, Zenon DEF Booked
  <2> HIDE DEF new, sign, here, c
  <2> QED
    BY <1>1, <2>2, <2>3
<1>8. ASSUME NEW i \in 1 .. Len(a)
      PROVE  /\ new(i) \in Nodes /\ SamePlace(a[i], new(i)) /\ new(i).kids = a[i].kids
             /\ new(i).visits = a[i].visits /\ new(i).total = a[i].total
             /\ new(i).real = a[i].real + (IF on(i) THEN 1 ELSE 0)
             /\ new(i).rtotal = a[i].rtotal + (IF on(i) THEN Worth(i, leaf, value) ELSE 0)
             /\ new(i).ends = a[i].ends + (IF on(i) /\ i = leaf THEN 1 ELSE 0)
  <2> HIDE DEF worth, on
  <2>1. CASE on(i)
    <3> DEFINE x == worth(i)
               y == here(i)
               booked == Booked(a[i], x, y)
    <3>1. new(i) = booked /\ a[i] \in Nodes /\ x \in Int /\ y \in Int /\ x = Worth(i, leaf, value)
          /\ y = IF i = leaf THEN 1 ELSE 0
      BY <1>6, <2>1
    <3> HIDE DEF x, y
    <3>2. /\ booked \in Nodes /\ SamePlace(a[i], booked) /\ booked.kids = a[i].kids
          /\ booked.visits = a[i].visits /\ booked.total = a[i].total
          /\ booked.real = a[i].real + 1 /\ booked.rtotal = a[i].rtotal + x /\ booked.ends = a[i].ends + y
      <4>1. a[i] \in Nodes /\ x \in Int /\ y \in Int
        BY <3>1
      <4> QED
        BY ONLY <4>1, BookedIs
    <3> HIDE DEF new, booked
    <3> QED
      BY <2>1, <3>1, <3>2
  <2>2. CASE ~on(i)
    <3>1. new(i) = a[i] /\ a[i] \in Nodes
      BY <1>6, <2>2
    <3>2. a[i].real \in Int /\ a[i].rtotal \in Int /\ a[i].ends \in Int
      BY <3>1, NodeHas
    <3> HIDE DEF new
    <3> QED
      BY <2>2, <3>1, <3>2 DEF SamePlace
  <2> QED
    BY <2>1, <2>2
<1> HIDE DEF new, c, on
<1>9. c \in Seq(Nodes) /\ Len(c) = Len(a) /\ \A i \in 1 .. Len(a) : c[i] = new(i)
  BY <1>1, <1>7, <1>8
<1>10. c \in Alike(b)
  BY <1>1, <1>8, <1>9 DEF Alike, SamePlace
<1>11. AccountStep(a, c, leaf, value)
  BY <1>8, <1>9 DEF AccountStep, on
<1> QED
  BY <1>10, <1>11 DEF c

LEMMA AccountFolds ==
    ASSUME TreeOK(arena), root \in 1 .. Len(arena), NEW b \in Later, NEW leaves, Batch(arena, root, leaves),
           NEW value, \A k \in 1 .. Len(leaves) : value[k] \in Int
    PROVE  \E g : /\ g[0] = b
                  /\ \A k \in 1 .. Len(leaves) :
                        g[k] \in Alike(b) /\ AccountStep(g[k - 1], g[k], leaves[k], value[k])
                  /\ g[Len(leaves)] = AccountAll(b, leaves, value)
<1> DEFINE n == Len(leaves)
           D == SUBSET (1 .. n)
           next(a, k) == Account(a, leaves[k], value[k])
           F == [q \in Alike(b) \X (1 .. n) |-> next(q[1], q[2])]
           s == [k \in DOMAIN leaves |-> k]
           it == CHOOSE it : it = [S \in D |-> IF S = {} THEN b ELSE next(it[S \ {Max(S)}], s[Max(S)])]
           g == [k \in 0 .. n |-> it[1 .. k]]
<1>1. leaves \in Seq(1 .. Len(arena)) /\ n \in Nat /\ DOMAIN leaves = 1 .. n
  BY DEF Batch
<1>2. \A k \in 1 .. n : leaves[k] \in 1 .. Len(arena) /\ Under(arena, root, leaves[k])
  BY <1>1 DEF Batch
<1>3. DOMAIN s = 1 .. n /\ \A k \in 1 .. n : s[k] = k
  BY <1>1
<1>4. ASSUME NEW a \in Alike(b), NEW k \in 1 .. n
      PROVE  next(a, k) \in Alike(b) /\ AccountStep(a, next(a, k), leaves[k], value[k])
  <2>1. leaves[k] \in 1 .. Len(arena) /\ Under(arena, root, leaves[k]) /\ value[k] \in Int
    BY <1>2
  <2> QED
    BY <2>1, AccountIs
<1>5. F \in [Alike(b) \X (1 .. n) -> Alike(b)]
  BY <1>4
<1>6. \A a \in Alike(b), k \in 1 .. n : F[<<a, k>>] = next(a, k)
  OBVIOUS
<1> HIDE DEF F, n
<1>7. PICK G \in [D -> Alike(b)] : Folds(G, F, b, s, n)
  <2>1. b \in Alike(b) /\ \A k \in 1 .. n : s[k] \in 1 .. n
    BY <1>3, AlikeItself
  <2> HIDE DEF s
  <2> QED
    BY <1>1, <1>5, <2>1, FoldExists
<1>8. ASSUME NEW S \in D
      PROVE  G[S] = IF S = {} THEN b ELSE next(G[S \ {Max(S)}], s[Max(S)])
  <2>1. S # {} => Max(S) \in 1 .. n
    BY <1>1, GreatestIsThere
  <2>2. S # {} => s[Max(S)] \in 1 .. n /\ G[S \ {Max(S)}] \in Alike(b)
    BY <1>3, <2>1
  <2> HIDE DEF next
  <2> QED
    BY <1>6, <1>7, <2>2 DEF Folds
<1>9. G = [S \in D |-> IF S = {} THEN b ELSE next(G[S \ {Max(S)}], s[Max(S)])]
  <2> HIDE DEF next, s
  <2> QED
    BY <1>8
<1>10. it = [S \in D |-> IF S = {} THEN b ELSE next(it[S \ {Max(S)}], s[Max(S)])]
  <2> HIDE DEF next, s
  <2> QED
    BY <1>9, Zenon
<1>11. AccountAll(b, leaves, value) = it[1 .. n]
  BY <1>3, Zenon DEF AccountAll, FoldLeft, MapThenFoldSet
<1> HIDE DEF it, next
<1>12. g[0] = b
  <2>1. 1 .. 0 = {} /\ {} \in D /\ g[0] = it[1 .. 0]
    BY <1>1
  <2> QED
    BY <1>10, <2>1
<1>13. ASSUME NEW k \in 1 .. n PROVE g[k] = next(g[k - 1], k)
  <2>1. 1 .. k \in D /\ 1 .. k # {} /\ g[k] = it[1 .. k] /\ g[k - 1] = it[1 .. k - 1]
    <3>1. k \in 0 .. n /\ k - 1 \in 0 .. n /\ 1 \in 1 .. k /\ 1 .. k \subseteq 1 .. n
      BY <1>1, <1>13
    <3> HIDE DEF D
    <3>2. g[k] = it[1 .. k] /\ g[k - 1] = it[1 .. k - 1]
      BY <3>1
    <3> HIDE DEF g
    <3> QED
      BY <3>1, <3>2 DEF D
  <2>2. it[1 .. k] = next(it[(1 .. k) \ {Max(1 .. k)}], s[Max(1 .. k)])
    BY <1>10, <2>1
  <2>3. Max(1 .. k) = k /\ (1 .. k) \ {k} = 1 .. k - 1
    BY <1>1, GreatestIs
  <2>4. s[k] = k
    BY <1>3
  <2> HIDE DEF s, g
  <2> QED
    BY <2>1, <2>2, <2>3, <2>4
<1>14. g[n] = it[1 .. n]
  BY <1>1
<1> HIDE DEF g
<1> DEFINE P == {k \in Nat : k <= n => g[k] \in Alike(b)}
<1>15. 0 \in P /\ \A k \in Nat : k \in P => k + 1 \in P
  <2>1. 0 \in P
    BY <1>12, AlikeItself
  <2>2. ASSUME NEW k \in Nat, k \in P PROVE k + 1 \in P
    <3>1. ASSUME k + 1 <= n PROVE g[k + 1] \in Alike(b)
      <4>1. k + 1 \in 1 .. n /\ g[k] \in Alike(b) /\ (k + 1) - 1 = k
        BY <1>1, <2>2, <3>1
      <4>2. g[k + 1] = next(g[k], k + 1)
        BY <1>13, <4>1
      <4> QED
        BY <1>4, <4>1, <4>2
    <3> QED
      BY <3>1
  <2> QED
    BY <2>1, <2>2
<1>16. \A k \in 0 .. n : g[k] \in Alike(b)
  <2>1. Nat \subseteq P
    <3> HIDE DEF P
    <3> QED
      BY <1>15, NatSetInduction
  <2> QED
    BY <1>1, <2>1
<1>17. \A k \in 1 .. n : g[k] \in Alike(b) /\ AccountStep(g[k - 1], g[k], leaves[k], value[k])
  <2> SUFFICES ASSUME NEW k \in 1 .. n
               PROVE  g[k] \in Alike(b) /\ AccountStep(g[k - 1], g[k], leaves[k], value[k])
    OBVIOUS
  <2>1. k - 1 \in 0 .. n
    BY <1>1
  <2> QED
    BY <1>4, <1>13, <1>16, <2>1
<1> QED
  BY <1>11, <1>12, <1>14, <1>17 DEF n

-----------------------------------------------------------------------------
Stats(t, r, leaves) ==
    \A i \in 1 .. Len(t) : /\ t[i].visits = t[i].real + ThroughIn(t, r, leaves, i)
                           /\ t[i].total = t[i].rtotal - ThroughIn(t, r, leaves, i)

(* The tree is well formed, what is pending lies below the root, and the     *)
(* statistics are right.                                                     *)
TreeInv ==
    /\ TreeOK(arena)
    /\ root \in 1 .. Len(arena)
    /\ Batch(arena, root, pending)
    /\ Stats(arena, root, pending)

LEMMA StatsAre == TreeInv => NodeStats
<1> SUFFICES ASSUME TreeInv PROVE NodeStats
  OBVIOUS
<1>1. DOMAIN arena = 1 .. Len(arena)
  BY DEF TreeInv, TreeOK
<1>2. \A i : Through(pending, i) = ThroughIn(arena, root, pending, i)
  BY ThroughAre DEF PassedBy
<1> QED
  BY <1>1, <1>2 DEF TreeInv, Stats, NodeStats

(* The paths stay when a tree grows. *)
LEMMA SamePath ==
    ASSUME NEW t, TreeOK(t), NEW r \in 1 .. Len(t), NEW u,
           \A i \in 1 .. Len(t) : SamePlace(t[i], u[i]), NEW leaf \in 1 .. Len(t)
    PROVE  PathIn(u, r, leaf) = PathIn(t, r, leaf) /\ Reach(u, leaf) = Reach(t, leaf)
<1>1. 1 \in 1 .. Len(t)
  BY DEF TreeOK
<1> QED
  BY <1>1 DEF SamePlace, Reach, PathIn

LEMMA SamePaths ==
    ASSUME NEW t, TreeOK(t), NEW r \in 1 .. Len(t), NEW u, Len(u) \in Nat, Len(u) >= Len(t),
           \A i \in 1 .. Len(t) : SamePlace(t[i], u[i]), NEW leaves, Batch(t, r, leaves)
    PROVE  /\ Batch(u, r, leaves)
           /\ \A i : ThroughIn(u, r, leaves, i) = ThroughIn(t, r, leaves, i)
           /\ \A i : ThroughIn(t, r, leaves, i) \in Nat
           /\ \A i : i \notin 1 .. Len(t) => ThroughIn(t, r, leaves, i) = 0
<1>1. leaves \in Seq(1 .. Len(t)) /\ Len(leaves) \in Nat /\ DOMAIN leaves = 1 .. Len(leaves)
  BY DEF Batch
<1>2. \A k \in 1 .. Len(leaves) : leaves[k] \in 1 .. Len(t) /\ Under(t, r, leaves[k])
  BY <1>1 DEF Batch
<1>3. 1 \in 1 .. Len(t) /\ Len(t) \in Nat
  BY DEF TreeOK
<1>4. \A i \in 1 .. Len(t) : Reach(u, i) = Reach(t, i) /\ u[i].line = t[i].line
  BY <1>3 DEF SamePlace, Reach
<1>5. \A k \in 1 .. Len(leaves) : PathIn(u, r, leaves[k]) = PathIn(t, r, leaves[k])
  BY <1>2, <1>4 DEF PathIn
<1>6. ASSUME NEW i PROVE ThroughIn(u, r, leaves, i) = ThroughIn(t, r, leaves, i)
  <2>1. {k \in DOMAIN leaves : On(u, r, leaves[k], i)} = {k \in DOMAIN leaves : On(t, r, leaves[k], i)}
    BY <1>1, <1>5 DEF On
  <2> QED
    BY <2>1 DEF ThroughIn
<1>7. Batch(u, r, leaves)
  <2>1. \A k \in 1 .. Len(leaves) : leaves[k] \in 1 .. Len(u)
    BY <1>2, <1>3
  <2>2. leaves \in Seq(1 .. Len(u))
    BY <1>1, <2>1
  <2>3. \A k \in 1 .. Len(leaves) : Under(u, r, leaves[k])
    BY <1>2, <1>4 DEF Under
  <2> QED
    BY <2>2, <2>3 DEF Batch
<1>8. \A i : ThroughIn(t, r, leaves, i) \in Nat
  BY <1>1, ThroughIs
<1>9. ASSUME NEW i, i \notin 1 .. Len(t) PROVE ThroughIn(t, r, leaves, i) = 0
  <2>1. \A k \in 1 .. Len(leaves) : ~On(t, r, leaves[k], i)
    BY <1>2, <1>9, UpwardsIs
  <2>2. {k \in DOMAIN leaves : On(t, r, leaves[k], i)} = {}
    BY <1>1, <2>1
  <2> QED
    BY <2>2, FS_EmptySet DEF ThroughIn
<1> QED
  BY <1>6, <1>7, <1>8, <1>9

LEMMA NothingPending ==
    ASSUME NEW t, NEW r
    PROVE  /\ Batch(t, r, <<>>)
           /\ \A i : ThroughIn(t, r, <<>>, i) = 0
<1>1. <<>> \in Seq(1 .. Len(t)) /\ Len(<<>>) = 0 /\ DOMAIN <<>> = {} /\ 1 .. 0 = {}
  OBVIOUS
<1>2. Batch(t, r, <<>>)
  BY <1>1 DEF Batch
<1>3. ASSUME NEW i PROVE ThroughIn(t, r, <<>>, i) = 0
  <2>1. {k \in DOMAIN <<>> : On(t, r, <<>>[k], i)} = {}
    BY <1>1
  <2> QED
    BY <2>1, FS_EmptySet DEF ThroughIn
<1> QED
  BY <1>2, <1>3

LEMMA StatsSettled ==
    ASSUME NEW t, NEW r,
           \A i \in 1 .. Len(t) : /\ t[i].visits = t[i].real /\ t[i].total = t[i].rtotal
                                  /\ t[i].real \in Int /\ t[i].rtotal \in Int
    PROVE  Stats(t, r, <<>>)
<1> DEFINE none == <<>>
<1>1. \A i : ThroughIn(t, r, none, i) = 0
  BY NothingPending
<1> HIDE DEF none
<1>2. Stats(t, r, none)
  BY <1>1 DEF Stats
<1> QED
  BY <1>2 DEF none

LEMMA FreshStats ==
    ASSUME NEW pos \in Seq(GameCells)
    PROVE  /\ TreeOK(FreshArena(pos)) /\ 1 \in 1 .. Len(FreshArena(pos))
           /\ Batch(FreshArena(pos), 1, <<>>) /\ Stats(FreshArena(pos), 1, <<>>)
<1> DEFINE t == FreshArena(pos)
<1>1. TreeOK(t)
  BY FreshTree
<1>2. Len(t) = 1 /\ t[1] = Node(pos, <<1>>)
  BY DEF FreshArena
<1>3. t[1].visits = 0 /\ t[1].total = 0 /\ t[1].real = 0 /\ t[1].rtotal = 0
  <2>1. <<1>> \in Seq(Nat)
    OBVIOUS
  <2> DEFINE line == <<1>>
  <2> HIDE DEF line
  <2>2. line \in Seq(Nat) /\ t[1] = Node(pos, line)
    BY <1>2, <2>1 DEF line
  <2> QED
    BY <2>2, NodeIs
<1> HIDE DEF t
<1>4. Stats(t, 1, <<>>)
  BY <1>2, <1>3, StatsSettled
<1> QED
  BY <1>1, <1>2, <1>4, NothingPending DEF t

LEMMA TreeStarts == EngineInit => TreeInv
BY FreshStats, EngineConstants DEF EngineInit, TreeInv

LEMMA FreshEngineTree ==
    ASSUME NEW pos \in Seq(GameCells), FreshEngine(pos)
    PROVE  TreeInv'
<1>1. arena' = FreshArena(pos) /\ root' = 1 /\ pending' = <<>>
  BY DEF FreshEngine
<1> QED
  BY <1>1, FreshStats DEF TreeInv

LEMMA ExpandRootTree ==
    ASSUME TreeInv, NEW token, ExpandRoot(token)
    PROVE  TreeInv'
<1> DEFINE legal == RootLegal(arena[root].pos)
           b == Expand(arena, root, legal)
<1>1. TreeOK(arena) /\ root \in 1 .. Len(arena) /\ Batch(arena, root, pending) /\ Stats(arena, root, pending)
  BY DEF TreeInv
<1>2. arena' = b /\ root' = root /\ pending' = pending
  BY DEF ExpandRoot
<1>3. legal \in SUBSET GameCells /\ IsFiniteSet(legal)
  <2>1. arena[root].pos \in Seq(GameCells)
    BY <1>1, LineIs DEF Nodes
  <2> QED
    BY <2>1, MovesAre
<1> HIDE DEF legal
<1>4. /\ TreeOK(b) /\ Len(b) >= Len(arena)
      /\ \A j \in 1 .. Len(arena) :
            b[j] = IF j = root /\ legal # {} THEN WithKids(arena[j], Len(arena) + 1 .. Len(b)) ELSE arena[j]
      /\ \A j \in Len(arena) + 1 .. Len(b) : Blank(b[j])
  BY <1>1, <1>3, ExpandIs
<1>5. Len(arena) \in Nat /\ Len(b) \in Nat /\ \A j \in 1 .. Len(arena) : arena[j] \in Nodes
  BY <1>1, <1>4 DEF TreeOK
<1> HIDE DEF b
<1>6. ASSUME NEW j \in 1 .. Len(arena)
      PROVE  /\ SamePlace(arena[j], b[j])
             /\ b[j].visits = arena[j].visits /\ b[j].total = arena[j].total
             /\ b[j].real = arena[j].real /\ b[j].rtotal = arena[j].rtotal
  <2> DEFINE kids == Len(arena) + 1 .. Len(b)
             w == WithKids(arena[j], kids)
  <2>1. kids \in SUBSET Nat /\ arena[j] \in Nodes
    BY <1>5
  <2>2. b[j] = w \/ b[j] = arena[j]
    BY <1>4
  <2> HIDE DEF kids
  <2>3. /\ SamePlace(arena[j], w) /\ w.visits = arena[j].visits /\ w.total = arena[j].total
        /\ w.real = arena[j].real /\ w.rtotal = arena[j].rtotal
    BY <2>1, WithKidsIs
  <2> HIDE DEF w
  <2> QED
    BY <2>2, <2>3 DEF SamePlace
<1>7. /\ Batch(b, root, pending)
      /\ \A i : ThroughIn(b, root, pending, i) = ThroughIn(arena, root, pending, i)
      /\ \A i : i \notin 1 .. Len(arena) => ThroughIn(arena, root, pending, i) = 0
  BY <1>1, <1>4, <1>5, <1>6, SamePaths
<1>8. Stats(b, root, pending)
  <2> SUFFICES ASSUME NEW i \in 1 .. Len(b)
               PROVE  /\ b[i].visits = b[i].real + ThroughIn(b, root, pending, i)
                      /\ b[i].total = b[i].rtotal - ThroughIn(b, root, pending, i)
    BY DEF Stats
  <2>1. CASE i \in 1 .. Len(arena)
    BY <1>1, <1>6, <1>7, <2>1 DEF Stats
  <2>2. CASE i \notin 1 .. Len(arena)
    <3>1. Blank(b[i])
      BY <1>4, <1>5, <2>2
    <3> QED
      BY <1>7, <2>2, <3>1 DEF Blank
  <2> QED
    BY <2>1, <2>2
<1>9. root \in 1 .. Len(b)
  BY <1>1, <1>4, <1>5
<1> QED
  BY <1>2, <1>4, <1>7, <1>8, <1>9 DEF TreeInv

(* What taking the pending leaves back leaves. *)
LEMMA TakenBack ==
    ASSUME TreeInv
    PROVE  LET b == RemoveVirtualLoss(arena, pending)
           IN  /\ b \in Seq(Nodes) /\ Len(b) = Len(arena) /\ Len(arena) \in Nat
               /\ \A i \in 1 .. Len(arena) :
                     /\ b[i] \in Nodes /\ SamePlace(arena[i], b[i])
                     /\ b[i].kids = arena[i].kids /\ b[i].ends = arena[i].ends
                     /\ b[i].visits = b[i].real /\ b[i].total = b[i].rtotal
                     /\ b[i].real = arena[i].real /\ b[i].rtotal = arena[i].rtotal
<1> DEFINE b == RemoveVirtualLoss(arena, pending)
<1>1. TreeOK(arena) /\ root \in 1 .. Len(arena) /\ Batch(arena, root, pending) /\ Stats(arena, root, pending)
  BY DEF TreeInv
<1>2. arena \in Seq(Nodes) /\ Len(arena) \in Nat
  BY <1>1 DEF TreeOK
<1>3. \A i : PassedBy(pending, i) \in Nat
  <2>1. pending \in Seq(1 .. Len(arena))
    BY <1>1 DEF Batch
  <2> QED
    BY <2>1, ThroughIs DEF PassedBy
<1>4. /\ b \in Seq(Nodes) /\ Len(b) = Len(arena)
      /\ \A i \in 1 .. Len(arena) :
            b[i] = Recounted(arena[i], arena[i].visits - PassedBy(pending, i), arena[i].total + PassedBy(pending, i))
  BY <1>2, <1>3, RemoveIs
<1> HIDE DEF b
<1>5. ASSUME NEW i \in 1 .. Len(arena)
      PROVE  /\ b[i] \in Nodes /\ SamePlace(arena[i], b[i])
             /\ b[i].kids = arena[i].kids /\ b[i].ends = arena[i].ends
             /\ b[i].visits = b[i].real /\ b[i].total = b[i].rtotal
             /\ b[i].real = arena[i].real /\ b[i].rtotal = arena[i].rtotal
  <2> DEFINE x == arena[i].visits - PassedBy(pending, i)
             y == arena[i].total + PassedBy(pending, i)
             new == Recounted(arena[i], x, y)
  <2>1. /\ arena[i] \in Nodes /\ arena[i].visits \in Int /\ arena[i].total \in Int
        /\ arena[i].real \in Int /\ arena[i].rtotal \in Int
    BY <1>2, NodeHas
  <2>2. x = arena[i].real /\ y = arena[i].rtotal /\ x \in Int /\ y \in Int
    <3>1. /\ arena[i].visits = arena[i].real + PassedBy(pending, i)
          /\ arena[i].total = arena[i].rtotal - PassedBy(pending, i)
      BY <1>1 DEF Stats, PassedBy
    <3> QED
      BY <1>3, <2>1, <3>1
  <2>3. b[i] = new
    BY <1>4
  <2> HIDE DEF x, y
  <2>4. /\ new \in Nodes /\ SamePlace(arena[i], new) /\ new.kids = arena[i].kids
        /\ new.visits = x /\ new.total = y
        /\ new.real = arena[i].real /\ new.rtotal = arena[i].rtotal /\ new.ends = arena[i].ends
    BY <2>1, <2>2, RecountedIs
  <2> HIDE DEF new
  <2> QED
    BY <2>2, <2>3, <2>4
<1> QED
  BY <1>2, <1>4, <1>5 DEF b

LEMMA SelectTree ==
    ASSUME TreeInv, NEW leaves \in TupleOf(Leaves, BatchLimit), SelectLeaves(leaves)
    PROVE  TreeInv'
<1> DEFINE b == RemoveVirtualLoss(arena, pending)
           c == AddVirtualLoss(b, leaves)
<1>1. TreeOK(arena) /\ root \in 1 .. Len(arena) /\ Batch(arena, root, pending) /\ Stats(arena, root, pending)
  BY DEF TreeInv
<1>2. arena' = c /\ root' = root /\ pending' = leaves
  BY DEF SelectLeaves
<1>3. /\ b \in Seq(Nodes) /\ Len(b) = Len(arena) /\ Len(arena) \in Nat
      /\ \A i \in 1 .. Len(arena) :
            /\ b[i] \in Nodes /\ SamePlace(arena[i], b[i]) /\ b[i].kids = arena[i].kids
            /\ b[i].visits = b[i].real /\ b[i].total = b[i].rtotal
  BY TakenBack
<1>4. Batch(arena, root, leaves)
  <2>1. BatchLimit \in Nat
    <3>1. Len(leaves) = BatchLimit /\ DOMAIN leaves = 1 .. BatchLimit
      BY DEF SelectLeaves, TupleOf
    <3> QED
      BY <3>1
  <2>2. leaves \in Seq(Leaves)
    BY <2>1 DEF TupleOf
  <2>3. \A i \in Leaves : i \in 1 .. Len(arena) /\ Under(arena, root, i)
    BY <1>1 DEF Leaves, InTree, Below, Depth, Under, Reach, TreeOK
  <2>4. leaves \in Seq(1 .. Len(arena)) /\ \A k \in 1 .. Len(leaves) : leaves[k] \in Leaves
    BY <2>2, <2>3
  <2> QED
    BY <2>3, <2>4 DEF Batch
<1>5. \A i : PassedBy(leaves, i) \in Nat
  BY <1>1, <1>3, <1>4, SamePaths DEF PassedBy, SamePlace
<1>6. /\ c \in Seq(Nodes) /\ Len(c) = Len(arena)
      /\ \A i \in 1 .. Len(arena) :
            c[i] = Recounted(b[i], b[i].visits + PassedBy(leaves, i), b[i].total - PassedBy(leaves, i))
  BY <1>3, <1>5, AddIs
<1> HIDE DEF b, c
<1>7. ASSUME NEW i \in 1 .. Len(arena)
      PROVE  /\ SamePlace(arena[i], c[i]) /\ c[i].kids = arena[i].kids
             /\ c[i].visits = c[i].real + PassedBy(leaves, i) /\ c[i].total = c[i].rtotal - PassedBy(leaves, i)
  <2> DEFINE x == b[i].visits + PassedBy(leaves, i)
             y == b[i].total - PassedBy(leaves, i)
             new == Recounted(b[i], x, y)
  <2>1. b[i] \in Nodes /\ b[i].visits \in Int /\ b[i].total \in Int
    BY <1>3, NodeHas
  <2>2. x \in Int /\ y \in Int /\ c[i] = new
    BY <1>5, <1>6, <2>1
  <2>3. x = b[i].real + PassedBy(leaves, i) /\ y = b[i].rtotal - PassedBy(leaves, i)
    BY <1>3
  <2> HIDE DEF x, y
  <2>4. /\ SamePlace(b[i], new) /\ new.kids = b[i].kids /\ new.visits = x /\ new.total = y
        /\ new.real = b[i].real /\ new.rtotal = b[i].rtotal
    BY <2>1, <2>2, RecountedIs
  <2> HIDE DEF new
  <2> QED
    BY <1>3, <2>2, <2>4, <2>3 DEF SamePlace
<1>8. TreeOK(c)
  BY <1>1, <1>6, <1>7, ShapeKept
<1>9. Batch(c, root, leaves) /\ \A i : ThroughIn(c, root, leaves, i) = PassedBy(leaves, i)
  <2>1. Len(c) \in Nat /\ Len(c) >= Len(arena) /\ \A i \in 1 .. Len(arena) : SamePlace(arena[i], c[i])
    BY <1>3, <1>6, <1>7
  <2> QED
    BY <1>1, <1>4, <2>1, SamePaths DEF PassedBy
<1>10. Stats(c, root, leaves)
  BY <1>6, <1>7, <1>9 DEF Stats
<1> QED
  BY <1>1, <1>2, <1>6, <1>8, <1>9, <1>10 DEF TreeInv

LEMMA ReRootTree ==
    ASSUME TreeInv, NEW kid, ReRoot(kid)
    PROVE  TreeInv'
<1> DEFINE b == RemoveVirtualLoss(arena, pending)
           kept == IF arena[kid].pos \in Threatened THEN {} ELSE b[kid].kids
           c == [b EXCEPT ![kid].kids = kept]
<1>1. TreeOK(arena) /\ root \in 1 .. Len(arena)
  BY DEF TreeInv
<1>2. arena' = c /\ root' = kid /\ pending' = <<>>
  BY DEF ReRoot
<1>3. /\ b \in Seq(Nodes) /\ Len(b) = Len(arena)
      /\ \A i \in 1 .. Len(arena) :
            /\ b[i] \in Nodes /\ SamePlace(arena[i], b[i]) /\ b[i].kids = arena[i].kids
            /\ b[i].visits = b[i].real /\ b[i].total = b[i].rtotal
  BY TakenBack
<1>4. kid \in 1 .. Len(arena)
  BY <1>1 DEF ReRoot, TreeOK, KidsOK
<1> HIDE DEF b
<1>5. c = [b EXCEPT ![kid] = WithKids(b[kid], kept)]
  BY DEF WithKids
<1>6. kept \in SUBSET Nat /\ b[kid] \in Nodes /\ kept \subseteq arena[kid].kids
  BY <1>3, <1>4, NodeHas
<1> DEFINE new == WithKids(b[kid], kept)
<1> HIDE DEF kept
<1>7. /\ new \in Nodes /\ SamePlace(b[kid], new) /\ new.kids = kept
      /\ new.visits = b[kid].visits /\ new.total = b[kid].total /\ new.real = b[kid].real
      /\ new.rtotal = b[kid].rtotal
  BY <1>6, WithKidsIs
<1> HIDE DEF c, new
<1>8. c \in Seq(Nodes) /\ Len(c) = Len(arena) /\ \A i \in 1 .. Len(arena) : c[i] = IF i = kid THEN new ELSE b[i]
  BY <1>3, <1>4, <1>5, <1>7 DEF new
<1>9. \A i \in 1 .. Len(arena) : /\ SamePlace(arena[i], c[i]) /\ c[i].kids \subseteq arena[i].kids
                                 /\ c[i].visits = c[i].real /\ c[i].total = c[i].rtotal
                                 /\ c[i].real \in Int /\ c[i].rtotal \in Int
  <2> SUFFICES ASSUME NEW i \in 1 .. Len(arena)
               PROVE  /\ SamePlace(arena[i], c[i]) /\ c[i].kids \subseteq arena[i].kids
                      /\ c[i].visits = c[i].real /\ c[i].total = c[i].rtotal
                      /\ c[i].real \in Int /\ c[i].rtotal \in Int
    OBVIOUS
  <2>1. /\ b[i] \in Nodes /\ SamePlace(arena[i], b[i]) /\ b[i].kids = arena[i].kids
        /\ b[i].visits = b[i].real /\ b[i].total = b[i].rtotal
    BY <1>3
  <2>2. c[i] \in Nodes
    BY <1>7, <1>8, <2>1
  <2>3. c[i].real \in Int /\ c[i].rtotal \in Int
    BY <2>2, NodeHas
  <2>4. CASE i = kid
    <3>1. /\ c[i] = new /\ SamePlace(b[i], new) /\ new.kids = kept
          /\ new.visits = b[i].visits /\ new.total = b[i].total
          /\ new.real = b[i].real /\ new.rtotal = b[i].rtotal
      BY <1>7, <1>8, <2>4
    <3> QED
      BY <1>6, <2>1, <2>3, <2>4, <3>1 DEF SamePlace
  <2>5. CASE i # kid
    <3>1. c[i] = b[i]
      BY <1>8, <2>5
    <3> QED
      BY <2>1, <2>3, <3>1
  <2> QED
    BY <2>4, <2>5
<1>10. TreeOK(c)
  BY <1>1, <1>8, <1>9, ShapeKept
<1>11. Stats(c, kid, <<>>)
  BY <1>8, <1>9, StatsSettled
<1> QED
  BY <1>2, <1>4, <1>8, <1>10, <1>11, NothingPending DEF TreeInv

LEMMA ReRootMissingTree ==
    ASSUME TreeInv, ReRootMissing
    PROVE  TreeInv'
<1> DEFINE b == RemoveVirtualLoss(arena, pending)
<1>1. TreeOK(arena) /\ root \in 1 .. Len(arena)
  BY DEF TreeInv
<1>2. arena' = b /\ root' = root /\ pending' = <<>>
  BY DEF ReRootMissing
<1>3. /\ b \in Seq(Nodes) /\ Len(b) = Len(arena)
      /\ \A i \in 1 .. Len(arena) :
            /\ b[i] \in Nodes /\ SamePlace(arena[i], b[i]) /\ b[i].kids = arena[i].kids
            /\ b[i].visits = b[i].real /\ b[i].total = b[i].rtotal
  BY TakenBack
<1> HIDE DEF b
<1>4. \A i \in 1 .. Len(arena) : b[i].real \in Int /\ b[i].rtotal \in Int
  BY <1>3, NodeHas
<1>5. TreeOK(b)
  BY <1>1, <1>3, ShapeKept
<1>6. Stats(b, root, <<>>)
  BY <1>3, <1>4, StatsSettled
<1> QED
  BY <1>1, <1>2, <1>3, <1>5, <1>6, NothingPending DEF TreeInv

-----------------------------------------------------------------------------
(* A whole batch gives back its virtual losses, and what it adds to the      *)
(* values is what is written down for it.                                    *)
LEMMA BatchAddsUp ==
    ASSUME TreeInv, NEW leaves, leaves = pending, NEW value, \A k \in 1 .. Len(leaves) : value[k] \in Int
    PROVE  LET b == BackpropAll(leaves, value)
               c == AccountAll(b, leaves, value)
           IN  TreeOK(c) /\ Len(c) >= Len(arena) /\ Stats(c, root, <<>>)
<1> DEFINE n == Len(leaves)
           N == Len(arena)
           b == BackpropAll(leaves, value)
           c == AccountAll(b, leaves, value)
           M == Len(b)
           X(i) == {k \in DOMAIN leaves : On(arena, root, leaves[k], i)}
           C(i, k) == Cardinality(X(i) \cap (1 .. k))
<1>1. TreeOK(arena) /\ root \in 1 .. N /\ Batch(arena, root, leaves) /\ Stats(arena, root, leaves)
  BY DEF TreeInv
<1>2. n \in Nat /\ N \in Nat /\ DOMAIN leaves = 1 .. n
  BY <1>1 DEF Batch, TreeOK
<1>3. \A k \in 1 .. n : leaves[k] \in 1 .. N /\ Under(arena, root, leaves[k])
  BY <1>1, <1>2 DEF Batch
<1>4. PICK g : /\ g[0] = arena
               /\ \A k \in 1 .. n : g[k] \in Later /\ LeafStep(g[k - 1], g[k], leaves[k], value[k])
               /\ g[n] = b
  BY <1>1, BackpropFolds
<1>5. b \in Later
  BY <1>1, <1>2, <1>4, GrownItself
<1> HIDE DEF b
<1>6. PICK h : /\ h[0] = b
               /\ \A k \in 1 .. n : h[k] \in Alike(b) /\ AccountStep(h[k - 1], h[k], leaves[k], value[k])
               /\ h[n] = c
  <2>1. TreeOK(arena) /\ root \in 1 .. Len(arena) /\ b \in Later /\ Batch(arena, root, leaves)
    BY <1>1, <1>5
  <2>2. \A k \in 1 .. Len(leaves) : value[k] \in Int
    OBVIOUS
  <2> QED
    BY ONLY <2>1, <2>2, AccountFolds
<1> HIDE DEF c
<1>7. b \in Seq(Nodes) /\ M \in Nat /\ M >= N /\ TreeOK(b) /\ Grown(arena, b)
  BY <1>5 DEF Later, Grown
<1>8. \A k \in 0 .. n : g[k] \in Later /\ h[k] \in Alike(b)
  <2> SUFFICES ASSUME NEW k \in 0 .. n PROVE g[k] \in Later /\ h[k] \in Alike(b)
    OBVIOUS
  <2>1. k = 0 \/ k \in 1 .. n
    BY <1>2
  <2> QED
    BY <1>1, <1>4, <1>5, <1>6, <2>1, GrownItself, AlikeItself
<1>9. ASSUME NEW i, NEW k \in 1 .. n
      PROVE  /\ C(i, k) \in Nat /\ C(i, k - 1) \in Nat /\ C(i, 0) = 0
             /\ C(i, k) = C(i, k - 1) + (IF On(arena, root, leaves[k], i) THEN 1 ELSE 0)
  <2>1. X(i) \in SUBSET (1 .. n) /\ (k \in X(i) <=> On(arena, root, leaves[k], i))
    BY <1>2
  <2>2. k \in 0 .. n /\ k - 1 \in 0 .. n
    BY <1>2
  <2> HIDE DEF X
  <2>3. /\ Cardinality(X(i) \cap (1 .. 0)) = 0
        /\ \A l \in 1 .. n :
              Cardinality(X(i) \cap (1 .. l)) =
                  Cardinality(X(i) \cap (1 .. l - 1)) + (IF l \in X(i) THEN 1 ELSE 0)
        /\ \A l \in 0 .. n : Cardinality(X(i) \cap (1 .. l)) \in Nat
    <3> DEFINE x == X(i)
    <3>1. n \in Nat /\ x \in SUBSET (1 .. n)
      BY <1>2, <2>1
    <3> HIDE DEF x
    <3>2. /\ Cardinality(x \cap (1 .. 0)) = 0
          /\ \A l \in 1 .. n :
                Cardinality(x \cap (1 .. l)) =
                    Cardinality(x \cap (1 .. l - 1)) + (IF l \in x THEN 1 ELSE 0)
          /\ \A l \in 0 .. n : Cardinality(x \cap (1 .. l)) \in Nat
      BY ONLY <3>1, CountUpTo
    <3> QED
      BY <3>2 DEF x
  <2> QED
    BY <2>1, <2>2, <2>3
<1>10. \A i : C(i, 0) = 0 /\ C(i, n) = ThroughIn(arena, root, leaves, i) /\ C(i, n) \in Nat
  <2> SUFFICES ASSUME NEW i
               PROVE  C(i, 0) = 0 /\ C(i, n) = ThroughIn(arena, root, leaves, i) /\ C(i, n) \in Nat
    OBVIOUS
  <2>1. X(i) \in SUBSET (1 .. n) /\ ThroughIn(arena, root, leaves, i) = Cardinality(X(i))
    BY <1>2 DEF ThroughIn
  <2> DEFINE x == X(i)
  <2>2. n \in Nat /\ x \in SUBSET (1 .. n) /\ ThroughIn(arena, root, leaves, i) = Cardinality(x)
    BY <1>2, <2>1
  <2> HIDE DEF x, n
  <2>3. /\ Cardinality(x \cap (1 .. 0)) = 0 /\ x \cap (1 .. n) = x
        /\ Cardinality(x) \in Nat
    BY ONLY <2>2, CountUpTo
  <2>4. /\ Cardinality(x \cap (1 .. 0)) = 0
        /\ Cardinality(x \cap (1 .. n)) = ThroughIn(arena, root, leaves, i)
        /\ Cardinality(x \cap (1 .. n)) \in Nat
    BY ONLY <2>2, <2>3
  <2> HIDE DEF X
  <2> QED
    BY <2>4 DEF x
<1> HIDE DEF C
<1>11. \A k \in 1 .. n, i \in 1 .. N : value[k] \in Int /\ Worth(i, leaves[k], value[k]) \in Int
  BY DEF Worth, Said
<1>12. ASSUME NEW k \in 0 .. n, NEW i \in 1 .. N
       PROVE  /\ g[k][i] \in Nodes /\ g[k][i].visits \in Int /\ g[k][i].total \in Int
              /\ g[k][i].real \in Int /\ g[k][i].rtotal \in Int
              /\ i \in 1 .. Len(g[k]) /\ i \in 1 .. M
  <2>1. g[k] \in Seq(Nodes) /\ Len(g[k]) \in Nat /\ Len(g[k]) >= N
    BY <1>8 DEF Later, Grown
  <2>2. i \in 1 .. Len(g[k]) /\ g[k][i] \in Nodes /\ i \in 1 .. M
    BY <1>2, <1>7, <2>1
  <2> QED
    BY <2>2, NodeHas
<1>13. ASSUME NEW k \in 0 .. n, NEW i \in 1 .. M
       PROVE  /\ h[k][i] \in Nodes /\ h[k][i].visits \in Int /\ h[k][i].total \in Int
              /\ h[k][i].real \in Int /\ h[k][i].rtotal \in Int /\ Len(h[k]) = M
  <2>1. h[k] \in Seq(Nodes) /\ Len(h[k]) = M
    BY <1>8 DEF Alike
  <2> QED
    BY <1>2, <2>1, NodeHas
<1>14. ASSUME NEW i \in 1 .. N, NEW k \in 1 .. n
       PROVE  /\ g[k][i].visits = g[k - 1][i].visits
              /\ g[k][i].real = g[k - 1][i].real /\ g[k][i].rtotal = g[k - 1][i].rtotal
              /\ g[k][i].total = g[k - 1][i].total
                    + (IF On(arena, root, leaves[k], i) THEN 1 + Worth(i, leaves[k], value[k]) ELSE 0)
  <2>1. k - 1 \in 0 .. n
    BY <1>2
  <2>2. i \in 1 .. Len(g[k - 1])
    BY <1>12, <2>1
  <2> QED
    BY <1>4, <2>2 DEF LeafStep
<1>15. ASSUME NEW i \in 1 .. M, NEW k \in 1 .. n
       PROVE  /\ h[k][i].visits = h[k - 1][i].visits /\ h[k][i].total = h[k - 1][i].total
              /\ h[k][i].kids = h[k - 1][i].kids
              /\ h[k][i].real = h[k - 1][i].real + (IF On(arena, root, leaves[k], i) THEN 1 ELSE 0)
              /\ h[k][i].rtotal = h[k - 1][i].rtotal
                    + (IF On(arena, root, leaves[k], i) THEN Worth(i, leaves[k], value[k]) ELSE 0)
  <2>1. k - 1 \in 0 .. n
    BY <1>2
  <2>2. i \in 1 .. Len(h[k - 1])
    BY <1>13, <2>1
  <2> QED
    BY <1>6, <2>2 DEF AccountStep
<1> DEFINE P(i) == {k \in Nat : k <= n =>
                       /\ g[k][i].visits = arena[i].visits
                       /\ g[k][i].real = arena[i].real /\ g[k][i].rtotal = arena[i].rtotal
                       /\ g[k][i].total - arena[i].total
                             = C(i, k) + (h[k][i].rtotal - h[0][i].rtotal)
                       /\ h[k][i].real = h[0][i].real + C(i, k)}
           Q(i) == {k \in Nat : k <= n =>
                       /\ h[k][i].visits = b[i].visits /\ h[k][i].total = b[i].total
                       /\ h[k][i].kids = b[i].kids}
           R(i) == {k \in Nat : k <= n => h[k][i].real = 0 /\ h[k][i].rtotal = 0}
<1>16. ASSUME NEW i \in 1 .. N PROVE n \in P(i)
  <2>1. 0 \in P(i)
    <3>1. 0 \in 0 .. n /\ i \in 1 .. M
      BY <1>2, <1>12
    <3> QED
      <4> DEFINE x == arena[i].total
                 y == h[0][i].rtotal
                 z == h[0][i].real
      <4>1. g[0] = arena /\ C(i, 0) = 0
        BY <1>4, <1>10
      <4>2. x \in Int /\ y \in Int /\ z \in Int
        BY <1>12, <1>13, <3>1, <4>1
      <4> HIDE DEF x, y, z
      <4>3. x - x = 0 + (y - y) /\ z = z + 0
        BY <4>2
      <4> QED
        BY <4>1, <4>3 DEF x, y, z
  <2>2. ASSUME NEW k \in Nat, k \in P(i) PROVE k + 1 \in P(i)
    <3> SUFFICES ASSUME k + 1 <= n
                 PROVE  /\ g[k + 1][i].visits = arena[i].visits
                        /\ g[k + 1][i].real = arena[i].real /\ g[k + 1][i].rtotal = arena[i].rtotal
                        /\ g[k + 1][i].total - arena[i].total
                              = C(i, k + 1) + (h[k + 1][i].rtotal - h[0][i].rtotal)
                        /\ h[k + 1][i].real = h[0][i].real + C(i, k + 1)
      OBVIOUS
    <3>1. k + 1 \in 1 .. n /\ (k + 1) - 1 = k /\ k \in 0 .. n /\ k + 1 \in 0 .. n /\ 0 \in 0 .. n /\ k <= n
      BY <1>2
    <3>2. i \in 1 .. M
      BY <1>12, <3>1
    <3>3. /\ g[k][i].visits = arena[i].visits
          /\ g[k][i].real = arena[i].real /\ g[k][i].rtotal = arena[i].rtotal
          /\ g[k][i].total - arena[i].total = C(i, k) + (h[k][i].rtotal - h[0][i].rtotal)
          /\ h[k][i].real = h[0][i].real + C(i, k)
      BY <2>2, <3>1
    <3> DEFINE on == On(arena, root, leaves[k + 1], i)
               w == Worth(i, leaves[k + 1], value[k + 1])
    <3>4. /\ g[k + 1][i].visits = g[k][i].visits
          /\ g[k + 1][i].real = g[k][i].real /\ g[k + 1][i].rtotal = g[k][i].rtotal
          /\ g[k + 1][i].total = g[k][i].total + (IF on THEN 1 + w ELSE 0)
      BY <1>14, <3>1
    <3>5. /\ h[k + 1][i].real = h[k][i].real + (IF on THEN 1 ELSE 0)
          /\ h[k + 1][i].rtotal = h[k][i].rtotal + (IF on THEN w ELSE 0)
      BY <1>15, <3>1, <3>2
    <3>6. C(i, k + 1) = C(i, k) + (IF on THEN 1 ELSE 0) /\ C(i, k) \in Nat /\ w \in Int
      BY <1>9, <1>11, <3>1
    <3>7. /\ g[k][i].total \in Int /\ arena[i].total \in Int /\ h[k][i].rtotal \in Int
          /\ h[0][i].rtotal \in Int /\ h[k][i].real \in Int /\ h[0][i].real \in Int
      BY <1>4, <1>12, <1>13, <3>1, <3>2
    <3> HIDE DEF on, w
    <3>8. g[k + 1][i].total - arena[i].total = C(i, k + 1) + (h[k + 1][i].rtotal - h[0][i].rtotal)
      <4>1. CASE on
        <5>1. /\ g[k + 1][i].total = g[k][i].total + (1 + w)
              /\ C(i, k + 1) = C(i, k) + 1 /\ h[k + 1][i].rtotal = h[k][i].rtotal + w
          BY ONLY <3>4, <3>5, <3>6, <4>1
        <5> DEFINE x == g[k][i].total
                   y == arena[i].total
                   d == C(i, k)
                   u == h[k][i].rtotal
                   z == h[0][i].rtotal
        <5>2. /\ x \in Int /\ y \in Int /\ d \in Int /\ u \in Int /\ z \in Int
              /\ x - y = d + (u - z)
          BY <3>3, <3>6, <3>7
        <5> HIDE DEF x, y, d, u, z
        <5>3. (x + (1 + w)) - y = (d + 1) + ((u + w) - z)
          BY <3>6, <5>2
        <5>4. (g[k][i].total + (1 + w)) - arena[i].total = (C(i, k) + 1) + ((h[k][i].rtotal + w) - h[0][i].rtotal)
          BY <5>3 DEF x, y, d, u, z
        <5> QED
          BY ONLY <5>1, <5>4, Zenon
      <4>2. CASE ~on
        <5>1. g[k + 1][i].total = g[k][i].total
          BY ONLY <3>4, <3>7, <4>2
        <5>2. C(i, k + 1) = C(i, k)
          BY ONLY <3>6, <4>2
        <5>3. h[k + 1][i].rtotal = h[k][i].rtotal
          BY ONLY <3>5, <3>7, <4>2
        <5> QED
          BY ONLY <3>3, <5>1, <5>2, <5>3, Zenon
      <4> QED
        BY <4>1, <4>2
    <3>9. h[k + 1][i].real = h[0][i].real + C(i, k + 1)
      <4> DEFINE x == h[k][i].real
                 y == h[0][i].real
                 d == C(i, k)
                 one == IF on THEN 1 ELSE 0
                 after == h[k + 1][i].real
                 count == C(i, k + 1)
      <4>1. x \in Int /\ y \in Int /\ d \in Int /\ x = y + d /\ one \in Int
        <5>1. x \in Int /\ y \in Int /\ d \in Int
          BY ONLY <3>6, <3>7
        <5>2. x = y + d
          BY ONLY <3>3
        <5>3. one \in Int
          BY ONLY SMT
        <5> QED
          BY ONLY <5>1, <5>2, <5>3, Zenon
      <4>2. after = x + one /\ count = d + one
        BY ONLY <3>5, <3>6
      <4> HIDE DEF x, y, d, one, after, count
      <4>3. after = y + count
        BY <4>1, <4>2
      <4> QED
        BY <4>3 DEF after, y, count
    <3> QED
      BY <3>3, <3>4, <3>8, <3>9
  <2> HIDE DEF P
  <2> QED
    BY <1>2, <2>1, <2>2, NatSetInduction
<1>17. ASSUME NEW i \in 1 .. M PROVE n \in Q(i)
  <2>1. 0 \in Q(i)
    BY <1>6
  <2>2. ASSUME NEW k \in Nat, k \in Q(i) PROVE k + 1 \in Q(i)
    <3> SUFFICES ASSUME k + 1 <= n
                 PROVE  /\ h[k + 1][i].visits = b[i].visits /\ h[k + 1][i].total = b[i].total
                        /\ h[k + 1][i].kids = b[i].kids
      OBVIOUS
    <3>1. k + 1 \in 1 .. n /\ (k + 1) - 1 = k /\ k <= n
      BY <1>2
    <3> QED
      BY <1>15, <2>2, <3>1
  <2> HIDE DEF Q
  <2> QED
    BY <1>2, <2>1, <2>2, NatSetInduction
<1>18. ASSUME NEW i \in N + 1 .. M PROVE n \in R(i)
  <2>1. i \in 1 .. M /\ i \notin 1 .. N /\ Blank(b[i])
    BY <1>2, <1>7 DEF Grown
  <2>2. 0 \in R(i)
    BY <1>6, <2>1 DEF Blank
  <2>3. ASSUME NEW k \in Nat, k \in R(i) PROVE k + 1 \in R(i)
    <3> SUFFICES ASSUME k + 1 <= n PROVE h[k + 1][i].real = 0 /\ h[k + 1][i].rtotal = 0
      OBVIOUS
    <3>1. k + 1 \in 1 .. n /\ (k + 1) - 1 = k /\ k <= n
      BY <1>2
    <3>2. ~On(arena, root, leaves[k + 1], i)
      BY <1>1, <1>3, <2>1, <3>1, OnIsNode
    <3>3. h[k][i].real = 0 /\ h[k][i].rtotal = 0
      BY <2>3, <3>1
    <3> QED
      BY <1>15, <2>1, <3>1, <3>2, <3>3
  <2> HIDE DEF R
  <2> QED
    BY <1>2, <2>2, <2>3, NatSetInduction
<1>19. n \in 0 .. n /\ 0 \in 0 .. n
  BY <1>2
<1>20. ASSUME NEW i \in 1 .. M
       PROVE  /\ c[i].visits = c[i].real /\ c[i].total = c[i].rtotal
              /\ c[i].real \in Int /\ c[i].rtotal \in Int
  <2>1. c[i].visits = b[i].visits /\ c[i].total = b[i].total /\ c[i].real \in Int /\ c[i].rtotal \in Int
    <3>1. n <= n /\ n \in Q(i) /\ h[n] = c
      BY <1>2, <1>6, <1>17
    <3> HIDE DEF n
    <3>2. h[n][i].visits = b[i].visits /\ h[n][i].total = b[i].total
      BY <3>1
    <3> QED
      BY <1>13, <1>19, <3>1, <3>2
  <2>2. CASE i \in 1 .. N
    <3>1. /\ b[i].visits = arena[i].visits
          /\ b[i].real = arena[i].real /\ b[i].rtotal = arena[i].rtotal
          /\ b[i].total - arena[i].total = C(i, n) + (c[i].rtotal - b[i].rtotal)
          /\ c[i].real = b[i].real + C(i, n)
      BY <1>4, <1>6, <1>16, <2>2
    <3>2. arena[i].visits = arena[i].real + C(i, n) /\ arena[i].total = arena[i].rtotal - C(i, n)
      BY <1>1, <1>10, <2>2 DEF Stats
    <3>3. /\ arena[i].real \in Int /\ arena[i].rtotal \in Int /\ C(i, n) \in Nat
          /\ b[i].total \in Int /\ arena[i].total \in Int
      BY <1>4, <1>10, <1>12, <1>19, <2>2
    <3>4. c[i].visits = c[i].real
      BY <2>1, <3>1, <3>2
    <3> DEFINE x == b[i].total
               y == arena[i].total
               d == C(i, n)
               u == c[i].rtotal
               z == b[i].rtotal
    <3>5. /\ x \in Int /\ y \in Int /\ d \in Int /\ u \in Int /\ z \in Int
          /\ x - y = d + (u - z) /\ y = z - d
      BY <2>1, <3>1, <3>2, <3>3
    <3> HIDE DEF x, y, d, u, z
    <3>6. x = u
      BY <3>5
    <3>7. c[i].total = c[i].rtotal
      BY <2>1, <3>6 DEF x, u
    <3> QED
      BY <2>1, <3>4, <3>7
  <2>3. CASE i \notin 1 .. N
    <3>1. i \in N + 1 .. M
      BY <1>2, <1>7, <2>3
    <3>2. Blank(b[i]) /\ c[i].real = 0 /\ c[i].rtotal = 0
      BY <1>6, <1>7, <1>18, <3>1 DEF Grown
    <3> QED
      BY <2>1, <3>2 DEF Blank
  <2> QED
    BY <2>2, <2>3
<1>21. c \in Seq(Nodes) /\ Len(c) = M /\ \A i \in 1 .. M : SamePlace(b[i], c[i])
  BY <1>6, <1>8, <1>19 DEF Alike
<1>22. TreeOK(c)
  <2>1. \A i \in 1 .. M : c[i].kids = b[i].kids
    BY <1>6, <1>17
  <2> QED
    BY <1>7, <1>21, <2>1, ShapeKept
<1>23. Stats(c, root, <<>>)
  BY <1>20, <1>21, StatsSettled
<1> QED
  BY <1>7, <1>21, <1>22, <1>23 DEF c, b

LEMMA BackpropTree ==
    ASSUME TreeInv, NEW token, NEW value \in [DOMAIN pending -> Int], ExpandAndBackprop(token, value)
    PROVE  TreeInv'
<1> DEFINE b == BackpropAll(pending, value)
           c == AccountAll(b, pending, value)
<1>1. arena' = c /\ root' = root /\ pending' = <<>>
  BY Zenon DEF ExpandAndBackprop, BackpropAll, AccountAll
<1>2. pending \in Seq(1 .. Len(arena)) /\ root \in 1 .. Len(arena) /\ Len(arena) \in Nat
  BY DEF TreeInv, Batch, TreeOK
<1>3. \A k \in 1 .. Len(pending) : value[k] \in Int
  BY <1>2
<1>4. TreeOK(c) /\ Len(c) >= Len(arena) /\ Stats(c, root, <<>>)
  BY <1>3, BatchAddsUp
<1> HIDE DEF c
<1>5. root \in 1 .. Len(c)
  BY <1>2, <1>4 DEF TreeOK
<1> QED
  BY <1>1, <1>4, <1>5, NothingPending DEF TreeInv

LEMMA TreeStays ==
    ASSUME TreeInv, arena' = arena, root' = root, pending' = pending
    PROVE  TreeInv'
BY DEF TreeInv

LEMMA CallerTree == TreeInv /\ [CallerNext]_engineVars => TreeInv'
<1> SUFFICES ASSUME TreeInv, [CallerNext]_engineVars PROVE TreeInv'
  OBVIOUS
<1>1. CASE InitRoot
  BY <1>1, TreeStays DEF InitRoot
<1>2. CASE \E token \in 1 .. rootGen : ExpandRoot(token)
  BY <1>2, ExpandRootTree
<1>3. CASE \E leaves \in TupleOf(Leaves, BatchLimit) : SelectLeaves(leaves)
  BY <1>3, SelectTree
<1>4. CASE \E token \in 1 .. batchGen : \E value \in [DOMAIN pending -> Values] : ExpandAndBackprop(token, value)
  <2>1. PICK token \in 1 .. batchGen, value \in [DOMAIN pending -> Values] : ExpandAndBackprop(token, value)
    BY <1>4
  <2>2. value \in [DOMAIN pending -> Int]
    BY EngineConstants
  <2> QED
    BY <2>1, <2>2, BackpropTree
<1>5. CASE \E kid \in arena[root].kids : ReRoot(kid)
  BY <1>5, ReRootTree
<1>6. CASE ReRootMissing
  BY <1>6, ReRootMissingTree
<1>7. CASE UNCHANGED engineVars
  BY <1>7, TreeStays DEF engineVars
<1> QED
  BY <1>1, <1>2, <1>3, <1>4, <1>5, <1>6, <1>7 DEF CallerNext

(* Whatever a caller of the engine does and in whichever order, the          *)
(* statistics of every node are those of the simulations that went through   *)
(* it, and one virtual loss for each pending leaf below it (mcts.rs:         *)
(* select_leaves, expand_and_backprop, re_root).                             *)
THEOREM NodeStatsHolds == CallerSpec => []NodeStats
<1>1. EngineInit => TreeInv
  BY TreeStarts
<1>2. TreeInv /\ [CallerNext]_engineVars => TreeInv'
  BY CallerTree
<1>3. TreeInv => NodeStats
  BY StatsAre
<1> QED
  BY <1>1, <1>2, <1>3, PTL DEF CallerSpec

LEMMA GameTree == TreeInv /\ [GameNext]_allVars => TreeInv'
<1> SUFFICES ASSUME TreeInv, [GameNext]_allVars PROVE TreeInv'
  OBVIOUS
<1>1. CASE UNCHANGED engineVars
  BY <1>1, TreeStays DEF engineVars
<1>2. CASE BeginMove
  BY <1>2, TreeStays DEF BeginMove, InitRoot
<1>3. CASE RootAnswered \/ RootFails
  BY <1>3, ExpandRootTree DEF RootAnswered, RootFails
<1>4. CASE Select
  BY <1>4, SelectTree DEF Select
<1>5. CASE OnlyTerminal \/ LeafAnswered
  <2>1. PICK value \in [DOMAIN pending -> Int] : ExpandAndBackprop(batchGen, value)
    <3>1. [DOMAIN pending -> Values] \subseteq [DOMAIN pending -> Int]
      BY EngineConstants
    <3>2. [DOMAIN pending -> {0}] \subseteq [DOMAIN pending -> Int]
      OBVIOUS
    <3>3. CASE OnlyTerminal
      BY <3>2, <3>3 DEF OnlyTerminal
    <3>4. CASE LeafAnswered
      BY <3>1, <3>4 DEF LeafAnswered
    <3> QED
      BY <1>5, <3>3, <3>4
  <2> QED
    BY <2>1, BackpropTree
<1>6. CASE Pick
  <2>1. PICK kid \in arena[root].kids : IF cfg.reuse THEN ReRoot(kid) ELSE FreshEngine(arena[kid].pos)
    BY <1>6 DEF Pick
  <2>2. CASE ReRoot(kid)
    BY <2>2, ReRootTree
  <2>3. CASE FreshEngine(arena[kid].pos)
    <3>1. kid \in 1 .. Len(arena) /\ TreeOK(arena)
      BY DEF TreeInv, TreeOK, KidsOK
    <3>2. arena[kid].pos \in Seq(GameCells)
      BY <3>1, LineIs, NodeHas
    <3> QED
      BY <2>3, <3>2, FreshEngineTree
  <2> QED
    BY <2>1, <2>2, <2>3
<1> QED
  BY <1>1, <1>2, <1>3, <1>4, <1>5, <1>6
  DEF GameNext, StopAtHead, PairsAnswered, RootFallbackRefused, GraphRootFails, SearchDone,
      LeafFails, allVars

(* The same in a self-played game, whatever fails in it.                     *)
THEOREM GameStatsHold == GameSpec => []NodeStats
<1>1. GameInit => TreeInv
  BY TreeStarts DEF GameInit
<1>2. TreeInv /\ [GameNext]_allVars => TreeInv'
  BY GameTree
<1>3. TreeInv => NodeStats
  BY StatsAre
<1> QED
  BY <1>1, <1>2, <1>3, PTL DEF GameSpec

-----------------------------------------------------------------------------
(* The simulations of the children of a node. *)

SumReal(t, kids) ==
    LET add(n, j) == n + t[j].real
    IN  FoldLeft(add, 0, SetToSeq(kids))

(* The sum, one child after another. *)
SumsUp(g, t, s, n) ==
    /\ g[0] = 0
    /\ \A k \in 1 .. n : g[k] \in Int /\ g[k] = g[k - 1] + t[s[k]].real

LEMMA SumFolds ==
    ASSUME NEW t \in Seq(Nodes), NEW kids \in SUBSET (1 .. Len(t))
    PROVE  LET s == SetToSeq(kids)
               n == Len(s)
           IN  /\ n \in Nat /\ s \in Seq(kids)
               /\ \A j \in kids : \E k \in 1 .. n : s[k] = j
               /\ \A k, l \in 1 .. n : s[k] = s[l] => k = l
               /\ \E g : SumsUp(g, t, s, n) /\ g[n] = SumReal(t, kids)
<1> DEFINE s == SetToSeq(kids)
           n == Len(s)
           D == SUBSET (1 .. n)
           next(x, j) == x + t[j].real
           F == [q \in Int \X kids |-> next(q[1], q[2])]
           it == CHOOSE it : it = [S \in D |-> IF S = {} THEN 0 ELSE next(it[S \ {Max(S)}], s[Max(S)])]
           g == [k \in 0 .. n |-> it[1 .. k]]
<1>1. IsFiniteSet(kids)
  <2>1. IsFiniteSet(1 .. Len(t))
    BY FS_Interval
  <2> QED
    BY <2>1, FS_Subset
<1>2. /\ s \in Seq(kids)
      /\ \A j \in kids : \E k \in 1 .. n : s[k] = j
      /\ \A k, l \in 1 .. n : s[k] = s[l] => k = l
  BY <1>1, ListOfSet
<1> HIDE DEF s
<1>3. n \in Nat /\ DOMAIN s = 1 .. n /\ \A k \in 1 .. n : s[k] \in kids
  BY <1>2
<1>4. \A j \in kids : t[j].real \in Int
  BY NodeHas
<1>5. F \in [Int \X kids -> Int]
  <2>1. \A x \in Int, j \in kids : next(x, j) \in Int
    BY <1>4
  <2> HIDE DEF next
  <2> QED
    BY <2>1
<1>6. \A x \in Int, j \in kids : F[<<x, j>>] = next(x, j)
  OBVIOUS
<1> HIDE DEF F, n
<1>7. PICK G \in [D -> Int] : Folds(G, F, 0, s, n)
  <2>1. 0 \in Int
    OBVIOUS
  <2> QED
    BY <1>3, <1>5, <2>1, FoldExists
<1>8. ASSUME NEW S \in D
      PROVE  G[S] = IF S = {} THEN 0 ELSE next(G[S \ {Max(S)}], s[Max(S)])
  <2>1. S # {} => Max(S) \in 1 .. n
    BY <1>3, GreatestIsThere
  <2>2. S # {} => s[Max(S)] \in kids /\ G[S \ {Max(S)}] \in Int
    BY <1>3, <2>1
  <2> HIDE DEF next
  <2> QED
    BY <1>6, <1>7, <2>2 DEF Folds
<1>9. G = [S \in D |-> IF S = {} THEN 0 ELSE next(G[S \ {Max(S)}], s[Max(S)])]
  <2> HIDE DEF next
  <2> QED
    BY <1>8
<1>10. it = [S \in D |-> IF S = {} THEN 0 ELSE next(it[S \ {Max(S)}], s[Max(S)])]
  <2> HIDE DEF next
  <2> QED
    BY <1>9, Zenon
<1>11. SumReal(t, kids) = it[1 .. n]
  BY <1>3, Zenon DEF SumReal, FoldLeft, MapThenFoldSet, s
<1> HIDE DEF it
<1>12. g[0] = 0
  <2>1. 1 .. 0 = {} /\ {} \in D /\ g[0] = it[1 .. 0]
    BY <1>3
  <2> HIDE DEF next, g
  <2> QED
    BY <1>10, <2>1
<1>13. ASSUME NEW k \in 1 .. n PROVE g[k] = g[k - 1] + t[s[k]].real
  <2>1. 1 .. k \in D /\ 1 .. k # {} /\ g[k] = it[1 .. k] /\ g[k - 1] = it[1 .. k - 1]
    <3>1. k \in 0 .. n /\ k - 1 \in 0 .. n /\ 1 \in 1 .. k /\ 1 .. k \subseteq 1 .. n
      BY <1>3, <1>13
    <3> HIDE DEF D
    <3>2. g[k] = it[1 .. k] /\ g[k - 1] = it[1 .. k - 1]
      BY <3>1
    <3> HIDE DEF g
    <3> QED
      BY <3>1, <3>2 DEF D
  <2> HIDE DEF g
  <2>2. it[1 .. k] = next(it[(1 .. k) \ {Max(1 .. k)}], s[Max(1 .. k)])
    <3> HIDE DEF next
    <3> QED
      BY <1>10, <2>1
  <2>3. Max(1 .. k) = k /\ (1 .. k) \ {k} = 1 .. k - 1
    BY <1>3, GreatestIs
  <2> QED
    BY <2>1, <2>2, <2>3
<1>14. g[n] = it[1 .. n]
  BY <1>3
<1> HIDE DEF g
<1> DEFINE P == {k \in Nat : k <= n => g[k] \in Int}
<1>15. 0 \in P /\ \A k \in Nat : k \in P => k + 1 \in P
  <2>1. 0 \in P
    BY <1>12
  <2>2. ASSUME NEW k \in Nat, k \in P PROVE k + 1 \in P
    <3>1. ASSUME k + 1 <= n PROVE g[k + 1] \in Int
      <4>1. k + 1 \in 1 .. n /\ g[k] \in Int /\ (k + 1) - 1 = k
        BY <1>3, <2>2, <3>1
      <4>2. g[k + 1] = g[k] + t[s[k + 1]].real
        BY <1>13, <4>1
      <4>3. t[s[k + 1]].real \in Int
        BY <1>3, <1>4, <4>1
      <4> QED
        BY <4>1, <4>2, <4>3
    <3> QED
      BY <3>1
  <2> QED
    BY <2>1, <2>2
<1>16. \A k \in 1 .. n : g[k] \in Int
  <2>1. Nat \subseteq P
    <3> HIDE DEF P
    <3> QED
      BY <1>15, NatSetInduction
  <2> QED
    BY <1>3, <2>1
<1>17. SumsUp(g, t, s, n)
  BY <1>12, <1>13, <1>16 DEF SumsUp
<1> QED
  BY <1>2, <1>3, <1>11, <1>14, <1>17 DEF n, s

(* One more simulation in one child. *)
LEMMA SumGains ==
    ASSUME NEW t \in Seq(Nodes), NEW u \in Seq(Nodes),
           NEW kids \in SUBSET (1 .. Len(t)), kids \subseteq 1 .. Len(u), NEW one,
           \A j \in kids : u[j].real = t[j].real + (IF j = one THEN 1 ELSE 0)
    PROVE  /\ SumReal(t, kids) \in Int
           /\ SumReal(u, kids) = SumReal(t, kids) + (IF one \in kids THEN 1 ELSE 0)
<1> DEFINE s == SetToSeq(kids)
           n == Len(s)
<1>1. /\ n \in Nat /\ s \in Seq(kids)
      /\ \A j \in kids : \E k \in 1 .. n : s[k] = j
      /\ \A k, l \in 1 .. n : s[k] = s[l] => k = l
  BY SumFolds
<1>2. PICK g : SumsUp(g, t, s, n) /\ g[n] = SumReal(t, kids)
  BY SumFolds
<1>3. PICK h : SumsUp(h, u, s, n) /\ h[n] = SumReal(u, kids)
  BY SumFolds
<1> HIDE DEF s
<1>4. \A k \in 1 .. n : s[k] \in kids
  BY <1>1
<1> HIDE DEF n
<1> DEFINE P == {k \in Nat : k <= n =>
                    /\ g[k] \in Int
                    /\ h[k] = g[k] + (IF \E l \in 1 .. k : s[l] = one THEN 1 ELSE 0)}
<1>5. 0 \in P
  <2>1. ~ \E l \in 1 .. 0 : s[l] = one
    OBVIOUS
  <2>2. g[0] = 0 /\ h[0] = 0
    BY <1>2, <1>3 DEF SumsUp
  <2>3. g[0] \in Int /\ h[0] = g[0] + (IF \E l \in 1 .. 0 : s[l] = one THEN 1 ELSE 0)
    BY <2>1, <2>2
  <2> QED
    BY <2>3
<1>6. ASSUME NEW k \in Nat, k \in P PROVE k + 1 \in P
  <2> SUFFICES ASSUME k + 1 <= n
               PROVE  /\ g[k + 1] \in Int
                      /\ h[k + 1] = g[k + 1] + (IF \E l \in 1 .. k + 1 : s[l] = one THEN 1 ELSE 0)
    OBVIOUS
  <2> DEFINE m == k + 1
             x == t[s[m]].real
  <2>1. m \in 1 .. n /\ m - 1 = k /\ k <= n /\ \A l \in 1 .. m : l \in 1 .. k \/ l = m
    BY <1>1
  <2>2. g[k] \in Int /\ h[k] = g[k] + (IF \E l \in 1 .. k : s[l] = one THEN 1 ELSE 0)
    BY <1>6, <2>1
  <2>3. x \in Int
    <3>1. s[m] \in 1 .. Len(t)
      BY <1>4, <2>1
    <3> QED
      BY <3>1, NodeHas
  <2>4. \A l \in 1 .. k : l \in 1 .. n /\ l # m
    BY <1>1, <2>1
  <2> HIDE DEF m, x
  <2>5. g[m] = g[k] + x /\ g[m] \in Int
    BY <1>2, <2>1 DEF SumsUp, x
  <2>6. h[m] = h[k] + (x + (IF s[m] = one THEN 1 ELSE 0))
    BY <1>3, <1>4, <2>1 DEF SumsUp, x
  <2>7. s[m] = one => ~ \E l \in 1 .. k : s[l] = one
    BY <1>1, <2>1, <2>4
  <2>8. m \in 1 .. m /\ \A l \in 1 .. k : l \in 1 .. m
    BY <2>1
  <2>9. CASE s[m] = one
    <3>1. \E l \in 1 .. m : s[l] = one
      BY <2>8, <2>9
    <3> QED
      BY <2>2, <2>3, <2>5, <2>6, <2>7, <2>9, <3>1, SMTT(20) DEF m
  <2>10. CASE s[m] # one
    <3>1. (\E l \in 1 .. m : s[l] = one) <=> (\E l \in 1 .. k : s[l] = one)
      BY <2>1, <2>8, <2>10
    <3>2. h[m] = h[k] + x
      BY <2>3, <2>6, <2>10
    <3>3. h[m] = g[m] + (IF \E l \in 1 .. k : s[l] = one THEN 1 ELSE 0)
      BY <2>2, <2>3, <2>5, <3>2
    <3> QED
      BY <2>5, <3>1, <3>3 DEF m
  <2> QED
    BY <2>9, <2>10
<1>7. n \in P
  <2> HIDE DEF P
  <2> QED
    BY <1>1, <1>5, <1>6, NatSetInduction
<1>8. g[n] \in Int /\ h[n] = g[n] + (IF \E l \in 1 .. n : s[l] = one THEN 1 ELSE 0)
  BY <1>1, <1>7
<1>9. (\E l \in 1 .. n : s[l] = one) <=> one \in kids
  <2>1. (\E l \in 1 .. n : s[l] = one) => one \in kids
    BY <1>4, Zenon
  <2>2. one \in kids => \E l \in 1 .. n : s[l] = one
    BY <1>1, Zenon
  <2> QED
    BY <2>1, <2>2, Zenon
<1> QED
  BY <1>2, <1>3, <1>8, <1>9

LEMMA SumStays ==
    ASSUME NEW t \in Seq(Nodes), NEW u \in Seq(Nodes),
           NEW kids \in SUBSET (1 .. Len(t)), kids \subseteq 1 .. Len(u),
           \A j \in kids : u[j].real = t[j].real
    PROVE  SumReal(t, kids) \in Int /\ SumReal(u, kids) = SumReal(t, kids)
<1>1. 0 \notin kids
  OBVIOUS
<1>2. \A j \in kids : u[j].real = t[j].real + (IF j = 0 THEN 1 ELSE 0)
  BY <1>1, NodeHas
<1>3. SumReal(t, kids) \in Int /\ SumReal(u, kids) = SumReal(t, kids) + (IF 0 \in kids THEN 1 ELSE 0)
  BY <1>2, SumGains
<1> QED
  BY <1>1, <1>3

LEMMA SumOfNone ==
    ASSUME NEW t \in Seq(Nodes), NEW kids \in SUBSET (1 .. Len(t)), \A j \in kids : t[j].real = 0
    PROVE  SumReal(t, kids) = 0
<1> DEFINE s == SetToSeq(kids)
           n == Len(s)
<1>1. n \in Nat /\ s \in Seq(kids)
  BY SumFolds
<1>2. PICK g : SumsUp(g, t, s, n) /\ g[n] = SumReal(t, kids)
  BY SumFolds
<1> HIDE DEF s
<1>3. \A k \in 1 .. n : t[s[k]].real = 0
  BY <1>1
<1> HIDE DEF n
<1> DEFINE P == {k \in Nat : k <= n => g[k] = 0}
<1>4. 0 \in P
  BY <1>2 DEF SumsUp
<1>5. ASSUME NEW k \in Nat, k \in P PROVE k + 1 \in P
  <2> SUFFICES ASSUME k + 1 <= n PROVE g[k + 1] = 0
    OBVIOUS
  <2>1. k + 1 \in 1 .. n /\ (k + 1) - 1 = k /\ k <= n
    BY <1>1
  <2>2. g[k + 1] = g[k] + t[s[k + 1]].real
    BY <1>2, <2>1 DEF SumsUp
  <2> QED
    BY <1>3, <1>5, <2>1, <2>2
<1>6. n \in P
  <2> HIDE DEF P
  <2> QED
    BY <1>1, <1>4, <1>5, NatSetInduction
<1> QED
  BY <1>1, <1>2, <1>6

-----------------------------------------------------------------------------
(* Descents from the root. *)

Level(t, i) == Len(t[i].line)

Descends(t, r, i) ==
    /\ Level(t, i) >= Level(t, r)
    /\ t[i].line[Level(t, r)] = r
    /\ \A m \in Level(t, r) + 1 .. Level(t, i) : t[i].line[m] \in t[t[i].line[m - 1]].kids

LEMMA LevelsAre ==
    ASSUME NEW t, TreeOK(t), NEW i \in 1 .. Len(t)
    PROVE  /\ Level(t, i) \in Nat \ {0} /\ t[i].line[Level(t, i)] = i
           /\ Reach(t, i) = Level(t, i) - 1
           /\ \A m \in 1 .. Level(t, i) :
                 /\ t[i].line[m] \in 1 .. Len(t) /\ Level(t, t[i].line[m]) = m
                 /\ \A l \in 1 .. m : t[t[i].line[m]].line[l] = t[i].line[l]
BY LineIs DEF Level

LEMMA KidIs ==
    ASSUME NEW t, TreeOK(t), NEW i \in 1 .. Len(t), NEW j \in t[i].kids
    PROVE  /\ j \in 1 .. Len(t) /\ Level(t, j) = Level(t, i) + 1
           /\ \A l \in 1 .. Level(t, i) : t[j].line[l] = t[i].line[l]
<1>1. j \in 1 .. Len(t) /\ t[j].line = Append(t[i].line, j)
  BY DEF TreeOK, KidsOK
<1>2. t[i].line \in Seq(Nat)
  BY LineIs
<1> QED
  BY <1>1, <1>2 DEF Level

LEMMA UnderIs ==
    ASSUME NEW t, TreeOK(t), NEW r \in 1 .. Len(t), NEW i \in 1 .. Len(t)
    PROVE  Under(t, r, i) <=> Level(t, i) >= Level(t, r)
<1>1. /\ Reach(t, i) = Level(t, i) - 1 /\ Reach(t, r) = Level(t, r) - 1
      /\ Level(t, i) \in Nat /\ Level(t, r) \in Nat
  BY LevelsAre
<1> QED
  BY <1>1 DEF Under

LEMMA OnIs ==
    ASSUME NEW t, TreeOK(t), NEW r \in 1 .. Len(t), NEW leaf \in 1 .. Len(t), Under(t, r, leaf), NEW i
    PROVE  On(t, r, leaf, i) <=> \E m \in Level(t, r) .. Level(t, leaf) : t[leaf].line[m] = i
<1> DEFINE s == PathIn(t, r, leaf)
           d == Level(t, r)
           e == Level(t, leaf)
<1>1. /\ d \in Nat \ {0} /\ e \in Nat \ {0} /\ Reach(t, r) = d - 1 /\ Reach(t, leaf) = e - 1
  BY LevelsAre
<1>2. /\ Len(s) = Reach(t, leaf) - Reach(t, r) + 1 /\ DOMAIN s = 1 .. Len(s)
      /\ \A k \in 1 .. Len(s) : s[k] = t[leaf].line[Reach(t, r) + k]
  BY PathIs
<1>3. On(t, r, leaf, i) <=> i \in ToSet(s)
  BY DEF On
<1> HIDE DEF s, d, e
<1>4. Len(s) = e - d + 1 /\ \A k \in 1 .. Len(s) : s[k] = t[leaf].line[(d - 1) + k]
  BY <1>1, <1>2
<1>5. ASSUME NEW k \in 1 .. Len(s) PROVE (d - 1) + k \in d .. e
  BY <1>1, <1>4
<1>6. ASSUME NEW m \in d .. e PROVE (m - d) + 1 \in 1 .. Len(s) /\ (d - 1) + ((m - d) + 1) = m
  BY <1>1, <1>4
<1>7. i \in ToSet(s) <=> \E k \in 1 .. Len(s) : s[k] = i
  BY <1>2 DEF ToSet
<1>8. (\E k \in 1 .. Len(s) : s[k] = i) <=> \E m \in d .. e : t[leaf].line[m] = i
  <2>1. ASSUME NEW k \in 1 .. Len(s), s[k] = i PROVE \E m \in d .. e : t[leaf].line[m] = i
    BY <1>4, <1>5, <2>1
  <2>2. ASSUME NEW m \in d .. e, t[leaf].line[m] = i PROVE \E k \in 1 .. Len(s) : s[k] = i
    <3>1. s[(m - d) + 1] = t[leaf].line[(d - 1) + ((m - d) + 1)]
      BY <1>4, <1>6
    <3> QED
      BY <1>6, <2>2, <3>1
  <2> QED
    BY <2>1, <2>2
<1> QED
  BY <1>3, <1>7, <1>8 DEF d, e

LEMMA InTreeDescends ==
    ASSUME TreeOK(arena), root \in 1 .. Len(arena), NEW i \in 1 .. Len(arena), InTree(i)
    PROVE  Descends(arena, root, i)
<1> DEFINE line == arena[i].line
           d == Level(arena, root)
           e == Level(arena, i)
<1>1. /\ d \in Nat \ {0} /\ e \in Nat \ {0} /\ Reach(arena, root) = d - 1 /\ Reach(arena, i) = e - 1
      /\ \A m \in 1 .. e :
            /\ line[m] \in 1 .. Len(arena) /\ Level(arena, line[m]) = m
            /\ \A l \in 1 .. m : arena[line[m]].line[l] = line[l]
  <2>1. TreeOK(arena) /\ root \in 1 .. Len(arena) /\ i \in 1 .. Len(arena)
    OBVIOUS
  <2>2. d \in Nat \ {0} /\ Reach(arena, root) = d - 1
    BY ONLY <2>1, LevelsAre
  <2>3. e \in Nat \ {0} /\ Reach(arena, i) = e - 1
    BY ONLY <2>1, LevelsAre
  <2>4. \A m \in 1 .. e :
            /\ line[m] \in 1 .. Len(arena) /\ Level(arena, line[m]) = m
            /\ \A l \in 1 .. m : arena[line[m]].line[l] = line[l]
    BY ONLY <2>1, LevelsAre
  <2> QED
    BY <2>2, <2>3, <2>4
<1>2. /\ Depth(i) >= Depth(root) /\ line[Depth(root) + 1] = root
      /\ \A j \in ToSet(Path(i)) \ {root} : j \in arena[Parent(j)].kids
  BY DEF InTree, Below
<1>3. Depth(root) = d - 1 /\ Depth(i) = e - 1
  BY <1>1 DEF Depth, Reach
<1> HIDE DEF line, d, e
<1>4. e >= d /\ line[d] = root
  BY <1>1, <1>2, <1>3
<1>5. Under(arena, root, i)
  BY <1>4, UnderIs DEF d, e
<1>6. ASSUME NEW m \in d + 1 .. e PROVE line[m] \in arena[line[m - 1]].kids
  <2>1. m \in 1 .. e /\ m \in d .. e /\ m # d /\ m - 1 \in 1 .. m
    BY <1>1
  <2>2. line[m] # root
    BY <1>1, <2>1 DEF d
  <2>3. On(arena, root, i, line[m])
    BY <1>5, <2>1, OnIs DEF d, e, line
  <2>4. line[m] \in ToSet(Path(i))
    BY <2>3 DEF On, PathIn, Path, Depth, Reach
  <2>5. Parent(line[m]) = line[m - 1]
    BY <1>1, <2>1 DEF Parent, Level
  <2> QED
    BY <1>2, <2>2, <2>4, <2>5
<1> QED
  BY <1>4, <1>6 DEF Descends, d, e, line

-----------------------------------------------------------------------------
(* One more simulation through the tree. *)

VisitsAt(t, i, kids) == t[i].real = t[i].ends + SumReal(t, kids)

(* It goes through one of the children of a node on its way. *)
LEMMA OneMoreBelow ==
    ASSUME NEW t, TreeOK(t), NEW r \in 1 .. Len(t), NEW leaf \in 1 .. Len(t), Under(t, r, leaf),
           NEW i \in 1 .. Len(t), Level(t, i) >= Level(t, r),
           \A m \in Level(t, r) + 1 .. Level(t, leaf) :
               t[leaf].line[m - 1] = i => t[leaf].line[m] \in t[i].kids,
           NEW x \in Seq(Nodes), NEW y \in Seq(Nodes), Len(x) = Len(t), Len(y) = Len(t),
           \A j \in 1 .. Len(t) : y[j].real = x[j].real + (IF On(t, r, leaf, j) THEN 1 ELSE 0)
    PROVE  /\ SumReal(x, t[i].kids) \in Int
           /\ SumReal(y, t[i].kids) = SumReal(x, t[i].kids) + (IF On(t, r, leaf, i) /\ i # leaf THEN 1 ELSE 0)
<1> DEFINE line == t[leaf].line
           d == Level(t, r)
           e == Level(t, leaf)
           kids == t[i].kids
           on(j) == On(t, r, leaf, j)
           one == IF on(i) /\ i # leaf THEN line[Level(t, i) + 1] ELSE 0
<1>1. /\ d \in Nat \ {0} /\ e \in Nat \ {0} /\ line[e] = leaf
      /\ \A m \in 1 .. e :
            /\ line[m] \in 1 .. Len(t) /\ Level(t, line[m]) = m
            /\ \A l \in 1 .. m : t[line[m]].line[l] = line[l]
      /\ Level(t, i) \in Nat \ {0} /\ t[i].line[Level(t, i)] = i /\ Level(t, i) >= d
  <2>1. TreeOK(t) /\ r \in 1 .. Len(t) /\ leaf \in 1 .. Len(t) /\ i \in 1 .. Len(t)
    OBVIOUS
  <2>2. /\ Level(t, i) \in Nat \ {0} /\ t[i].line[Level(t, i)] = i
        /\ d \in Nat \ {0} /\ e \in Nat \ {0} /\ line[e] = leaf
    BY ONLY <2>1, LevelsAre
  <2>3. \A m \in 1 .. e :
            /\ line[m] \in 1 .. Len(t) /\ Level(t, line[m]) = m
            /\ \A l \in 1 .. m : t[line[m]].line[l] = line[l]
    BY ONLY <2>1, LevelsAre
  <2> QED
    BY <2>2, <2>3
<1>2. \A j : on(j) <=> \E m \in d .. e : line[m] = j
  BY OnIs
<1>3. kids \in SUBSET (1 .. Len(x)) /\ kids \subseteq 1 .. Len(y) /\ kids \subseteq 1 .. Len(t)
  BY KidIs
<1>4. ASSUME NEW j \in kids PROVE Level(t, j) = Level(t, i) + 1 /\ t[j].line[Level(t, i)] = i
  <2>1. TreeOK(t) /\ i \in 1 .. Len(t) /\ j \in t[i].kids
    OBVIOUS
  <2>2. Level(t, j) = Level(t, i) + 1 /\ \A l \in 1 .. Level(t, i) : t[j].line[l] = t[i].line[l]
    BY ONLY <2>1, KidIs
  <2>3. Level(t, i) \in 1 .. Level(t, i)
    BY <1>1
  <2> QED
    BY <1>1, <2>2, <2>3
<1>5. \A m \in d + 1 .. e : line[m - 1] = i => line[m] \in kids
  OBVIOUS
<1> HIDE DEF line, d, e, kids, on
<1>6. ASSUME on(i), i # leaf
      PROVE  one \in kids /\ on(one)
  <2>1. PICK m \in d .. e : line[m] = i
    BY <1>2, <1>6
  <2>2. m \in 1 .. e /\ m = Level(t, i) /\ m # e
    BY <1>1, <1>6, <2>1
  <2>3. m + 1 \in d + 1 .. e /\ (m + 1) - 1 = m /\ m + 1 \in d .. e
    BY <1>1, <2>1, <2>2
  <2>4. line[m + 1] \in kids /\ on(line[m + 1])
    BY <1>2, <1>5, <2>1, <2>3
  <2> QED
    BY <1>6, <2>2, <2>4
<1>7. ASSUME NEW j \in kids, on(j)
      PROVE  on(i) /\ i # leaf /\ j = one
  <2>1. PICK m \in d .. e : line[m] = j
    BY <1>2, <1>7
  <2>2. m \in 1 .. e /\ m = Level(t, i) + 1
    BY <1>1, <1>4, <2>1
  <2>3. m - 1 \in d .. e /\ m - 1 \in 1 .. m /\ m - 1 = Level(t, i) /\ m - 1 # e /\ m - 1 \in 1 .. e
    BY <1>1, <2>1, <2>2
  <2>4. line[m - 1] = i
    <3>1. t[j].line[m - 1] = i
      BY <1>4, <1>7, <2>3
    <3>2. t[line[m]].line[m - 1] = line[m - 1]
      BY <1>1, <2>2, <2>3
    <3> QED
      BY <2>1, <3>1, <3>2
  <2>5. on(i)
    BY <1>2, <2>3, <2>4
  <2>6. i # leaf
    BY <1>1, <2>3, <2>4 DEF e
  <2> QED
    BY <2>1, <2>2, <2>5, <2>6
<1>8. one \in kids <=> on(i) /\ i # leaf
  <2>1. 0 \notin kids
    BY <1>3
  <2> QED
    BY <1>6, <2>1
<1>9. \A j \in kids : on(j) <=> j = one
  BY <1>6, <1>7, <1>8
<1> HIDE DEF one
<1>10. \A j \in kids : y[j].real = x[j].real + (IF j = one THEN 1 ELSE 0)
  BY <1>3, <1>9 DEF on
<1>11. /\ SumReal(x, kids) \in Int
       /\ SumReal(y, kids) = SumReal(x, kids) + (IF one \in kids THEN 1 ELSE 0)
  <2>1. x \in Seq(Nodes) /\ y \in Seq(Nodes)
    OBVIOUS
  <2> QED
    BY ONLY <1>3, <1>10, <2>1, SumGains
<1> QED
  BY <1>8, <1>11 DEF on, kids

LEMMA OneMoreVisit ==
    ASSUME NEW t, TreeOK(t), NEW r \in 1 .. Len(t), NEW leaf \in 1 .. Len(t), Under(t, r, leaf),
           NEW i \in 1 .. Len(t), Level(t, i) >= Level(t, r),
           \A m \in Level(t, r) + 1 .. Level(t, leaf) :
               t[leaf].line[m - 1] = i => t[leaf].line[m] \in t[i].kids,
           NEW x \in Seq(Nodes), NEW y \in Seq(Nodes), Len(x) = Len(t), Len(y) = Len(t),
           \A j \in 1 .. Len(t) : y[j].real = x[j].real + (IF On(t, r, leaf, j) THEN 1 ELSE 0),
           y[i].ends = x[i].ends + (IF On(t, r, leaf, i) /\ i = leaf THEN 1 ELSE 0),
           VisitsAt(x, i, t[i].kids)
    PROVE  VisitsAt(y, i, t[i].kids)
<1> DEFINE on == On(t, r, leaf, i)
           a == x[i].real
           b == x[i].ends
           c == SumReal(x, t[i].kids)
<1>1. c \in Int /\ SumReal(y, t[i].kids) = c + (IF on /\ i # leaf THEN 1 ELSE 0)
  <2>1. /\ TreeOK(t) /\ r \in 1 .. Len(t) /\ leaf \in 1 .. Len(t) /\ Under(t, r, leaf)
        /\ i \in 1 .. Len(t) /\ Level(t, i) >= Level(t, r)
        /\ x \in Seq(Nodes) /\ y \in Seq(Nodes) /\ Len(x) = Len(t) /\ Len(y) = Len(t)
    OBVIOUS
  <2>2. \A m \in Level(t, r) + 1 .. Level(t, leaf) :
            t[leaf].line[m - 1] = i => t[leaf].line[m] \in t[i].kids
    OBVIOUS
  <2>3. \A j \in 1 .. Len(t) : y[j].real = x[j].real + (IF On(t, r, leaf, j) THEN 1 ELSE 0)
    OBVIOUS
  <2> QED
    BY ONLY <2>1, <2>2, <2>3, OneMoreBelow, SMTT(20)
<1>2. a \in Int /\ b \in Int
  BY NodeHas
<1>3. a = b + c
  BY DEF VisitsAt
<1>4. /\ y[i].real = a + (IF on THEN 1 ELSE 0)
      /\ y[i].ends = b + (IF on /\ i = leaf THEN 1 ELSE 0)
  OBVIOUS
<1> HIDE DEF a, b, c, on
<1>5. y[i].real = y[i].ends + SumReal(y, t[i].kids)
  BY <1>1, <1>2, <1>3, <1>4
<1> QED
  BY <1>5 DEF VisitsAt

-----------------------------------------------------------------------------
VisitsOK(t, r) ==
    \A i \in 1 .. Len(t) : Descends(t, r, i) /\ i # r => VisitsAt(t, i, t[i].kids)

(* A pending leaf has no children, and the nodes on the way to it are still  *)
(* children of one another, but for those of the root, which may have been   *)
(* expanded again.                                                           *)
LeafOK(t, r, leaf) ==
    /\ t[leaf].line[Level(t, r)] = r
    /\ leaf # r => t[leaf].kids = {}
    /\ \A m \in Level(t, r) + 2 .. Level(t, leaf) : t[leaf].line[m] \in t[t[leaf].line[m - 1]].kids

PendingOK(t, r, leaves) == \A k \in 1 .. Len(leaves) : LeafOK(t, r, leaves[k])

VisitInv ==
    /\ TreeInv
    /\ VisitsOK(arena, root)
    /\ PendingOK(arena, root, pending)

LEMMA NoVisitsLost == VisitInv => NoVisitLost
<1> SUFFICES ASSUME VisitInv, NEW i \in DOMAIN arena, InTree(i), i # root
             PROVE  arena[i].real = arena[i].ends + RealBelow(i)
  BY DEF NoVisitLost
<1>1. TreeOK(arena) /\ root \in 1 .. Len(arena) /\ i \in 1 .. Len(arena)
  BY DEF VisitInv, TreeInv, TreeOK
<1>2. Descends(arena, root, i)
  BY <1>1, InTreeDescends
<1>3. RealBelow(i) = SumReal(arena, arena[i].kids)
  BY Zenon DEF RealBelow, SumReal
<1> QED
  BY <1>1, <1>2, <1>3 DEF VisitInv, VisitsOK, VisitsAt

(* What a batch leaves unchanged until it is written down.                   *)
LEMMA BatchOpens ==
    ASSUME VisitInv, NEW leaves, leaves = pending, NEW value, \A k \in 1 .. Len(leaves) : value[k] \in Int
    PROVE  LET b == BackpropAll(leaves, value)
           IN  /\ b \in Later
               /\ \A i \in 1 .. Len(arena) :
                     /\ b[i].real = arena[i].real /\ b[i].ends = arena[i].ends
                     /\ \/ b[i].kids = arena[i].kids
                        \/ /\ i # root => arena[i].kids = {}
                           /\ \A j \in b[i].kids : j \notin 1 .. Len(arena)
                     /\ (\A k \in 1 .. Len(leaves) : leaves[k] # i) => b[i].kids = arena[i].kids
<1> DEFINE n == Len(leaves)
           N == Len(arena)
           b == BackpropAll(leaves, value)
<1>1. TreeOK(arena) /\ root \in 1 .. N /\ Batch(arena, root, leaves) /\ PendingOK(arena, root, leaves)
  BY DEF VisitInv, TreeInv
<1>2. n \in Nat /\ N \in Nat
  BY <1>1 DEF Batch, TreeOK
<1>3. \A k \in 1 .. n : leaves[k] # root => arena[leaves[k]].kids = {}
  BY <1>1 DEF PendingOK, LeafOK
<1>4. PICK g : /\ g[0] = arena
               /\ \A k \in 1 .. n : g[k] \in Later /\ LeafStep(g[k - 1], g[k], leaves[k], value[k])
               /\ g[n] = b
  BY <1>1, BackpropFolds
<1> HIDE DEF b, n
<1> DEFINE Same(k, i) ==
               /\ g[k][i].real = arena[i].real /\ g[k][i].ends = arena[i].ends
               /\ \/ g[k][i].kids = arena[i].kids
                  \/ /\ i # root => arena[i].kids = {}
                     /\ \A j \in g[k][i].kids : j \notin 1 .. Len(arena)
               /\ (\A l \in 1 .. n : leaves[l] # i) => g[k][i].kids = arena[i].kids
           P == {k \in Nat : k <= n => g[k] \in Later /\ \A i \in 1 .. N : Same(k, i)}
<1>5. 0 \in P
  BY <1>1, <1>4, GrownItself
<1>6. ASSUME NEW k \in Nat, k \in P PROVE k + 1 \in P
  <2> SUFFICES ASSUME k + 1 <= n PROVE g[k + 1] \in Later /\ \A i \in 1 .. N : Same(k + 1, i)
    OBVIOUS
  <2> DEFINE m == k + 1
  <2>1. m \in 1 .. n /\ m - 1 = k /\ k <= n
    BY <1>2
  <2>2. g[k] \in Later /\ \A i \in 1 .. N : Same(k, i)
    BY <1>6, <2>1
  <2> HIDE DEF m
  <2>3. g[m] \in Later /\ LeafStep(g[k], g[m], leaves[m], value[m])
    BY <1>4, <2>1
  <2>4. Len(g[k]) \in Nat /\ Len(g[k]) >= N /\ Len(g[m]) \in Nat
    BY <2>2, <2>3 DEF Later, Grown
  <2>5. ASSUME NEW i \in 1 .. N PROVE Same(m, i)
    <3>1. i \in 1 .. Len(g[k])
      BY <1>2, <2>4
    <3>2. /\ g[m][i].real = g[k][i].real /\ g[m][i].ends = g[k][i].ends
          /\ g[m][i].kids = IF i = leaves[m] /\ Legal(arena[leaves[m]].pos) # {}
                            THEN Len(g[k]) + 1 .. Len(g[m]) ELSE g[k][i].kids
      BY <2>3, <3>1 DEF LeafStep
    <3>3. Same(k, i)
      BY <2>2
    <3>4. CASE g[m][i].kids = g[k][i].kids
      BY <3>2, <3>3, <3>4
    <3>5. CASE i = leaves[m] /\ g[m][i].kids = Len(g[k]) + 1 .. Len(g[m])
      <4>1. \A j \in g[m][i].kids : j \notin 1 .. Len(arena)
        BY <1>2, <2>4, <3>5
      <4>2. i # root => arena[i].kids = {}
        BY <1>3, <2>1, <3>5
      <4> QED
        BY <2>1, <3>2, <3>3, <3>5, <4>1, <4>2
    <3> QED
      BY <3>2, <3>4, <3>5
  <2> QED
    BY <2>3, <2>5 DEF m
<1>7. n \in P
  <2> HIDE DEF P
  <2> QED
    BY <1>2, <1>5, <1>6, NatSetInduction
<1>8. b \in Later /\ \A i \in 1 .. N : Same(n, i)
  <2> HIDE DEF Same, N
  <2>1. n <= n
    BY <1>2
  <2>2. g[n] \in Later /\ \A i \in 1 .. N : Same(n, i)
    BY <1>7, <2>1, Zenon
  <2> QED
    BY ONLY <1>4, <2>2, Zenon
<1> QED
  BY <1>4, <1>8 DEF b, n

LEMMA SameLevels ==
    ASSUME NEW t, NEW u, \A i \in 1 .. Len(t) : SamePlace(t[i], u[i]), NEW i \in 1 .. Len(t)
    PROVE  Level(u, i) = Level(t, i) /\ u[i].line = t[i].line
BY DEF SamePlace, Level

LEMMA BatchVisits ==
    ASSUME VisitInv, NEW leaves, leaves = pending, NEW value, \A k \in 1 .. Len(leaves) : value[k] \in Int
    PROVE  VisitsOK(AccountAll(BackpropAll(leaves, value), leaves, value), root)
<1> DEFINE n == Len(leaves)
           N == Len(arena)
           b == BackpropAll(leaves, value)
           c == AccountAll(b, leaves, value)
           M == Len(b)
           d == Level(b, root)
<1>1. /\ TreeOK(arena) /\ root \in 1 .. N /\ Batch(arena, root, leaves) /\ PendingOK(arena, root, leaves)
      /\ VisitsOK(arena, root)
  BY DEF VisitInv, TreeInv
<1>2. n \in Nat /\ N \in Nat /\ arena \in Seq(Nodes)
  BY <1>1 DEF Batch, TreeOK
<1>3. \A k \in 1 .. n : leaves[k] \in 1 .. N /\ Under(arena, root, leaves[k]) /\ LeafOK(arena, root, leaves[k])
  BY <1>1, <1>2 DEF Batch, PendingOK
<1>4. /\ b \in Later
      /\ \A i \in 1 .. N :
            /\ b[i].real = arena[i].real /\ b[i].ends = arena[i].ends
            /\ \/ b[i].kids = arena[i].kids
               \/ /\ i # root => arena[i].kids = {}
                  /\ \A j \in b[i].kids : j \notin 1 .. N
  BY BatchOpens
<1> HIDE DEF b
<1>5. PICK h : /\ h[0] = b
               /\ \A k \in 1 .. n : h[k] \in Alike(b) /\ AccountStep(h[k - 1], h[k], leaves[k], value[k])
               /\ h[n] = c
  <2>1. TreeOK(arena) /\ root \in 1 .. Len(arena) /\ b \in Later /\ Batch(arena, root, leaves)
    BY <1>1, <1>4
  <2>2. \A k \in 1 .. Len(leaves) : value[k] \in Int
    OBVIOUS
  <2> QED
    BY ONLY <2>1, <2>2, AccountFolds
<1> HIDE DEF c
<1>6. /\ b \in Seq(Nodes) /\ M \in Nat /\ M >= N /\ TreeOK(b)
      /\ (\A i \in 1 .. N : SamePlace(arena[i], b[i]) /\ i \in 1 .. M)
      /\ \A i \in 1 .. M : i \notin 1 .. N => Blank(b[i])
  <2>1. b \in Seq(Nodes) /\ TreeOK(b) /\ Grown(arena, b)
    BY <1>4 DEF Later
  <2>2. M \in Nat /\ M >= N
    BY <2>1 DEF Grown
  <2>3. \A i \in 1 .. M : i \notin 1 .. N => i \in N + 1 .. M
    BY <1>2, <2>2
  <2>4. \A i \in 1 .. N : i \in 1 .. M
    BY <1>2, <2>2
  <2> QED
    BY <2>1, <2>2, <2>3, <2>4 DEF Grown
<1>7. \A i \in 1 .. N : Level(b, i) = Level(arena, i) /\ b[i].line = arena[i].line
  BY <1>6, SameLevels
<1>8. \A i \in 1 .. M : b[i].kids \in SUBSET (1 .. M)
  BY <1>6, KidIs
<1>9. \A i \in 1 .. N : arena[i].kids \in SUBSET (1 .. N)
  BY <1>1, KidIs
<1>10. d = Level(arena, root) /\ d \in Nat \ {0}
  BY <1>1, <1>7, LevelsAre
<1> HIDE DEF M, d
<1>11. ASSUME NEW i \in 1 .. M, Descends(b, root, i), i # root
       PROVE  VisitsAt(b, i, b[i].kids)
  <2>1. CASE i \in 1 .. N
    <3> DEFINE line == arena[i].line
               e == Level(arena, i)
    <3>1. /\ e \in Nat /\ \A m \in 1 .. e : line[m] \in 1 .. N
      BY <1>1, <2>1, LevelsAre
    <3>2. /\ e >= d /\ line[d] = root
          /\ \A m \in d + 1 .. e : line[m] \in b[line[m - 1]].kids
      BY <1>7, <1>11, <2>1 DEF Descends, d
    <3> HIDE DEF line, e
    <3>3. ASSUME NEW m \in d + 1 .. e PROVE line[m] \in arena[line[m - 1]].kids
      <4>1. m \in 1 .. e /\ m - 1 \in 1 .. e
        BY <1>10, <3>1
      <4> QED
        BY <1>4, <3>1, <3>2, <4>1
    <3>4. Descends(arena, root, i)
      BY <1>10, <3>2, <3>3 DEF Descends, line, e
    <3>5. VisitsAt(arena, i, arena[i].kids)
      BY <1>1, <1>11, <2>1, <3>4 DEF VisitsOK
    <3>6. CASE b[i].kids = arena[i].kids
      <4>1. SumReal(b, arena[i].kids) = SumReal(arena, arena[i].kids)
        <5> DEFINE kids == arena[i].kids
        <5>1. kids \in SUBSET (1 .. N) /\ kids \subseteq 1 .. M /\ \A j \in kids : b[j].real = arena[j].real
          BY <1>4, <1>6, <1>9, <2>1
        <5> HIDE DEF kids
        <5>2. SumReal(b, kids) = SumReal(arena, kids)
          BY <1>2, <1>6, <5>1, SumStays DEF M
        <5> QED
          BY <5>2 DEF kids
      <4> QED
        BY <1>4, <2>1, <3>5, <3>6, <4>1 DEF VisitsAt
    <3>7. CASE arena[i].kids = {} /\ \A j \in b[i].kids : j \notin 1 .. N
      <4>1. SumReal(arena, {}) = 0
        BY <1>2, SumOfNone
      <4>2. SumReal(b, b[i].kids) = 0
        <5> DEFINE kids == b[i].kids
        <5>1. kids \in SUBSET (1 .. M) /\ \A j \in kids : b[j].real = 0
          BY <1>6, <1>8, <3>7 DEF Blank
        <5> HIDE DEF kids
        <5>2. SumReal(b, kids) = 0
          BY <1>6, <5>1, SumOfNone DEF M
        <5> QED
          BY <5>2 DEF kids
      <4> QED
        BY <1>4, <2>1, <3>5, <3>7, <4>1, <4>2 DEF VisitsAt
    <3> QED
      BY <1>4, <1>11, <2>1, <3>6, <3>7
  <2>2. CASE i \notin 1 .. N
    <3>1. Blank(b[i])
      BY <1>6, <2>2
    <3>2. SumReal(b, {}) = 0
      BY <1>6, SumOfNone
    <3> QED
      BY <3>1, <3>2 DEF Blank, VisitsAt
  <2> QED
    BY <2>1, <2>2
<1>12. ASSUME NEW k \in 1 .. n, NEW i \in 1 .. M, i # root,
              NEW m \in d + 1 .. Level(b, leaves[k]), b[leaves[k]].line[m - 1] = i
       PROVE  b[leaves[k]].line[m] \in b[i].kids
  <2> DEFINE leaf == leaves[k]
             line == arena[leaf].line
             e == Level(arena, leaf)
  <2>1. leaf \in 1 .. N /\ b[leaf].line = line /\ Level(b, leaf) = e
    BY <1>3, <1>7
  <2>2. e \in Nat /\ \A l \in 1 .. e : line[l] \in 1 .. N
    BY <1>1, <2>1, LevelsAre
  <2>3. /\ line[d] = root /\ \A l \in d + 2 .. e : line[l] \in arena[line[l - 1]].kids
    BY <1>3, <1>10 DEF LeafOK
  <2> HIDE DEF leaf, line, e
  <2>4. m \in d + 1 .. e /\ line[m - 1] = i
    BY <1>12, <2>1 DEF leaf
  <2>5. m - 1 # d
    BY <1>12, <2>3, <2>4
  <2>6. m \in d + 2 .. e /\ m - 1 \in 1 .. e
    BY <1>10, <2>2, <2>4, <2>5
  <2>7. line[m] \in arena[i].kids /\ i \in 1 .. N
    BY <2>2, <2>3, <2>4, <2>6
  <2>8. line[m] \in b[i].kids
    BY <1>4, <1>12, <2>7
  <2> QED
    BY <2>1, <2>8 DEF leaf
<1>13. ASSUME NEW k \in 0 .. n
       PROVE  /\ h[k] \in Seq(Nodes) /\ Len(h[k]) = M
              /\ \A i \in 1 .. M : SamePlace(b[i], h[k][i]) /\ h[k][i].kids = b[i].kids
  <2>1. k = 0 \/ k \in 1 .. n
    BY <1>2
  <2>2. h[k] \in Alike(b)
    BY <1>4, <1>5, <2>1, AlikeItself
  <2> QED
    BY <2>2 DEF Alike, M
<1>14. ASSUME NEW i \in 1 .. M, Descends(b, root, i), i # root
       PROVE  VisitsAt(c, i, b[i].kids)
  <2> DEFINE P == {k \in Nat : k <= n => VisitsAt(h[k], i, b[i].kids)}
  <2>1. 0 \in P
    BY <1>5, <1>11, <1>14
  <2>2. ASSUME NEW k \in Nat, k \in P PROVE k + 1 \in P
    <3> SUFFICES ASSUME k + 1 <= n PROVE VisitsAt(h[k + 1], i, b[i].kids)
      OBVIOUS
    <3> DEFINE l == k + 1
               leaf == leaves[l]
               x == h[k]
               y == h[l]
    <3>1. l \in 1 .. n /\ l - 1 = k /\ k \in 0 .. n /\ l \in 0 .. n /\ k <= n
      BY <1>2
    <3> HIDE DEF l
    <3>2. VisitsAt(x, i, b[i].kids)
      BY <2>2, <3>1
    <3>3. leaf \in 1 .. N /\ Under(arena, root, leaf) /\ AccountStep(x, y, leaf, value[l])
      BY <1>3, <1>5, <3>1
    <3>4. \A m \in d + 1 .. Level(b, leaf) : b[leaf].line[m - 1] = i => b[leaf].line[m] \in b[i].kids
      BY <1>12, <1>14, <3>1
    <3>5. x \in Seq(Nodes) /\ Len(x) = M /\ y \in Seq(Nodes) /\ Len(y) = M
      BY <1>13, <3>1
    <3> HIDE DEF leaf, x, y
    <3>6. Under(b, root, leaf) /\ \A j : On(b, root, leaf, j) <=> On(arena, root, leaf, j)
      BY <1>1, <1>6, <3>3, SamePath DEF Under, On
    <3>7. /\ \A j \in 1 .. M : y[j].real = x[j].real + (IF On(b, root, leaf, j) THEN 1 ELSE 0)
          /\ y[i].ends = x[i].ends + (IF On(b, root, leaf, i) /\ i = leaf THEN 1 ELSE 0)
      BY <3>3, <3>5, <3>6 DEF AccountStep
    <3>8. Level(b, i) >= Level(b, root)
      BY <1>14 DEF Descends
    <3>9. root \in 1 .. M /\ leaf \in 1 .. M
      BY <1>1, <1>6, <3>3
    <3>10. VisitsAt(y, i, b[i].kids)
      <4>1. /\ TreeOK(b) /\ root \in 1 .. Len(b) /\ leaf \in 1 .. Len(b) /\ Under(b, root, leaf)
            /\ i \in 1 .. Len(b) /\ Level(b, i) >= Level(b, root)
            /\ x \in Seq(Nodes) /\ y \in Seq(Nodes) /\ Len(x) = Len(b) /\ Len(y) = Len(b)
        BY <1>6, <3>5, <3>6, <3>8, <3>9 DEF M
      <4>2. \A m \in Level(b, root) + 1 .. Level(b, leaf) :
                b[leaf].line[m - 1] = i => b[leaf].line[m] \in b[i].kids
        BY <3>4 DEF d
      <4>3. \A j \in 1 .. Len(b) : y[j].real = x[j].real + (IF On(b, root, leaf, j) THEN 1 ELSE 0)
        BY <3>7 DEF M
      <4>4. y[i].ends = x[i].ends + (IF On(b, root, leaf, i) /\ i = leaf THEN 1 ELSE 0)
        BY <3>7
      <4> QED
        BY ONLY <3>2, <4>1, <4>2, <4>3, <4>4, OneMoreVisit
    <3> QED
      BY <3>10 DEF y, l
  <2>3. n \in P
    <3> HIDE DEF P
    <3> QED
      BY <1>2, <2>1, <2>2, NatSetInduction
  <2> QED
    BY <1>2, <1>5, <2>3
<1>15. n \in 0 .. n /\ h[n] = c
  BY <1>2, <1>5
<1>16. Len(c) = M /\ \A i \in 1 .. M : SamePlace(b[i], c[i]) /\ c[i].kids = b[i].kids
  BY <1>13, <1>15
<1>17. ASSUME NEW i \in 1 .. M, Descends(c, root, i) PROVE Descends(b, root, i)
  <2>1. \A j \in 1 .. M : Level(c, j) = Level(b, j) /\ c[j].line = b[j].line
    BY <1>16, SameLevels DEF M
  <2>2. Level(b, i) \in Nat /\ root \in 1 .. M /\ \A m \in 1 .. Level(b, i) : b[i].line[m] \in 1 .. M
    BY <1>1, <1>6, LevelsAre DEF M
  <2>3. /\ Level(b, i) >= d /\ b[i].line[d] = root
        /\ \A m \in d + 1 .. Level(b, i) : b[i].line[m] \in c[b[i].line[m - 1]].kids
    BY <1>17, <2>1, <2>2 DEF Descends, d
  <2>4. ASSUME NEW m \in d + 1 .. Level(b, i) PROVE b[i].line[m] \in b[b[i].line[m - 1]].kids
    <3>1. m - 1 \in 1 .. Level(b, i)
      BY <1>10, <2>2
    <3> QED
      BY <1>16, <2>2, <2>3, <3>1
  <2> QED
    BY <2>3, <2>4 DEF Descends, d
<1>18. VisitsOK(c, root)
  BY <1>14, <1>16, <1>17 DEF VisitsOK
<1> QED
  BY <1>18 DEF c, b

LEMMA NonePending == ASSUME NEW t, NEW r PROVE PendingOK(t, r, <<>>)
<1>1. \A k \in 1 .. Len(<<>>) : FALSE
  OBVIOUS
<1> QED
  BY <1>1 DEF PendingOK

(* Other statistics than the completed simulations do not matter here. *)
LEMMA SameVisits ==
    ASSUME NEW t, TreeOK(t), NEW r \in 1 .. Len(t), NEW u \in Seq(Nodes), Len(u) = Len(t),
           \A i \in 1 .. Len(t) : /\ SamePlace(t[i], u[i]) /\ u[i].kids = t[i].kids
                                  /\ u[i].real = t[i].real /\ u[i].ends = t[i].ends
    PROVE  /\ VisitsOK(t, r) => VisitsOK(u, r)
           /\ \A leaf \in 1 .. Len(t) : LeafOK(t, r, leaf) => LeafOK(u, r, leaf)
<1> DEFINE N == Len(t)
           d == Level(t, r)
<1>1. \A i \in 1 .. N : Level(u, i) = Level(t, i) /\ u[i].line = t[i].line
  BY SameLevels
<1>2. d \in Nat \ {0} /\ t \in Seq(Nodes) /\ Level(u, r) = d
  BY <1>1, LevelsAre DEF TreeOK
<1>3. ASSUME NEW i \in 1 .. N
      PROVE  Level(t, i) \in Nat /\ \A m \in 1 .. Level(t, i) : t[i].line[m] \in 1 .. N
  BY LevelsAre
<1> HIDE DEF N, d
<1>4. ASSUME NEW i \in 1 .. N, NEW m \in d + 1 .. Level(t, i)
      PROVE  u[t[i].line[m - 1]].kids = t[t[i].line[m - 1]].kids
  <2>1. m - 1 \in 1 .. Level(t, i)
    BY <1>2, <1>3
  <2>2. t[i].line[m - 1] \in 1 .. N
    BY <1>3, <2>1
  <2> QED
    BY <2>2 DEF N
<1>5. ASSUME VisitsOK(t, r) PROVE VisitsOK(u, r)
  <2> SUFFICES ASSUME NEW i \in 1 .. N, Descends(u, r, i), i # r PROVE VisitsAt(u, i, u[i].kids)
    BY DEF VisitsOK, N
  <2>1. Descends(t, r, i)
    BY <1>1, <1>2, <1>4 DEF Descends, d
  <2>2. VisitsAt(t, i, t[i].kids)
    BY <1>5, <2>1 DEF VisitsOK, N
  <2> DEFINE kids == t[i].kids
  <2>3. kids \in SUBSET (1 .. N)
    BY KidIs DEF N
  <2>4. u[i].kids = kids /\ \A j \in kids : u[j].real = t[j].real
    BY <2>3 DEF N
  <2> HIDE DEF kids
  <2>5. SumReal(u, kids) = SumReal(t, kids)
    BY <1>2, <2>3, <2>4, SumStays DEF N
  <2>6. u[i].real = t[i].real /\ u[i].ends = t[i].ends
    BY DEF N
  <2> QED
    BY <2>2, <2>4, <2>5, <2>6 DEF VisitsAt, kids
<1>6. ASSUME NEW leaf \in 1 .. N, LeafOK(t, r, leaf) PROVE LeafOK(u, r, leaf)
  <2>1. u[leaf].line = t[leaf].line /\ Level(u, leaf) = Level(t, leaf) /\ u[leaf].kids = t[leaf].kids
    BY <1>1 DEF N
  <2>2. \A m \in d + 2 .. Level(t, leaf) : m \in d + 1 .. Level(t, leaf)
    BY <1>2
  <2>3. /\ t[leaf].line[d] = r /\ (leaf # r => t[leaf].kids = {})
        /\ \A m \in d + 2 .. Level(t, leaf) : t[leaf].line[m] \in t[t[leaf].line[m - 1]].kids
    BY <1>6 DEF LeafOK, d
  <2>4. \A m \in d + 2 .. Level(t, leaf) : t[leaf].line[m] \in u[t[leaf].line[m - 1]].kids
    BY <1>4, <2>2, <2>3
  <2> QED
    BY <1>2, <2>1, <2>3, <2>4 DEF LeafOK
<1> QED
  BY <1>5, <1>6 DEF N

LEMMA FreshVisits ==
    ASSUME NEW pos \in Seq(GameCells)
    PROVE  VisitsOK(FreshArena(pos), 1)
<1>1. \A i \in 1 .. Len(FreshArena(pos)) : i = 1
  BY DEF FreshArena
<1> QED
  BY <1>1 DEF VisitsOK

LEMMA VisitsStart == EngineInit => VisitInv
<1> SUFFICES ASSUME EngineInit PROVE VisitInv
  OBVIOUS
<1>1. PICK pos \in Starts : arena = FreshArena(pos)
  BY DEF EngineInit
<1>2. pos \in Seq(GameCells) /\ root = 1 /\ pending = <<>>
  BY EngineConstants DEF EngineInit
<1> QED
  BY <1>1, <1>2, TreeStarts, FreshVisits, NonePending DEF VisitInv

LEMMA FreshEngineVisits ==
    ASSUME NEW pos \in Seq(GameCells), FreshEngine(pos)
    PROVE  VisitInv'
<1>1. arena' = FreshArena(pos) /\ root' = 1 /\ pending' = <<>> /\ TreeInv'
  BY FreshEngineTree DEF FreshEngine
<1> QED
  BY <1>1, FreshVisits, NonePending DEF VisitInv

LEMMA ExpandRootVisits ==
    ASSUME VisitInv, NEW token, ExpandRoot(token)
    PROVE  VisitInv'
<1> DEFINE legal == RootLegal(arena[root].pos)
           b == Expand(arena, root, legal)
           N == Len(arena)
           d == Level(arena, root)
<1>1. /\ TreeOK(arena) /\ root \in 1 .. N /\ Batch(arena, root, pending) /\ PendingOK(arena, root, pending)
      /\ VisitsOK(arena, root) /\ TreeInv'
  BY ExpandRootTree DEF VisitInv, TreeInv
<1>2. arena' = b /\ root' = root /\ pending' = pending
  BY DEF ExpandRoot
<1>3. legal \in SUBSET GameCells /\ IsFiniteSet(legal)
  <2>1. arena[root].pos \in Seq(GameCells)
    BY <1>1, LineIs, NodeHas
  <2> QED
    BY <2>1, MovesAre
<1> HIDE DEF legal
<1>4. /\ TreeOK(b) /\ Len(b) >= N
      /\ \A j \in 1 .. N :
            b[j] = IF j = root /\ legal # {} THEN WithKids(arena[j], N + 1 .. Len(b)) ELSE arena[j]
      /\ \A j \in N + 1 .. Len(b) : Blank(b[j])
  BY <1>1, <1>3, ExpandIs
<1>5. N \in Nat /\ Len(b) \in Nat /\ arena \in Seq(Nodes) /\ b \in Seq(Nodes) /\ \A j \in 1 .. N : arena[j] \in Nodes
  BY <1>1, <1>4 DEF TreeOK
<1> HIDE DEF b
<1>6. ASSUME NEW j \in 1 .. N
      PROVE  /\ SamePlace(arena[j], b[j])
             /\ b[j].real = arena[j].real /\ b[j].ends = arena[j].ends
             /\ b[j].kids = IF j = root /\ legal # {} THEN N + 1 .. Len(b) ELSE arena[j].kids
  <2> DEFINE kids == N + 1 .. Len(b)
             w == WithKids(arena[j], kids)
  <2>1. kids \in SUBSET Nat /\ arena[j] \in Nodes
    BY <1>5
  <2>2. b[j] = IF j = root /\ legal # {} THEN w ELSE arena[j]
    BY <1>4
  <2> HIDE DEF kids
  <2>3. /\ SamePlace(arena[j], w) /\ w.real = arena[j].real /\ w.ends = arena[j].ends /\ w.kids = kids
    BY <2>1, WithKidsIs
  <2> HIDE DEF w
  <2> QED
    BY <2>2, <2>3 DEF SamePlace, kids
<1>7. \A i \in 1 .. N : Level(b, i) = Level(arena, i) /\ b[i].line = arena[i].line
  BY <1>6, SameLevels
<1>8. d \in Nat \ {0} /\ Level(b, root) = d
  BY <1>1, <1>7, LevelsAre
<1> HIDE DEF N, d
<1>9. ASSUME NEW i \in 1 .. N
      PROVE  /\ Level(arena, i) \in Nat \ {0} /\ arena[i].line[Level(arena, i)] = i
             /\ \A m \in 1 .. Level(arena, i) :
                   arena[i].line[m] \in 1 .. N /\ Level(arena, arena[i].line[m]) = m
  BY <1>1, LevelsAre DEF N
<1>10. ASSUME NEW i \in 1 .. Len(b), Descends(b, root, i), i # root
       PROVE  VisitsAt(b, i, b[i].kids)
  <2>1. CASE i \in 1 .. N
    <3> DEFINE line == arena[i].line
               e == Level(arena, i)
    <3>1. /\ e >= d /\ line[d] = root
          /\ \A m \in d + 1 .. e : line[m] \in b[line[m - 1]].kids
      BY <1>7, <1>8, <1>10, <2>1 DEF Descends
    <3>2. e \in Nat \ {0} /\ line[e] = i /\ \A m \in 1 .. e : line[m] \in 1 .. N
      BY <1>9, <2>1
    <3> HIDE DEF line, e
    <3>3. e # d
      BY <1>10, <3>1, <3>2
    <3>4. d + 1 \in d + 1 .. e /\ (d + 1) - 1 = d /\ d + 1 \in 1 .. e
      BY <1>8, <3>1, <3>2, <3>3
    <3>5. line[d + 1] \in b[root].kids /\ line[d + 1] \in 1 .. N
      BY <3>1, <3>2, <3>4
    <3>6. legal = {}
      BY <1>1, <1>5, <1>6, <3>5 DEF N
    <3>7. \A j \in 1 .. N : b[j].kids = arena[j].kids
      BY <1>6, <3>6
    <3>8. ASSUME NEW m \in d + 1 .. e PROVE line[m] \in arena[line[m - 1]].kids
      <4>1. m - 1 \in 1 .. e
        BY <1>8, <3>2
      <4> QED
        BY <3>1, <3>2, <3>7, <4>1
    <3>9. Descends(arena, root, i)
      BY <3>1, <3>8 DEF Descends, line, e, d
    <3>10. VisitsAt(arena, i, arena[i].kids)
      BY <1>1, <1>10, <2>1, <3>9 DEF VisitsOK, N
    <3> DEFINE kids == arena[i].kids
    <3>11. kids \in SUBSET (1 .. N) /\ b[i].kids = kids
      BY <1>1, <2>1, <3>7, KidIs DEF N
    <3> HIDE DEF kids
    <3>12. SumReal(b, kids) = SumReal(arena, kids)
      <4>1. kids \in SUBSET (1 .. Len(arena)) /\ kids \subseteq 1 .. Len(b) /\ \A j \in kids : b[j].real = arena[j].real
        BY <1>4, <1>5, <1>6, <3>11 DEF N
      <4>2. arena \in Seq(Nodes) /\ b \in Seq(Nodes)
        BY <1>5
      <4> QED
        BY ONLY <4>1, <4>2, SumStays
    <3> QED
      BY <1>6, <2>1, <3>10, <3>11, <3>12 DEF VisitsAt, kids
  <2>2. CASE i \notin 1 .. N
    <3>1. Blank(b[i])
      BY <1>4, <1>5, <2>2
    <3>2. SumReal(b, {}) = 0
      BY <1>5, SumOfNone
    <3> QED
      BY <3>1, <3>2 DEF Blank, VisitsAt
  <2> QED
    BY <2>1, <2>2
<1>11. ASSUME NEW k \in 1 .. Len(pending) PROVE LeafOK(b, root, pending[k])
  <2> DEFINE leaf == pending[k]
             line == arena[leaf].line
             e == Level(arena, leaf)
  <2>1. leaf \in 1 .. N /\ LeafOK(arena, root, leaf)
    BY <1>1 DEF Batch, PendingOK, N
  <2>2. b[leaf].line = line /\ Level(b, leaf) = e
    BY <1>7, <2>1
  <2>3. e \in Nat \ {0} /\ \A m \in 1 .. e : line[m] \in 1 .. N /\ Level(arena, line[m]) = m
    BY <1>9, <2>1
  <2>4. /\ line[d] = root /\ (leaf # root => arena[leaf].kids = {})
        /\ \A m \in d + 2 .. e : line[m] \in arena[line[m - 1]].kids
    BY <2>1 DEF LeafOK, d
  <2> HIDE DEF leaf, line, e
  <2>5. ASSUME NEW m \in d + 2 .. e PROVE line[m] \in b[line[m - 1]].kids
    <3>1. m - 1 \in 1 .. e /\ m - 1 # d
      BY <1>8, <2>3
    <3>2. line[m - 1] \in 1 .. N /\ line[m - 1] # root
      BY <2>3, <3>1 DEF d
    <3> QED
      BY <1>6, <2>4, <3>2
  <2>6. leaf # root => b[leaf].kids = {}
    BY <1>6, <2>1, <2>4
  <2> QED
    BY <1>8, <2>2, <2>4, <2>5, <2>6 DEF LeafOK, leaf
<1> QED
  BY <1>1, <1>2, <1>10, <1>11 DEF VisitInv, VisitsOK, PendingOK

LEMMA SelectKeeps ==
    ASSUME TreeInv, NEW leaves \in TupleOf(Leaves, BatchLimit), SelectLeaves(leaves)
    PROVE  /\ arena' \in Seq(Nodes) /\ Len(arena') = Len(arena) /\ root' = root /\ pending' = leaves
           /\ \A i \in 1 .. Len(arena) :
                 /\ SamePlace(arena[i], arena'[i]) /\ arena'[i].kids = arena[i].kids
                 /\ arena'[i].real = arena[i].real /\ arena'[i].ends = arena[i].ends
           /\ \A leaf \in ToSet(leaves) :
                 leaf \in 1 .. Len(arena) /\ arena[leaf].kids = {} /\ Descends(arena, root, leaf)
<1> DEFINE b == RemoveVirtualLoss(arena, pending)
           c == AddVirtualLoss(b, leaves)
           N == Len(arena)
<1>1. TreeOK(arena) /\ root \in 1 .. N /\ TreeInv' /\ N \in Nat
  BY SelectTree DEF TreeInv, TreeOK
<1>2. arena' = c /\ root' = root /\ pending' = leaves
  BY DEF SelectLeaves
<1>3. /\ b \in Seq(Nodes) /\ Len(b) = N
      /\ \A i \in 1 .. N :
            /\ b[i] \in Nodes /\ SamePlace(arena[i], b[i])
            /\ b[i].kids = arena[i].kids /\ b[i].ends = arena[i].ends
            /\ b[i].real = arena[i].real
  BY TakenBack
<1>4. \A k \in 1 .. Len(leaves) : leaves[k] \in Leaves
  BY DEF SelectLeaves, TupleOf
<1>5. \A i : PassedBy(leaves, i) \in Nat
  <2>1. Batch(arena, root, leaves)'
    BY <1>1, <1>2 DEF TreeInv
  <2>2. leaves \in Seq(1 .. Len(arena'))
    BY <1>2, <2>1 DEF Batch
  <2>3. Len(leaves) \in Nat /\ DOMAIN leaves = 1 .. Len(leaves)
    BY <2>2
  <2> QED
    BY <2>3, ThroughIs DEF PassedBy
<1>6. /\ c \in Seq(Nodes) /\ Len(c) = N
      /\ \A i \in 1 .. N :
            c[i] = Recounted(b[i], b[i].visits + PassedBy(leaves, i), b[i].total - PassedBy(leaves, i))
  BY <1>3, <1>5, AddIs
<1> HIDE DEF b, c
<1>7. ASSUME NEW i \in 1 .. N
      PROVE  /\ SamePlace(arena[i], c[i]) /\ c[i].kids = arena[i].kids
             /\ c[i].real = arena[i].real /\ c[i].ends = arena[i].ends
  <2> DEFINE x == b[i].visits + PassedBy(leaves, i)
             y == b[i].total - PassedBy(leaves, i)
             new == Recounted(b[i], x, y)
  <2>1. b[i] \in Nodes /\ b[i].visits \in Int /\ b[i].total \in Int
    BY <1>3, NodeHas
  <2>2. x \in Int /\ y \in Int /\ c[i] = new
    BY <1>5, <1>6, <2>1
  <2> HIDE DEF x, y
  <2>3. SamePlace(b[i], new) /\ new.kids = b[i].kids /\ new.real = b[i].real /\ new.ends = b[i].ends
    BY <2>1, <2>2, RecountedIs
  <2> HIDE DEF new
  <2> QED
    BY <1>3, <2>2, <2>3 DEF SamePlace
<1>8. ASSUME NEW leaf \in Leaves
      PROVE  leaf \in 1 .. N /\ arena[leaf].kids = {} /\ Descends(arena, root, leaf)
  <2>1. leaf \in 1 .. N /\ arena[leaf].kids = {} /\ InTree(leaf)
    BY <1>1 DEF Leaves, TreeOK
  <2> QED
    BY <1>1, <2>1, InTreeDescends
<1>9. \A leaf \in ToSet(leaves) : leaf \in Leaves
  BY DEF ToSet, SelectLeaves
<1> QED
  BY <1>2, <1>6, <1>7, <1>8, <1>9

LEMMA SelectVisits ==
    ASSUME VisitInv, NEW leaves \in TupleOf(Leaves, BatchLimit), SelectLeaves(leaves)
    PROVE  VisitInv'
<1> DEFINE N == Len(arena)
           c == arena'
<1>1. TreeOK(arena) /\ root \in 1 .. N /\ VisitsOK(arena, root) /\ TreeInv /\ TreeInv' /\ N \in Nat
  BY SelectTree DEF VisitInv, TreeInv, TreeOK
<1>2. /\ c \in Seq(Nodes) /\ Len(c) = N /\ root' = root /\ pending' = leaves
      /\ \A i \in 1 .. N :
            /\ SamePlace(arena[i], c[i]) /\ c[i].kids = arena[i].kids
            /\ c[i].real = arena[i].real /\ c[i].ends = arena[i].ends
      /\ \A leaf \in ToSet(leaves) :
            leaf \in 1 .. N /\ arena[leaf].kids = {} /\ Descends(arena, root, leaf)
  BY <1>1, SelectKeeps
<1> HIDE DEF c
<1>3. /\ VisitsOK(c, root)
      /\ \A leaf \in 1 .. N : LeafOK(arena, root, leaf) => LeafOK(c, root, leaf)
  BY <1>1, <1>2, SameVisits
<1>4. ASSUME NEW leaf \in ToSet(leaves) PROVE leaf \in 1 .. N /\ LeafOK(arena, root, leaf)
  <2>1. leaf \in 1 .. N /\ arena[leaf].kids = {} /\ Descends(arena, root, leaf)
    BY <1>2
  <2>2. Level(arena, root) \in Nat
    BY <1>1, LevelsAre
  <2>3. \A m \in Level(arena, root) + 2 .. Level(arena, leaf) : m \in Level(arena, root) + 1 .. Level(arena, leaf)
    BY <2>2
  <2> QED
    BY <2>1, <2>3 DEF Descends, LeafOK
<1>5. \A k \in 1 .. Len(leaves) : leaves[k] \in ToSet(leaves)
  BY DEF ToSet, TupleOf, SelectLeaves
<1>6. PendingOK(c, root, leaves)
  BY <1>3, <1>4, <1>5 DEF PendingOK
<1> QED
  BY <1>1, <1>2, <1>3, <1>6 DEF VisitInv, c

LEMMA BackpropVisits ==
    ASSUME VisitInv, NEW token, NEW value \in [DOMAIN pending -> Int], ExpandAndBackprop(token, value)
    PROVE  VisitInv'
<1>1. /\ arena' = AccountAll(BackpropAll(pending, value), pending, value)
      /\ root' = root /\ pending' = <<>>
  BY Zenon DEF ExpandAndBackprop, BackpropAll, AccountAll
<1>2. pending \in Seq(1 .. Len(arena)) /\ TreeInv
  BY DEF VisitInv, TreeInv, Batch
<1>3. \A k \in 1 .. Len(pending) : value[k] \in Int
  BY <1>2
<1>4. VisitsOK(AccountAll(BackpropAll(pending, value), pending, value), root)
  BY <1>3, BatchVisits
<1>5. TreeInv'
  BY <1>2, BackpropTree
<1> QED
  BY <1>1, <1>4, <1>5, NonePending DEF VisitInv

LEMMA ReRootVisits ==
    ASSUME VisitInv, NEW kid, ReRoot(kid)
    PROVE  VisitInv'
<1> DEFINE b == RemoveVirtualLoss(arena, pending)
           kept == IF arena[kid].pos \in Threatened THEN {} ELSE b[kid].kids
           c == [b EXCEPT ![kid].kids = kept]
           N == Len(arena)
           d == Level(arena, root)
<1>1. TreeOK(arena) /\ root \in 1 .. N /\ VisitsOK(arena, root) /\ TreeInv /\ TreeInv' /\ arena \in Seq(Nodes)
  BY ReRootTree DEF VisitInv, TreeInv, TreeOK
<1>2. arena' = c /\ root' = kid /\ pending' = <<>> /\ kid \in arena[root].kids
  BY DEF ReRoot
<1>3. /\ b \in Seq(Nodes) /\ Len(b) = N
      /\ \A i \in 1 .. N :
            /\ b[i] \in Nodes /\ SamePlace(arena[i], b[i])
            /\ b[i].kids = arena[i].kids /\ b[i].ends = arena[i].ends
            /\ b[i].real = arena[i].real
  BY <1>1, TakenBack
<1>4. /\ kid \in 1 .. N /\ Level(arena, kid) = d + 1
      /\ \A l \in 1 .. d : arena[kid].line[l] = arena[root].line[l]
  BY <1>1, <1>2, KidIs
<1>5. d \in Nat \ {0} /\ arena[root].line[d] = root
  BY <1>1, LevelsAre
<1> HIDE DEF b
<1>6. c = [b EXCEPT ![kid] = WithKids(b[kid], kept)]
  BY DEF WithKids
<1>7. kept \in SUBSET Nat /\ b[kid] \in Nodes /\ kept \subseteq arena[kid].kids
  BY <1>3, <1>4, NodeHas
<1> DEFINE new == WithKids(b[kid], kept)
<1> HIDE DEF kept
<1>8. /\ new \in Nodes /\ SamePlace(b[kid], new) /\ new.kids = kept
      /\ new.real = b[kid].real /\ new.ends = b[kid].ends
  BY <1>7, WithKidsIs
<1> HIDE DEF c, new, N, d
<1>9. c \in Seq(Nodes) /\ Len(c) = N /\ \A i \in 1 .. N : c[i] = IF i = kid THEN new ELSE b[i]
  BY <1>3, <1>4, <1>6, <1>8 DEF new
<1>10. \A i \in 1 .. N : /\ SamePlace(arena[i], c[i]) /\ c[i].kids \subseteq arena[i].kids
                         /\ c[i].real = arena[i].real /\ c[i].ends = arena[i].ends
                         /\ (i # kid => c[i].kids = arena[i].kids)
  <2> SUFFICES ASSUME NEW i \in 1 .. N
               PROVE  /\ SamePlace(arena[i], c[i]) /\ c[i].kids \subseteq arena[i].kids
                      /\ c[i].real = arena[i].real /\ c[i].ends = arena[i].ends
                      /\ (i # kid => c[i].kids = arena[i].kids)
    OBVIOUS
  <2>1. /\ SamePlace(arena[i], b[i]) /\ b[i].kids = arena[i].kids
        /\ b[i].ends = arena[i].ends /\ b[i].real = arena[i].real
    BY <1>3
  <2>2. CASE i = kid
    <3>1. c[i] = new /\ SamePlace(b[i], new) /\ new.kids = kept /\ new.real = b[i].real /\ new.ends = b[i].ends
      BY <1>8, <1>9, <2>2
    <3> QED
      BY <1>7, <2>1, <2>2, <3>1 DEF SamePlace
  <2>3. CASE i # kid
    <3>1. c[i] = b[i]
      BY <1>9, <2>3
    <3> QED
      BY <2>1, <3>1
  <2> QED
    BY <2>2, <2>3
<1>11. \A i \in 1 .. N : Level(c, i) = Level(arena, i) /\ c[i].line = arena[i].line
  BY <1>10, SameLevels DEF N
<1>12. ASSUME NEW i \in 1 .. N, Descends(c, kid, i), i # kid PROVE VisitsAt(c, i, c[i].kids)
  <2> DEFINE line == arena[i].line
             e == Level(arena, i)
  <2>1. /\ e \in Nat \ {0} /\ line[e] = i
        /\ \A m \in 1 .. e : /\ line[m] \in 1 .. N
                             /\ \A l \in 1 .. m : arena[line[m]].line[l] = line[l]
    <3>1. TreeOK(arena) /\ i \in 1 .. Len(arena)
      BY <1>1 DEF N
    <3>2. e \in Nat \ {0} /\ line[e] = i
      BY ONLY <3>1, LevelsAre
    <3>3. \A m \in 1 .. e : /\ line[m] \in 1 .. Len(arena)
                            /\ \A l \in 1 .. m : arena[line[m]].line[l] = line[l]
      BY ONLY <3>1, LevelsAre
    <3> QED
      BY <3>2, <3>3 DEF N
  <2>2. /\ e >= d + 1 /\ line[d + 1] = kid
        /\ \A m \in (d + 1) + 1 .. e : line[m] \in c[line[m - 1]].kids
    BY <1>4, <1>11, <1>12 DEF Descends
  <2> HIDE DEF line, e
  <2>3. line[d] = root
    <3>1. d + 1 \in 1 .. e /\ d \in 1 .. d + 1 /\ d \in 1 .. d
      BY <1>5, <2>1, <2>2
    <3> QED
      BY <1>4, <1>5, <2>1, <2>2, <3>1
  <2>4. ASSUME NEW m \in d + 1 .. e PROVE line[m] \in arena[line[m - 1]].kids
    <3>1. CASE m = d + 1
      <4>1. m - 1 = d
        BY <1>5, <3>1
      <4> QED
        BY <1>2, <2>2, <2>3, <3>1, <4>1
    <3>2. CASE m # d + 1
      <4>1. m \in (d + 1) + 1 .. e /\ m - 1 \in 1 .. e
        BY <1>5, <2>1, <3>2
      <4> QED
        BY <1>10, <2>1, <2>2, <4>1
    <3> QED
      BY <3>1, <3>2
  <2>5. Descends(arena, root, i)
    BY <1>5, <2>1, <2>2, <2>3, <2>4 DEF Descends, line, e, d
  <2>6. i # root
    <3>1. Level(arena, i) = e /\ Level(arena, root) = d
      BY DEF e, d
    <3> QED
      BY <1>5, <2>1, <2>2, <3>1
  <2>7. VisitsAt(arena, i, arena[i].kids)
    BY <1>1, <2>5, <2>6 DEF VisitsOK, N
  <2> DEFINE kids == arena[i].kids
  <2>8. kids \in SUBSET (1 .. N) /\ c[i].kids = kids
    BY <1>1, <1>10, <1>12, KidIs DEF N
  <2>9. \A j \in kids : c[j].real = arena[j].real
    BY <1>10, <2>8
  <2> HIDE DEF kids
  <2>10. SumReal(c, kids) = SumReal(arena, kids)
    BY <1>1, <1>9, <2>8, <2>9, SumStays DEF N
  <2> QED
    BY <1>10, <2>7, <2>8, <2>10 DEF VisitsAt, kids
<1>13. VisitsOK(c, kid)
  BY <1>9, <1>12 DEF VisitsOK
<1> QED
  BY <1>1, <1>2, <1>13, NonePending DEF VisitInv

LEMMA ReRootMissingVisits ==
    ASSUME VisitInv, ReRootMissing
    PROVE  VisitInv'
<1> DEFINE b == RemoveVirtualLoss(arena, pending)
<1>1. TreeOK(arena) /\ root \in 1 .. Len(arena) /\ VisitsOK(arena, root) /\ TreeInv /\ TreeInv'
  BY ReRootMissingTree DEF VisitInv, TreeInv
<1>2. arena' = b /\ root' = root /\ pending' = <<>>
  BY DEF ReRootMissing
<1>3. /\ b \in Seq(Nodes) /\ Len(b) = Len(arena)
      /\ \A i \in 1 .. Len(arena) :
            /\ SamePlace(arena[i], b[i])
            /\ b[i].kids = arena[i].kids /\ b[i].ends = arena[i].ends
            /\ b[i].real = arena[i].real
  BY <1>1, TakenBack
<1> HIDE DEF b
<1>4. VisitsOK(b, root)
  BY <1>1, <1>3, SameVisits
<1> QED
  BY <1>1, <1>2, <1>4, NonePending DEF VisitInv

LEMMA VisitsStay ==
    ASSUME VisitInv, arena' = arena, root' = root, pending' = pending
    PROVE  VisitInv'
BY DEF VisitInv, TreeInv

LEMMA CallerVisits == VisitInv /\ [CallerNext]_engineVars => VisitInv'
<1> SUFFICES ASSUME VisitInv, [CallerNext]_engineVars PROVE VisitInv'
  OBVIOUS
<1>1. CASE InitRoot
  BY <1>1, VisitsStay DEF InitRoot
<1>2. CASE \E token \in 1 .. rootGen : ExpandRoot(token)
  BY <1>2, ExpandRootVisits
<1>3. CASE \E leaves \in TupleOf(Leaves, BatchLimit) : SelectLeaves(leaves)
  BY <1>3, SelectVisits
<1>4. CASE \E token \in 1 .. batchGen : \E value \in [DOMAIN pending -> Values] : ExpandAndBackprop(token, value)
  <2>1. PICK token \in 1 .. batchGen, value \in [DOMAIN pending -> Values] : ExpandAndBackprop(token, value)
    BY <1>4
  <2>2. value \in [DOMAIN pending -> Int]
    BY EngineConstants
  <2> QED
    BY <2>1, <2>2, BackpropVisits
<1>5. CASE \E kid \in arena[root].kids : ReRoot(kid)
  BY <1>5, ReRootVisits
<1>6. CASE ReRootMissing
  BY <1>6, ReRootMissingVisits
<1>7. CASE UNCHANGED engineVars
  BY <1>7, VisitsStay DEF engineVars
<1> QED
  BY <1>1, <1>2, <1>3, <1>4, <1>5, <1>6, <1>7 DEF CallerNext

(* Whatever a caller of the engine does and in whichever order, no visit is  *)
(* lost below the root: a node is visited once by the simulation that        *)
(* expanded it and once for every visit of a child (mcts.rs: backprop of     *)
(* expand_and_backprop, re_root).                                            *)
THEOREM NoVisitLostHolds == CallerSpec => []NoVisitLost
<1>1. EngineInit => VisitInv
  BY VisitsStart
<1>2. VisitInv /\ [CallerNext]_engineVars => VisitInv'
  BY CallerVisits
<1>3. VisitInv => NoVisitLost
  BY NoVisitsLost
<1> QED
  BY <1>1, <1>2, <1>3, PTL DEF CallerSpec

LEMMA GameVisits == VisitInv /\ [GameNext]_allVars => VisitInv'
<1> SUFFICES ASSUME VisitInv, [GameNext]_allVars PROVE VisitInv'
  OBVIOUS
<1>1. CASE UNCHANGED engineVars
  BY <1>1, VisitsStay DEF engineVars
<1>2. CASE BeginMove
  BY <1>2, VisitsStay DEF BeginMove, InitRoot
<1>3. CASE RootAnswered \/ RootFails
  BY <1>3, ExpandRootVisits DEF RootAnswered, RootFails
<1>4. CASE Select
  BY <1>4, SelectVisits DEF Select
<1>5. CASE OnlyTerminal \/ LeafAnswered
  <2>1. PICK value \in [DOMAIN pending -> Int] : ExpandAndBackprop(batchGen, value)
    <3>1. [DOMAIN pending -> Values] \subseteq [DOMAIN pending -> Int]
      BY EngineConstants
    <3>2. [DOMAIN pending -> {0}] \subseteq [DOMAIN pending -> Int]
      OBVIOUS
    <3>3. CASE OnlyTerminal
      BY <3>2, <3>3 DEF OnlyTerminal
    <3>4. CASE LeafAnswered
      BY <3>1, <3>4 DEF LeafAnswered
    <3> QED
      BY <1>5, <3>3, <3>4
  <2> QED
    BY <2>1, BackpropVisits
<1>6. CASE Pick
  <2>1. PICK kid \in arena[root].kids : IF cfg.reuse THEN ReRoot(kid) ELSE FreshEngine(arena[kid].pos)
    BY <1>6 DEF Pick
  <2>2. CASE ReRoot(kid)
    BY <2>2, ReRootVisits
  <2>3. CASE FreshEngine(arena[kid].pos)
    <3>1. kid \in 1 .. Len(arena) /\ TreeOK(arena)
      BY DEF VisitInv, TreeInv, TreeOK, KidsOK
    <3>2. arena[kid].pos \in Seq(GameCells)
      BY <3>1, LineIs, NodeHas
    <3> QED
      BY <2>3, <3>2, FreshEngineVisits
  <2> QED
    BY <2>1, <2>2, <2>3
<1> QED
  BY <1>1, <1>2, <1>3, <1>4, <1>5, <1>6
  DEF GameNext, StopAtHead, PairsAnswered, RootFallbackRefused, GraphRootFails, SearchDone,
      LeafFails, allVars

(* The same in a self-played game, whatever fails in it: each move's search  *)
(* counts the visits the earlier moves left in the subtree it keeps.         *)
THEOREM GameVisitsKept == GameSpec => []NoVisitLost
<1>1. GameInit => VisitInv
  BY VisitsStart DEF GameInit
<1>2. VisitInv /\ [GameNext]_allVars => VisitInv'
  BY GameVisits
<1>3. VisitInv => NoVisitLost
  BY NoVisitsLost
<1> QED
  BY <1>1, <1>2, <1>3, PTL DEF GameSpec

-----------------------------------------------------------------------------
(* The end of a game. *)

(* The limit on moves holds while a move is searched, and a batch never is   *)
(* larger than the budget left for it.                                       *)
BudgetInv ==
    /\ pc \in {"init", "root", "pairs", "search", "leaf", "pick",
               "win", "truncated", "invalid", "raised"}
    /\ moveIdx \in Nat
    /\ simsDone \in 0 .. NumSims
    /\ pc \in {"root", "pairs", "search", "leaf", "pick"} => moveIdx < MaxGameMoves
    /\ pc = "leaf" => Len(pending) \in 1 .. NumSims - simsDone

LEMMA BudgetStarts == GameInit => BudgetInv
<1> SUFFICES ASSUME GameInit PROVE BudgetInv
  OBVIOUS
<1>1. PICK pos \in Starts : arena = FreshArena(pos)
  BY DEF GameInit, EngineInit
<1>2. arena[1].pos = pos
  BY <1>1 DEF FreshArena, Node
<1>3. pos \in Seq(GameCells)
  BY EngineConstants
<1>4. moveIdx \in Nat
  BY <1>2, <1>3, LenProperties DEF GameInit
<1> QED
  BY <1>4, EngineConstants DEF GameInit, EngineInit, BudgetInv

(* What a step does to the stage, the moves and the budget. *)
Kept == moveIdx' = moveIdx /\ simsDone' = simsDone

LEMMA GameSteps ==
    ASSUME BudgetInv, GameNext, ~UNCHANGED allVars
    PROVE  \/ pc = "init" /\ pc' = "root" /\ moveIdx < MaxGameMoves /\ Kept
           \/ pc \in {"init", "root", "pairs"} /\ pc' \in {"truncated", "invalid", "raised"} /\ Kept
           \/ pc = "root" /\ pc' \in {"pairs", "search"} /\ Kept
           \/ pc = "pairs" /\ pc' = "search" /\ Kept
           \/ pc = "search" /\ pc' = "pick" /\ Kept
           \/ /\ pc = "search" /\ pc' = "leaf" /\ Kept
              /\ Len(pending') \in 1 .. NumSims - simsDone
           \/ /\ pc = "leaf" /\ pc' \in {"search", "pick"} /\ moveIdx' = moveIdx
              /\ simsDone' = simsDone + Len(pending)
           \/ pc = "leaf" /\ pc' \in {"pick", "invalid"} /\ Kept
           \/ /\ pc = "pick" /\ pc' \in {"win", "init"}
              /\ moveIdx' = moveIdx + 1 /\ simsDone' = 0
<1>1. CASE BeginMove
  BY <1>1 DEF BeginMove, InitRoot, Kept
<1>2. CASE StopAtHead
  BY <1>2 DEF StopAtHead, engineVars, Kept
<1>3. CASE RootAnswered
  BY <1>3 DEF RootAnswered, ExpandRoot, Kept
<1>4. CASE PairsAnswered
  BY <1>4 DEF PairsAnswered, engineVars, Kept
<1>5. CASE RootFails
  BY <1>5 DEF RootFails, ExpandRoot, Kept
<1>6. CASE RootFallbackRefused \/ GraphRootFails
  BY <1>6 DEF RootFallbackRefused, GraphRootFails, engineVars, Kept
<1>7. CASE SearchDone
  BY <1>7 DEF SearchDone, engineVars, Kept
<1>8. CASE Select
  <2>1. PICK leaves : SelectLeaves(leaves)
    BY <1>8 DEF Select
  <2>2. pending' = leaves /\ simsDone' = simsDone /\ Len(leaves) = BatchLimit
    BY <2>1 DEF SelectLeaves
  <2>3. ~(simsDone >= NumSims)
    BY <1>8 DEF Select, Done
  <2>4. BatchLimit \in 1 .. NumSims - simsDone
    BY <2>3, EngineConstants DEF BatchLimit, BudgetLeft, Least, BudgetInv
  <2> QED
    BY <1>8, <2>2, <2>4 DEF Select, Kept
<1>9. CASE OnlyTerminal \/ LeafAnswered
  <2>1. PICK value : ExpandAndBackprop(batchGen, value)
    BY <1>9 DEF OnlyTerminal, LeafAnswered
  <2>2. simsDone' = simsDone + Len(pending)
    BY <2>1 DEF ExpandAndBackprop
  <2> QED
    BY <1>9, <2>2 DEF OnlyTerminal, LeafAnswered
<1>10. CASE LeafFails
  BY <1>10 DEF LeafFails, engineVars, Kept
<1>11. CASE Pick
  <2>1. PICK kid \in arena[root].kids :
          /\ IF cfg.reuse THEN ReRoot(kid) ELSE FreshEngine(arena[kid].pos)
          /\ pc' = IF Decided(arena[kid].pos) THEN "win" ELSE "init"
    BY <1>11 DEF Pick
  <2>2. simsDone' = 0
    BY <2>1 DEF ReRoot, FreshEngine
  <2> QED
    BY <1>11, <2>1, <2>2 DEF Pick
<1> QED
  BY <1>1, <1>2, <1>3, <1>4, <1>5, <1>6, <1>7, <1>8, <1>9, <1>10, <1>11 DEF GameNext

LEMMA BudgetKept == BudgetInv /\ [GameNext]_allVars => BudgetInv'
<1> SUFFICES ASSUME BudgetInv, [GameNext]_allVars PROVE BudgetInv'
  OBVIOUS
<1>1. CASE UNCHANGED allVars
  BY <1>1 DEF BudgetInv, allVars, engineVars, gameVars
<1>2. CASE GameNext /\ ~UNCHANGED allVars
  <2> NumSims \in Nat
    BY EngineConstants
  <2> QED
    BY <1>2, GameSteps DEF BudgetInv, Kept
<1> QED
  BY <1>1, <1>2

(* Moves weigh more than the stages of one. *)
LEMMA MoveIsWorth ==
    ASSUME NEW n \in Nat, NEW k \in Nat
    PROVE  n * k \in Nat /\ (n + 1) * k = n * k + k
OBVIOUS

LEMMA Stages ==
    /\ pc = "init" => Stage = 2 * NumSims + 6
    /\ pc = "root" => Stage = 2 * NumSims + 5
    /\ pc = "pairs" => Stage = 2 * NumSims + 4
    /\ pc = "search" => Stage = 2 * (NumSims - simsDone) + 3
    /\ pc = "leaf" => Stage = 2 * (NumSims - simsDone) + 2
    /\ pc = "pick" => Stage = 1
  BY DEF Stage

LEMMA StagesNext ==
    /\ pc' = "init" => Stage' = 2 * NumSims + 6
    /\ pc' = "root" => Stage' = 2 * NumSims + 5
    /\ pc' = "pairs" => Stage' = 2 * NumSims + 4
    /\ pc' = "search" => Stage' = 2 * (NumSims - simsDone') + 3
    /\ pc' = "leaf" => Stage' = 2 * (NumSims - simsDone') + 2
    /\ pc' = "pick" => Stage' = 1
  BY DEF Stage

LEMMA RankFalls ==
    ASSUME BudgetInv, BudgetInv', GameNext, ~UNCHANGED allVars
    PROVE  Rank' >= 0 /\ Rank' < Rank
<1>1. NumSims \in Nat /\ MaxGameMoves \in Nat
  BY EngineConstants, GameConstants
<1>2. PICK n \in Nat, m \in Nat : n = MovesLeft /\ m = MovesLeft'
  <2>1. MovesLeft \in Nat
    BY <1>1 DEF MovesLeft, BudgetInv
  <2>2. MovesLeft' \in Nat
    <3>1. moveIdx' \in Nat
      BY DEF BudgetInv
    <3>2. MovesLeft' = IF moveIdx' < MaxGameMoves THEN MaxGameMoves - moveIdx' ELSE 0
      BY DEF MovesLeft
    <3>3. PICK x \in Nat : x = moveIdx'
      BY <3>1
    <3>4. (IF x < MaxGameMoves THEN MaxGameMoves - x ELSE 0) \in Nat
      BY <1>1
    <3> QED
      BY <3>2, <3>3, <3>4, Zenon
  <2> QED
    BY <2>1, <2>2, Zenon
<1>3. PICK k \in Nat : k = 2 * NumSims + 6
  BY <1>1
<1>4. PICK a \in Nat, b \in Nat : a = n * k /\ b = m * k
  BY MoveIsWorth
<1>5. Rank = IF Ended THEN 0 ELSE a + Stage
  BY <1>2, <1>3, <1>4 DEF Rank
<1>6. Rank' = IF Ended' THEN 0 ELSE b + Stage'
  BY <1>2, <1>3, <1>4 DEF Rank
<1>7. ~Ended
  BY GameSteps DEF Ended
<1>8. CASE pc = "pick"
  <2>1. moveIdx < MaxGameMoves /\ moveIdx' = moveIdx + 1 /\ moveIdx \in Nat
    BY <1>8, GameSteps DEF BudgetInv
  <2>2. n = m + 1
    BY <1>1, <1>2, <2>1 DEF MovesLeft
  <2>3. a = b + k
    BY <1>4, <2>2, MoveIsWorth
  <2>4. pc' \in {"win", "init"}
    BY <1>8, GameSteps
  <2>5. Stage = 1
    BY <1>8 DEF Stage
  <2>6. pc' = "init" => Stage' = k
    BY <1>3 DEF Stage
  <2> QED
    BY <1>5, <1>6, <1>7, <2>3, <2>4, <2>5, <2>6 DEF Ended
<1>9. CASE pc # "pick"
  <2>1. a = b
    <3>1. moveIdx' = moveIdx
      BY <1>9, GameSteps DEF Kept
    <3> QED
      BY <1>2, <1>4, <3>1 DEF MovesLeft
  <2>2. Stage > 0 /\ Stage \in Int
    BY <1>1, <1>7, Stages DEF Ended, BudgetInv
  <2>3. ~Ended' => Stage' < Stage /\ Stage' >= 0 /\ Stage' \in Int
    <3>1. CASE pc \in {"init", "root", "pairs"}
      BY <1>1, <3>1, GameSteps, Stages, StagesNext DEF Ended, BudgetInv, Kept
    <3>2. CASE pc = "search"
      BY <1>1, <3>2, GameSteps, Stages, StagesNext DEF Ended, BudgetInv, Kept
    <3>3. CASE pc = "leaf"
      BY <1>1, <3>3, GameSteps, Stages, StagesNext DEF Ended, BudgetInv, Kept
    <3> QED
      BY <1>7, <1>9, <3>1, <3>2, <3>3 DEF BudgetInv, Ended
  <2> QED
    BY <1>5, <1>6, <1>7, <2>1, <2>2, <2>3
<1> QED
  BY <1>8, <1>9

(* A game ends after a bounded number of steps, with any configuration, any  *)
(* budget, and whatever requests fail.                                       *)
THEOREM GameProgressHolds == GameSpec => GameProgress
<1>1. BudgetInv /\ [GameNext]_allVars => BudgetInv'
  BY BudgetKept
<1>2. BudgetInv /\ BudgetInv' /\ [GameNext]_allVars => [Rank' >= 0 /\ Rank' < Rank]_allVars
  BY RankFalls
<1> QED
  BY <1>1, <1>2, BudgetStarts, PTL DEF GameSpec, GameProgress

-----------------------------------------------------------------------------
(* What a search makes a policy target of.                                   *)

(* A position that is neither won nor as long as the board has a move.       *)
LEMMA MoveIsLeft ==
    ASSUME NEW pos \in Seq(GameCells), ~Decided(pos), Len(pos) < MaxGameMoves
    PROVE  RootLegal(pos) # {}
<1>1. Legal(pos) # {}
  <2> SUFFICES ASSUME pos # <<>>, GameCells \subseteq ToSet(pos) PROVE FALSE
    BY EngineConstants DEF Legal
  <2> DEFINE n == Len(pos)
  <2>1. n \in Nat /\ ToSet(pos) = {pos[i] : i \in 1 .. n}
    BY DEF ToSet
  <2> HIDE DEF n
  <2>2. IsFiniteSet(1 .. n) /\ Cardinality(1 .. n) = n
    BY <2>1, FS_Interval
  <2> DEFINE S == 1 .. n
             f == [i \in S |-> pos[i]]
  <2>3. f \in Surjection(S, ToSet(pos))
    BY <2>1 DEF Surjection
  <2>4. IsFiniteSet(ToSet(pos)) /\ Cardinality(ToSet(pos)) <= n
    <3> HIDE DEF f, S
    <3>1. IsFiniteSet(ToSet(pos)) /\ Cardinality(ToSet(pos)) <= Cardinality(S)
      BY <2>2, <2>3, FS_Surjection DEF S
    <3> QED
      BY <2>2, <3>1 DEF S
  <2>5. Cardinality(GameCells) <= Cardinality(ToSet(pos)) /\ Cardinality(GameCells) \in Nat
    BY <2>4, EngineConstants, FS_Subset, FS_CardinalityType
  <2>6. Cardinality(ToSet(pos)) \in Nat
    BY <2>4, FS_CardinalityType
  <2> QED
    BY <2>1, <2>4, <2>5, <2>6, MovesRemain, GameConstants DEF n
<1> QED
  BY <1>1, MovesRemain DEF RootLegal

(* An expanded root has fresh children. *)
LEMMA ExpandedRoot ==
    ASSUME TreeInv, NEW token, ExpandRoot(token), RootLegal(arena[root].pos) # {}
    PROVE  /\ arena'[root].pos = arena[root].pos
           /\ arena'[root].kids # {} /\ SumReal(arena', arena'[root].kids) = 0
<1> DEFINE legal == RootLegal(arena[root].pos)
           b == Expand(arena, root, legal)
           N == Len(arena)
           kids == N + 1 .. Len(b)
           w == WithKids(arena[root], kids)
<1>1. TreeOK(arena) /\ root \in 1 .. N
  BY DEF TreeInv
<1>2. arena' = b
  BY DEF ExpandRoot
<1>3. legal \in SUBSET GameCells /\ IsFiniteSet(legal) /\ legal # {}
  <2>1. arena[root].pos \in Seq(GameCells)
    BY <1>1, LineIs, NodeHas
  <2> QED
    BY <2>1, MovesAre
<1> HIDE DEF legal
<1>4. /\ TreeOK(b) /\ Len(b) > N /\ b[root] = w
      /\ \A j \in N + 1 .. Len(b) : Blank(b[j])
  BY <1>1, <1>3, ExpandIs
<1>5. N \in Nat /\ Len(b) \in Nat /\ b \in Seq(Nodes) /\ arena[root] \in Nodes
  BY <1>1, <1>4 DEF TreeOK
<1> HIDE DEF b
<1>6. kids \in SUBSET (1 .. Len(b)) /\ N + 1 \in kids /\ kids \in SUBSET Nat
  BY <1>4, <1>5
<1>7. \A j \in kids : b[j].real = 0
  BY <1>4 DEF Blank
<1> HIDE DEF kids
<1>8. w.pos = arena[root].pos /\ w.kids = kids
  BY <1>5, <1>6, WithKidsIs DEF SamePlace
<1>9. SumReal(b, kids) = 0
  BY <1>5, <1>6, <1>7, SumOfNone
<1> QED
  BY <1>2, <1>4, <1>6, <1>8, <1>9

(* What is true of a leaf that a descent from an expanded root reached.      *)
BelowKid(t, r, leaf) == leaf # r /\ t[leaf].line[Level(t, r) + 1] \in t[r].kids

LEMMA SelectedBelowKid ==
    ASSUME TreeInv, NEW leaves \in TupleOf(Leaves, BatchLimit), SelectLeaves(leaves),
           arena[root].kids # {}
    PROVE  /\ arena'[root].pos = arena[root].pos /\ arena'[root].kids = arena[root].kids
           /\ SumReal(arena', arena[root].kids) = SumReal(arena, arena[root].kids)
           /\ \A k \in 1 .. Len(leaves) : BelowKid(arena, root, leaves[k])'
<1> DEFINE N == Len(arena)
           c == arena'
           d == Level(arena, root)
           kids == arena[root].kids
<1>1. TreeOK(arena) /\ root \in 1 .. N /\ N \in Nat /\ arena \in Seq(Nodes)
  BY DEF TreeInv, TreeOK
<1>2. /\ c \in Seq(Nodes) /\ Len(c) = N /\ root' = root /\ pending' = leaves
      /\ \A i \in 1 .. N :
            /\ SamePlace(arena[i], c[i]) /\ c[i].kids = arena[i].kids /\ c[i].real = arena[i].real
      /\ \A leaf \in ToSet(leaves) :
            leaf \in 1 .. N /\ arena[leaf].kids = {} /\ Descends(arena, root, leaf)
  BY SelectKeeps
<1> HIDE DEF c
<1>3. kids \in SUBSET (1 .. N) /\ d \in Nat \ {0}
  BY <1>1, KidIs, LevelsAre
<1>4. \A i \in 1 .. N : Level(c, i) = Level(arena, i) /\ c[i].line = arena[i].line
  BY <1>2, SameLevels
<1>5. SumReal(c, kids) = SumReal(arena, kids)
  <2> HIDE DEF kids
  <2> QED
    BY <1>1, <1>2, <1>3, SumStays
<1>6. ASSUME NEW leaf \in ToSet(leaves) PROVE BelowKid(c, root, leaf)
  <2> DEFINE line == arena[leaf].line
             e == Level(arena, leaf)
  <2>1. leaf \in 1 .. N /\ arena[leaf].kids = {} /\ Descends(arena, root, leaf)
    BY <1>2
  <2>2. leaf # root
    BY <2>1
  <2>3. e \in Nat /\ line[e] = leaf
    BY <1>1, <2>1, LevelsAre
  <2>4. e >= d /\ line[d] = root /\ \A m \in d + 1 .. e : line[m] \in arena[line[m - 1]].kids
    BY <2>1 DEF Descends
  <2> HIDE DEF line, e, d
  <2>5. d + 1 \in d + 1 .. e /\ (d + 1) - 1 = d
    BY <1>3, <2>2, <2>3, <2>4
  <2>6. line[d + 1] \in arena[root].kids
    BY <2>4, <2>5
  <2> QED
    BY <1>1, <1>2, <1>4, <2>1, <2>2, <2>6 DEF BelowKid, line, d
<1>7. \A k \in 1 .. Len(leaves) : leaves[k] \in ToSet(leaves)
  BY DEF ToSet, TupleOf, SelectLeaves
<1> QED
  BY <1>1, <1>2, <1>5, <1>6, <1>7 DEF SamePlace, c

(* A batch adds its simulations to the children of the root. *)
LEMMA BatchBelowRoot ==
    ASSUME VisitInv, NEW leaves, leaves = pending, NEW value, \A k \in 1 .. Len(leaves) : value[k] \in Int,
           \A k \in 1 .. Len(leaves) : BelowKid(arena, root, leaves[k])
    PROVE  LET c == AccountAll(BackpropAll(leaves, value), leaves, value)
           IN  /\ c[root].pos = arena[root].pos /\ c[root].kids = arena[root].kids
               /\ SumReal(c, arena[root].kids) = SumReal(arena, arena[root].kids) + Len(leaves)
<1> DEFINE n == Len(leaves)
           N == Len(arena)
           b == BackpropAll(leaves, value)
           c == AccountAll(b, leaves, value)
           M == Len(b)
           d == Level(arena, root)
           kids == arena[root].kids
<1>1. /\ TreeOK(arena) /\ root \in 1 .. N /\ Batch(arena, root, leaves) /\ PendingOK(arena, root, leaves)
  BY DEF VisitInv, TreeInv
<1>2. n \in Nat /\ N \in Nat /\ arena \in Seq(Nodes) /\ kids \in SUBSET (1 .. N) /\ d \in Nat \ {0}
  BY <1>1, KidIs, LevelsAre DEF Batch, TreeOK
<1>3. ASSUME NEW k \in 1 .. n
      PROVE  /\ leaves[k] \in 1 .. N /\ Under(arena, root, leaves[k]) /\ leaves[k] # root
             /\ arena[leaves[k]].line[d] = root /\ arena[leaves[k]].line[d + 1] \in kids
  BY <1>1, <1>2, SMTT(20) DEF Batch, PendingOK, LeafOK, BelowKid
<1>4. /\ b \in Later /\ b[root].kids = kids
      /\ \A i \in 1 .. N : b[i].real = arena[i].real
  BY <1>1, <1>3, BatchOpens
<1> HIDE DEF b
<1>5. PICK h : /\ h[0] = b
               /\ \A k \in 1 .. n : h[k] \in Alike(b) /\ AccountStep(h[k - 1], h[k], leaves[k], value[k])
               /\ h[n] = c
  <2>1. TreeOK(arena) /\ root \in 1 .. Len(arena) /\ b \in Later /\ Batch(arena, root, leaves)
    BY <1>1, <1>4
  <2>2. \A k \in 1 .. Len(leaves) : value[k] \in Int
    OBVIOUS
  <2> QED
    BY ONLY <2>1, <2>2, AccountFolds
<1> HIDE DEF c
<1>6. /\ b \in Seq(Nodes) /\ M \in Nat /\ M >= N /\ TreeOK(b)
      /\ (\A i \in 1 .. N : SamePlace(arena[i], b[i]) /\ i \in 1 .. M)
  <2>1. b \in Seq(Nodes) /\ TreeOK(b) /\ Grown(arena, b)
    BY <1>4 DEF Later
  <2>2. M \in Nat /\ M >= N
    BY <2>1 DEF Grown
  <2>3. \A i \in 1 .. N : i \in 1 .. M
    BY <1>2, <2>2
  <2> QED
    BY <2>1, <2>2, <2>3 DEF Grown
<1>7. \A i \in 1 .. N : Level(b, i) = Level(arena, i) /\ b[i].line = arena[i].line
  BY <1>6, SameLevels
<1>8. SumReal(b, kids) = SumReal(arena, kids) /\ SumReal(arena, kids) \in Int
  <2>1. kids \subseteq 1 .. M /\ \A j \in kids : b[j].real = arena[j].real
    BY <1>2, <1>4, <1>6
  <2> HIDE DEF kids
  <2>2. arena \in Seq(Nodes) /\ b \in Seq(Nodes) /\ kids \in SUBSET (1 .. Len(arena)) /\ kids \subseteq 1 .. Len(b)
    BY <1>2, <1>6, <2>1 DEF M
  <2> QED
    BY ONLY <2>1, <2>2, SumStays
<1> HIDE DEF M, d, kids
<1>9. ASSUME NEW k \in 0 .. n
      PROVE  /\ h[k] \in Seq(Nodes) /\ Len(h[k]) = M
             /\ \A i \in 1 .. M : SamePlace(b[i], h[k][i]) /\ h[k][i].kids = b[i].kids
  <2>1. k = 0 \/ k \in 1 .. n
    BY <1>2
  <2>2. h[k] \in Alike(b)
    BY <1>4, <1>5, <2>1, AlikeItself
  <2> QED
    BY <2>2 DEF Alike, M
<1> DEFINE sum(k) == SumReal(h[k], kids)
           P == {k \in Nat : k <= n => sum(k) = SumReal(arena, kids) + k}
<1>10. 0 \in P
  BY <1>5, <1>8
<1>11. ASSUME NEW k \in Nat, k \in P PROVE k + 1 \in P
  <2> SUFFICES ASSUME k + 1 <= n PROVE sum(k + 1) = SumReal(arena, kids) + (k + 1)
    OBVIOUS
  <2> DEFINE l == k + 1
             leaf == leaves[l]
             x == h[k]
             y == h[l]
  <2>1. l \in 1 .. n /\ l - 1 = k /\ k \in 0 .. n /\ l \in 0 .. n /\ k <= n
    BY <1>2
  <2>2. SumReal(x, kids) = SumReal(arena, kids) + k
    BY <1>11, <2>1
  <2> HIDE DEF l
  <2>3. /\ leaf \in 1 .. N /\ Under(arena, root, leaf) /\ AccountStep(x, y, leaf, value[l])
        /\ leaf # root /\ arena[leaf].line[d] = root /\ arena[leaf].line[d + 1] \in kids
    BY <1>3, <1>5, <2>1
  <2>4. x \in Seq(Nodes) /\ Len(x) = M /\ y \in Seq(Nodes) /\ Len(y) = M
    BY <1>9, <2>1
  <2> HIDE DEF leaf, x, y
  <2>5. Under(b, root, leaf) /\ \A j : On(b, root, leaf, j) <=> On(arena, root, leaf, j)
    BY <1>1, <1>6, <2>3, SamePath DEF Under, On
  <2>6. \A j \in 1 .. M : y[j].real = x[j].real + (IF On(b, root, leaf, j) THEN 1 ELSE 0)
    BY <2>3, <2>4, <2>5 DEF AccountStep
  <2>7. root \in 1 .. M /\ leaf \in 1 .. M
    BY <1>1, <1>6, <2>3
  <2>8. Level(b, root) = d /\ b[leaf].line = arena[leaf].line
    BY <1>1, <1>7, <2>3 DEF d
  <2>9. TreeOK(b) /\ root \in 1 .. Len(b) /\ leaf \in 1 .. Len(b)
    BY <1>6, <2>7 DEF M
  <2>10. Level(b, leaf) \in Nat /\ \A m \in 1 .. Level(b, leaf) : Level(b, b[leaf].line[m]) = m
    BY ONLY <2>9, LevelsAre
  <2>11. \A m \in d + 1 .. Level(b, leaf) : b[leaf].line[m - 1] = root => b[leaf].line[m] \in b[root].kids
    <3> SUFFICES ASSUME NEW m \in d + 1 .. Level(b, leaf), b[leaf].line[m - 1] = root
                 PROVE  b[leaf].line[m] \in b[root].kids
      OBVIOUS
    <3>1. m - 1 \in 1 .. Level(b, leaf)
      BY <1>2, <2>10
    <3>2. m - 1 = d
      BY <2>8, <2>10, <3>1
    <3>3. m = d + 1
      BY <1>2, <3>2
    <3> QED
      BY <1>4, <2>3, <2>8, <3>3
  <2>12. On(b, root, leaf, root)
    <3>1. Level(b, leaf) >= Level(b, root)
      BY ONLY <2>5, <2>9, UnderIs
    <3>2. d \in Level(b, root) .. Level(b, leaf) /\ b[leaf].line[d] = root
      BY <1>2, <2>3, <2>8, <2>10, <3>1
    <3>3. On(b, root, leaf, root) <=> \E m \in Level(b, root) .. Level(b, leaf) : b[leaf].line[m] = root
      <4>1. Under(b, root, leaf)
        BY <2>5
      <4> QED
        BY ONLY <2>9, <4>1, OnIs
    <3> QED
      BY <3>2, <3>3
  <2>13. /\ SumReal(x, b[root].kids) \in Int
         /\ SumReal(y, b[root].kids) =
                SumReal(x, b[root].kids) + (IF On(b, root, leaf, root) /\ root # leaf THEN 1 ELSE 0)
    <3>1. /\ Under(b, root, leaf) /\ Level(b, root) >= Level(b, root)
          /\ x \in Seq(Nodes) /\ y \in Seq(Nodes) /\ Len(x) = Len(b) /\ Len(y) = Len(b)
      BY <1>2, <2>4, <2>5, <2>8 DEF M
    <3>2. \A m \in Level(b, root) + 1 .. Level(b, leaf) :
              b[leaf].line[m - 1] = root => b[leaf].line[m] \in b[root].kids
      BY <2>8, <2>11
    <3>3. \A j \in 1 .. Len(b) : y[j].real = x[j].real + (IF On(b, root, leaf, j) THEN 1 ELSE 0)
      BY <2>6 DEF M
    <3> QED
      BY ONLY <2>9, <3>1, <3>2, <3>3, OneMoreBelow
  <2>14. SumReal(y, kids) = SumReal(x, kids) + 1
    BY <1>4, <2>3, <2>12, <2>13
  <2>15. SumReal(y, kids) = SumReal(arena, kids) + (k + 1)
    BY <1>8, <2>2, <2>14
  <2> QED
    BY <2>15 DEF y, l
<1>12. n \in P
  <2> HIDE DEF P
  <2> QED
    BY <1>2, <1>10, <1>11, NatSetInduction
<1>13. SumReal(c, kids) = SumReal(arena, kids) + n
  BY <1>2, <1>5, <1>12
<1>14. n \in 0 .. n /\ h[n] = c
  BY <1>2, <1>5
<1>15. c[root].pos = arena[root].pos /\ c[root].kids = kids
  BY <1>1, <1>4, <1>6, <1>9, <1>14 DEF SamePlace
<1> QED
  BY <1>13, <1>15 DEF c, b, kids

(* The search of a move has a root with children, whose simulations are      *)
(* those of this search; what it has pending goes through them; and it is    *)
(* cut short, or leaves something pending, only by what failed.              *)
SearchOK ==
    /\ Len(arena[root].pos) = moveIdx
    /\ pc \in {"init", "root", "pairs", "search"} => pending = <<>>
    /\ pc \in {"init", "root", "pairs"} => simsDone = 0
    /\ pc \in {"root", "pairs"} => ~Decided(arena[root].pos)
    /\ pc \in {"pairs", "search", "leaf", "pick"} =>
          arena[root].kids # {} /\ SumReal(arena, arena[root].kids) = simsDone
    /\ pc = "leaf" => \A k \in 1 .. Len(pending) : BelowKid(arena, root, pending[k])
    /\ pc = "pick" /\ pending # <<>> => failed /\ ~cfg.graph
    /\ pc = "pick" /\ ~failed /\ ~ranOut => simsDone = NumSims

CleanInv == VisitInv /\ BudgetInv /\ SearchOK

LEMMA CleanTargets == CleanInv => TargetsAreClean
<1> SUFFICES ASSUME CleanInv, pc = "pick" PROVE TargetsAreClean
  BY DEF TargetsAreClean, TargetCountsThisSearch, FailureStaysInside
<1>1. SearchVisits = SumReal(arena, arena[root].kids)
  BY Zenon DEF SearchVisits, SumReal
<1>2. SearchVisits = simsDone /\ simsDone <= NumSims /\ (~failed /\ ~ranOut => simsDone = NumSims)
  BY <1>1, EngineConstants DEF CleanInv, SearchOK, BudgetInv
<1>3. ASSUME cfg.graph \/ ~failed
      PROVE  pending = <<>> /\ \A c \in arena[root].kids : arena[c].visits = arena[c].real
  <2>1. pending = <<>>
    BY <1>3 DEF CleanInv, SearchOK
  <2>2. TreeOK(arena) /\ root \in 1 .. Len(arena) /\ Stats(arena, root, pending)
    BY DEF CleanInv, VisitInv, TreeInv
  <2>3. \A i : ThroughIn(arena, root, pending, i) = 0
    BY <2>1, NothingPending
  <2>4. ASSUME NEW c \in arena[root].kids PROVE arena[c].visits = arena[c].real
    <3>1. c \in 1 .. Len(arena)
      BY <2>2, KidIs
    <3>2. arena[c].real \in Int
      BY <2>2, <3>1, LineIs, NodeHas
    <3> QED
      BY <2>2, <2>3, <3>1, <3>2 DEF Stats
  <2> QED
    BY <2>1, <2>4
<1> QED
  BY <1>2, <1>3 DEF TargetsAreClean, TargetCountsThisSearch, FailureStaysInside

LEMMA CleanStarts == GameInit => CleanInv
<1> SUFFICES ASSUME GameInit PROVE CleanInv
  OBVIOUS
<1>1. VisitInv /\ BudgetInv
  BY VisitsStart, BudgetStarts DEF GameInit
<1>2. root = 1 /\ moveIdx = Len(arena[1].pos) /\ pending = <<>> /\ simsDone = 0 /\ pc = "init"
  BY DEF GameInit, EngineInit
<1> QED
  BY <1>1, <1>2 DEF CleanInv, SearchOK

(* A move of the game leads from a root to one of its children.              *)
LEMMA PickedRoot ==
    ASSUME CleanInv, Pick
    PROVE  Len(arena'[root'].pos) = moveIdx + 1
<1>1. PICK kid \in arena[root].kids : IF cfg.reuse THEN ReRoot(kid) ELSE FreshEngine(arena[kid].pos)
  BY DEF Pick
<1>2. TreeOK(arena) /\ root \in 1 .. Len(arena) /\ TreeInv /\ Len(arena[root].pos) = moveIdx
  BY DEF CleanInv, VisitInv, TreeInv, SearchOK
<1>3. kid \in 1 .. Len(arena) /\ Level(arena, kid) = Level(arena, root) + 1
  BY <1>2, KidIs
<1>4. Len(arena[kid].pos) = moveIdx + 1
  <2>1. /\ Reach(arena, kid) = Level(arena, kid) - 1 /\ Reach(arena, root) = Level(arena, root) - 1
        /\ Level(arena, root) \in Nat
    BY <1>2, <1>3, LevelsAre
  <2>2. Len(arena[kid].pos) \in Nat /\ Len(arena[root].pos) \in Nat
    BY <1>2, <1>3, LineIs
  <2>3. 1 \in 1 .. Len(arena)
    BY <1>2 DEF TreeOK
  <2>4. Len(arena[1].pos) \in Nat
    BY <1>2, <2>3, LineIs
  <2> DEFINE x == Len(arena[kid].pos)
             y == Len(arena[root].pos)
             z == Len(arena[1].pos)
             e == Level(arena, kid)
             d == Level(arena, root)
  <2>5. x - z = e - 1 /\ y - z = d - 1 /\ e = d + 1 /\ y = moveIdx
    BY <1>2, <1>3, <2>1 DEF Reach
  <2>6. x \in Nat /\ y \in Nat /\ z \in Nat /\ d \in Nat
    BY <2>1, <2>2, <2>4
  <2> HIDE DEF x, y, z, e, d
  <2>7. x = moveIdx + 1
    BY <2>5, <2>6
  <2> QED
    BY <2>7 DEF x
<1>5. CASE ReRoot(kid)
  <2> DEFINE b == RemoveVirtualLoss(arena, pending)
             kept == IF arena[kid].pos \in Threatened THEN {} ELSE b[kid].kids
  <2>1. b \in Seq(Nodes) /\ Len(b) = Len(arena) /\ b[kid].pos = arena[kid].pos
    BY <1>2, <1>3, TakenBack DEF SamePlace
  <2>2. arena' = [b EXCEPT ![kid].kids = kept] /\ root' = kid
    BY <1>5 DEF ReRoot
  <2> HIDE DEF b, kept
  <2>3. arena'[root'].pos = arena[kid].pos
    BY <1>3, <2>1, <2>2
  <2> QED
    BY <1>4, <2>3
<1>6. CASE FreshEngine(arena[kid].pos)
  <2>1. arena'[root'].pos = arena[kid].pos
    BY <1>6 DEF FreshEngine, FreshArena, Node
  <2> QED
    BY <1>4, <2>1
<1> QED
  BY <1>1, <1>5, <1>6

LEMMA CleanSteps ==
    ASSUME CleanInv, GameNext
    PROVE  SearchOK'
<1>1. TreeOK(arena) /\ root \in 1 .. Len(arena) /\ TreeInv /\ VisitInv /\ BudgetInv /\ SearchOK
  BY DEF CleanInv, VisitInv, TreeInv
<1>2. CASE UNCHANGED allVars
  BY <1>1, <1>2 DEF SearchOK, allVars, engineVars, gameVars
<1>3. CASE BeginMove
  BY <1>1, <1>3 DEF SearchOK, BeginMove, InitRoot
<1>4. CASE StopAtHead \/ GraphRootFails \/ RootFallbackRefused
  BY <1>1, <1>4 DEF SearchOK, StopAtHead, GraphRootFails, RootFallbackRefused, engineVars
<1>5. CASE RootAnswered \/ RootFails
  <2>1. /\ pc \in {"root", "pairs"} /\ ExpandRoot(rootGen) /\ pc' \in {"pairs", "search"}
        /\ UNCHANGED <<cfg, moveIdx, failed, ranOut>>
    BY <1>5 DEF RootAnswered, RootFails
  <2>2. arena[root].pos \in Seq(GameCells)
    BY <1>1, LineIs, NodeHas
  <2>3. RootLegal(arena[root].pos) # {}
    BY <1>1, <2>1, <2>2, MoveIsLeft DEF SearchOK, BudgetInv
  <2>4. /\ arena'[root].pos = arena[root].pos
        /\ arena'[root].kids # {} /\ SumReal(arena', arena'[root].kids) = 0
    BY <1>1, <2>1, <2>3, ExpandedRoot
  <2>5. root' = root /\ pending' = pending /\ simsDone' = simsDone
    BY <2>1 DEF ExpandRoot
  <2> QED
    BY <1>1, <2>1, <2>4, <2>5 DEF SearchOK
<1>6. CASE PairsAnswered
  BY <1>1, <1>6 DEF SearchOK, PairsAnswered, engineVars
<1>7. CASE SearchDone
  <2>1. simsDone = NumSims
    BY <1>1, <1>7, EngineConstants DEF SearchDone, Done, BudgetInv
  <2> QED
    BY <1>1, <1>7, <2>1 DEF SearchOK, SearchDone, engineVars
<1>8. CASE Select
  <2>1. PICK leaves \in TupleOf(Leaves, BatchLimit) : SelectLeaves(leaves)
    BY <1>8 DEF Select
  <2>2. /\ arena'[root].pos = arena[root].pos /\ arena'[root].kids = arena[root].kids
        /\ SumReal(arena', arena[root].kids) = SumReal(arena, arena[root].kids)
        /\ \A k \in 1 .. Len(leaves) : BelowKid(arena, root, leaves[k])'
    BY <1>1, <1>8, <2>1, SelectedBelowKid DEF SearchOK, Select
  <2>3. root' = root /\ pending' = leaves /\ simsDone' = simsDone
    BY <2>1 DEF SelectLeaves
  <2>4. pc = "search" /\ pc' = "leaf" /\ moveIdx' = moveIdx
    BY <1>8 DEF Select
  <2>5. \A k \in 1 .. Len(pending') : BelowKid(arena', root', pending'[k])
    BY <2>2, <2>3 DEF BelowKid, Level
  <2> QED
    BY <1>1, <2>2, <2>3, <2>4, <2>5 DEF SearchOK
<1>9. CASE OnlyTerminal \/ LeafAnswered
  <2>1. PICK value \in [DOMAIN pending -> Int] : ExpandAndBackprop(batchGen, value)
    <3>1. [DOMAIN pending -> Values] \subseteq [DOMAIN pending -> Int]
      BY EngineConstants
    <3>2. [DOMAIN pending -> {0}] \subseteq [DOMAIN pending -> Int]
      OBVIOUS
    <3>3. CASE OnlyTerminal
      BY <3>2, <3>3 DEF OnlyTerminal
    <3>4. CASE LeafAnswered
      BY <3>1, <3>4 DEF LeafAnswered
    <3> QED
      BY <1>9, <3>3, <3>4
  <2>2. /\ arena' = AccountAll(BackpropAll(pending, value), pending, value)
        /\ root' = root /\ pending' = <<>> /\ simsDone' = simsDone + Len(pending)
    BY <2>1, Zenon DEF ExpandAndBackprop, BackpropAll, AccountAll
  <2>3. pending \in Seq(1 .. Len(arena)) /\ \A k \in 1 .. Len(pending) : value[k] \in Int
    BY <1>1, <2>1 DEF TreeInv, Batch
  <2>4. pc = "leaf" /\ \A k \in 1 .. Len(pending) : BelowKid(arena, root, pending[k])
    BY <1>1, <1>9 DEF SearchOK, OnlyTerminal, LeafAnswered
  <2>5. /\ arena'[root].pos = arena[root].pos /\ arena'[root].kids = arena[root].kids
        /\ SumReal(arena', arena[root].kids) = SumReal(arena, arena[root].kids) + Len(pending)
    BY <1>1, <2>2, <2>3, <2>4, BatchBelowRoot
  <2>6. pc' = "search" \/ (pc' = "pick" /\ ranOut')
    BY <1>9 DEF OnlyTerminal, LeafAnswered
  <2>7. moveIdx' = moveIdx
    BY <1>9 DEF OnlyTerminal, LeafAnswered
  <2> QED
    BY <1>1, <2>2, <2>4, <2>5, <2>6, <2>7 DEF SearchOK
<1>10. CASE LeafFails
  BY <1>1, <1>10 DEF SearchOK, LeafFails, engineVars
<1>11. CASE Pick
  <2>1. Len(arena'[root'].pos) = moveIdx'
    BY <1>11, PickedRoot DEF Pick
  <2>2. pc' \in {"win", "init"} /\ pending' = <<>> /\ simsDone' = 0
    BY <1>11 DEF Pick, ReRoot, FreshEngine
  <2> QED
    BY <2>1, <2>2 DEF SearchOK
<1> QED
  BY <1>2, <1>3, <1>4, <1>5, <1>6, <1>7, <1>8, <1>9, <1>10, <1>11 DEF GameNext

(* What is recorded as the target of a move holds the simulations of its own *)
(* search, all of them unless a request failed or a batch had only terminal  *)
(* leaves, and nothing of a batch that failed (worker.py: _play_one_game).   *)
THEOREM TargetsAreCleanHolds == GameSpec => []TargetsAreClean
<1>1. GameInit => CleanInv
  BY CleanStarts
<1>2. CleanInv /\ [GameNext]_allVars => CleanInv'
  <2> SUFFICES ASSUME CleanInv, [GameNext]_allVars PROVE CleanInv'
    OBVIOUS
  <2>1. VisitInv' /\ BudgetInv'
    BY GameVisits, BudgetKept DEF CleanInv
  <2>2. CASE UNCHANGED allVars
    <3>1. SearchOK'
      BY <2>2 DEF CleanInv, SearchOK, BelowKid, Level, allVars, engineVars, gameVars
    <3> QED
      BY <2>1, <3>1 DEF CleanInv
  <2>3. CASE GameNext
    BY <2>1, <2>3, CleanSteps DEF CleanInv
  <2> QED
    BY <2>2, <2>3
<1>3. CleanInv => TargetsAreClean
  BY CleanTargets
<1> QED
  BY <1>1, <1>2, <1>3, PTL DEF GameSpec

-----------------------------------------------------------------------------
(* The entries of the restart buffer.                                        *)

(* A set of numbers has a least one: Weakest is about an entry there is.     *)
LEMMA LeastOf ==
    ASSUME NEW T, T \subseteq Nat, T # {}
    PROVE  \E x \in T : \A y \in T : x <= y
<1> DEFINE R == {ss \in Nat \X Nat : ss[1] < ss[2]}
<1>1. IsWellFoundedOn(OpToRel(<, Nat), Nat)
  BY NatLessThanWellFounded, Zenon
<1>2. IsWellFoundedOn(R, Nat)
  BY <1>1, Zenon DEF OpToRel
<1> HIDE DEF R
<1>3. \E x \in T : \A y \in T : ~(<<y, x>> \in R)
  BY <1>2, WFMin, Zenon
<1>4. \A x, y \in Nat : <<y, x>> \in R <=> y < x
  BY DEF R
<1>5. PICK x \in T : \A y \in T : ~(<<y, x>> \in R)
  BY <1>3
<1>6. ASSUME NEW y \in T PROVE x <= y
  <2>1. x \in Nat /\ y \in Nat
    OBVIOUS
  <2>2. ~(y < x)
    BY <1>4, <1>5, <2>1, Zenon
  <2> QED
    BY <2>1, <2>2
<1> QED
  BY <1>6

-----------------------------------------------------------------------------
Entry == [history : RestartHistories, regret : Nat, rank : Nat, id : Nat, sampled : Nat]
Buffers == [entries : Seq(Entry), nextId : Nat, step : Nat, playing : BOOLEAN,
            restart : [index : Nat, id : Nat, used : BOOLEAN], games : Nat]
Offers == [history : RestartHistories, regret : Nat, rank : Nat]

RgscInv == rgsc \in Buffers /\ Len(rgsc.entries) <= PrbCapacity

IsWeakest(entries, i) ==
    \A j \in DOMAIN entries :
        \/ entries[i].regret < entries[j].regret
        \/ /\ entries[i].regret = entries[j].regret
           /\ \/ entries[i].sampled < entries[j].sampled
              \/ entries[i].sampled = entries[j].sampled /\ i <= j

LEMMA WeakestIsThere ==
    ASSUME NEW entries \in Seq(Entry), entries # << >>
    PROVE  Weakest(entries) \in DOMAIN entries /\ IsWeakest(entries, Weakest(entries))
<1> DEFINE D == DOMAIN entries
<1>1. D = 1 .. Len(entries) /\ Len(entries) \in Nat \ {0} /\ \A i \in D : entries[i] \in Entry
  BY EmptySeq, LenProperties, ElementOfSeq
<1> HIDE DEF D
<1>2. D \subseteq Nat /\ D # {}
  BY <1>1
<1>3. \A i \in D : entries[i].regret \in Nat /\ entries[i].sampled \in Nat
  BY <1>1 DEF Entry
<1>4. PICK r \in D : \A j \in D : entries[r].regret <= entries[j].regret
  <2> DEFINE T == {entries[i].regret : i \in D}
  <2>1. T \subseteq Nat /\ T # {}
    BY <1>2, <1>3
  <2>2. PICK x \in T : \A y \in T : x <= y
    BY <2>1, LeastOf
  <2> QED
    BY <2>2
<1>5. PICK s \in D : /\ entries[s].regret = entries[r].regret
                    /\ \A j \in D : entries[j].regret = entries[r].regret =>
                                      entries[s].sampled <= entries[j].sampled
  <2> DEFINE T == {entries[i].sampled : i \in {k \in D : entries[k].regret = entries[r].regret}}
  <2>1. T \subseteq Nat /\ T # {}
    BY <1>3, <1>4
  <2>2. PICK x \in T : \A y \in T : x <= y
    BY <2>1, LeastOf
  <2> QED
    BY <2>2
<1>6. PICK i \in D : /\ entries[i].regret = entries[s].regret /\ entries[i].sampled = entries[s].sampled
                    /\ \A j \in D : entries[j].regret = entries[s].regret /\ entries[j].sampled = entries[s].sampled =>
                                      i <= j
  <2> DEFINE T == {k \in D : entries[k].regret = entries[s].regret /\ entries[k].sampled = entries[s].sampled}
  <2>1. T \subseteq Nat /\ T # {}
    BY <1>2
  <2>2. PICK x \in T : \A y \in T : x <= y
    BY <2>1, LeastOf
  <2> QED
    BY <2>2
<1>7. IsWeakest(entries, i)
  <2> SUFFICES ASSUME NEW j \in D
               PROVE  \/ entries[i].regret < entries[j].regret
                      \/ /\ entries[i].regret = entries[j].regret
                         /\ \/ entries[i].sampled < entries[j].sampled
                            \/ entries[i].sampled = entries[j].sampled /\ i <= j
    BY Zenon DEF IsWeakest, D
  <2>1. entries[i].regret <= entries[j].regret
    BY <1>4, <1>5, <1>6
  <2>2. entries[j].regret = entries[r].regret => entries[i].sampled <= entries[j].sampled
    BY <1>5, <1>6
  <2>3. entries[j].regret = entries[s].regret /\ entries[j].sampled = entries[s].sampled => i <= j
    BY <1>6
  <2> QED
    BY <1>3, <1>5, <1>6, <2>1, <2>2, <2>3
<1>8. \E k \in DOMAIN entries : IsWeakest(entries, k)
  BY <1>7, Zenon DEF D
<1> QED
  BY <1>8, Zenon DEF Weakest, IsWeakest

-----------------------------------------------------------------------------
(* What may become of the entries of b in c, when at is where an entry is    *)
(* numbered: nothing, or one of them goes as the weakest.                    *)
KeepsPlaces(b, c) ==
    /\ Len(c.entries) >= Len(b.entries)
    /\ \A i \in DOMAIN b.entries :
          \/ c.entries[i] = b.entries[i]
          \/ /\ Len(b.entries) = PrbCapacity
             /\ c.entries[i].id = b.nextId
             /\ \A j \in DOMAIN b.entries : b.entries[i].regret <= b.entries[j].regret
             /\ b.entries[i].regret < c.entries[i].regret

LEMMA EntriesTyped ==
    \A s \in Seq(Entry) : /\ DOMAIN s = 1 .. Len(s) /\ Len(s) \in Nat
                         /\ s = << >> <=> Len(s) = 0
                         /\ \A i \in DOMAIN s : s[i] \in Entry
  BY EmptySeq, LenProperties, ElementOfSeq

LEMMA ExceptEntry ==
    \A s \in Seq(Entry), e \in Entry : \A i \in DOMAIN s :
       /\ [s EXCEPT ![i] = e] \in Seq(Entry) /\ Len([s EXCEPT ![i] = e]) = Len(s)
       /\ \A j \in DOMAIN s : [s EXCEPT ![i] = e][j] = IF j = i THEN e ELSE s[j]
  BY ExceptSeq, LenProperties

LEMMA AppendEntry ==
    \A s \in Seq(Entry), e \in Entry :
       /\ Append(s, e) \in Seq(Entry) /\ Len(Append(s, e)) = Len(s) + 1
       /\ \A j \in DOMAIN s : Append(s, e)[j] = s[j]
  BY AppendProperties, LenProperties

LEMMA AddEntryKeeps ==
    ASSUME NEW b \in Buffers, Len(b.entries) <= PrbCapacity, NEW new \in Offers
    PROVE  /\ AddEntry(b, new) \in Buffers /\ Len(AddEntry(b, new).entries) <= PrbCapacity
           /\ AddEntry(b, new).playing = b.playing /\ AddEntry(b, new).games = b.games
           /\ KeepsPlaces(b, AddEntry(b, new))
<1> DEFINE c == AddEntry(b, new)
           s == b.entries
           entry == [history |-> new.history, regret |-> new.regret, rank |-> new.rank,
                     id |-> b.nextId, sampled |-> 0]
           w == Weakest(s)
<1>1. /\ s \in Seq(Entry) /\ b.nextId \in Nat /\ b.step + 1 \in Nat /\ b.nextId + 1 \in Nat
      /\ entry \in Entry /\ entry.id = b.nextId /\ entry.regret = new.regret
  BY DEF Buffers, Offers, Entry
<1>2. /\ PrbCapacity \in Nat \ {0} /\ Len(s) \in Nat /\ DOMAIN s = 1 .. Len(s)
      /\ \A i \in DOMAIN s : s[i] \in Entry
  BY <1>1, EntriesTyped, RgscOK
<1>3. CASE Len(s) < PrbCapacity
  <2> DEFINE t == Append(s, entry)
  <2>1. c = [b EXCEPT !.step = b.step + 1, !.entries = t, !.nextId = b.nextId + 1]
    BY <1>3 DEF AddEntry
  <2>2. t \in Seq(Entry) /\ Len(t) = Len(s) + 1 /\ \A j \in DOMAIN s : t[j] = s[j]
    BY <1>1, AppendEntry, Zenon
  <2> HIDE DEF t, c, entry
  <2>3. c \in Buffers /\ c.entries = t /\ c.playing = b.playing /\ c.games = b.games
    BY <1>1, <2>1, <2>2 DEF Buffers
  <2>4. KeepsPlaces(b, c) /\ Len(c.entries) <= PrbCapacity
    BY <1>2, <1>3, <2>2, <2>3 DEF KeepsPlaces
  <2> QED
    BY <2>3, <2>4 DEF c
<1>4. CASE Len(s) >= PrbCapacity /\ new.regret > s[w].regret
  <2> DEFINE t == [s EXCEPT ![w] = entry]
  <2>1. Len(s) = PrbCapacity /\ s # << >>
    BY <1>1, <1>2, <1>4, EntriesTyped
  <2>2. c = [b EXCEPT !.step = b.step + 1, !.entries = t, !.nextId = b.nextId + 1]
    BY <1>2, <1>4 DEF AddEntry
  <2>3. w \in DOMAIN s /\ IsWeakest(s, w)
    BY <1>1, <2>1, WeakestIsThere, Zenon
  <2> HIDE DEF w
  <2>4. t \in Seq(Entry) /\ Len(t) = Len(s) /\ \A j \in DOMAIN s : t[j] = IF j = w THEN entry ELSE s[j]
    BY <1>1, <2>3, ExceptEntry, Zenon
  <2>5. \A j \in DOMAIN s : s[w].regret <= s[j].regret
    <3>1. \A j \in DOMAIN s : s[j].regret \in Nat
      BY <1>2 DEF Entry
    <3> QED
      BY <2>3, <3>1 DEF IsWeakest
  <2> HIDE DEF t, c, entry
  <2>6. c \in Buffers /\ c.entries = t /\ c.playing = b.playing /\ c.games = b.games
    BY <1>1, <2>2, <2>4 DEF Buffers
  <2>7. Len(c.entries) <= PrbCapacity /\ Len(c.entries) >= Len(s)
    BY <1>2, <2>1, <2>4, <2>6
  <2>8. s[w].regret < new.regret
    BY <1>2, <1>4, <2>3 DEF Entry, Offers
  <2>9. KeepsPlaces(b, c)
    BY <1>1, <2>1, <2>4, <2>5, <2>6, <2>7, <2>8 DEF KeepsPlaces
  <2> QED
    BY <2>6, <2>7, <2>9 DEF c
<1>5. CASE Len(s) >= PrbCapacity /\ ~(new.regret > s[w].regret)
  <2>1. c = [b EXCEPT !.step = b.step + 1]
    BY <1>2, <1>5 DEF AddEntry
  <2> HIDE DEF c
  <2>2. c \in Buffers /\ c.entries = s /\ c.playing = b.playing /\ c.games = b.games
    BY <1>1, <2>1 DEF Buffers
  <2> QED
    BY <1>2, <2>2 DEF KeepsPlaces, c
<1> QED
  BY <1>2, <1>3, <1>4, <1>5

LEMMA RefreshKeeps ==
    ASSUME NEW b \in Buffers, Len(b.entries) <= PrbCapacity, NEW i \in Nat, NEW regret \in Nat
    PROVE  /\ Refresh(b, i, regret) \in Buffers
           /\ Refresh(b, i, regret).nextId = b.nextId
           /\ Len(Refresh(b, i, regret).entries) = Len(b.entries)
           /\ \A j \in DOMAIN b.entries : Refresh(b, i, regret).entries[j].id = b.entries[j].id
<1> DEFINE c == Refresh(b, i, regret)
           s == b.entries
<1>1. s \in Seq(Entry) /\ b.step + 1 \in Nat /\ DOMAIN s = 1 .. Len(s) /\ \A j \in DOMAIN s : s[j] \in Entry
  BY EntriesTyped DEF Buffers
<1>2. CASE i \in DOMAIN s
  <2> DEFINE r == (s[i].regret + regret) \div 2
             e == [s[i] EXCEPT !.regret = r]
             t == [s EXCEPT ![i] = e]
  <2>1. s[i].regret \in Nat
    BY <1>1, <1>2 DEF Entry
  <2>2. r \in Nat
    BY <2>1
  <2> HIDE DEF r
  <2>3. e \in Entry /\ e.id = s[i].id
    BY <1>1, <1>2, <2>2 DEF Entry
  <2>4. c = [b EXCEPT !.step = b.step + 1, !.entries = t]
    BY <1>2 DEF Refresh, r
  <2> HIDE DEF e, c
  <2>5. t \in Seq(Entry) /\ Len(t) = Len(s) /\ \A j \in DOMAIN s : t[j] = IF j = i THEN e ELSE s[j]
    BY <1>1, <1>2, <2>3, ExceptEntry, Zenon
  <2> HIDE DEF t
  <2>6. c \in Buffers /\ c.entries = t /\ c.nextId = b.nextId
    BY <1>1, <2>4, <2>5 DEF Buffers
  <2> QED
    BY <2>3, <2>5, <2>6 DEF c
<1>3. CASE i \notin DOMAIN s
  BY <1>3 DEF Refresh
<1> QED
  BY <1>2, <1>3

-----------------------------------------------------------------------------
LEMMA RgscStarts == RgscInit => RgscInv
  BY RgscOK DEF RgscInit, RgscInv, Buffers, NoRestart

LEMMA RestartStep ==
    ASSUME RgscInv, NEW i \in DOMAIN rgsc.entries, RestartFrom(i)
    PROVE  RgscInv' /\ PlacesKept
<1> DEFINE s == rgsc.entries
           e == [s[i] EXCEPT !.sampled = rgsc.step + 1]
           t == [s EXCEPT ![i] = e]
           from == [index |-> i, id |-> s[i].id, used |-> s[i].history \in Restorable]
<1>1. /\ rgsc \in Buffers /\ s \in Seq(Entry) /\ DOMAIN s = 1 .. Len(s) /\ Len(s) \in Nat
      /\ \A j \in DOMAIN s : s[j] \in Entry
  BY EntriesTyped DEF RgscInv, Buffers
<1>2. rgsc.step + 1 \in Nat
  BY <1>1 DEF Buffers
<1>3. e \in Entry /\ e.id = s[i].id
  BY <1>1, <1>2 DEF Entry
<1>4. from \in [index : Nat, id : Nat, used : BOOLEAN]
  BY <1>1, SMTT(20) DEF Entry
<1>5. rgsc' = [rgsc EXCEPT !.playing = TRUE, !.step = rgsc.step + 1, !.entries = t, !.restart = from]
  BY <1>1 DEF RestartFrom, Buffers
<1> HIDE DEF e, from
<1>6. t \in Seq(Entry) /\ Len(t) = Len(s) /\ \A j \in DOMAIN s : t[j] = IF j = i THEN e ELSE s[j]
  BY <1>1, <1>3, ExceptEntry, Zenon
<1> HIDE DEF t
<1>7. rgsc' \in Buffers /\ rgsc'.entries = t
  BY <1>1, <1>2, <1>4, <1>5, <1>6 DEF Buffers
<1> QED
  BY <1>1, <1>3, <1>6, <1>7 DEF RgscInv, PlacesKept, Stays

(* A step that offers new to b, when b has the entries of rgsc in their      *)
(* places; only an offer during a game is held to the weakest.               *)
LEMMA OfferStep ==
    ASSUME RgscInv, NEW b \in Buffers, NEW new \in Offers, NEW c,
           c = AddEntry(b, new), rgsc' \in Buffers, rgsc'.entries = c.entries,
           Len(b.entries) = Len(rgsc.entries), b.nextId = rgsc.nextId,
           \A i \in DOMAIN rgsc.entries : b.entries[i].id = rgsc.entries[i].id,
           rgsc'.playing => b.entries = rgsc.entries
    PROVE  RgscInv' /\ PlacesKept
<1>1. Len(c.entries) <= PrbCapacity /\ KeepsPlaces(b, c)
  BY AddEntryKeeps DEF RgscInv
<1>2. DOMAIN rgsc.entries = DOMAIN b.entries
  BY EntriesTyped DEF RgscInv, Buffers
<1>3. Len(rgsc'.entries) >= Len(rgsc.entries)
  BY <1>1 DEF KeepsPlaces
<1>4. ASSUME NEW i \in DOMAIN rgsc.entries
      PROVE  \/ Stays(i)
             \/ /\ Len(rgsc.entries) = PrbCapacity
                /\ rgsc'.entries[i].id = rgsc.nextId
                /\ rgsc'.playing => \A j \in DOMAIN rgsc.entries :
                                      /\ rgsc.entries[i].regret <= rgsc.entries[j].regret
                                      /\ rgsc.entries[i].regret < rgsc'.entries[i].regret
  <2>1. CASE c.entries[i] = b.entries[i]
    BY <2>1 DEF Stays
  <2>2. CASE c.entries[i] # b.entries[i]
    BY <1>1, <1>2, <2>2 DEF KeepsPlaces
  <2> QED
    BY <2>1, <2>2
<1> QED
  BY <1>1, <1>3, <1>4 DEF RgscInv, PlacesKept

LEMMA RgscStep ==
    ASSUME RgscInv, [RgscNext]_rgsc
    PROVE  RgscInv' /\ [PlacesKept]_rgsc
<1>1. rgsc \in Buffers /\ Scores \subseteq Nat /\ Restorable \subseteq RestartHistories
  BY RgscOK DEF RgscInv
<1>2. CASE UNCHANGED rgsc
  BY <1>2 DEF RgscInv
<1>3. CASE NotSampled \/ GameUnobserved
  <2>1. rgsc' \in Buffers
    <3>1. rgsc.games + 1 \in Nat
      BY <1>1 DEF Buffers
    <3>2. NoRestart \in [index : Nat, id : Nat, used : BOOLEAN]
      BY DEF NoRestart
    <3> QED
      BY <1>1, <1>3, <3>1, <3>2 DEF NotSampled, GameUnobserved, Buffers
  <2>2. rgsc'.entries = rgsc.entries
    BY <1>1, <1>3 DEF NotSampled, GameUnobserved, Buffers
  <2>3. Len(rgsc.entries) \in Nat
    BY <1>1, EntriesTyped DEF Buffers
  <2> QED
    BY <2>1, <2>2, <2>3 DEF RgscInv, PlacesKept, Stays
<1>4. CASE \E i \in DOMAIN rgsc.entries : RestartFrom(i)
  BY <1>4, RestartStep
<1>5. ASSUME NEW history \in RestartHistories, NEW score \in Scores, TreeCandidate(history, score)
      PROVE  RgscInv' /\ PlacesKept
  <2> DEFINE new == [history |-> history, rank |-> score, regret |-> score]
  <2>1. new \in Offers
    BY <1>1 DEF Offers
  <2>2. rgsc' = AddEntry(rgsc, new)
    BY <1>5 DEF TreeCandidate
  <2> HIDE DEF new
  <2>3. rgsc' \in Buffers
    BY <1>1, <2>1, <2>2, AddEntryKeeps DEF RgscInv
  <2> QED
    BY <1>1, <2>1, <2>2, <2>3, OfferStep
<1>6. ASSUME NEW history \in Restorable, NEW score \in Scores, NEW first \in Scores, NEW weighted \in BOOLEAN,
             GameObserved(first, weighted, [history |-> history, regret |-> score, rank |-> score])
      PROVE  RgscInv' /\ PlacesKept
  <2> DEFINE new == [history |-> history, regret |-> score, rank |-> score]
             b == IF weighted /\ rgsc.restart.index > 0
                  THEN Refresh(rgsc, rgsc.restart.index, first) ELSE rgsc
             c == AddEntry(b, new)
  <2>1. new \in Offers
    BY <1>1 DEF Offers
  <2>2. rgsc' = [[c EXCEPT !.playing = FALSE] EXCEPT !.games = c.games + 1]
    BY <1>6 DEF GameObserved
  <2> HIDE DEF new
  <2>3. rgsc.restart.index \in Nat /\ first \in Nat /\ Len(rgsc.entries) <= PrbCapacity
    BY <1>1 DEF Buffers, RgscInv
  <2>4. /\ b \in Buffers /\ b.nextId = rgsc.nextId /\ Len(b.entries) = Len(rgsc.entries)
        /\ \A i \in DOMAIN rgsc.entries : b.entries[i].id = rgsc.entries[i].id
    BY <1>1, <2>3, RefreshKeeps
  <2> HIDE DEF b
  <2>5. c \in Buffers
    BY <2>1, <2>3, <2>4, AddEntryKeeps
  <2> HIDE DEF c
  <2>6. rgsc' \in Buffers /\ rgsc'.entries = c.entries /\ ~rgsc'.playing
    <3>1. c.games + 1 \in Nat
      BY <2>5 DEF Buffers
    <3> QED
      BY <2>2, <2>5, <3>1 DEF Buffers
  <2> QED
    BY <2>1, <2>4, <2>6, OfferStep DEF c
<1> QED
  BY <1>2, <1>3, <1>4, <1>5, <1>6 DEF RgscNext

(* The shape of the buffer, and that it holds no more than its capacity.     *)
THEOREM RgscInvariant == RgscSpec => []RgscInv
<1>1. RgscInv /\ [RgscNext]_rgsc => RgscInv'
  BY RgscStep
<1> QED
  BY <1>1, RgscStarts, PTL DEF RgscSpec

(* A game may hold the index of its entry while others are added: an entry   *)
(* keeps its place until a new one takes it in a full buffer, and an offer   *)
(* during a game only takes the place of the weakest (regret_buffer.py).     *)
THEOREM PlacesAreStableHolds == RgscSpec => PlacesAreStable
<1>1. RgscInv /\ [RgscNext]_rgsc => [PlacesKept]_rgsc
  BY RgscStep
<1> QED
  BY <1>1, RgscInvariant, PTL DEF RgscSpec, PlacesAreStable


(* ------------------------------------------------------------------------- *)
(* The matches of the arena. *)

(* ------------------------------------------------------------------------- *)
(* The opponent's own game. *)

Stones == ArenaCells \cup MockCells

LEMMA PlacedOn ==
    ASSUME NEW h \in Seq(Stones), NEW cell \in Stones
    PROVE  PlaceOn(h, cell) \in Seq(Stones)
<1>1. Append(h, cell) \in Seq(Stones)
  BY AppendProperties
<1> QED
  BY <1>1 DEF PlaceOn

Replays(g, board, h, n) ==
    /\ g[0] = board
    /\ \A k \in 1 .. n : g[k - 1] \in Seq(Stones) /\ g[k] = PlaceOn(g[k - 1], h[k])
    /\ g[n] = FoldLeft(PlaceOn, board, h)

LEMMA ReplayFolds ==
    ASSUME NEW h \in Seq(Stones), NEW board \in Seq(Stones)
    PROVE  \E g : Replays(g, board, h, Len(h))
<1> DEFINE n == Len(h)
           D == SUBSET (1 .. n)
           A == Seq(Stones)
           F == [q \in A \X Stones |-> PlaceOn(q[1], q[2])]
           it == CHOOSE it : it = [S \in D |-> IF S = {} THEN board ELSE PlaceOn(it[S \ {Max(S)}], h[Max(S)])]
           g == [k \in 0 .. n |-> it[1 .. k]]
<1>1. n \in Nat /\ DOMAIN h = 1 .. n /\ \A k \in 1 .. n : h[k] \in Stones
  BY LenProperties, ElementOfSeq
<1>2. \A x \in A, c \in Stones : PlaceOn(x, c) \in A
  BY PlacedOn
<1> HIDE DEF n, A
<1>3. F \in [A \X Stones -> A]
  BY <1>2
<1>4. \A x \in A, c \in Stones : F[<<x, c>>] = PlaceOn(x, c)
  OBVIOUS
<1> HIDE DEF F
<1>5. board \in A
  BY DEF A
<1>6. PICK G \in [D -> A] : Folds(G, F, board, h, n)
  BY <1>1, <1>3, <1>5, FoldExists
<1>7. ASSUME NEW S \in D
      PROVE  G[S] = IF S = {} THEN board ELSE PlaceOn(G[S \ {Max(S)}], h[Max(S)])
  <2>1. S # {} => Max(S) \in 1 .. n
    BY <1>1, GreatestIsThere
  <2>2. S # {} => h[Max(S)] \in Stones /\ G[S \ {Max(S)}] \in A
    BY <1>1, <2>1
  <2> QED
    BY <1>4, <1>6, <2>2 DEF Folds
<1>8. G = [S \in D |-> IF S = {} THEN board ELSE PlaceOn(G[S \ {Max(S)}], h[Max(S)])]
  BY <1>7
<1>9. it = [S \in D |-> IF S = {} THEN board ELSE PlaceOn(it[S \ {Max(S)}], h[Max(S)])]
  BY <1>8, Zenon
<1>10. FoldLeft(PlaceOn, board, h) = it[1 .. n]
  BY <1>1, Zenon DEF FoldLeft, MapThenFoldSet
<1> HIDE DEF it
<1>11. g[0] = board
  <2>1. 1 .. 0 = {} /\ {} \in D /\ g[0] = it[1 .. 0]
    BY <1>1
  <2> HIDE DEF g
  <2> QED
    BY <1>9, <2>1
<1>12. ASSUME NEW k \in 1 .. n PROVE g[k] = PlaceOn(g[k - 1], h[k])
  <2>1. 1 .. k \in D /\ 1 .. k # {} /\ g[k] = it[1 .. k] /\ g[k - 1] = it[1 .. k - 1]
    <3>1. k \in 0 .. n /\ k - 1 \in 0 .. n /\ 1 \in 1 .. k /\ 1 .. k \subseteq 1 .. n
      BY <1>1, <1>12
    <3> HIDE DEF D
    <3>2. g[k] = it[1 .. k] /\ g[k - 1] = it[1 .. k - 1]
      BY <3>1
    <3> HIDE DEF g
    <3> QED
      BY <3>1, <3>2 DEF D
  <2> HIDE DEF g
  <2>2. it[1 .. k] = PlaceOn(it[(1 .. k) \ {Max(1 .. k)}], h[Max(1 .. k)])
    BY <1>9, <2>1
  <2>3. Max(1 .. k) = k /\ (1 .. k) \ {k} = 1 .. k - 1
    BY <1>1, GreatestIs
  <2> QED
    BY <2>1, <2>2, <2>3
<1>13. g[n] = it[1 .. n]
  BY <1>1
<1> HIDE DEF g
<1> DEFINE P == {k \in Nat : k <= n => g[k] \in A}
<1>14. 0 \in P /\ \A k \in Nat : k \in P => k + 1 \in P
  <2>1. 0 \in P
    BY <1>5, <1>11
  <2>2. ASSUME NEW k \in Nat, k \in P PROVE k + 1 \in P
    <3>1. ASSUME k + 1 <= n PROVE g[k + 1] \in A
      <4>1. k + 1 \in 1 .. n /\ g[k] \in A /\ (k + 1) - 1 = k
        BY <1>1, <2>2, <3>1
      <4> QED
        BY <1>1, <1>2, <1>12, <4>1
    <3> QED
      BY <3>1
  <2> QED
    BY <2>1, <2>2
<1>15. \A k \in 0 .. n : g[k] \in A
  <2> HIDE DEF P
  <2>1. Nat \subseteq P
    BY <1>14, NatSetInduction
  <2> QED
    BY <1>1, <2>1 DEF P
<1>16. \A k \in 1 .. n : g[k - 1] \in A
  BY <1>1, <1>15
<1>17. Replays(g, board, h, n)
  BY <1>10, <1>11, <1>12, <1>13, <1>16 DEF Replays, A
<1> QED
  BY <1>17 DEF n

(* Every stone went where the game offered a place. *)
LegalGame(h) ==
    /\ h \in Seq(Stones)
    /\ \A k \in 1 .. Len(h) : h[k] \in Offer(SubSeq(h, 1, k - 1))

(* A game without a line, replayed twice, is itself. *)
LEMMA ReplayedOnce ==
    ASSUME NEW h, LegalGame(h)
    PROVE  FoldLeft(PlaceOn, <<>>, h) = h
<1>1. h \in Seq(Stones) /\ Len(h) \in Nat /\ \A k \in 1 .. Len(h) : h[k] \in Stones
  BY LenProperties, ElementOfSeq DEF LegalGame
<1>2. <<>> \in Seq(Stones)
  OBVIOUS
<1>3. PICK g : Replays(g, <<>>, h, Len(h))
  BY <1>1, <1>2, ReplayFolds
<1> DEFINE P == {k \in Nat : k <= Len(h) => g[k] = SubSeq(h, 1, k)}
<1>4. 0 \in P
  <2>1. g[0] = <<>>
    BY <1>3 DEF Replays
  <2>2. SubSeq(h, 1, 0) = <<>>
    BY <1>1
  <2> QED
    BY <2>1, <2>2
<1>5. ASSUME NEW k \in Nat, k \in P PROVE k + 1 \in P
  <2> SUFFICES ASSUME k + 1 <= Len(h) PROVE g[k + 1] = SubSeq(h, 1, k + 1)
    OBVIOUS
  <2>1. k + 1 \in 1 .. Len(h) /\ (k + 1) - 1 = k /\ g[k] = SubSeq(h, 1, k)
    BY <1>1, <1>5
  <2>2. g[k + 1] = PlaceOn(SubSeq(h, 1, k), h[k + 1])
    BY <1>3, <2>1 DEF Replays
  <2>3. h[k + 1] \in Offer(SubSeq(h, 1, k))
    BY <2>1 DEF LegalGame
  <2>4. g[k + 1] = Append(SubSeq(h, 1, k), h[k + 1])
    BY <2>2, <2>3 DEF PlaceOn
  <2>5. Append(SubSeq(h, 1, k), h[k + 1]) = SubSeq(h, 1, k + 1)
    BY <1>1, <2>1
  <2> QED
    BY <2>4, <2>5
<1>6. Len(h) \in P
  <2> HIDE DEF P
  <2> QED
    BY <1>1, <1>4, <1>5, NatSetInduction
<1>7. SubSeq(h, 1, Len(h)) = h
  BY <1>1
<1> QED
  BY <1>1, <1>3, <1>6, <1>7 DEF Replays

LEMMA ReplayedTwice ==
    ASSUME NEW h \in Seq(Stones), h # <<>>
    PROVE  FoldLeft(PlaceOn, h, h) = h
<1>1. Len(h) \in Nat /\ \A k \in 1 .. Len(h) : h[k] \in ToSet(h)
  BY LenProperties DEF ToSet
<1>2. \A c \in ToSet(h) : PlaceOn(h, c) = h
  BY DEF PlaceOn, Offer
<1>3. PICK g : Replays(g, h, h, Len(h))
  BY ReplayFolds
<1> DEFINE P == {k \in Nat : k <= Len(h) => g[k] = h}
<1>4. 0 \in P
  BY <1>3 DEF Replays
<1>5. ASSUME NEW k \in Nat, k \in P PROVE k + 1 \in P
  <2> SUFFICES ASSUME k + 1 <= Len(h) PROVE g[k + 1] = h
    OBVIOUS
  <2>1. k + 1 \in 1 .. Len(h) /\ (k + 1) - 1 = k /\ g[k] = h
    BY <1>1, <1>5
  <2>2. g[k + 1] = PlaceOn(h, h[k + 1])
    BY <1>3, <2>1 DEF Replays
  <2> QED
    BY <1>1, <1>2, <2>1, <2>2
<1>6. Len(h) \in P
  <2> HIDE DEF P
  <2> QED
    BY <1>1, <1>4, <1>5, NatSetInduction
<1> QED
  BY <1>1, <1>3, <1>6 DEF Replays

LEMMA SearchesTheGame ==
    ASSUME NEW h, LegalGame(h), NEW o
    PROVE  BeforeSearch(o, h).board = h
<1>1. h \in Seq(Stones)
  BY DEF LegalGame
<1> DEFINE r == Replay(ResetOpponent, h)
<1>2. r = [board |-> h, played |-> 0]
  <2>1. r = [ResetOpponent EXCEPT !.board = FoldLeft(PlaceOn, <<>>, h)]
    BY Zenon DEF Replay, ResetOpponent
  <2> QED
    BY <2>1, ReplayedOnce DEF ResetOpponent
<1> HIDE DEF r
<1>3. CASE h = <<>>
  <2>1. CatchUp(r, h) = r
    BY <1>3 DEF CatchUp
  <2> QED
    BY <1>2, <2>1 DEF BeforeSearch, r
<1>4. CASE h # <<>>
  <2>1. CatchUp(r, h) = [Replay(r, h) EXCEPT !.played = Len(h)]
    BY <1>2, <1>4 DEF CatchUp
  <2>2. Replay(r, h) = [r EXCEPT !.board = FoldLeft(PlaceOn, h, h)]
    BY <1>2, Zenon DEF Replay
  <2>3. Replay(r, h) = [board |-> h, played |-> 0]
    BY <1>1, <1>2, <1>4, <2>2, ReplayedTwice
  <2> QED
    BY <2>1, <2>3 DEF BeforeSearch, r
<1> QED
  BY <1>3, <1>4

(* ------------------------------------------------------------------------- *)
(* What the matches add up to. *)

Winners == {-1, 0, 1}
Reasons == {Crash, NoMove, "illegal", "terminal", "max_moves"}
MatchResults == [winner : Winners, history : Seq(Stones), reason : Reasons, black : BOOLEAN]

WonBy(results, w) == {k \in DOMAIN results : results[k].winner = w}

ArenaFields ==
    {"engine", "kinds", "phase", "history", "sides", "results", "stats", "colors", "failures", "matches", "searched"}
StatFields == {"games", "a", "b", "draws", "moves"}

ArenaTyped ==
    /\ DOMAIN series = ArenaFields /\ series.engine \in BOOLEAN
    /\ series.phase \in {"play", "evaluate", "rate", "done"}
    /\ series.history \in Seq(Stones) /\ series.results \in Seq(MatchResults)
    /\ DOMAIN series.stats = StatFields

GamesTallied ==
    /\ series.stats.games = Len(series.results)
    /\ series.stats.a = Cardinality(WonBy(series.results, 0))
    /\ series.stats.b = Cardinality(WonBy(series.results, 1))
    /\ series.stats.draws = Cardinality(WonBy(series.results, -1))

Judged ==
    \A k \in DOMAIN series.results :
       /\ series.results[k].black = (k % 2 = 1)
       /\ series.results[k].winner = -1 => series.results[k].reason = "max_moves"
       /\ series.engine => RightWinner(series.results[k])

InPlay == series.engine /\ series.phase = "play" => LegalGame(series.history) /\ ~LineMade(series.history)

RatedRight == Rating(series.matches) = [games |-> Game, score2 |-> 2 * series.stats.a + series.stats.draws]

Evaluated ==
    /\ series.phase # "done" => series.matches = <<>>
    /\ series.phase = "rate" => series.colors = [black |-> ColorRecord(TRUE), white |-> ColorRecord(FALSE)]
    /\ series.phase = "done" => RatedRight

ArenaInv == ArenaTyped /\ GamesTallied /\ Judged /\ InPlay /\ Evaluated /\ OpponentSeesGame

LEMMA PartsOf ==
    ASSUME NEW S, IsFiniteSet(S), NEW T, T \subseteq S
    PROVE  /\ IsFiniteSet(T) /\ IsFiniteSet(S \ T) /\ Cardinality(T) \in Nat /\ Cardinality(S \ T) \in Nat
           /\ Cardinality(S) = Cardinality(T) + Cardinality(S \ T)
<1>1. IsFiniteSet(T) /\ IsFiniteSet(S \ T)
  BY FS_Subset
<1>2. Cardinality(T) \in Nat /\ Cardinality(S \ T) \in Nat /\ Cardinality(S) \in Nat
  BY <1>1, FS_CardinalityType
<1>3. Cardinality(S \ T) = Cardinality(S) - Cardinality(S \cap T)
  BY FS_Difference
<1>4. S \cap T = T
  OBVIOUS
<1> QED
  BY <1>1, <1>2, <1>3, <1>4

LEMMA ResultsAre ==
    ASSUME NEW results \in Seq(MatchResults)
    PROVE  /\ Len(results) \in Nat /\ DOMAIN results = 1 .. Len(results)
           /\ \A k \in DOMAIN results : results[k] \in MatchResults
           /\ IsFiniteSet(DOMAIN results) /\ Cardinality(DOMAIN results) = Len(results)
<1>1. Len(results) \in Nat /\ DOMAIN results = 1 .. Len(results)
  BY LenProperties
<1>2. IsFiniteSet(1 .. Len(results)) /\ Cardinality(1 .. Len(results)) = Len(results)
  BY <1>1, FS_Interval
<1> QED
  BY <1>1, <1>2, ElementOfSeq

(* One more result, for the side w. *)
LEMMA OneMoreResult ==
    ASSUME NEW results \in Seq(MatchResults), NEW r \in MatchResults
    PROVE  LET next == Append(results, r)
               n == Len(results)
           IN  /\ next \in Seq(MatchResults) /\ Len(next) = n + 1 /\ DOMAIN next = (DOMAIN results) \cup {n + 1}
               /\ next[n + 1] = r /\ \A k \in DOMAIN results : next[k] = results[k]
               /\ \A w : Cardinality(WonBy(next, w)) = Cardinality(WonBy(results, w)) + (IF r.winner = w THEN 1 ELSE 0)
<1> DEFINE next == Append(results, r)
           n == Len(results)
<1>1. n \in Nat /\ DOMAIN results = 1 .. n /\ IsFiniteSet(DOMAIN results)
  BY ResultsAre
<1>2. /\ next \in Seq(MatchResults) /\ Len(next) = n + 1 /\ next[n + 1] = r
      /\ \A k \in 1 .. n : next[k] = results[k]
  BY AppendProperties
<1> HIDE DEF next, n
<1>3. DOMAIN next = 1 .. n + 1
  BY <1>2, ResultsAre
<1>4. DOMAIN next = (DOMAIN results) \cup {n + 1} /\ n + 1 \notin DOMAIN results
  BY <1>1, <1>3
<1>5. ASSUME NEW w
      PROVE  Cardinality(WonBy(next, w)) = Cardinality(WonBy(results, w)) + (IF r.winner = w THEN 1 ELSE 0)
  <2>1. IsFiniteSet(WonBy(results, w)) /\ n + 1 \notin WonBy(results, w)
    <3>1. WonBy(results, w) \subseteq DOMAIN results
      BY DEF WonBy
    <3> QED
      BY <1>1, <1>4, <3>1, FS_Subset
  <2>2. Cardinality(WonBy(results, w)) \in Nat
    BY <2>1, FS_CardinalityType
  <2>3. CASE r.winner = w
    <3>1. WonBy(next, w) = WonBy(results, w) \cup {n + 1}
      BY <1>1, <1>2, <1>4, <2>3 DEF WonBy
    <3>2. Cardinality(WonBy(results, w) \cup {n + 1}) = Cardinality(WonBy(results, w)) + 1
      BY <2>1, FS_AddElement
    <3> QED
      BY <2>3, <3>1, <3>2
  <2>4. CASE r.winner # w
    <3>1. WonBy(next, w) = WonBy(results, w)
      BY <1>1, <1>2, <1>4, <2>4 DEF WonBy
    <3> QED
      BY <2>2, <2>4, <3>1
  <2> QED
    BY <2>3, <2>4
<1> QED
  BY <1>1, <1>2, <1>4, <1>5 DEF next, n

LEMMA OneMoreStone ==
    ASSUME NEW h, LegalGame(h), NEW cell \in Offer(h), cell \in Stones
    PROVE  LegalGame(Append(h, cell))
<1> DEFINE t == Append(h, cell)
<1>1. h \in Seq(Stones) /\ Len(h) \in Nat
  BY LenProperties DEF LegalGame
<1>2. /\ t \in Seq(Stones) /\ Len(t) = Len(h) + 1
      /\ \A k \in 1 .. Len(h) : t[k] = h[k]
      /\ t[Len(h) + 1] = cell
  BY <1>1, AppendProperties
<1>3. ASSUME NEW k \in 1 .. Len(t) PROVE t[k] \in Offer(SubSeq(t, 1, k - 1))
  <2>1. SubSeq(t, 1, k - 1) = SubSeq(h, 1, k - 1)
    BY <1>1, <1>2
  <2>2. CASE k \in 1 .. Len(h)
    <3>1. h[k] \in Offer(SubSeq(h, 1, k - 1)) /\ t[k] = h[k]
      BY <1>2, <2>2 DEF LegalGame
    <3> QED
      BY <2>1, <3>1
  <2>3. CASE k = Len(h) + 1
    <3>1. SubSeq(h, 1, k - 1) = h
      BY <1>1, <2>3
    <3> QED
      BY <1>2, <2>1, <2>3, <3>1
  <2> QED
    BY <1>1, <1>2, <2>2, <2>3
<1> HIDE DEF t
<1>4. LegalGame(t)
  BY <1>2, <1>3 DEF LegalGame
<1> QED
  BY <1>4 DEF t

LEMMA ArenaInitKeeps == ArenaInit => ArenaInv
<1> SUFFICES ASSUME ArenaInit PROVE ArenaInv
  OBVIOUS
<1>1. PICK engine \in BOOLEAN, kinds \in Pairings :
        series = [engine |-> engine, kinds |-> kinds, phase |-> "play", history |-> <<>>,
                  sides |-> <<ResetOpponent, ResetOpponent>>, results |-> <<>>, stats |-> NoStats,
                  colors |-> [black |-> NoRecord, white |-> NoRecord], failures |-> 0, matches |-> <<>>,
                  searched |-> [board |-> <<>>, given |-> <<>>]]
  BY DEF ArenaInit
<1>2. /\ DOMAIN series = ArenaFields /\ series.engine \in BOOLEAN /\ series.phase = "play"
      /\ series.history = <<>> /\ series.results = <<>> /\ series.stats = NoStats /\ series.matches = <<>>
      /\ series.searched.board = series.searched.given
  BY <1>1 DEF ArenaFields
<1>3. /\ <<>> \in Seq(Stones) /\ <<>> \in Seq(MatchResults) /\ Len(<<>>) = 0 /\ DOMAIN <<>> = {}
  OBVIOUS
<1>4. ArenaTyped
  BY <1>2, <1>3 DEF ArenaTyped, NoStats, StatFields
<1>5. GamesTallied
  <2>1. \A w : WonBy(<<>>, w) = {}
    BY <1>3 DEF WonBy
  <2>2. \A w : Cardinality(WonBy(series.results, w)) = 0
    BY <1>2, <2>1, FS_EmptySet
  <2>3. series.stats.games = 0 /\ series.stats.a = 0 /\ series.stats.b = 0 /\ series.stats.draws = 0
    BY <1>2 DEF NoStats
  <2>4. Len(series.results) = 0
    BY <1>2, <1>3
  <2> QED
    BY <2>2, <2>3, <2>4 DEF GamesTallied
<1>6. Judged
  BY <1>2, <1>3 DEF Judged
<1>7. InPlay
  <2>1. LegalGame(<<>>)
    BY <1>3 DEF LegalGame
  <2> QED
    BY <1>2, <2>1, ArenaOK DEF InPlay, LineMade
<1> QED
  BY <1>2, <1>4, <1>5, <1>6, <1>7 DEF ArenaInv, Evaluated, OpponentSeesGame

(* A match ends. *)
LEMMA FinishKeeps ==
    ASSUME ArenaInv, series.phase = "play", NEW a, DOMAIN a = ArenaFields,
           a.engine = series.engine, a.results = series.results, a.stats = series.stats,
           a.matches = series.matches, a.history \in Seq(Stones), a.searched.board = a.searched.given,
           NEW winner \in Winners, NEW reason \in Reasons, winner = -1 => reason = "max_moves",
           a.engine => RightWinner([winner |-> winner, history |-> a.history, reason |-> reason, black |-> BlackIsA]),
           series' = Finish(a, winner, reason)
    PROVE  ArenaInv'
<1> DEFINE r == [winner |-> winner, history |-> a.history, reason |-> reason, black |-> BlackIsA]
           n == Len(series.results)
           results == Append(series.results, r)
           stats == Count(series.stats, winner, Len(a.history))
           phase == IF n + 1 = ArenaGames THEN "evaluate" ELSE "play"
<1>1. r \in MatchResults /\ r.winner = winner /\ r.black = (n % 2 = 0)
  BY DEF MatchResults, BlackIsA, Game
<1>2. series' = [a EXCEPT !.results = results, !.stats = stats, !.history = <<>>, !.phase = phase]
  BY DEF Finish, Game, ArenaFields
<1> HIDE DEF results, stats, phase, r
<1>3. /\ DOMAIN series' = ArenaFields /\ series'.engine = series.engine /\ series'.results = results
      /\ series'.stats = stats /\ series'.history = <<>> /\ series'.phase = phase
      /\ series'.matches = series.matches /\ series'.searched = a.searched
  BY <1>2 DEF ArenaFields
<1>4. phase \in {"play", "evaluate"}
  BY DEF phase
<1>5. /\ results \in Seq(MatchResults) /\ Len(results) = n + 1 /\ DOMAIN results = (DOMAIN series.results) \cup {n + 1}
      /\ results[n + 1] = r /\ \A k \in DOMAIN series.results : results[k] = series.results[k]
      /\ \A w : Cardinality(WonBy(results, w)) = Cardinality(WonBy(series.results, w)) + (IF winner = w THEN 1 ELSE 0)
  BY <1>1, OneMoreResult DEF ArenaInv, ArenaTyped, results
<1>6. ArenaTyped'
  <2>1. DOMAIN stats = StatFields
    BY DEF stats, Count, ArenaInv, ArenaTyped
  <2>2. <<>> \in Seq(Stones)
    OBVIOUS
  <2> QED
    BY <1>3, <1>4, <1>5, <2>1, <2>2 DEF ArenaInv, ArenaTyped
<1>7. GamesTallied'
  <2>1. /\ stats.games = series.stats.games + 1
        /\ stats.a = series.stats.a + (IF winner = 0 THEN 1 ELSE 0)
        /\ stats.b = series.stats.b + (IF winner = 1 THEN 1 ELSE 0)
        /\ stats.draws = series.stats.draws + (IF winner = -1 THEN 1 ELSE 0)
    BY DEF stats, Count, ArenaInv, ArenaTyped, StatFields
  <2>2. /\ series.stats.games = n
        /\ series.stats.a = Cardinality(WonBy(series.results, 0))
        /\ series.stats.b = Cardinality(WonBy(series.results, 1))
        /\ series.stats.draws = Cardinality(WonBy(series.results, -1))
    BY DEF ArenaInv, GamesTallied
  <2>3. /\ Cardinality(WonBy(results, 0)) = Cardinality(WonBy(series.results, 0)) + (IF winner = 0 THEN 1 ELSE 0)
        /\ Cardinality(WonBy(results, 1)) = Cardinality(WonBy(series.results, 1)) + (IF winner = 1 THEN 1 ELSE 0)
        /\ Cardinality(WonBy(results, -1)) = Cardinality(WonBy(series.results, -1)) + (IF winner = -1 THEN 1 ELSE 0)
    BY <1>5, Zenon
  <2> HIDE DEF n
  <2>4. /\ stats.games = Len(results) /\ stats.a = Cardinality(WonBy(results, 0))
        /\ stats.b = Cardinality(WonBy(results, 1)) /\ stats.draws = Cardinality(WonBy(results, -1))
    BY <1>5, <2>1, <2>2, <2>3
  <2> QED
    BY <1>3, <2>4 DEF GamesTallied
<1>8. Judged'
  <2>1. ASSUME NEW k \in DOMAIN results
        PROVE  /\ results[k].black = (k % 2 = 1)
               /\ results[k].winner = -1 => results[k].reason = "max_moves"
               /\ series.engine => RightWinner(results[k])
    <3>1. CASE k \in DOMAIN series.results
      BY <1>5, <3>1 DEF ArenaInv, Judged
    <3>2. CASE k = n + 1
      <4>1. n \in Nat
        BY ResultsAre DEF ArenaInv, ArenaTyped
      <4>2. n % 2 = 0 <=> (n + 1) % 2 = 1
        <5> HIDE DEF n
        <5> QED
          BY <4>1
      <4>3. r.black = (k % 2 = 1)
        BY <1>1, <3>2, <4>2
      <4>4. r.winner = winner /\ r.reason = reason /\ (series.engine => RightWinner(r))
        BY DEF r
      <4> QED
        BY <1>5, <3>2, <4>3, <4>4
    <3> QED
      BY <1>5, <3>1, <3>2
  <2> QED
    BY <1>3, <2>1 DEF Judged
<1>9. InPlay'
  <2>1. LegalGame(<<>>)
    <3>1. <<>> \in Seq(Stones) /\ Len(<<>>) = 0
      OBVIOUS
    <3> QED
      BY <3>1 DEF LegalGame
  <2> QED
    BY <1>3, <2>1, ArenaOK DEF InPlay, LineMade
<1>10. Evaluated'
  <2>1. series.matches = <<>>
    BY DEF ArenaInv, Evaluated
  <2> QED
    BY <1>3, <1>4, <2>1 DEF Evaluated
<1>11. OpponentSeesGame'
  BY <1>3 DEF OpponentSeesGame
<1> QED
  BY <1>6, <1>7, <1>8, <1>9, <1>10, <1>11 DEF ArenaInv

LEMMA PlayedKeeps ==
    ASSUME ArenaInv, series.phase = "play", series.engine, NEW a, DOMAIN a = ArenaFields,
           a.engine = series.engine, a.results = series.results, a.stats = series.stats, a.phase = series.phase,
           a.matches = series.matches, a.history = series.history, a.searched.board = a.searched.given,
           NEW move, series' = Played(a, move)
    PROVE  ArenaInv'
<1> DEFINE h == series.history
           next == [a EXCEPT !.history = Append(@, move)]
<1>1. /\ h \in Seq(Stones) /\ Len(h) \in Nat /\ LegalGame(h) /\ ~LineMade(h)
  BY LenProperties DEF ArenaInv, ArenaTyped, InPlay
<1>2. Side \in {1, 2} /\ (Side = 1 <=> (PlayerAfter(h) = 0) = BlackIsA)
  BY DEF Side, SideOf, ToMove
<1>3. BlackIsA \in BOOLEAN
  BY DEF BlackIsA
<1>4. 2 - Side \in Winners /\ 2 - Side # -1 /\ 2 - Side \in {0, 1} /\ (2 - Side = 1 <=> Side = 1)
  BY <1>2 DEF Winners
<1>5. ASSUME NEW reason \in {Crash, NoMove, "illegal"}, series' = Finish(a, 2 - Side, reason) PROVE ArenaInv'
  <2> DEFINE r == [winner |-> 2 - Side, history |-> a.history, reason |-> reason, black |-> BlackIsA]
  <2>1. /\ r.winner = 2 - Side /\ r.history = h /\ r.reason = reason /\ r.black = BlackIsA
        /\ reason # "terminal" /\ reason \in Reasons
    BY <1>5 DEF Crash, NoMove, Reasons
  <2> HIDE DEF r, h
  <2>2. Bad(r)
    BY <1>5, <2>1 DEF Bad
  <2>3. r.winner \in {0, 1} /\ (r.winner = 1 <=> OwnerA(r, PlayerAfter(h)))
    BY <1>2, <1>3, <1>4, <2>1 DEF OwnerA
  <2>4. RightWinner(r)
    BY <1>1, <2>1, <2>2, <2>3 DEF RightWinner
  <2>5. a.history \in Seq(Stones)
    BY <1>1 DEF h
  <2>6. a.engine => RightWinner([winner |-> 2 - Side, history |-> a.history, reason |-> reason, black |-> BlackIsA])
    BY <2>4 DEF r
  <2> QED
    BY <1>4, <1>5, <2>1, <2>5, <2>6, FinishKeeps
<1>6. CASE move \in {Crash, NoMove}
  BY <1>5, <1>6 DEF Played
<1>7. CASE move \notin {Crash, NoMove} /\ move \notin Offer(h)
  <2>1. series' = Finish(a, 2 - Side, "illegal")
    BY <1>7 DEF Played
  <2> QED
    BY <1>5, <2>1
<1>8. CASE move \notin {Crash, NoMove} /\ move \in Offer(h)
  <2> DEFINE t == Append(h, move)
  <2>1. /\ DOMAIN next = ArenaFields /\ next.history = t /\ next.engine = a.engine /\ next.results = a.results
        /\ next.stats = a.stats /\ next.matches = a.matches /\ next.searched = a.searched /\ next.phase = a.phase
    BY DEF ArenaFields
  <2>2. move \in Stones
    BY <1>8, ArenaOK DEF Offer, Stones
  <2>3. t \in Seq(Stones) /\ Len(t) = Len(h) + 1 /\ LegalGame(t)
    BY <1>1, <1>8, <2>2, AppendProperties, OneMoreStone
  <2>4. series' = IF LineMade(next.history) THEN Finish(next, WinnerOf(next.history), "terminal")
                  ELSE IF Len(next.history) = ArenaMoves THEN Finish(next, -1, "max_moves") ELSE next
    BY <1>8 DEF Played
  <2> HIDE DEF next, t, h
  <2>5. CASE LineMade(t)
    <3> DEFINE last == SubSeq(t, 1, Len(t) - 1)
               w == WinnerOf(t)
               r == [winner |-> w, history |-> t, reason |-> "terminal", black |-> BlackIsA]
    <3>1. w \in {0, 1} /\ (w = 0 <=> (PlayerAfter(last) = 0) = BlackIsA)
      BY DEF WinnerOf, SideOf
    <3>2. r.winner = w /\ r.history = t /\ r.reason = "terminal" /\ r.black = BlackIsA
      OBVIOUS
    <3> HIDE DEF r, w
    <3>3. r.winner \in {0, 1} /\ (r.winner = 0 <=> OwnerA(r, PlayerAfter(last)))
      BY <1>3, <3>1, <3>2 DEF OwnerA
    <3>4. RightWinner(r)
      BY <2>5, <3>2, <3>3 DEF RightWinner
    <3>5. w \in Winners /\ w # -1 /\ "terminal" \in Reasons
      BY <3>1 DEF Winners, Reasons
    <3>6. next.engine => RightWinner([winner |-> w, history |-> next.history, reason |-> "terminal", black |-> BlackIsA])
      BY <2>1, <3>4 DEF r
    <3>7. series' = Finish(next, w, "terminal")
      BY <2>1, <2>4, <2>5 DEF w
    <3>8. next.history \in Seq(Stones) /\ next.searched.board = next.searched.given
      BY <2>1, <2>3
    <3> QED
      BY <2>1, <3>5, <3>6, <3>7, <3>8, FinishKeeps
  <2>6. CASE ~LineMade(t) /\ Len(t) = ArenaMoves
    <3> DEFINE r == [winner |-> -1, history |-> t, reason |-> "max_moves", black |-> BlackIsA]
    <3>1. r.winner = -1 /\ r.history = t /\ r.reason = "max_moves" /\ r.black = BlackIsA
      OBVIOUS
    <3> HIDE DEF r
    <3>2. ~Bad(r)
      BY <3>1 DEF Bad, Crash, NoMove
    <3>3. RightWinner(r)
      BY <2>6, <3>1, <3>2 DEF RightWinner
    <3>4. -1 \in Winners /\ "max_moves" \in Reasons
      BY DEF Winners, Reasons
    <3>5. next.engine => RightWinner([winner |-> -1, history |-> next.history, reason |-> "max_moves", black |-> BlackIsA])
      BY <2>1, <3>3 DEF r
    <3>6. series' = Finish(next, -1, "max_moves")
      BY <2>1, <2>4, <2>6
    <3>7. next.history \in Seq(Stones) /\ next.searched.board = next.searched.given
      BY <2>1, <2>3
    <3> QED
      BY <2>1, <3>4, <3>5, <3>6, <3>7, FinishKeeps
  <2>7. CASE ~LineMade(t) /\ Len(t) # ArenaMoves
    <3>1. series' = next
      BY <2>1, <2>4, <2>7
    <3>2. /\ DOMAIN series' = ArenaFields /\ series'.history = t /\ series'.engine = series.engine
          /\ series'.results = series.results /\ series'.stats = series.stats /\ series'.phase = "play"
          /\ series'.matches = series.matches /\ series'.searched.board = series'.searched.given
      BY <2>1, <3>1
    <3>3. ArenaTyped'
      BY <2>3, <3>2 DEF ArenaInv, ArenaTyped
    <3>4. GamesTallied'
      BY <3>2 DEF ArenaInv, GamesTallied
    <3>5. Judged'
      BY <3>2 DEF ArenaInv, Judged
    <3>6. InPlay' /\ OpponentSeesGame'
      BY <2>3, <2>7, <3>2 DEF InPlay, OpponentSeesGame
    <3>7. Evaluated'
      BY <3>2 DEF ArenaInv, Evaluated
    <3> QED
      BY <3>3, <3>4, <3>5, <3>6, <3>7 DEF ArenaInv
  <2> QED
    BY <2>5, <2>6, <2>7
<1> QED
  BY <1>6, <1>7, <1>8

LEMMA MockPlayedKeeps ==
    ASSUME ArenaInv, series.phase = "play", ~series.engine, NEW a, DOMAIN a = ArenaFields,
           a.engine = series.engine, a.results = series.results, a.stats = series.stats, a.phase = series.phase,
           a.matches = series.matches, a.history = series.history, a.searched.board = a.searched.given,
           NEW move, move \in MockCells \cup {Crash}, series' = MockPlayed(a, move)
    PROVE  ArenaInv'
<1> DEFINE h == series.history
           t == Append(h, move)
           next == [a EXCEPT !.history = Append(@, move)]
<1>1. h \in Seq(Stones)
  BY DEF ArenaInv, ArenaTyped
<1>2. CASE move = Crash
  <2>1. Side \in {1, 2}
    BY DEF Side, SideOf
  <2>2. 2 - Side \in Winners /\ 2 - Side # -1 /\ Crash \in Reasons
    BY <2>1 DEF Winners, Reasons
  <2>3. series' = Finish(a, 2 - Side, Crash)
    BY <1>2 DEF MockPlayed
  <2> QED
    BY <1>1, <2>2, <2>3, FinishKeeps
<1>3. CASE move # Crash
  <2>1. /\ DOMAIN next = ArenaFields /\ next.history = t /\ next.engine = a.engine /\ next.results = a.results
        /\ next.stats = a.stats /\ next.matches = a.matches /\ next.searched = a.searched /\ next.phase = a.phase
    BY DEF ArenaFields
  <2>2. move \in Stones
    BY <1>3 DEF Stones
  <2>3. t \in Seq(Stones)
    BY <1>1, <2>2, AppendProperties
  <2>4. \/ \E winner \in {0, 1}, reason \in {"terminal", "max_moves"} : series' = Finish(next, winner, reason)
        \/ series' = next
    BY <1>3 DEF MockPlayed
  <2> HIDE DEF next, t, h
  <2>5. ASSUME NEW winner \in {0, 1}, NEW reason \in {"terminal", "max_moves"}, series' = Finish(next, winner, reason)
        PROVE  ArenaInv'
    <3>1. winner \in Winners /\ winner # -1 /\ reason \in Reasons
      BY <2>5 DEF Winners, Reasons
    <3>2. next.history \in Seq(Stones) /\ next.searched.board = next.searched.given
      BY <2>1, <2>3
    <3>3. ~next.engine
      BY <2>1
    <3> QED
      BY <2>1, <2>5, <3>1, <3>2, <3>3, FinishKeeps
  <2>6. CASE series' = next
    <3>1. /\ DOMAIN series' = ArenaFields /\ series'.history = t /\ series'.engine = series.engine
          /\ series'.results = series.results /\ series'.stats = series.stats /\ series'.phase = "play"
          /\ series'.matches = series.matches /\ series'.searched.board = series'.searched.given
      BY <2>1, <2>6
    <3>2. ArenaTyped'
      BY <2>3, <3>1 DEF ArenaInv, ArenaTyped
    <3>3. GamesTallied'
      BY <3>1 DEF ArenaInv, GamesTallied
    <3>4. Judged'
      BY <3>1 DEF ArenaInv, Judged
    <3>5. InPlay' /\ OpponentSeesGame'
      BY <3>1 DEF InPlay, OpponentSeesGame
    <3>6. Evaluated'
      BY <3>1 DEF ArenaInv, Evaluated
    <3> QED
      BY <3>2, <3>3, <3>4, <3>5, <3>6 DEF ArenaInv
  <2> QED
    BY <2>4, <2>5, <2>6
<1> QED
  BY <1>2, <1>3

LEMMA AsksSideKeeps == ArenaInv /\ AsksSide => ArenaInv'
<1> SUFFICES ASSUME ArenaInv, AsksSide PROVE ArenaInv'
  OBVIOUS
<1> DEFINE kind == series.kinds[Side]
           h == series.history
           searched == IF kind = "classical" /\ series.engine
                       THEN [board |-> BeforeSearch(series.sides[Side], h).board, given |-> h]
                       ELSE series.searched
           After(opponent) == [series EXCEPT !.sides[Side] = opponent, !.searched = searched]
<1>1. series.phase = "play" /\ \E answer \in Answers(kind, series.sides[Side], h) :
        series' = IF series.engine THEN Played(After(answer.opponent), answer.move)
                  ELSE MockPlayed(After(answer.opponent), answer.move)
  BY DEF AsksSide, ArenaInv, ArenaTyped, ArenaFields
<1>2. searched.board = searched.given
  <2>1. CASE kind = "classical" /\ series.engine
    <3>1. LegalGame(h)
      BY <1>1, <2>1 DEF ArenaInv, InPlay
    <3>2. BeforeSearch(series.sides[Side], h).board = h
      BY <3>1, SearchesTheGame
    <3> QED
      BY <2>1, <3>2
  <2>2. CASE ~(kind = "classical" /\ series.engine)
    BY <2>2 DEF ArenaInv, OpponentSeesGame
  <2> QED
    BY <2>1, <2>2
<1> HIDE DEF searched
<1>3. ASSUME NEW opponent
      PROVE  LET a == After(opponent)
             IN  /\ DOMAIN a = ArenaFields /\ a.engine = series.engine /\ a.results = series.results
                 /\ a.stats = series.stats /\ a.phase = series.phase /\ a.matches = series.matches
                 /\ a.history = series.history /\ a.searched.board = a.searched.given
  BY <1>2 DEF ArenaInv, ArenaTyped, ArenaFields
<1> HIDE DEF After
<1>4. CASE series.engine
  BY <1>1, <1>3, <1>4, PlayedKeeps
<1>5. CASE ~series.engine
  <2>1. PICK answer \in Answers(kind, series.sides[Side], h) : series' = MockPlayed(After(answer.opponent), answer.move)
    BY <1>1, <1>5
  <2>2. answer.move \in MockCells \cup {Crash}
    BY <1>5 DEF Answers, Answer
  <2> QED
    BY <1>1, <1>3, <1>5, <2>1, <2>2, MockPlayedKeeps
<1> QED
  BY <1>4, <1>5

LEMMA CountsColorsKeeps == ArenaInv /\ CountsColors => ArenaInv'
<1> SUFFICES ASSUME ArenaInv, CountsColors PROVE ArenaInv'
  OBVIOUS
<1> DEFINE bad == Len(SelectSeq(series.results, Bad))
           colors == [black |-> ColorRecord(TRUE), white |-> ColorRecord(FALSE)]
<1>1. series' = [series EXCEPT !.phase = "rate", !.failures = bad, !.colors = colors]
  BY DEF CountsColors
<1> HIDE DEF bad, colors
<1>2. /\ DOMAIN series' = ArenaFields /\ series'.history = series.history /\ series'.engine = series.engine
      /\ series'.results = series.results /\ series'.stats = series.stats /\ series'.phase = "rate"
      /\ series'.matches = series.matches /\ series'.searched = series.searched /\ series'.colors = colors
  BY <1>1 DEF ArenaInv, ArenaTyped, ArenaFields
<1>3. series.phase = "evaluate"
  BY DEF CountsColors
<1>4. ArenaTyped'
  BY <1>2 DEF ArenaInv, ArenaTyped
<1>5. GamesTallied' /\ Judged'
  BY <1>2 DEF ArenaInv, GamesTallied, Judged
<1>6. InPlay' /\ OpponentSeesGame'
  BY <1>2 DEF ArenaInv, InPlay, OpponentSeesGame
<1>7. Evaluated'
  <2>1. series'.colors = [black |-> ColorRecord(TRUE)', white |-> ColorRecord(FALSE)']
    BY <1>2 DEF colors, ColorRecord
  <2>2. series'.matches = <<>>
    BY <1>2, <1>3 DEF ArenaInv, Evaluated
  <2> QED
    BY <1>2, <2>1, <2>2 DEF Evaluated
<1> QED
  BY <1>4, <1>5, <1>6, <1>7 DEF ArenaInv

------------------------------------------------------------------------------
(* The rating. *)

ColorRecords == [games : Nat, wins : Nat, losses : Nat, draws : Nat]
Ratings == [games : Nat, score2 : Nat]
Rated(r, m) == [games |-> r.games + m.wins + m.losses + m.draws, score2 |-> r.score2 + 2 * m.wins + m.draws]
Unrated == [games |-> 0, score2 |-> 0]

LEMMA RatingFolds ==
    ASSUME NEW matches \in Seq(ColorRecords)
    PROVE  \E g : /\ g[0] = Unrated /\ g[Len(matches)] = Rating(matches)
                  /\ \A k \in 1 .. Len(matches) : g[k] = Rated(g[k - 1], matches[k])
<1> DEFINE n == Len(matches)
           D == SUBSET (1 .. n)
           F == [q \in Ratings \X ColorRecords |-> Rated(q[1], q[2])]
           it == CHOOSE it : it = [S \in D |-> IF S = {} THEN Unrated ELSE Rated(it[S \ {Max(S)}], matches[Max(S)])]
           g == [k \in 0 .. n |-> it[1 .. k]]
<1>1. n \in Nat /\ DOMAIN matches = 1 .. n /\ \A k \in 1 .. n : matches[k] \in ColorRecords
  BY LenProperties, ElementOfSeq
<1> HIDE DEF n
<1>2. \A x \in Ratings, m \in ColorRecords : Rated(x, m) \in Ratings
  BY DEF Ratings, ColorRecords, Rated
<1>3. F \in [Ratings \X ColorRecords -> Ratings]
  BY <1>2
<1>4. \A x \in Ratings, m \in ColorRecords : F[<<x, m>>] = Rated(x, m)
  OBVIOUS
<1> HIDE DEF F
<1>5. Unrated \in Ratings
  BY DEF Unrated, Ratings
<1>6. PICK G \in [D -> Ratings] : Folds(G, F, Unrated, matches, n)
  BY <1>1, <1>3, <1>5, FoldExists
<1>7. ASSUME NEW S \in D
      PROVE  G[S] = IF S = {} THEN Unrated ELSE Rated(G[S \ {Max(S)}], matches[Max(S)])
  <2>1. S # {} => Max(S) \in 1 .. n
    BY <1>1, GreatestIsThere
  <2>2. S # {} => matches[Max(S)] \in ColorRecords /\ G[S \ {Max(S)}] \in Ratings
    BY <1>1, <2>1
  <2> QED
    BY <1>4, <1>6, <2>2 DEF Folds
<1>8. G = [S \in D |-> IF S = {} THEN Unrated ELSE Rated(G[S \ {Max(S)}], matches[Max(S)])]
  BY <1>7
<1>9. it = [S \in D |-> IF S = {} THEN Unrated ELSE Rated(it[S \ {Max(S)}], matches[Max(S)])]
  BY <1>8, Zenon
<1>10. Rating(matches) = it[1 .. n]
  BY <1>1, Zenon DEF Rating, Rated, Unrated, FoldLeft, MapThenFoldSet
<1> HIDE DEF it
<1>11. g[0] = Unrated
  <2>1. 1 .. 0 = {} /\ {} \in D /\ g[0] = it[1 .. 0]
    BY <1>1
  <2> HIDE DEF g
  <2> QED
    BY <1>9, <2>1
<1>12. ASSUME NEW k \in 1 .. n PROVE g[k] = Rated(g[k - 1], matches[k])
  <2>1. 1 .. k \in D /\ 1 .. k # {} /\ g[k] = it[1 .. k] /\ g[k - 1] = it[1 .. k - 1]
    <3>1. k \in 0 .. n /\ k - 1 \in 0 .. n /\ 1 \in 1 .. k /\ 1 .. k \subseteq 1 .. n
      BY <1>1, <1>12
    <3> HIDE DEF D
    <3>2. g[k] = it[1 .. k] /\ g[k - 1] = it[1 .. k - 1]
      BY <3>1
    <3> HIDE DEF g
    <3> QED
      BY <3>1, <3>2 DEF D
  <2> HIDE DEF g
  <2>2. it[1 .. k] = Rated(it[(1 .. k) \ {Max(1 .. k)}], matches[Max(1 .. k)])
    BY <1>9, <2>1
  <2>3. Max(1 .. k) = k /\ (1 .. k) \ {k} = 1 .. k - 1
    BY <1>1, GreatestIs
  <2> QED
    BY <2>1, <2>2, <2>3
<1>13. g[n] = Rating(matches)
  BY <1>1, <1>10
<1> HIDE DEF g
<1> QED
  BY <1>11, <1>12, <1>13 DEF n

(* The matches of two colours, those that were not played left out. *)
Weight(m) == m.wins + m.losses + m.draws

LEMMA RatingOfBoth ==
    ASSUME NEW black \in ColorRecords, NEW white \in ColorRecords,
           Weight(black) = black.games, Weight(white) = white.games
    PROVE  Rating(RecordMatch(RecordMatch(<<>>, black), white)) =
             [games |-> black.games + white.games,
              score2 |-> 2 * (black.wins + white.wins) + black.draws + white.draws]
<1>1. /\ black.games \in Nat /\ black.wins \in Nat /\ black.losses \in Nat /\ black.draws \in Nat
      /\ white.games \in Nat /\ white.wins \in Nat /\ white.losses \in Nat /\ white.draws \in Nat
  BY DEF ColorRecords
<1>2. /\ black.wins + black.losses + black.draws = black.games
      /\ white.wins + white.losses + white.draws = white.games
  BY DEF Weight
<1>3. /\ black.games = 0 => black.wins = 0 /\ black.draws = 0
      /\ white.games = 0 => white.wins = 0 /\ white.draws = 0
  <2>1. \A x, y, z \in Nat : x + y + z = 0 => x = 0 /\ z = 0
    OBVIOUS
  <2> DEFINE bw == black.wins
             bl == black.losses
             bd == black.draws
             ww == white.wins
             wl == white.losses
             wd == white.draws
  <2>2. /\ bw \in Nat /\ bl \in Nat /\ bd \in Nat /\ ww \in Nat /\ wl \in Nat /\ wd \in Nat
        /\ bw + bl + bd = black.games /\ ww + wl + wd = white.games
    BY <1>1, <1>2
  <2> HIDE DEF bw, bl, bd, ww, wl, wd
  <2>3. (black.games = 0 => bw = 0 /\ bd = 0) /\ (white.games = 0 => ww = 0 /\ wd = 0)
    BY <2>1, <2>2
  <2> QED
    BY <2>3 DEF bw, bd, ww, wd
<1> DEFINE one == Rated(Unrated, black)
           other == Rated(Unrated, white)
           both == Rated(one, white)
<1>4. one = [games |-> black.games, score2 |-> 2 * black.wins + black.draws]
  BY <1>1, <1>2 DEF Rated, Unrated
<1>5. other = [games |-> white.games, score2 |-> 2 * white.wins + white.draws]
  BY <1>1, <1>2 DEF Rated, Unrated
<1>6. both = [games |-> black.games + white.games,
              score2 |-> 2 * (black.wins + white.wins) + black.draws + white.draws]
  <2>1. both.games = black.games + white.games
    BY <1>1, <1>2, <1>4 DEF Rated
  <2>2. both.score2 = 2 * (black.wins + white.wins) + black.draws + white.draws
    BY <1>1, <1>4 DEF Rated
  <2>3. both = [games |-> both.games, score2 |-> both.score2]
    BY DEF Rated
  <2> HIDE DEF both
  <2> QED
    BY <2>1, <2>2, <2>3
<1> HIDE DEF one, other, both
<1>7. CASE black.games > 0 /\ white.games > 0
  <2> DEFINE s == Append(<<black>>, white)
  <2>1. RecordMatch(RecordMatch(<<>>, black), white) = s
    <3>1. RecordMatch(<<>>, black) = Append(<<>>, black)
      BY <1>7 DEF RecordMatch
    <3>2. Append(<<>>, black) = <<black>>
      OBVIOUS
    <3>3. \A m : RecordMatch(m, white) = Append(m, white)
      BY <1>7 DEF RecordMatch
    <3> QED
      BY <3>1, <3>2, <3>3
  <2>2. s \in Seq(ColorRecords) /\ Len(s) = 2 /\ s[1] = black /\ s[2] = white
    <3>1. <<black>> \in Seq(ColorRecords) /\ Len(<<black>>) = 1 /\ <<black>>[1] = black
      OBVIOUS
    <3> QED
      BY <3>1, AppendProperties
  <2> HIDE DEF s
  <2>3. PICK g : /\ g[0] = Unrated /\ g[Len(s)] = Rating(s)
                 /\ \A k \in 1 .. Len(s) : g[k] = Rated(g[k - 1], s[k])
    BY <2>2, RatingFolds
  <2>4. g[1] = Rated(g[0], black) /\ g[2] = Rated(g[1], white)
    BY <2>2, <2>3
  <2> QED
    BY <1>6, <2>1, <2>2, <2>3, <2>4 DEF both, one
<1>8. CASE black.games > 0 /\ ~(white.games > 0)
  <2> DEFINE s == <<black>>
  <2>1. RecordMatch(RecordMatch(<<>>, black), white) = s
    <3>1. RecordMatch(<<>>, black) = Append(<<>>, black)
      BY <1>8 DEF RecordMatch
    <3>2. Append(<<>>, black) = s
      OBVIOUS
    <3> HIDE DEF s
    <3>3. RecordMatch(s, white) = s
      BY <1>8 DEF RecordMatch
    <3> QED
      BY <3>1, <3>2, <3>3
  <2>2. s \in Seq(ColorRecords) /\ Len(s) = 1 /\ s[1] = black
    OBVIOUS
  <2> HIDE DEF s
  <2>3. PICK g : /\ g[0] = Unrated /\ g[Len(s)] = Rating(s)
                 /\ \A k \in 1 .. Len(s) : g[k] = Rated(g[k - 1], s[k])
    BY <2>2, RatingFolds
  <2>4. Rating(s) = one
    BY <2>2, <2>3 DEF one
  <2>5. black.games = black.games + white.games
        /\ 2 * black.wins + black.draws = 2 * (black.wins + white.wins) + black.draws + white.draws
    BY <1>1, <1>3, <1>8
  <2> QED
    BY <1>4, <2>1, <2>4, <2>5
<1>9. CASE ~(black.games > 0) /\ white.games > 0
  <2> DEFINE s == <<white>>
  <2>1. RecordMatch(RecordMatch(<<>>, black), white) = s
    <3>1. RecordMatch(<<>>, black) = <<>>
      BY <1>9 DEF RecordMatch
    <3>2. RecordMatch(<<>>, white) = Append(<<>>, white)
      BY <1>9 DEF RecordMatch
    <3>3. Append(<<>>, white) = s
      OBVIOUS
    <3> HIDE DEF s
    <3> QED
      BY <3>1, <3>2, <3>3
  <2>2. s \in Seq(ColorRecords) /\ Len(s) = 1 /\ s[1] = white
    OBVIOUS
  <2> HIDE DEF s
  <2>3. PICK g : /\ g[0] = Unrated /\ g[Len(s)] = Rating(s)
                 /\ \A k \in 1 .. Len(s) : g[k] = Rated(g[k - 1], s[k])
    BY <2>2, RatingFolds
  <2>4. Rating(s) = other
    BY <2>2, <2>3 DEF other
  <2>5. white.games = black.games + white.games
        /\ 2 * white.wins + white.draws = 2 * (black.wins + white.wins) + black.draws + white.draws
    BY <1>1, <1>3, <1>9
  <2> QED
    BY <1>5, <2>1, <2>4, <2>5
<1>10. CASE ~(black.games > 0) /\ ~(white.games > 0)
  <2>1. RecordMatch(RecordMatch(<<>>, black), white) = <<>>
    BY <1>10 DEF RecordMatch
  <2>2. <<>> \in Seq(ColorRecords) /\ Len(<<>>) = 0
    OBVIOUS
  <2>3. PICK g : g[0] = Unrated /\ g[Len(<<>>)] = Rating(<<>>)
    BY <2>2, RatingFolds
  <2>4. Rating(<<>>) = Unrated
    BY <2>2, <2>3
  <2>5. 0 = black.games + white.games /\ 0 = 2 * (black.wins + white.wins) + black.draws + white.draws
    BY <1>1, <1>3, <1>10
  <2> QED
    BY <2>1, <2>4, <2>5 DEF Unrated
<1> QED
  BY <1>7, <1>8, <1>9, <1>10

(* Both colours together are all games. *)
LEMMA ColorsAddUp ==
    ASSUME ArenaInv
    PROVE  LET black == ColorRecord(TRUE)
               white == ColorRecord(FALSE)
           IN  /\ black \in ColorRecords /\ white \in ColorRecords
               /\ Weight(black) = black.games /\ Weight(white) = white.games
               /\ black.games + white.games = Len(series.results)
               /\ black.wins + white.wins = Cardinality(WonBy(series.results, 0))
               /\ black.draws + white.draws = Cardinality(WonBy(series.results, -1))
<1> DEFINE results == series.results
           D == DOMAIN results
           Mine(c) == {k \in D : results[k].black = c}
           Won(c) == {k \in Mine(c) : results[k].winner = 0}
           Drawn(c) == {k \in Mine(c) : results[k].winner = -1 /\ results[k].reason = "max_moves"}
<1>1. /\ IsFiniteSet(D) /\ Cardinality(D) = Len(results)
      /\ \A k \in D : results[k] \in MatchResults
  BY ResultsAre DEF ArenaInv, ArenaTyped
<1>2. ASSUME NEW c \in BOOLEAN
      PROVE  /\ ColorRecord(c) \in ColorRecords /\ Weight(ColorRecord(c)) = ColorRecord(c).games
             /\ ColorRecord(c).games = Cardinality(Mine(c)) /\ ColorRecord(c).wins = Cardinality(Won(c))
             /\ ColorRecord(c).draws = Cardinality(Drawn(c))
  <2> DEFINE R == ColorRecord(c)
             m == Mine(c)
             w == Won(c)
             d == Drawn(c)
             l == m \ (w \cup d)
  <2>1. R = [games |-> Cardinality(m), wins |-> Cardinality(w), draws |-> Cardinality(d), losses |-> Cardinality(l)]
    BY DEF ColorRecord
  <2>2. m \subseteq D /\ w \subseteq m /\ d \subseteq m \ w /\ (m \ w) \ d = l
    OBVIOUS
  <2> HIDE DEF R, m, w, d, l, D
  <2>3. IsFiniteSet(m) /\ Cardinality(m) \in Nat
    BY <1>1, <2>2, PartsOf
  <2>4. IsFiniteSet(m \ w) /\ Cardinality(w) \in Nat /\ Cardinality(m) = Cardinality(w) + Cardinality(m \ w)
    BY <2>2, <2>3, PartsOf
  <2>5. /\ Cardinality(d) \in Nat /\ Cardinality((m \ w) \ d) \in Nat
        /\ Cardinality(m \ w) = Cardinality(d) + Cardinality((m \ w) \ d)
    BY <2>2, <2>4, PartsOf
  <2>6. Cardinality(l) \in Nat /\ Cardinality(m) = Cardinality(w) + (Cardinality(d) + Cardinality(l))
    BY <2>2, <2>4, <2>5
  <2>7. R \in ColorRecords /\ Weight(R) = R.games
    BY <2>1, <2>3, <2>4, <2>5, <2>6 DEF ColorRecords, Weight
  <2> QED
    BY <2>1, <2>7 DEF R, m, w, d
<1>3. ASSUME NEW S, S \subseteq D, NEW T, T = {k \in S : results[k].black = TRUE},
             NEW F, F = {k \in S : results[k].black = FALSE}
      PROVE  Cardinality(T) + Cardinality(F) = Cardinality(S)
  <2>1. F = S \ T
    <3>1. \A k \in S : results[k].black \in BOOLEAN
      BY <1>1, <1>3 DEF MatchResults
    <3> QED
      BY <1>3, <3>1
  <2>2. IsFiniteSet(S) /\ T \subseteq S
    BY <1>1, <1>3, FS_Subset
  <2> QED
    BY <2>1, <2>2, PartsOf
<1>4. Cardinality(Mine(TRUE)) + Cardinality(Mine(FALSE)) = Cardinality(D)
  <2> DEFINE T == Mine(TRUE)
             F == Mine(FALSE)
  <2>1. D \subseteq D /\ T = {k \in D : results[k].black = TRUE} /\ F = {k \in D : results[k].black = FALSE}
    OBVIOUS
  <2> HIDE DEF T, F, D
  <2>2. Cardinality(T) + Cardinality(F) = Cardinality(D)
    BY <1>3, <2>1
  <2> QED
    BY <2>2 DEF T, F
<1>5. Cardinality(Won(TRUE)) + Cardinality(Won(FALSE)) = Cardinality(WonBy(results, 0))
  <2> DEFINE S == WonBy(results, 0)
  <2>1. /\ S \subseteq D /\ Won(TRUE) = {k \in S : results[k].black = TRUE}
        /\ Won(FALSE) = {k \in S : results[k].black = FALSE}
    BY DEF WonBy
  <2> HIDE DEF S, Won, D
  <2> QED
    BY <1>3, <2>1 DEF S
<1>6. Cardinality(Drawn(TRUE)) + Cardinality(Drawn(FALSE)) = Cardinality(WonBy(results, -1))
  <2> DEFINE S == WonBy(results, -1)
  <2>1. \A k \in D : results[k].winner = -1 => results[k].reason = "max_moves"
    BY DEF ArenaInv, Judged
  <2>2. /\ S \subseteq D /\ Drawn(TRUE) = {k \in S : results[k].black = TRUE}
        /\ Drawn(FALSE) = {k \in S : results[k].black = FALSE}
    BY <2>1 DEF WonBy
  <2> HIDE DEF S, Drawn, D
  <2> QED
    BY <1>3, <2>2 DEF S
<1> HIDE DEF Mine, Won, Drawn
<1> QED
  BY <1>1, <1>2, <1>4, <1>5, <1>6

LEMMA RatesCheckpointKeeps == ArenaInv /\ RatesCheckpoint => ArenaInv'
<1> SUFFICES ASSUME ArenaInv, RatesCheckpoint PROVE ArenaInv'
  OBVIOUS
<1> DEFINE black == ColorRecord(TRUE)
           white == ColorRecord(FALSE)
           matches == RecordMatch(RecordMatch(<<>>, black), white)
<1>1. series.phase = "rate" /\ series.matches = <<>> /\ series.colors = [black |-> black, white |-> white]
  BY DEF RatesCheckpoint, ArenaInv, Evaluated
<1> HIDE DEF black, white
<1>2. series' = [series EXCEPT !.phase = "done", !.matches = matches]
  BY <1>1 DEF RatesCheckpoint, ArenaInv, ArenaTyped, ArenaFields
<1> HIDE DEF matches
<1>3. /\ DOMAIN series' = ArenaFields /\ series'.history = series.history /\ series'.engine = series.engine
      /\ series'.results = series.results /\ series'.stats = series.stats /\ series'.phase = "done"
      /\ series'.matches = matches /\ series'.searched = series.searched
  BY <1>2 DEF ArenaInv, ArenaTyped, ArenaFields
<1>4. ArenaTyped'
  BY <1>3 DEF ArenaInv, ArenaTyped
<1>5. GamesTallied' /\ Judged'
  BY <1>3 DEF ArenaInv, GamesTallied, Judged
<1>6. InPlay' /\ OpponentSeesGame'
  BY <1>3 DEF ArenaInv, InPlay, OpponentSeesGame
<1>7. RatedRight'
  <2>1. /\ black \in ColorRecords /\ white \in ColorRecords
        /\ Weight(black) = black.games /\ Weight(white) = white.games
        /\ black.games + white.games = Len(series.results)
        /\ black.wins + white.wins = Cardinality(WonBy(series.results, 0))
        /\ black.draws + white.draws = Cardinality(WonBy(series.results, -1))
    BY ColorsAddUp DEF black, white
  <2>2. Rating(matches) = [games |-> black.games + white.games,
                           score2 |-> 2 * (black.wins + white.wins) + black.draws + white.draws]
    BY <2>1, RatingOfBoth DEF matches
  <2>3. black.draws \in Nat /\ white.draws \in Nat /\ black.wins \in Nat /\ white.wins \in Nat
    BY <2>1 DEF ColorRecords
  <2>4. series.stats.a = black.wins + white.wins /\ series.stats.draws = black.draws + white.draws
    BY <2>1 DEF ArenaInv, GamesTallied
  <2>5. 2 * (black.wins + white.wins) + black.draws + white.draws = 2 * series.stats.a + series.stats.draws
    BY <2>3, <2>4
  <2>6. Rating(matches) = [games |-> Len(series.results), score2 |-> 2 * series.stats.a + series.stats.draws]
    BY <2>1, <2>2, <2>5
  <2> QED
    BY <1>3, <2>6 DEF RatedRight, Game
<1>8. Evaluated'
  BY <1>3, <1>7 DEF Evaluated
<1> QED
  BY <1>4, <1>5, <1>6, <1>8 DEF ArenaInv

LEMMA ArenaStepKeeps == ArenaInv /\ [ArenaNext]_series => ArenaInv'
<1>1. ArenaInv /\ UNCHANGED series => ArenaInv'
  BY DEF ArenaInv, ArenaTyped, GamesTallied, Judged, InPlay, Evaluated, RatedRight, OpponentSeesGame, ColorRecord, Game
<1> QED
  BY <1>1, AsksSideKeeps, CountsColorsKeeps, RatesCheckpointKeeps DEF ArenaNext

LEMMA InvJudges == ArenaInv => JudgedByItsGames
<1> SUFFICES ASSUME ArenaInv PROVE ScoresAddUp /\ OpponentSeesGame
  BY DEF JudgedByItsGames
<1> DEFINE results == series.results
           A == WonBy(results, 0)
           B == WonBy(results, 1)
           C == WonBy(results, -1)
           D == DOMAIN results
<1>1. /\ IsFiniteSet(D) /\ Cardinality(D) = Len(results)
      /\ \A k \in D : results[k] \in MatchResults
  BY ResultsAre DEF ArenaInv, ArenaTyped
<1>2. A \subseteq D /\ B \subseteq D \ A /\ C = (D \ A) \ B
  <2>1. \A k \in D : results[k].winner \in {-1, 0, 1}
    BY <1>1 DEF MatchResults, Winners
  <2> QED
    BY <2>1 DEF WonBy
<1> HIDE DEF A, B, C, D
<1>3. /\ IsFiniteSet(D \ A) /\ Cardinality(A) \in Nat /\ Cardinality(D) = Cardinality(A) + Cardinality(D \ A)
  BY <1>1, <1>2, PartsOf
<1>4. /\ Cardinality(B) \in Nat /\ Cardinality((D \ A) \ B) \in Nat
      /\ Cardinality(D \ A) = Cardinality(B) + Cardinality((D \ A) \ B)
  BY <1>2, <1>3, PartsOf
<1>5. Cardinality(A) + Cardinality(B) + Cardinality(C) = Len(results)
  BY <1>1, <1>2, <1>3, <1>4
<1>6. series.stats.games = Game /\ series.stats.a + series.stats.b + series.stats.draws = Game
  BY <1>5 DEF ArenaInv, GamesTallied, Game, A, B, C
<1> QED
  BY <1>6 DEF ArenaInv, Judged, Evaluated, RatedRight, ScoresAddUp

(* A checkpoint is judged by the games that were played.                     *)
THEOREM JudgedByItsGamesHolds == ArenaSpec => []JudgedByItsGames
<1>1. ArenaInit => ArenaInv
  BY ArenaInitKeeps
<1> QED
  BY <1>1, ArenaStepKeeps, InvJudges, PTL DEF ArenaSpec
=============================================================================
