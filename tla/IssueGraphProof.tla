--------------------------- MODULE IssueGraphProof ---------------------------
(***************************************************************************)
(* Theorems about IssueGraph, for any finite set of issues and any bounds:  *)
(* the interactive operations keep the gating graph acyclic, no operation  *)
(* leaves a dangling edge, the epic cascade closes what it must, and what  *)
(* is blocked is blocked for a reason.  The searches of the code find what *)
(* can be reached and the rounds of the cascade come to the least fixed    *)
(* point; both are inductions on sets of naturals.                         *)
(***************************************************************************)
EXTENDS IssueGraph, FiniteSetTheorems, TLAPS

Arcs == SUBSET (Node \X Node)

-----------------------------------------------------------------------------
(* Counting.  The library's induction theorems take an operator and cannot *)
(* be used; these take a set and follow from the order of the naturals.    *)

\* A set of naturals has a least element.
LEMMA LeastNumber ==
  ASSUME NEW T \in SUBSET Nat, T # {}
  PROVE  \E m \in T : \A k \in T : m <= k
<1> DEFINE R == {p \in Nat \X Nat : p[1] < p[2]}
<1>1. PICK m \in T : \A k \in T : <<k, m>> \notin R
  <2>1. IsWellFoundedOn(R, Nat)
    BY NatLessThanWellFounded DEF OpToRel
  <2> HIDE DEF R
  <2> QED BY <2>1, WFMin
<1>2. \A k \in T : ~(k < m)
  BY <1>1
<1> QED BY <1>1, <1>2

\* A set that holds zero and with each number the next holds them all.
LEMMA NatSetInduction ==
  ASSUME NEW S, 0 \in S, \A n \in Nat : n \in S => n + 1 \in S
  PROVE  Nat \subseteq S
<1> SUFFICES ASSUME NEW x \in Nat, x \notin S PROVE FALSE
  OBVIOUS
<1>1. PICK m \in Nat \ S : \A k \in Nat \ S : m <= k
  BY LeastNumber
<1>2. m # 0 /\ m - 1 \in Nat /\ m - 1 \in S
  BY <1>1
<1> QED BY <1>1, <1>2

\* Iterating a function from a start is a function of the number of steps.
LEMMA IterationExists ==
  ASSUME NEW S, NEW s \in S, NEW F \in [S -> S]
  PROVE  \E h \in [Nat -> S] : h[0] = s /\ \A n \in Nat : h[n + 1] = F[h[n]]
<1> DEFINE Upto(n) == {h \in [0 .. n -> S] :
                         h[0] = s /\ \A k \in 0 .. n - 1 : h[k + 1] = F[h[k]]}
           Long == {n \in Nat : Upto(n) # {}}
<1>1. Nat \subseteq Long
  <2>1. 0 \in Long
    <3> DEFINE g == [k \in 0 .. 0 |-> s]
    <3>1. g \in Upto(0)
      OBVIOUS
    <3> QED BY <3>1
  <2>2. ASSUME NEW n \in Nat, n \in Long PROVE n + 1 \in Long
    <3>1. PICK h \in [0 .. n -> S] :
            h[0] = s /\ \A k \in 0 .. n - 1 : h[k + 1] = F[h[k]]
      BY <2>2
    <3> DEFINE g == [k \in 0 .. n + 1 |-> IF k <= n THEN h[k] ELSE F[h[n]]]
    <3>2. g \in [0 .. n + 1 -> S]
      BY <3>1
    <3>3. g[0] = s
      BY <3>1
    <3>4. ASSUME NEW k \in 0 .. n PROVE g[k + 1] = F[g[k]]
      BY <3>1
    <3>5. g \in Upto(n + 1)
      BY <3>2, <3>3, <3>4
    <3> QED BY <3>5
  <2> HIDE DEF Long
  <2> QED BY <2>1, <2>2, NatSetInduction
<1>2. ASSUME NEW n \in Nat, NEW m \in Nat, NEW g \in Upto(n), NEW h \in Upto(m),
             NEW j \in Nat, j <= n, j <= m
      PROVE  g[j] = h[j]
  <2> DEFINE Same == {k \in Nat : k <= n /\ k <= m => g[k] = h[k]}
  <2>1. 0 \in Same
    OBVIOUS
  <2>2. ASSUME NEW k \in Nat, k \in Same PROVE k + 1 \in Same
    <3> SUFFICES ASSUME k + 1 <= n, k + 1 <= m PROVE g[k + 1] = h[k + 1]
      OBVIOUS
    <3>1. k \in 0 .. n - 1 /\ k \in 0 .. m - 1 /\ g[k] = h[k]
      BY <2>2
    <3> QED BY <3>1
  <2>3. Nat \subseteq Same
    <3> HIDE DEF Same
    <3> QED BY <2>1, <2>2, NatSetInduction
  <2> QED BY <1>2, <2>3
<1>3. PICK A : \A n \in Nat : A[n] \in Upto(n)
  <2>1. \A n \in Nat : (CHOOSE h : h \in Upto(n)) \in Upto(n)
    BY <1>1
  <2> DEFINE A == [n \in Nat |-> CHOOSE h : h \in Upto(n)]
  <2>2. \A n \in Nat : A[n] = CHOOSE h : h \in Upto(n)
    OBVIOUS
  <2> HIDE DEF A, Upto
  <2> QED BY <2>1, <2>2
<1>4. \A n \in Nat : /\ A[n] \in [0 .. n -> S]
                     /\ A[n][0] = s
                     /\ \A k \in 0 .. n - 1 : A[n][k + 1] = F[A[n][k]]
  BY <1>3
<1>5. ASSUME NEW n \in Nat PROVE A[n + 1][n] = A[n][n]
  <2>1. A[n] \in Upto(n) /\ A[n + 1] \in Upto(n + 1)
    <3>1. n + 1 \in Nat
      OBVIOUS
    <3> HIDE DEF Upto
    <3> QED BY <1>3, <3>1
  <2> HIDE DEF Upto
  <2> QED BY <2>1, <1>2
<1> HIDE DEF Upto
<1> DEFINE f == [n \in Nat |-> A[n][n]]
<1>6. f \in [Nat -> S]
  <2>1. \A n \in Nat : n \in 0 .. n
    OBVIOUS
  <2> QED BY <1>4, <2>1
<1>7. f[0] = s
  BY <1>4
<1>8. ASSUME NEW n \in Nat PROVE f[n + 1] = F[f[n]]
  <2>1. f[n + 1] = A[n + 1][n + 1] /\ f[n] = A[n][n]
    OBVIOUS
  <2>2. n + 1 \in Nat /\ n \in 0 .. (n + 1) - 1
    OBVIOUS
  <2>3. A[n + 1][n + 1] = F[A[n + 1][n]]
    BY <1>4, <2>2
  <2> QED BY <1>5, <2>1, <2>3
<1> HIDE DEF f
<1> QED BY <1>6, <1>7, <1>8


\* A growing chain of subsets of a finite set stands still within as many steps
\* as the set has elements.
LEMMA ChainEnds ==
  ASSUME NEW U, IsFiniteSet(U), NEW f \in [Nat -> SUBSET U],
         \A n \in Nat : f[n] \subseteq f[n + 1]
  PROVE  /\ Cardinality(U) \in Nat
         /\ \E n \in Nat : n <= Cardinality(U) /\ f[n + 1] = f[n]
<1> DEFINE m == Cardinality(U)
<1>1. m \in Nat
  BY FS_CardinalityType
<1>2. \A n \in Nat : /\ IsFiniteSet(f[n])
                     /\ Cardinality(f[n]) \in Nat
                     /\ Cardinality(f[n]) <= m
  BY FS_Subset, FS_CardinalityType
<1> HIDE DEF m
<1>3. \E n \in Nat : n <= m /\ f[n + 1] = f[n]
  <2> SUFFICES ASSUME \A n \in Nat : n <= m => f[n + 1] # f[n]
               PROVE  FALSE
    OBVIOUS
  <2> DEFINE Growing == {n \in Nat : n <= m + 1 => Cardinality(f[n]) >= n}
  <2>1. 0 \in Growing
    BY <1>2
  <2>2. ASSUME NEW n \in Nat, n \in Growing PROVE n + 1 \in Growing
    <3> SUFFICES ASSUME n <= m PROVE Cardinality(f[n + 1]) >= n + 1
      BY <1>1
    <3>1. Cardinality(f[n]) >= n
      BY <1>1, <2>2
    <3>2. f[n] \subseteq f[n + 1] /\ f[n] # f[n + 1] /\ n + 1 \in Nat
      OBVIOUS
    <3>3. Cardinality(f[n]) <= Cardinality(f[n + 1])
          /\ Cardinality(f[n]) # Cardinality(f[n + 1])
      BY <1>2, <3>2, FS_Subset
    <3> QED BY <1>2, <3>1, <3>2, <3>3
  <2>3. Nat \subseteq Growing
    <3> HIDE DEF Growing
    <3> QED BY <2>1, <2>2, NatSetInduction
  <2>4. m + 1 \in Nat /\ Cardinality(f[m + 1]) >= m + 1
    BY <1>1, <2>3
  <2> QED BY <1>1, <1>2, <2>4
<1> QED BY <1>1, <1>3 DEF m

-----------------------------------------------------------------------------
(* Reachability, from the closed sets that define it.                      *)

LEMMA ReachRefl == ASSUME NEW G, NEW m PROVE Reaches(G, m, m)
  BY DEF Reaches

LEMMA ReachTrans ==
  ASSUME NEW G, NEW m, NEW n, NEW k, Reaches(G, m, n), Reaches(G, n, k)
  PROVE  Reaches(G, m, k)
  BY DEF Reaches

LEMMA ReachArc ==
  ASSUME NEW G, NEW a \in G PROVE Reaches(G, a[1], a[2])
  BY DEF Reaches, Closed

\* Fewer arcs, fewer cycles.
LEMMA FewerArcs ==
  ASSUME NEW G, NEW H, H \subseteq G, Acyclic(G)
  PROVE  Acyclic(H)
<1> SUFFICES ASSUME NEW a \in H, Reaches(H, a[2], a[1]) PROVE FALSE
  BY DEF Acyclic
<1>1. ASSUME NEW S \in SUBSET Node, Closed(S, G) PROVE Closed(S, H)
  BY <1>1 DEF Closed
<1>2. Reaches(G, a[2], a[1])
  BY <1>1 DEF Reaches
<1> QED BY <1>2 DEF Acyclic

\* The guard is enough.  If every arc of N fails to reach its tail from its
\* head in G \cup N, and G has no cycle, then G \cup N has none: on a cycle
\* through an arc of G, the nodes that lead back to its tail have only arcs
\* of G between them.
LEMMA GuardedUnion ==
  ASSUME NEW G \in Arcs, NEW N \in Arcs, Acyclic(G),
         \A a \in N : ~Reaches(G \cup N, a[2], a[1])
  PROVE  Acyclic(G \cup N)
<1> DEFINE U == G \cup N
<1> SUFFICES ASSUME NEW e \in U, Reaches(U, e[2], e[1]) PROVE FALSE
  BY DEF Acyclic
<1>1. e \in G /\ e[1] \in Node /\ e[2] \in Node
  BY DEF Arcs
<1>2. PICK T \in SUBSET Node : e[2] \in T /\ Closed(T, G) /\ e[1] \notin T
  BY <1>1 DEF Acyclic, Reaches
<1> DEFINE Back(n) == Reaches(U, n, e[1])
           X == {n \in Node : Reaches(U, e[2], n) /\ (n \in T \/ ~Back(n))}
<1>3. ASSUME NEW a \in U, a[1] \in X PROVE a[2] \in X
  <2>1. a[2] \in Node
    BY DEF Arcs
  <2>2. Reaches(U, a[1], a[2])
    BY ReachArc
  <2>3. Reaches(U, e[2], a[2])
    BY <1>3, <2>2, ReachTrans
  <2>4. CASE ~Back(a[2])
    BY <2>1, <2>3, <2>4
  <2>5. CASE Back(a[2])
    <3>1. Back(a[1])
      BY <2>2, <2>5, ReachTrans
    <3>2. Reaches(U, a[2], e[2])
      <4>1. Reaches(U, e[1], e[2])
        BY ReachArc
      <4> QED BY <2>5, <4>1, ReachTrans
    <3>3. Reaches(U, a[2], a[1])
      BY <1>3, <3>2, ReachTrans
    <3>4. a \in G
      BY <3>3
    <3>5. a[2] \in T
      BY <1>2, <1>3, <3>1, <3>4 DEF Closed
    <3> QED BY <2>1, <2>3, <3>5
  <2> QED BY <2>4, <2>5
<1>4. e[2] \in X
  BY <1>1, <1>2, ReachRefl
<1>5. e[1] \notin X
  BY <1>2, ReachRefl
<1>6. X \in SUBSET Node /\ Closed(X, U)
  BY <1>3 DEF Closed
<1> HIDE DEF X
<1> QED BY <1>4, <1>5, <1>6 DEF Reaches

-----------------------------------------------------------------------------
(* The search of the cycle guard and of the blocked set.                    *)

\* A state of the search.
SearchState == [visited : SUBSET Node, waiting : SUBSET Node]

\* The loop's invariant: what waits is new, every root and every successor of a
\* visited node is visited or waits, and nothing else does.
SearchInv(arcs, roots, w) ==
  /\ w \in SearchState
  /\ w.visited \cap w.waiting = {}
  /\ roots \subseteq w.visited \cup w.waiting
  /\ \A a \in arcs : a[1] \in w.visited => a[2] \in w.visited \cup w.waiting
  /\ \A n \in w.visited \cup w.waiting : \E r \in roots : Reaches(arcs, r, n)

LEMMA VisitTyped ==
  ASSUME NEW arcs \in Arcs, NEW w \in SearchState
  PROVE  Visit(arcs, w) \in SearchState
<1>1. CASE w.waiting = {}
  BY <1>1 DEF Visit
<1>2. CASE w.waiting # {}
  <2> DEFINE n == CHOOSE n \in w.waiting : TRUE
             visited == w.visited \cup {n}
             next == {a[2] : a \in {b \in arcs : b[1] = n}}
  <2>1. n \in Node
    BY <1>2 DEF SearchState
  <2>2. next \subseteq Node
    BY DEF Arcs
  <2>3. Visit(arcs, w) = [visited |-> visited, waiting |-> (w.waiting \cup next) \ visited]
    BY <1>2 DEF Visit
  <2> HIDE DEF n, next
  <2> QED BY <2>1, <2>2, <2>3 DEF SearchState
<1> QED BY <1>1, <1>2

LEMMA VisitKeepsInv ==
  ASSUME NEW arcs \in Arcs, NEW roots, NEW w, SearchInv(arcs, roots, w)
  PROVE  /\ SearchInv(arcs, roots, Visit(arcs, w))
         /\ w.visited \subseteq Visit(arcs, w).visited
         /\ w.waiting # {} => Visit(arcs, w).visited # w.visited
         /\ w.waiting = {} => Visit(arcs, w) = w
<1> USE DEF SearchInv
<1>1. CASE w.waiting = {}
  BY <1>1 DEF Visit
<1>2. CASE w.waiting # {}
  <2> DEFINE n == CHOOSE n \in w.waiting : TRUE
             visited == w.visited \cup {n}
             next == {a[2] : a \in {b \in arcs : b[1] = n}}
             v == [visited |-> visited, waiting |-> (w.waiting \cup next) \ visited]
  <2>1. n \in w.waiting
    BY <1>2
  <2>2. Visit(arcs, w) = v
    BY <1>2 DEF Visit
  <2>3. v \in SearchState
    BY <2>2, VisitTyped
  <2>4. \A a \in arcs : a[1] = n => a[2] \in next
    OBVIOUS
  <2>5. \A k \in next : Reaches(arcs, n, k)
    BY ReachArc
  <2> HIDE DEF n, next
  <2>6. \A a \in arcs : a[1] \in v.visited => a[2] \in v.visited \cup v.waiting
    BY <2>4
  <2>7. ASSUME NEW k \in v.visited \cup v.waiting
        PROVE  \E r \in roots : Reaches(arcs, r, k)
    <3>1. CASE k \in w.visited \cup w.waiting
      BY <3>1
    <3>2. CASE k \in next
      <4>1. PICK r \in roots : Reaches(arcs, r, n)
        BY <2>1
      <4>2. Reaches(arcs, r, k)
        BY <2>5, <3>2, <4>1, ReachTrans
      <4> QED BY <4>2
    <3> QED BY <2>1, <3>1, <3>2
  <2>8. v.visited \cap v.waiting = {} /\ roots \subseteq v.visited \cup v.waiting
    BY <2>1
  <2>9. w.visited \subseteq v.visited /\ v.visited # w.visited
    BY <2>1
  <2> HIDE DEF v
  <2> QED BY <1>2, <2>2, <2>3, <2>6, <2>7, <2>8, <2>9
<1> QED BY <1>1, <1>2

\* The loop as a function of the number of its turns.
LEMMA SearchTurns ==
  ASSUME NEW arcs \in Arcs, NEW roots \in SUBSET Node
  PROVE  \E f \in [Nat -> SearchState] :
           /\ f[0] = [visited |-> {}, waiting |-> roots]
           /\ \A k \in Nat : f[k + 1] = Visit(arcs, f[k])
           /\ Found(arcs, roots) = f[Cardinality(Node)].visited
<1> DEFINE start == [visited |-> {}, waiting |-> roots]
           F == [w \in SearchState |-> Visit(arcs, w)]
           Def(h) == h = [k \in Nat |-> IF k = 0 THEN start ELSE Visit(arcs, h[k - 1])]
<1>1. start \in SearchState /\ F \in [SearchState -> SearchState]
  BY VisitTyped DEF SearchState
<1>2. PICK h \in [Nat -> SearchState] : h[0] = start /\ \A k \in Nat : h[k + 1] = F[h[k]]
  <2> HIDE DEF start, F
  <2> QED BY <1>1, IterationExists
<1>3. \A k \in Nat : h[k + 1] = Visit(arcs, h[k])
  BY <1>2
<1>4. Def(h)
  <2> HIDE DEF start
  <2>1. ASSUME NEW k \in Nat
        PROVE  h[k] = IF k = 0 THEN start ELSE Visit(arcs, h[k - 1])
    <3>1. CASE k # 0
      <4>1. k - 1 \in Nat /\ (k - 1) + 1 = k
        BY <3>1
      <4>2. h[(k - 1) + 1] = Visit(arcs, h[k - 1])
        BY <1>3, <4>1
      <4> QED BY <3>1, <4>1, <4>2
    <3> QED BY <1>2, <3>1
  <2> QED BY <1>2, <2>1
<1> DEFINE f == CHOOSE g : Def(g)
<1>5. Def(f)
  <2> HIDE DEF Def
  <2> QED BY <1>4
<1>6. Found(arcs, roots) = f[Cardinality(Node)].visited
  BY DEF Found
<1> HIDE DEF f, start
<1>7. \A k \in Nat : f[k] = IF k = 0 THEN start ELSE Visit(arcs, f[k - 1])
  BY <1>5
<1>8. f[0] = start
  BY <1>7
<1>9. ASSUME NEW k \in Nat PROVE f[k + 1] = Visit(arcs, f[k])
  <2>1. k + 1 \in Nat /\ k + 1 # 0 /\ (k + 1) - 1 = k
    OBVIOUS
  <2> QED BY <1>7, <2>1
<1>10. f \in [Nat -> SearchState]
  <2> DEFINE Typed == {k \in Nat : f[k] \in SearchState}
  <2>1. 0 \in Typed
    BY <1>1, <1>8
  <2>2. ASSUME NEW k \in Nat, k \in Typed PROVE k + 1 \in Typed
    BY <1>9, <2>2, VisitTyped
  <2>3. Nat \subseteq Typed
    <3> HIDE DEF Typed
    <3> QED BY <2>1, <2>2, NatSetInduction
  <2> QED BY <1>5, <2>3
<1> QED BY <1>6, <1>8, <1>9, <1>10 DEF start

\* The search finds what can be reached from its roots: it ends, with nothing
\* waiting, after no more turns than there are nodes.
LEMMA FoundIsReached ==
  ASSUME NEW arcs \in Arcs, NEW roots \in SUBSET Node
  PROVE  Found(arcs, roots) = {n \in Node : \E r \in roots : Reaches(arcs, r, n)}
<1>1. PICK f \in [Nat -> SearchState] :
        /\ f[0] = [visited |-> {}, waiting |-> roots]
        /\ \A k \in Nat : f[k + 1] = Visit(arcs, f[k])
        /\ Found(arcs, roots) = f[Cardinality(Node)].visited
  BY SearchTurns
<1>2. \A k \in Nat : SearchInv(arcs, roots, f[k])
  <2> DEFINE Kept == {k \in Nat : SearchInv(arcs, roots, f[k])}
  <2>1. 0 \in Kept
    <3>1. SearchInv(arcs, roots, [visited |-> {}, waiting |-> roots])
      BY ReachRefl DEF SearchInv, SearchState
    <3> QED BY <1>1, <3>1
  <2>2. ASSUME NEW k \in Nat, k \in Kept PROVE k + 1 \in Kept
    BY <1>1, <2>2, VisitKeepsInv
  <2>3. Nat \subseteq Kept
    <3> HIDE DEF Kept
    <3> QED BY <2>1, <2>2, NatSetInduction
  <2> QED BY <2>3
<1> DEFINE V == [k \in Nat |-> f[k].visited]
           m == Cardinality(Node)
<1>3. m \in Nat /\ \E k \in Nat : k <= m /\ V[k + 1] = V[k]
  <2>1. V \in [Nat -> SUBSET Node]
    BY DEF SearchState
  <2>2. ASSUME NEW k \in Nat PROVE V[k] \subseteq V[k + 1]
    <3>1. f[k].visited \subseteq f[k + 1].visited
      BY <1>1, <1>2, VisitKeepsInv
    <3> QED BY <3>1
  <2>3. IsFiniteSet(Node)
    BY GraphAssumption
  <2> HIDE DEF V
  <2> QED BY <2>1, <2>2, <2>3, ChainEnds
<1> HIDE DEF m
<1>4. PICK n \in Nat : n <= m /\ f[n].waiting = {}
  <2>1. PICK n \in Nat : n <= m /\ V[n + 1] = V[n]
    BY <1>3
  <2>2. f[n + 1].visited = f[n].visited
    BY <2>1
  <2> QED BY <1>1, <1>2, <2>1, <2>2, VisitKeepsInv
<1>5. f[m] = f[n]
  <2> DEFINE Same == {k \in Nat : f[n + k] = f[n]}
  <2>1. 0 \in Same
    OBVIOUS
  <2>2. ASSUME NEW k \in Nat, k \in Same PROVE k + 1 \in Same
    <3>1. f[(n + k) + 1] = Visit(arcs, f[n + k]) /\ n + (k + 1) = (n + k) + 1
      BY <1>1
    <3>2. Visit(arcs, f[n]) = f[n]
      BY <1>2, <1>4, VisitKeepsInv
    <3> QED BY <2>2, <3>1, <3>2
  <2>3. Nat \subseteq Same
    <3> HIDE DEF Same
    <3> QED BY <2>1, <2>2, NatSetInduction
  <2>4. m - n \in Nat /\ n + (m - n) = m
    BY <1>3, <1>4
  <2>5. f[n + (m - n)] = f[n]
    BY <2>3, <2>4
  <2> QED BY <2>4, <2>5
<1> DEFINE R == Found(arcs, roots)
<1>6. R = f[n].visited
  BY <1>1, <1>5 DEF m
<1>7. SearchInv(arcs, roots, f[n])
  BY <1>2
<1>8. R \in SUBSET Node /\ roots \subseteq R /\ Closed(R, arcs)
  BY <1>4, <1>6, <1>7 DEF SearchInv, SearchState, Closed
<1>9. \A k \in R : \E r \in roots : Reaches(arcs, r, k)
  BY <1>6, <1>7 DEF SearchInv
<1> HIDE DEF R
<1>10. ASSUME NEW k \in Node, NEW r \in roots, Reaches(arcs, r, k) PROVE k \in R
  BY <1>8, <1>10 DEF Reaches
<1> QED BY <1>8, <1>9, <1>10 DEF R

-----------------------------------------------------------------------------
(* The graph of a set of edges.                                            *)

LEMMA ArcsOfDeps ==
  ASSUME NEW D \in SUBSET Dep PROVE GatingArcs(D) \in Arcs
<1> SUFFICES ASSUME NEW e \in D PROVE Arc(e) \in Node \X Node
  BY DEF GatingArcs, Arcs
<1>1. e.from \in Node /\ e.to \in Node
  BY DEF Dep, Node
<1> QED BY <1>1 DEF Arc

LEMMA ArcsOfUnion ==
  ASSUME NEW D, NEW F
  PROVE  GatingArcs(D \cup F) = GatingArcs(D) \cup GatingArcs(F)
  BY DEF GatingArcs

LEMMA ArcsOfSubset ==
  ASSUME NEW D, NEW F, F \subseteq D PROVE GatingArcs(F) \subseteq GatingArcs(D)
  BY DEF GatingArcs

\* Removing edges keeps the graph acyclic.
LEMMA RemovalSafe ==
  ASSUME NEW D, NEW F, F \subseteq D, Acyclic(GatingArcs(D))
  PROVE  Acyclic(GatingArcs(F))
  BY ArcsOfSubset, FewerArcs

\* The guard refuses edges exactly if one of them would be on a cycle.
LEMMA GuardIsReach ==
  ASSUME NEW D \in SUBSET Dep, NEW F \in SUBSET Dep
  PROVE  WouldCycle(D, F)
           <=> \E a \in GatingArcs(F) : Reaches(GatingArcs(D \cup F), a[2], a[1])
<1> DEFINE U == GatingArcs(D \cup F)
<1>1. U \in Arcs
  BY ArcsOfDeps
<1>2. ASSUME NEW a \in GatingArcs(F)
      PROVE  a[1] \in Found(U, {a[2]}) <=> Reaches(U, a[2], a[1])
  <2>1. a[1] \in Node /\ a[2] \in Node
    BY ArcsOfDeps DEF Arcs
  <2> HIDE DEF U
  <2>2. Found(U, {a[2]}) = {n \in Node : \E r \in {a[2]} : Reaches(U, r, n)}
    BY <1>1, <2>1, FoundIsReached
  <2> QED BY <2>1, <2>2
<1> QED BY <1>2 DEF WouldCycle

\* Inserting edges that pass the cycle guard keeps it acyclic.
LEMMA InsertionSafe ==
  ASSUME NEW D \in SUBSET Dep, NEW F \in SUBSET Dep,
         Acyclic(GatingArcs(D)), ~WouldCycle(D, F)
  PROVE  Acyclic(GatingArcs(D \cup F))
<1>1. \A a \in GatingArcs(F) :
        ~Reaches(GatingArcs(D) \cup GatingArcs(F), a[2], a[1])
  <2>1. GatingArcs(D \cup F) = GatingArcs(D) \cup GatingArcs(F)
    BY ArcsOfUnion
  <2>2. ~\E a \in GatingArcs(F) : Reaches(GatingArcs(D \cup F), a[2], a[1])
    BY GuardIsReach
  <2> QED BY <2>1, <2>2
<1>2. GatingArcs(D) \in Arcs /\ GatingArcs(F) \in Arcs
  BY ArcsOfDeps
<1>3. Acyclic(GatingArcs(D) \cup GatingArcs(F))
  BY <1>1, <1>2, GuardedUnion
<1> QED BY <1>3, ArcsOfUnion

-----------------------------------------------------------------------------
(* The cascade of close_eligible.                                           *)

\* The rounds of the cascade are what their recursive definition says.
LEMMA PlacedRounds ==
  /\ Placed \in [Nat -> SUBSET Epic]
  /\ Placed[0] = {}
  /\ \A n \in Nat : Placed[n + 1] = Placed[n] \cup Round(Placed[n])
<1> DEFINE F == [p \in SUBSET Epic |-> p \cup Round(p)]
           Def(h) == h = [n \in Nat |-> IF n = 0 THEN {}
                                        ELSE h[n - 1] \cup Round(h[n - 1])]
<1>1. F \in [SUBSET Epic -> SUBSET Epic]
  BY DEF Round
<1>2. PICK h \in [Nat -> SUBSET Epic] :
        h[0] = {} /\ \A n \in Nat : h[n + 1] = F[h[n]]
  <2> DEFINE E == SUBSET Epic
             none == {}
  <2>1. none \in E /\ F \in [E -> E]
    BY <1>1
  <2>2. \E h \in [Nat -> E] : h[0] = none /\ \A n \in Nat : h[n + 1] = F[h[n]]
    <3> HIDE DEF E, F, none
    <3> QED BY <2>1, IterationExists
  <2> QED BY <2>2
<1>3. \A n \in Nat : h[n + 1] = h[n] \cup Round(h[n])
  BY <1>2
<1>4. Def(h)
  <2>1. ASSUME NEW n \in Nat
        PROVE  h[n] = IF n = 0 THEN {} ELSE h[n - 1] \cup Round(h[n - 1])
    <3>1. CASE n = 0
      BY <1>2, <3>1
    <3>2. CASE n # 0
      <4>1. n - 1 \in Nat /\ (n - 1) + 1 = n
        BY <3>2
      <4>2. h[(n - 1) + 1] = h[n - 1] \cup Round(h[n - 1])
        BY <1>3, <4>1
      <4> QED BY <3>2, <4>1, <4>2
    <3> QED BY <3>1, <3>2
  <2> QED BY <1>2, <2>1
<1>5. Def(Placed)
  <2>1. Placed = CHOOSE g : Def(g)
    BY DEF Placed
  <2> HIDE DEF Def
  <2> QED BY <1>4, <2>1
<1>6. \A n \in Nat : Placed[n] = IF n = 0 THEN {}
                                 ELSE Placed[n - 1] \cup Round(Placed[n - 1])
  BY <1>5
<1>7. Placed[0] = {}
  BY <1>6
<1>8. ASSUME NEW n \in Nat
      PROVE  Placed[n + 1] = Placed[n] \cup Round(Placed[n])
  <2>1. n + 1 \in Nat /\ n + 1 # 0 /\ (n + 1) - 1 = n
    OBVIOUS
  <2> QED BY <1>6, <2>1
<1>9. Placed \in [Nat -> SUBSET Epic]
  <2> DEFINE Typed == {n \in Nat : Placed[n] \in SUBSET Epic}
  <2>1. 0 \in Typed
    BY <1>7
  <2>2. ASSUME NEW n \in Nat, n \in Typed PROVE n + 1 \in Typed
    <3>1. Round(Placed[n]) \subseteq Epic
      BY DEF Round
    <3>2. Placed[n + 1] = Placed[n] \cup Round(Placed[n])
      BY <1>8
    <3> QED BY <2>2, <3>1, <3>2
  <2>3. Nat \subseteq Typed
    <3> HIDE DEF Typed
    <3> QED BY <2>1, <2>2, NatSetInduction
  <2> QED BY <1>5, <2>3
<1> QED BY <1>7, <1>8, <1>9

-----------------------------------------------------------------------------
(* A round, without its counting.                                          *)

Live == {e \in Epic : status[e] \in Active}

\* A live epic with children, each of them done or in S.
Ripe(e, S) ==
  status[e] \in Active /\ Children(e) # {} /\ Children(e) \subseteq Done(e) \cup S

\* Two disjoint parts of a finite set are as many as the set only together.
LEMMA PartsCount ==
  ASSUME NEW C, IsFiniteSet(C), NEW A, NEW B,
         A \subseteq C, B \subseteq C, A \cap B = {}
  PROVE  /\ Cardinality(A) \in Nat /\ Cardinality(B) \in Nat
         /\ Cardinality(C) \in Nat
         /\ Cardinality(C) = Cardinality(A) + Cardinality(B) <=> C = A \cup B
<1>1. IsFiniteSet(A) /\ IsFiniteSet(B)
  BY FS_Subset
<1>2. Cardinality(A) \in Nat /\ Cardinality(B) \in Nat /\ Cardinality(C) \in Nat
  BY <1>1, FS_CardinalityType
<1>3. Cardinality(A \cup B) = Cardinality(A) + Cardinality(B)
  <2>1. Cardinality(A \cap B) = 0
    BY FS_EmptySet
  <2>2. Cardinality(A \cup B)
          = Cardinality(A) + Cardinality(B) - Cardinality(A \cap B)
    BY <1>1, FS_Union
  <2> QED BY <1>2, <2>1, <2>2
<1>4. A \cup B \in SUBSET C
  OBVIOUS
<1>5. Cardinality(C) = Cardinality(A \cup B) => C = A \cup B
  BY <1>4, FS_Subset
<1> QED BY <1>2, <1>3, <1>5

LEMMA ChildrenFinite ==
  ASSUME TypeOK, NEW e
  PROVE  Children(e) \in SUBSET Issue /\ IsFiniteSet(Children(e))
<1>1. Children(e) \in SUBSET Issue
  BY DEF Children, TypeOK, Dep
<1> QED BY <1>1, GraphAssumption, FS_Subset DEF Node

\* Counting the epics placed as closed children asks whether every child is
\* done or placed: none of them is both.
LEMMA RoundIsRipe ==
  ASSUME TypeOK, NEW P \in SUBSET Live
  PROVE  Round(P) = {e \in Epic \ P : Ripe(e, P)}
<1> SUFFICES ASSUME NEW e \in Epic
             PROVE  Eligible(e, Cardinality(Done(e)) + Cardinality(P \cap Children(e)))
                      <=> Ripe(e, P)
  BY DEF Round
<1> DEFINE C == Children(e)
           A == Done(e)
           B == P \cap Children(e)
<1>1. IsFiniteSet(C)
  BY ChildrenFinite
<1>2. A \subseteq C /\ B \subseteq C /\ A \cap B = {}
  BY DEF Done, Live, Active, Terminal
<1>3. /\ Cardinality(A) \in Nat /\ Cardinality(B) \in Nat /\ Cardinality(C) \in Nat
      /\ Cardinality(C) = Cardinality(A) + Cardinality(B) <=> C = A \cup B
  <2> HIDE DEF A, B, C
  <2> QED BY <1>1, <1>2, PartsCount
<1>4. Cardinality(C) > 0 <=> C # {}
  <2> HIDE DEF A, B, C
  <2> QED BY <1>1, <1>3, FS_EmptySet
<1>5. Exists(e) /\ status[e] \notin Terminal <=> status[e] \in Active
  BY GraphAssumption DEF TypeOK, Exists, Present, Active, Terminal
<1>6. C = A \cup B <=> C \subseteq A \cup P
  BY <1>2
<1> HIDE DEF A, B, C
<1>7. Eligible(e, Cardinality(A) + Cardinality(B)) <=> Ripe(e, P)
  <2>1. Eligible(e, Cardinality(A) + Cardinality(B))
          <=> /\ Exists(e) /\ status[e] \notin Terminal
              /\ Cardinality(C) > 0
              /\ Cardinality(A) + Cardinality(B) = Cardinality(C)
    BY DEF Eligible, C
  <2>2. Ripe(e, P) <=> status[e] \in Active /\ C # {} /\ C \subseteq A \cup P
    BY DEF Ripe, A, C
  <2> QED BY <1>3, <1>4, <1>5, <1>6, <2>1, <2>2
<1> QED BY <1>7 DEF A, B

\* Every round places live epics that must be closed.
LEMMA PlacedSound ==
  ASSUME TypeOK, NEW n \in Nat
  PROVE  Placed[n] \subseteq Live /\ Placed[n] \subseteq Finished
<1> DEFINE Sound == {k \in Nat : Placed[k] \subseteq Live /\ Placed[k] \subseteq Finished}
<1>1. 0 \in Sound
  BY PlacedRounds
<1>2. ASSUME NEW k \in Nat, k \in Sound PROVE k + 1 \in Sound
  <2>1. Placed[k + 1] = Placed[k] \cup {e \in Epic \ Placed[k] : Ripe(e, Placed[k])}
    BY <1>2, PlacedRounds, RoundIsRipe
  <2>2. ASSUME NEW e \in Epic, Ripe(e, Placed[k]) PROVE e \in Live /\ e \in Finished
    <3>1. ASSUME NEW S \in SUBSET Epic, \A f \in Epic : Ripe(f, S) => f \in S
          PROVE  e \in S
      <4>1. Placed[k] \subseteq S
        BY <1>2, <3>1 DEF Finished, Ripe
      <4>2. Ripe(e, S)
        BY <2>2, <4>1 DEF Ripe
      <4> QED BY <3>1, <4>2
    <3>2. e \in Finished
      BY <3>1 DEF Finished, Ripe
    <3> QED BY <2>2, <3>2 DEF Live, Ripe
  <2> QED BY <1>2, <2>1, <2>2
<1>3. Nat \subseteq Sound
  <2> HIDE DEF Sound
  <2> QED BY <1>1, <1>2, NatSetInduction
<1> QED BY <1>3

\* A round that adds nothing is the last: as many rounds as there are epics
\* reach one.
LEMMA RoundsSuffice == Round(CascadeCloseSet) = {}
<1> DEFINE m == Cardinality(Epic)
<1>1. IsFiniteSet(Epic)
  BY GraphAssumption, FS_Subset DEF Node
<1>2. \A k \in Nat : Placed[k] \subseteq Placed[k + 1]
  BY PlacedRounds
<1>3. m \in Nat /\ \E n \in Nat : n <= m /\ Placed[n + 1] = Placed[n]
  BY <1>1, <1>2, PlacedRounds, ChainEnds
<1> HIDE DEF m
<1>4. PICK n \in Nat : n <= m /\ Round(Placed[n]) = {}
  <2>1. \A k \in Nat : Placed[k + 1] = Placed[k] => Round(Placed[k]) = {}
    BY PlacedRounds DEF Round
  <2> QED BY <1>3, <2>1
<1> DEFINE Same == {k \in Nat : Placed[n + k] = Placed[n]}
<1>5. 0 \in Same
  OBVIOUS
<1>6. ASSUME NEW k \in Nat, k \in Same PROVE k + 1 \in Same
  <2>1. n + k \in Nat /\ n + (k + 1) = (n + k) + 1
    OBVIOUS
  <2>2. Placed[n + k] = Placed[n]
    BY <1>6
  <2>3. Placed[(n + k) + 1] = Placed[n + k] \cup Round(Placed[n + k])
    BY <2>1, PlacedRounds
  <2>4. Placed[n + (k + 1)] = Placed[n]
    BY <1>4, <2>1, <2>2, <2>3
  <2> QED BY <2>4
<1>7. Nat \subseteq Same
  <2> HIDE DEF Same
  <2> QED BY <1>5, <1>6, NatSetInduction
<1>8. m - n \in Nat /\ n + (m - n) = m
  BY <1>3, <1>4
<1>9. Placed[m] = Placed[n]
  BY <1>7, <1>8
<1> QED BY <1>4, <1>9 DEF CascadeCloseSet, m

\* The rounds of the cascade place the epics that must be closed, and no other.
LEMMA CascadeIsFinished ==
  ASSUME TypeOK
  PROVE  CascadeCloseSet = Finished /\ CascadeCloseSet \subseteq Live
<1>1. Cardinality(Epic) \in Nat
  BY GraphAssumption, FS_Subset, FS_CardinalityType DEF Node
<1>2. CascadeCloseSet \subseteq Live /\ CascadeCloseSet \subseteq Finished
  BY <1>1, PlacedSound DEF CascadeCloseSet
<1>3. Round(CascadeCloseSet) = {e \in Epic \ CascadeCloseSet : Ripe(e, CascadeCloseSet)}
  BY <1>2, RoundIsRipe
<1>4. \A e \in Epic : Ripe(e, CascadeCloseSet) => e \in CascadeCloseSet
  BY <1>3, RoundsSuffice
<1>5. CascadeCloseSet \in SUBSET Epic
  BY <1>2 DEF Live
<1>6. Finished \subseteq CascadeCloseSet
  <2> HIDE DEF CascadeCloseSet
  <2> QED BY <1>4, <1>5 DEF Finished, Ripe
<1> QED BY <1>2, <1>6

LEMMA CascadeStep ==
  ASSUME TypeOK, CloseEligible
  PROVE  {e \in Issue : status'[e] # status[e]} = Finished
<1>1. CascadeCloseSet = Finished /\ CascadeCloseSet \subseteq Live
  BY CascadeIsFinished
<1>2. status' = [i \in Issue |-> IF i \in CascadeCloseSet THEN "closed" ELSE status[i]]
  BY DEF CloseEligible
<1>3. CascadeCloseSet \subseteq Issue
        /\ \A e \in CascadeCloseSet : status[e] # "closed"
  BY <1>1, GraphAssumption DEF Live, Active
<1> HIDE DEF CascadeCloseSet
<1>4. \A e \in Issue : status'[e] # status[e] <=> e \in CascadeCloseSet
  BY <1>2, <1>3
<1> QED BY <1>1, <1>3, <1>4

\* Closing them leaves none that must be closed: its last open children would
\* have been closed with it.
LEMMA CascadeLeavesNone ==
  ASSUME TypeOK, CloseEligible
  PROVE  Finished' = {}
<1>1. CascadeCloseSet = Finished /\ CascadeCloseSet \subseteq Live
  BY CascadeIsFinished
<1> DEFINE C == CascadeCloseSet
<1>2. status' = [i \in Issue |-> IF i \in C THEN "closed" ELSE status[i]]
      /\ deps' = deps
  BY DEF CloseEligible
<1>3. C \subseteq Issue /\ \A e \in C : status[e] \in Active
  BY <1>1, GraphAssumption DEF Live
<1> HIDE DEF C
<1>4. \A i \in Issue : status'[i] = "absent" <=> status[i] = "absent"
  BY <1>2, <1>3 DEF Active
<1>5. \A e : Children(e)' = Children(e)
  BY <1>2, <1>4 DEF Children, Exists
<1>6. \A e : Done(e)' \subseteq Done(e) \cup C
  <2> SUFFICES ASSUME NEW e, NEW i \in Done(e)' PROVE i \in Done(e) \cup C
    OBVIOUS
  <2>1. i \in Children(e)' /\ status'[i] \in Terminal
    BY DEF Done
  <2>2. i \in Children(e) /\ i \in Issue
    BY <1>5, <2>1, ChildrenFinite
  <2> QED BY <1>2, <2>1, <2>2 DEF Done
<1>7. ASSUME NEW f \in Epic, status'[f] \in Active, Children(f)' # {},
             Children(f)' \subseteq Done(f)' \cup {}
      PROVE  FALSE
  <2>1. f \in Issue /\ f \notin C /\ status[f] \in Active
    BY <1>2, <1>3, <1>7, GraphAssumption DEF Active
  <2>2. Ripe(f, C)
    BY <1>5, <1>6, <1>7, <2>1 DEF Ripe
  <2>3. f \in Finished
    <3> SUFFICES ASSUME NEW S \in SUBSET Epic,
                        \A e \in Epic : Ripe(e, S) => e \in S
                 PROVE  f \in S
      BY DEF Finished, Ripe
    <3>1. C \subseteq S
      BY <1>1 DEF C, Finished, Ripe
    <3> QED BY <2>2, <3>1 DEF Ripe
  <2> QED BY <1>1, <2>1, <2>3 DEF C
<1> QED BY <1>7 DEF Finished

-----------------------------------------------------------------------------
(* What is blocked.                                                        *)

Busy == {i \in Issue : status[i] \in Active}

\* The gating edges in unblock's own direction, from what waits.
Forward == {ArcForward(e) : e \in {d \in deps : d.kind \in Gating}}

\* A path backwards is a path in the reversed graph.
LEMMA ReachReversed ==
  ASSUME NEW H \in Arcs, NEW G, \A a \in H : <<a[2], a[1]>> \in G,
         NEW r \in Node, NEW i, Reaches(H, r, i)
  PROVE  Reaches(G, i, r)
<1> DEFINE X == {n \in Node : Reaches(G, n, r)}
<1>1. r \in X
  BY ReachRefl
<1>2. ASSUME NEW a \in H, a[1] \in X PROVE a[2] \in X
  <2>1. Reaches(G, a[2], a[1])
    <3> DEFINE b == <<a[2], a[1]>>
    <3>1. b \in G /\ b[1] = a[2] /\ b[2] = a[1]
      OBVIOUS
    <3> HIDE DEF b
    <3> QED BY <3>1, ReachArc
  <2>2. Reaches(G, a[2], r)
    BY <1>2, <2>1, ReachTrans
  <2> QED BY <2>2 DEF Arcs
<1>3. X \in SUBSET Node /\ Closed(X, H)
  BY <1>2 DEF Closed
<1>4. i \in X
  <2> HIDE DEF X
  <2> QED BY <1>1, <1>3 DEF Reaches
<1> QED BY <1>4

\* Whatever is blocked hangs below something that waits for open work.
LEMMA BlockedBelow ==
  ASSUME TypeOK
  PROVE  BlockedIds = {n \in Node : \E r \in Direct \cup Rollup : Reaches(ParentArcs, r, n)}
<1>1. ParentArcs \in Arcs
  BY DEF ParentArcs, Arcs, TypeOK, Dep, Node
<1>2. Direct \cup Rollup \in SUBSET Node
  BY GraphAssumption DEF Direct, Rollup, TypeOK, Dep, Node
<1> QED BY <1>1, <1>2, FoundIsReached DEF BlockedIds

\* Where no epic has an open child, and the edges have no ring in unblock's own
\* direction, somebody can go on: of the open issues take one from which the
\* fewest nodes are reached; what it waits for reaches fewer.
LEMMA SomebodyCanGoOn ==
  ASSUME TypeOK, NoDangling, Rollup = {}, Acyclic(Forward), Busy # {}
  PROVE  \E i \in Busy : i \notin BlockedIds
<1> SUFFICES ASSUME Busy \subseteq BlockedIds PROVE FALSE
  OBVIOUS
<1> DEFINE After(i) == {n \in Node : Reaches(Forward, i, n)}
<1>1. Busy \subseteq Node
  BY DEF Busy, Node
<1>2. \A i : IsFiniteSet(After(i)) /\ Cardinality(After(i)) \in Nat
  BY GraphAssumption, FS_Subset, FS_CardinalityType
<1>3. ASSUME NEW i \in Busy
      PROVE  \E j \in Busy : Reaches(Forward, i, j) /\ ~Reaches(Forward, j, i)
  <2>1. PICK r \in Direct : Reaches(ParentArcs, r, i)
    BY BlockedBelow
  <2>2. PICK d \in deps : d.from = r /\ d.kind = "blocks" /\ Unresolved(d.to)
    BY DEF Direct
  <2>3. d.to \in Busy /\ r \in Node /\ d \in Dep
    BY <2>2, GraphAssumption
       DEF NoDangling, Targetable, Exists, Unresolved, Busy, TypeOK, Dep, Node,
           Present, Active, Terminal
  <2>4. <<r, d.to>> \in Forward
    BY <2>2 DEF Forward, ArcForward, Gating
  <2>5. Reaches(Forward, r, d.to) /\ ~Reaches(Forward, d.to, r)
    <3> DEFINE b == <<r, d.to>>
    <3>1. b \in Forward /\ b[1] = r /\ b[2] = d.to
      BY <2>4
    <3> HIDE DEF b
    <3> QED BY <3>1, ReachArc DEF Acyclic
  <2>6. Reaches(Forward, i, r)
    <3>1. ParentArcs \in Arcs
      BY DEF ParentArcs, Arcs, TypeOK, Dep, Node
    <3>2. \A a \in ParentArcs : <<a[2], a[1]>> \in Forward
      BY DEF ParentArcs, Forward, ArcForward, Gating
    <3> QED BY <2>1, <2>3, <3>1, <3>2, ReachReversed
  <2>7. Reaches(Forward, i, d.to) /\ ~Reaches(Forward, d.to, i)
    BY <2>5, <2>6, ReachTrans
  <2> QED BY <2>3, <2>7
<1>4. ASSUME NEW i \in Busy
      PROVE  \E j \in Busy : Cardinality(After(j)) < Cardinality(After(i))
  <2>1. PICK j \in Busy : Reaches(Forward, i, j) /\ ~Reaches(Forward, j, i)
    BY <1>3
  <2>2. After(j) \subseteq After(i) /\ i \in After(i) /\ i \notin After(j)
    BY <1>1, <2>1, ReachTrans, ReachRefl
  <2> HIDE DEF After
  <2>3. Cardinality(After(j)) <= Cardinality(After(i))
        /\ Cardinality(After(j)) # Cardinality(After(i))
    BY <1>2, <2>2, FS_Subset
  <2> QED BY <1>2, <2>3
<1> HIDE DEF After
<1> DEFINE T == {Cardinality(After(i)) : i \in Busy}
<1>5. PICK m \in T : \A k \in T : m <= k
  <2>1. T \in SUBSET Nat /\ T # {}
    BY <1>2
  <2> HIDE DEF T
  <2> QED BY <2>1, LeastNumber
<1>6. PICK i \in Busy : m = Cardinality(After(i))
  BY <1>5
<1>7. PICK j \in Busy : Cardinality(After(j)) < Cardinality(After(i))
  BY <1>4, <1>6
<1>8. Cardinality(After(i)) <= Cardinality(After(j))
  BY <1>5, <1>6
<1> QED BY <1>2, <1>7, <1>8

\* A path that is not empty has a last arc.
LEMMA ReachLast ==
  ASSUME NEW H \in Arcs, NEW r \in Node, NEW i, Reaches(H, r, i), i # r
  PROVE  \E a \in H : a[2] = i /\ Reaches(H, r, a[1])
<1> DEFINE X == {n \in Node : Reaches(H, r, n)
                   /\ (n = r \/ \E a \in H : a[2] = n /\ Reaches(H, r, a[1]))}
<1>1. r \in X
  BY ReachRefl
<1>2. ASSUME NEW a \in H, a[1] \in X PROVE a[2] \in X
  <2>1. Reaches(H, r, a[1]) /\ Reaches(H, a[1], a[2])
    BY <1>2, ReachArc
  <2>2. Reaches(H, r, a[2])
    BY <2>1, ReachTrans
  <2> QED BY <2>1, <2>2 DEF Arcs
<1>3. X \in SUBSET Node /\ Closed(X, H)
  BY <1>2 DEF Closed
<1>4. i \in X
  <2> HIDE DEF X
  <2> QED BY <1>1, <1>3 DEF Reaches
<1> QED BY <1>4

\* What is reported is open and has no gating edge to an issue still active.
Unhindered ==
  \A i \in report :
    status[i] = "open" /\ \A e \in deps : e.from = i => ~ActiveBlocker(e, status)

LEMMA UnhinderedStep == TypeOK /\ Unhindered /\ [Next]_vars => Unhindered'
<1> SUFFICES ASSUME TypeOK, Unhindered, [Next]_vars PROVE Unhindered'
  OBVIOUS
<1>1. ASSUME report' = {} PROVE Unhindered'
  BY <1>1 DEF Unhindered
<1>2. ASSUME NEW i \in Issue, Close(i) PROVE Unhindered'
  BY <1>2 DEF Close, NewlyUnblocked, Unhindered, ActiveBlocker
<1>3. CASE UNCHANGED vars
  BY <1>3 DEF Unhindered, vars, ActiveBlocker
<1> QED BY <1>1, <1>2, <1>3
        DEF Next, AddDependency, RemoveDependency, Create, CreateBatch, Update,
            Claim, Restore, CloseEligible, HardDelete, Tombstone

\* What close_with_suggestions reports although it is not ready.
LEMMA SuggestedBlocked ==
  ASSUME TypeOK, Unhindered, NEW i \in report, i \notin Ready
  PROVE  \/ i \in Rollup
         \/ \E e \in deps : /\ e.from = i /\ e.kind = "parent-child"
                            /\ e.to \in BlockedIds /\ status[e.to] \in Terminal
<1>1. i \in Issue /\ status[i] = "open" /\ i \in BlockedIds
  BY DEF TypeOK, Unhindered, Ready
<1>2. i \notin Direct
  BY GraphAssumption
     DEF Direct, Unhindered, ActiveBlocker, Unresolved, Gating
<1>3. PICK r \in Direct \cup Rollup : Reaches(ParentArcs, r, i)
  BY <1>1, BlockedBelow
<1>4. ParentArcs \in Arcs /\ r \in Node
  BY GraphAssumption DEF ParentArcs, Arcs, Direct, Rollup, TypeOK, Dep, Node
<1>5. CASE i = r
  BY <1>2, <1>3, <1>5
<1>6. CASE i # r
  <2>1. PICK a \in ParentArcs : a[2] = i /\ Reaches(ParentArcs, r, a[1])
    BY <1>3, <1>4, <1>6, ReachLast
  <2>2. PICK e \in deps : e.kind = "parent-child" /\ e.to \in Issue
                          /\ a = <<e.to, e.from>>
    BY DEF ParentArcs
  <2>3. e.from = i /\ e.to \in BlockedIds
    BY <1>3, <2>1, <2>2, BlockedBelow DEF Node
  <2>4. status[e.to] \in Terminal
    BY <2>2, <2>3 DEF Unhindered, ActiveBlocker, Gating
  <2> QED BY <2>2, <2>3, <2>4
<1> QED BY <1>5, <1>6

-----------------------------------------------------------------------------
(* Steps.                                                                  *)

LEMMA EdgesFromDep ==
  ASSUME NEW R \in SUBSET Issue, NEW D \in EdgesFrom(R) PROVE D \in SUBSET Dep
<1>1. ASSUME NEW e \in [from : R, to : Node, kind : Kind] PROVE e \in Dep
  BY DEF Dep
<1> QED BY <1>1 DEF EdgesFrom

\* What a reparent does to the edges.
LEMMA ReparentCases ==
  ASSUME TypeOK, NEW i \in Issue, NEW p \in Node \cup {Keep, Detach},
         Reparent(i, p)
  PROVE  \/ deps' \subseteq deps
         \/ /\ p \in Node /\ Targetable(p, {})
            /\ \E rest \in SUBSET deps :
                 LET e == [from |-> i, to |-> p, kind |-> "parent-child"]
                 IN  e \in Dep /\ ~WouldCycle(rest, {e}) /\ deps' = rest \cup {e}
<1> DEFINE rest == deps \ Parents(i)
           e == [from |-> i, to |-> p, kind |-> "parent-child"]
<1>1. CASE deps' = deps \/ deps' = rest
  BY <1>1
<1>2. CASE /\ p \in Node \ {i} /\ Targetable(p, {})
           /\ ~WouldCycle(rest, {e}) /\ deps' = rest \cup {e}
  <2>1. e \in Dep
    BY <1>2 DEF Dep, Kind
  <2>2. rest \in SUBSET deps
    OBVIOUS
  <2> QED BY <1>2, <2>1, <2>2
<1> QED BY <1>1, <1>2 DEF Reparent

LEMMA TypeStep == TypeOK /\ [Next]_vars => TypeOK'
<1> SUFFICES ASSUME TypeOK, [Next]_vars PROVE TypeOK'
  OBVIOUS
<1> USE DEF TypeOK, Present, Active, Terminal
<1>1. ASSUME NEW i \in Issue, NEW n \in Node, NEW k \in Kind,
             AddDependency(i, n, k)
      PROVE  TypeOK'
  BY <1>1 DEF AddDependency, Dep
<1>2. ASSUME NEW e \in deps, RemoveDependency(e) PROVE TypeOK'
  BY <1>2 DEF RemoveDependency
<1>3. ASSUME NEW i \in Absent, NEW D \in EdgesFrom({i}), Create(i, D)
      PROVE  TypeOK'
  <2>1. D \in SUBSET Dep
    BY EdgesFromDep DEF Absent
  <2> QED BY <1>3, <2>1 DEF Create, Absent
<1>4. ASSUME NEW R \in SUBSET Absent, NEW st \in Present, NEW D \in EdgesFrom(R),
             CreateBatch(R, st, D)
      PROVE  TypeOK'
  <2>1. D \in SUBSET Dep
    BY EdgesFromDep DEF Absent
  <2> QED BY <1>4, <2>1 DEF CreateBatch
<1>5. ASSUME NEW i \in Issue, NEW s \in Present \cup {Keep},
             NEW p \in Node \cup {Keep, Detach}, Update(i, s, p)
      PROVE  TypeOK'
  <2>1. deps' \in SUBSET Dep
    BY <1>5, ReparentCases DEF Update
  <2>2. status' \in [Issue -> Present \cup {"absent"}]
    BY <1>5 DEF Update
  <2> QED BY <1>5, <2>1, <2>2 DEF Update
<1>6. ASSUME NEW i \in Issue, Close(i) PROVE TypeOK'
  <2>1. report' \subseteq Issue
    BY <1>6 DEF Close, NewlyUnblocked
  <2> QED BY <1>6, <2>1 DEF Close
<1>7. ASSUME NEW i \in Issue, Claim(i) \/ Restore(i) PROVE TypeOK'
  BY <1>7 DEF Claim, Restore
<1>8. ASSUME NEW T \in SUBSET Issue, HardDelete(T) PROVE TypeOK'
  BY <1>8 DEF HardDelete
<1>9. ASSUME NEW T \in SUBSET Issue, NEW c \in BOOLEAN, Tombstone(T, c)
      PROVE  TypeOK'
  BY <1>9 DEF Tombstone
<1>10. CASE UNCHANGED vars
  BY <1>10 DEF vars
<1>11. CASE CloseEligible
  BY <1>11 DEF CloseEligible
<1> QED BY <1>1, <1>2, <1>3, <1>4, <1>5, <1>6, <1>7, <1>8, <1>9, <1>10, <1>11
        DEF Next

\* No interactive step closes a gating cycle.
LEMMA AcyclicStep ==
  TypeOK /\ InteractiveAcyclic /\ [Next]_vars => InteractiveAcyclic'
<1> SUFFICES ASSUME TypeOK, InteractiveAcyclic, [Next]_vars, ~batched'
             PROVE  Acyclic(GatingArcs(deps'))
  BY DEF InteractiveAcyclic
<1>1. CASE deps' \subseteq deps /\ batched' = batched
  BY <1>1, RemovalSafe DEF InteractiveAcyclic
<1>2. ASSUME NEW rest \in SUBSET deps, NEW D \in SUBSET Dep,
             deps' = rest \cup D, ~WouldCycle(rest, D), batched' = batched
      PROVE  Acyclic(GatingArcs(deps'))
  <2>1. Acyclic(GatingArcs(rest))
    BY <1>2, RemovalSafe DEF InteractiveAcyclic
  <2>2. rest \in SUBSET Dep
    BY DEF TypeOK
  <2> QED BY <1>2, <2>1, <2>2, InsertionSafe
<1>3. ASSUME NEW i \in Issue, NEW n \in Node, NEW k \in Kind,
             AddDependency(i, n, k)
      PROVE  Acyclic(GatingArcs(deps'))
  <2> DEFINE e == [from |-> i, to |-> n, kind |-> k]
  <2>1. {e} \in SUBSET Dep
    BY DEF Dep
  <2>2. deps' = deps \cup {e} /\ ~WouldCycle(deps, {e}) /\ batched' = batched
    BY <1>3 DEF AddDependency
  <2> HIDE DEF e
  <2> QED BY <2>1, <2>2, <1>2
<1>4. ASSUME NEW i \in Absent, NEW D \in EdgesFrom({i}), Create(i, D)
      PROVE  Acyclic(GatingArcs(deps'))
  <2>1. D \in SUBSET Dep
    BY EdgesFromDep DEF Absent
  <2>2. deps' = deps \cup D /\ ~WouldCycle(deps, D) /\ batched' = batched
    BY <1>4 DEF Create
  <2> QED BY <2>1, <2>2, <1>2
<1>5. ASSUME NEW i \in Issue, NEW s \in Present \cup {Keep},
             NEW p \in Node \cup {Keep, Detach}, Update(i, s, p)
      PROVE  Acyclic(GatingArcs(deps'))
  <2> DEFINE e == [from |-> i, to |-> p, kind |-> "parent-child"]
  <2>1. batched' = batched /\ Reparent(i, p)
    BY <1>5 DEF Update
  <2>2. CASE deps' \subseteq deps
    BY <2>1, <2>2, <1>1
  <2>3. CASE \E rest \in SUBSET deps :
               e \in Dep /\ ~WouldCycle(rest, {e}) /\ deps' = rest \cup {e}
    <3> HIDE DEF e
    <3> QED BY <2>1, <2>3, <1>2
  <2> QED BY <2>1, <2>2, <2>3, ReparentCases
<1>6. CASE \E e \in deps : RemoveDependency(e)
  BY <1>6, <1>1 DEF RemoveDependency
<1>7. CASE \E i \in Issue : Close(i) \/ Claim(i) \/ Restore(i)
  BY <1>7, <1>1 DEF Close, Claim, Restore
<1>8. CASE \E T \in SUBSET Issue : HardDelete(T) \/ \E c \in BOOLEAN : Tombstone(T, c)
  BY <1>8, <1>1 DEF HardDelete, Tombstone
<1>9. ASSUME NEW R \in SUBSET Absent, NEW st \in Present, NEW D \in EdgesFrom(R),
             CreateBatch(R, st, D)
      PROVE  FALSE
  BY <1>9 DEF CreateBatch
<1>10. CASE UNCHANGED vars
  BY <1>10, <1>1 DEF vars
<1>11. CASE CloseEligible
  BY <1>11, <1>1 DEF CloseEligible
<1> QED BY <1>3, <1>4, <1>5, <1>6, <1>7, <1>8, <1>9, <1>10, <1>11 DEF Next

\* A row that stays, and edges that stay or are guarded, dangle nowhere.
LEMMA NoDanglingStep == TypeOK /\ NoDangling /\ [Next]_vars => NoDangling'
<1> SUFFICES ASSUME TypeOK, NoDangling, [Next]_vars PROVE NoDangling'
  OBVIOUS
<1> USE DEF NoDangling, Targetable, Exists, TypeOK, Present, Active, Terminal
<1>1. CASE /\ deps' \subseteq deps
           /\ \A i \in Issue : status[i] # "absent" => status'[i] # "absent"
  BY <1>1
<1>2. ASSUME NEW i \in Issue, NEW n \in Node, NEW k \in Kind,
             AddDependency(i, n, k)
      PROVE  NoDangling'
  BY <1>2 DEF AddDependency
<1>3. ASSUME NEW i \in Absent, NEW D \in EdgesFrom({i}), Create(i, D)
      PROVE  NoDangling'
  BY <1>3 DEF Create, Declared, Absent
<1>4. ASSUME NEW R \in SUBSET Absent, NEW st \in Present, NEW D \in EdgesFrom(R),
             CreateBatch(R, st, D)
      PROVE  NoDangling'
  BY <1>4 DEF CreateBatch, Absent
<1>5. ASSUME NEW i \in Issue, NEW s \in Present \cup {Keep},
             NEW p \in Node \cup {Keep, Detach}, Update(i, s, p)
      PROVE  NoDangling'
  <2>1. status[i] # "absent" /\ Reparent(i, p)
    BY <1>5 DEF Update
  <2>2. \A j \in Issue : status[j] # "absent" => status'[j] # "absent"
    <3>1. CASE s = Keep
      BY <1>5, <3>1 DEF Update
    <3>2. CASE s # Keep
      <4>1. s \in Present /\ status' = [status EXCEPT ![i] = s]
        BY <1>5, <3>2 DEF Update
      <4> QED BY <4>1
    <3> QED BY <3>1, <3>2
  <2>3. CASE deps' \subseteq deps
    BY <1>1, <2>2, <2>3
  <2>4. CASE /\ p \in Node /\ Targetable(p, {})
             /\ \A e \in deps' \ deps : e.from = i /\ e.to = p
    BY <2>1, <2>2, <2>4
  <2>5. TypeOK
    OBVIOUS
  <2>6. \/ deps' \subseteq deps
        \/ /\ p \in Node /\ Targetable(p, {})
           /\ \E rest \in SUBSET deps :
                LET e == [from |-> i, to |-> p, kind |-> "parent-child"]
                IN  e \in Dep /\ ~WouldCycle(rest, {e}) /\ deps' = rest \cup {e}
    <3> HIDE DEF NoDangling, Targetable, Exists, TypeOK, Present, Active, Terminal
    <3> QED BY <2>1, <2>5, ReparentCases
  <2> QED BY <2>3, <2>4, <2>6
<1>6. CASE \E e \in deps : RemoveDependency(e)
  BY <1>6, <1>1 DEF RemoveDependency
<1>7. CASE \E i \in Issue : Close(i) \/ Claim(i) \/ Restore(i)
  BY <1>7, <1>1 DEF Close, Claim, Restore
<1>8. ASSUME NEW T \in SUBSET Issue, HardDelete(T) PROVE NoDangling'
  BY <1>8 DEF HardDelete
<1>9. ASSUME NEW T \in SUBSET Issue, NEW c \in BOOLEAN, Tombstone(T, c)
      PROVE  NoDangling'
  BY <1>9, <1>1 DEF Tombstone
<1>10. CASE UNCHANGED vars
  BY <1>10 DEF vars
<1>11. CASE CloseEligible
  BY <1>11, <1>1 DEF CloseEligible
<1> QED BY <1>2, <1>3, <1>4, <1>5, <1>6, <1>7, <1>8, <1>9, <1>10, <1>11 DEF Next

-----------------------------------------------------------------------------
(* The theorems.                                                           *)

\* Every reachable state is well typed.
THEOREM TypeCorrect == Spec => []TypeOK
<1>1. Init => TypeOK
  BY DEF Init, TypeOK
<1> QED BY <1>1, TypeStep, PTL DEF Spec

\* However creates, adds, reparents, removals and deletes are interleaved, the
\* gating graph is acyclic unless a batch insert has happened.
THEOREM GuardHolds == Spec => []InteractiveAcyclic
<1>1. Init => TypeOK /\ InteractiveAcyclic
  BY DEF Init, TypeOK, InteractiveAcyclic, Acyclic, GatingArcs
<1> QED BY <1>1, TypeStep, AcyclicStep, PTL DEF Spec

\* Every edge has its source row, and its target row unless it is external,
\* whatever is created, imported, reparented and deleted.
THEOREM EdgesExist == Spec => []NoDangling
<1>1. Init => TypeOK /\ NoDangling
  BY DEF Init, TypeOK, NoDangling
<1> QED BY <1>1, TypeStep, NoDanglingStep, PTL DEF Spec

\* However the edges were made, close_eligible closes the epics that must be
\* closed and no other row.
THEOREM CascadeProved == Spec => CascadeExact
<1>1. TypeOK /\ [Next]_vars =>
        [CloseEligible => {e \in Issue : status'[e] # status[e]} = Finished]_vars
  BY CascadeStep
<1> QED BY <1>1, TypeCorrect, PTL DEF CascadeExact, Spec

\* A second close_eligible finds nothing: an epic that had only the epics just
\* closed to wait for was closed with them.
CascadeOnce == [][CloseEligible => Finished' = {}]_vars

THEOREM CascadeComplete == Spec => CascadeOnce
<1>1. TypeOK /\ [Next]_vars => [CloseEligible => Finished' = {}]_vars
  BY CascadeLeavesNone
<1> QED BY <1>1, TypeCorrect, PTL DEF CascadeOnce, Spec

\* If all that is open is blocked, there are two reasons at most: an epic with
\* an open child (it is blocked by the child and blocks it in turn), or a ring
\* in the direction in which unblock itself follows the edges.
StallExplained ==
  Busy # {} /\ Busy \subseteq BlockedIds => Rollup # {} \/ ~Acyclic(Forward)

THEOREM StallsExplained == Spec => []StallExplained
<1>1. TypeOK /\ NoDangling => StallExplained
  BY SomebodyCanGoOn DEF StallExplained
<1> QED BY <1>1, TypeCorrect, EdgesExist, PTL

\* The cycle guard rules both out as long as nobody has a parent: with edges of
\* the other kinds only, and no batch insert, some open issue is not blocked.
WorkRemains ==
  /\ ~batched /\ Busy # {}
  /\ \A e \in deps : e.kind # "parent-child"
  => \E i \in Busy : i \notin BlockedIds

THEOREM GuardKeepsWork == Spec => []WorkRemains
<1>1. TypeOK /\ NoDangling /\ InteractiveAcyclic => WorkRemains
  <2> SUFFICES ASSUME TypeOK, NoDangling, InteractiveAcyclic, ~batched, Busy # {},
                      \A e \in deps : e.kind # "parent-child"
               PROVE  \E i \in Busy : i \notin BlockedIds
    BY DEF WorkRemains
  <2>1. Rollup = {}
    BY DEF Rollup
  <2>2. Forward = GatingArcs(deps)
    BY DEF Forward, GatingArcs, Arc, ArcForward
  <2>3. Acyclic(Forward)
    BY <2>2 DEF InteractiveAcyclic
  <2> QED BY <2>1, <2>3, SomebodyCanGoOn
<1> QED BY <1>1, TypeCorrect, EdgesExist, GuardHolds, PTL

\* An open child of an epic is never ready: it blocks its epic, and inherits
\* the block.
EpicChildWaits ==
  \A e \in deps :
    e.kind = "parent-child" /\ e.to \in Epic /\ Unresolved(e.from)
    => e.from \in BlockedIds /\ e.from \notin Ready

THEOREM EpicChildrenWait == Spec => []EpicChildWaits
<1>1. TypeOK /\ NoDangling => EpicChildWaits
  <2> SUFFICES ASSUME TypeOK, NoDangling, NEW e \in deps, e.kind = "parent-child",
                      e.to \in Epic, Unresolved(e.from)
               PROVE  e.from \in BlockedIds
    BY DEF EpicChildWaits, Ready
  <2>1. e \in Dep /\ e.to \in Issue /\ e.from \in Node
    BY GraphAssumption DEF TypeOK, Dep, Node
  <2>2. e.to \in Rollup
    BY <2>1, GraphAssumption DEF NoDangling, Targetable, Rollup, Exists
  <2>3. Reaches(ParentArcs, e.to, e.from)
    <3> DEFINE b == <<e.to, e.from>>
    <3>1. b \in ParentArcs /\ b[1] = e.to /\ b[2] = e.from
      BY <2>1 DEF ParentArcs
    <3> HIDE DEF b
    <3> QED BY <3>1, ReachArc
  <2> QED BY <2>1, <2>2, <2>3, BlockedBelow
<1> QED BY <1>1, TypeCorrect, EdgesExist, PTL

\* Where the suggestions of a close go wrong, and nowhere else: a suggested issue
\* that is not ready is an epic with an open child, or hangs below a closed
\* parent that is itself blocked (the ready query looks at both,
\* close_with_suggestions at neither).
SuggestionsExplained ==
  \A i \in report \ Ready :
    \/ i \in Rollup
    \/ \E e \in deps : /\ e.from = i /\ e.kind = "parent-child"
                       /\ e.to \in BlockedIds /\ status[e.to] \in Terminal

THEOREM SuggestionsSound == Spec => []SuggestionsExplained
<1>1. Init => TypeOK /\ Unhindered
  BY DEF Init, TypeOK, Unhindered
<1>2. TypeOK /\ Unhindered => SuggestionsExplained
  BY SuggestedBlocked DEF SuggestionsExplained
<1> QED BY <1>1, <1>2, TypeStep, UnhinderedStep, PTL DEF Spec
=============================================================================
