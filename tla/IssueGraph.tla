----------------------------- MODULE IssueGraph -----------------------------
(***************************************************************************)
(* The dependency graph of the store: typed edges between issues, the      *)
(* gating-cycle guard on every interactive way of adding an edge, the      *)
(* batch insert that has no such guard, and the blocked and ready sets     *)
(* computed live from the edges.  Every action is one transaction of a     *)
(* mutation that owns the write lock (WriteLock.tla).                      *)
(***************************************************************************)
EXTENDS Naturals, FiniteSets

CONSTANTS
  Issue,     \* local issue ids
  External,  \* external: targets; no row, never checked for existence
  Epic,      \* the issues whose type is epic
  Dotted,    \* Dotted[i]: the ids below i in the dotted hierarchy
  Keep,      \* a patch field that is not given
  Detach,    \* a patch that removes the parent
  MaxDeps,   \* bound: no edge is added beyond this many
  MaxBatch   \* bound: records in one batch insert

Node == Issue \cup External

ASSUME GraphAssumption ==
  /\ IsFiniteSet(Node) /\ Issue \cap External = {}
  /\ Epic \subseteq Issue
  /\ Dotted \in [Issue -> SUBSET Issue]
  /\ Keep \notin Node /\ Detach \notin Node /\ Keep # Detach
  /\ MaxDeps \in Nat /\ MaxBatch \in Nat

\* "blocks" stands for blocks, conditional-blocks and waits-for, which the
\* code treats alike; "related" for the types that do not gate.
Kind == {"blocks", "parent-child", "related"}
Gating == {"blocks", "parent-child"}
Terminal == {"closed", "tombstone"}
Active == {"open", "in_progress"}
Present == Active \cup Terminal

Dep == [from : Issue, to : Node, kind : Kind]

VARIABLES
  status,   \* status of each issue's row; "absent": no row
  deps,     \* the dependencies table
  batched,  \* history: a batch insert has happened
  report    \* newly_unblocked of the last close, {} after any other step

vars == <<status, deps, batched, report>>

TypeOK ==
  /\ status \in [Issue -> Present \cup {"absent"}]
  /\ deps \subseteq Dep
  /\ batched \in BOOLEAN
  /\ report \subseteq Issue

Init ==
  /\ status = [i \in Issue |-> "absent"]
  /\ deps = {}
  /\ batched = FALSE
  /\ report = {}

Exists(n) == n \in Issue /\ status[n] # "absent"
Absent == {i \in Issue : status[i] = "absent"}

\* The existence rule for an edge's target, given ids inserted alongside it.
Targetable(n, batch) == n \in External \cup batch \/ Exists(n)

-----------------------------------------------------------------------------
(* The graph the cycle guard searches.                                     *)

\* Faulty: every edge is searched in its stored direction.
ArcForward(e) == <<e.from, e.to>>

\* parent-child is searched from parent to child, the others as stored.
Arc(e) == IF e.kind = "parent-child" THEN <<e.to, e.from>>
                                     ELSE <<e.from, e.to>>

GatingArcs(D) == {Arc(e) : e \in {d \in D : d.kind \in Gating}}

\* One turn of the loop of find_cycle_path and of propagate_blocked_to_children:
\* a waiting node is visited, and those after it that are new wait in their turn.
\* The order decides which path is reported, not what is found.
Visit(arcs, search) ==
  LET n == CHOOSE n \in search.waiting : TRUE
      visited == search.visited \cup {n}
      next == {a[2] : a \in {b \in arcs : b[1] = n}}
  IN  IF search.waiting = {} THEN search
      ELSE [visited |-> visited, waiting |-> (search.waiting \cup next) \ visited]

\* What is found from the roots; no node is visited twice.
Found(arcs, roots) ==
  LET Search[k \in Nat] == IF k = 0 THEN [visited |-> {}, waiting |-> roots]
                                    ELSE Visit(arcs, Search[k - 1])
  IN  Search[Cardinality(Node)].visited

\* would_cycle: the new edges are in the searched graph; one of them is on a
\* cycle if its tail is found from its head.
WouldCycle(D, new) ==
  \E a \in GatingArcs(new) : a[1] \in Found(GatingArcs(D \cup new), {a[2]})

\* There is a path from m to n (the empty path included): n is in every set
\* that holds m and is closed under the arcs.
Closed(S, arcs) == \A a \in arcs : a[1] \in S => a[2] \in S

Reaches(arcs, m, n) ==
  \A S \in SUBSET Node : m \in S /\ Closed(S, arcs) => n \in S

Acyclic(arcs) == \A a \in arcs : ~Reaches(arcs, a[2], a[1])

-----------------------------------------------------------------------------
(* Blocked and ready, from the live rows.                                  *)

Unresolved(n) == n \in Issue /\ status[n] \notin Terminal

\* Pass 1: a blocks edge to a local issue that is not terminal (or missing).
Direct == {e.from : e \in {d \in deps : d.kind = "blocks" /\ Unresolved(d.to)}}

\* Pass 2: an epic with a child that is not terminal.
Rollup ==
  {e.to : e \in {d \in deps : /\ d.kind = "parent-child"
                              /\ d.to \in Epic /\ Exists(d.to)
                              /\ Exists(d.from) /\ Unresolved(d.from)}}

\* Pass 3: whatever hangs below a blocked issue is blocked.
ParentArcs ==
  {<<e.to, e.from>> : e \in {d \in deps : d.kind = "parent-child"
                                          /\ d.to \in Issue}}

BlockedIds == Found(ParentArcs, Direct \cup Rollup)

Ready == {i \in Issue : status[i] = "open"} \ BlockedIds

\* close_with_suggestions: of the issues with an edge to the closed one, those
\* that are open and have no gating edge to an issue still active.  An external
\* target is not among the hydrated issues and counts as open.
ActiveBlocker(e, st) ==
  e.kind \in Gating /\ (e.to \in External \/ st[e.to] \notin Terminal)

NewlyUnblocked(closed, st) ==
  {i \in Issue : /\ st[i] = "open"
                 /\ \E e \in deps : e.from = i /\ e.to = closed
                 /\ \A e \in deps : e.from = i => ~ActiveBlocker(e, st)}

-----------------------------------------------------------------------------
(* Edges.                                                                  *)

\* At most one edge per pair; the repetition is refused (create, add) or would
\* break the primary key (reparent).
Linked(i, n) == \E e \in deps : e.from = i /\ e.to = n

AddDependency(i, n, k) ==
  LET e == [from |-> i, to |-> n, kind |-> k] IN
  /\ Cardinality(deps) < MaxDeps
  /\ i # n
  /\ Exists(i)
  /\ Targetable(n, {})
  /\ ~Linked(i, n)
  /\ ~WouldCycle(deps, {e})
  /\ deps' = deps \cup {e}
  /\ report' = {}
  /\ UNCHANGED <<status, batched>>

RemoveDependency(e) ==
  /\ deps' = deps \ {e}
  /\ report' = {}
  /\ UNCHANGED <<status, batched>>

-----------------------------------------------------------------------------
(* Rows.                                                                   *)

\* Edges a record may declare: none to itself, one per target.
Declared(i, D) ==
  /\ \A e \in D : e.from = i /\ e.to # i
  /\ \A e, f \in D : e.to = f.to => e = f

\* Faulty: each declared edge is checked before the others are staged.
CreateCheckedOneByOne(i, D) ==
  /\ status[i] = "absent"
  /\ Cardinality(deps \cup D) <= MaxDeps
  /\ Declared(i, D)
  /\ \A e \in D : Targetable(e.to, {i})
  /\ \A e \in D : ~WouldCycle(deps, {e})
  /\ status' = [status EXCEPT ![i] = "open"]
  /\ deps' = deps \cup D
  /\ report' = {}
  /\ UNCHANGED batched

\* The row and all its edges are staged, then every gating edge is checked.
Create(i, D) ==
  /\ status[i] = "absent"
  /\ Cardinality(deps \cup D) <= MaxDeps
  /\ Declared(i, D)
  /\ \A e \in D : Targetable(e.to, {i})
  /\ ~WouldCycle(deps, D)
  /\ status' = [status EXCEPT ![i] = "open"]
  /\ deps' = deps \cup D
  /\ report' = {}
  /\ UNCHANGED batched

\* create_issues (bulk markdown, JSONL and bd import): the same insert per
\* record, targets may be in the batch, no duplicate or cycle guard.
CreateBatch(R, st, D) ==
  /\ R # {} /\ Cardinality(R) <= MaxBatch
  /\ \A i \in R : status[i] = "absent"
  /\ Cardinality(deps \cup D) <= MaxDeps
  /\ \A i \in R : Declared(i, {e \in D : e.from = i})
  /\ \A e \in D : e.from \in R /\ Targetable(e.to, R)
  /\ status' = [i \in Issue |-> IF i \in R THEN st ELSE status[i]]
  /\ deps' = deps \cup D
  /\ batched' = TRUE
  /\ report' = {}

Parents(i) == {e \in deps : e.from = i /\ e.kind = "parent-child"}

\* Faulty: a detached issue gets an edge to no parent.
ReparentStoringNone(i, p) ==
  LET rest == deps \ Parents(i) IN
  \/ p = Keep /\ deps' = deps
  \/ /\ p # Keep
     /\ Cardinality(rest) < MaxDeps
     /\ deps' = rest \cup {[from |-> i, to |-> p, kind |-> "parent-child"]}

\* apply_reparent: all parent-child edges of i go, the new one is checked
\* against what is left.  The current parent is whichever row is read first.
Reparent(i, p) ==
  LET rest == deps \ Parents(i)
      e == [from |-> i, to |-> p, kind |-> "parent-child"]
      Same == \/ p = Keep
              \/ p = Detach /\ Parents(i) = {}
              \/ \E d \in Parents(i) : d.to = p
      Moves == Parents(i) = {} \/ \E d \in Parents(i) : d.to # p
  IN \/ Same /\ deps' = deps
     \/ p = Detach /\ Moves /\ deps' = rest
     \/ /\ p \in Node \ {i}
        /\ Moves
        /\ Cardinality(rest) < MaxDeps
        /\ Targetable(p, {})
        /\ ~\E d \in rest : d.from = i /\ d.to = p
        /\ ~WouldCycle(rest, {e})
        /\ deps' = rest \cup {e}

\* update_issue with a status and a parent in the patch, both optional.
Update(i, s, p) ==
  /\ Exists(i) /\ status[i] # "tombstone"
  /\ status' = IF s = Keep THEN status ELSE [status EXCEPT ![i] = s]
  /\ Reparent(i, p)
  /\ report' = {}
  /\ UNCHANGED batched

\* close_with_suggestions: an update to closed, then the read under its guard.
Close(i) ==
  LET st == [status EXCEPT ![i] = "closed"] IN
  /\ Exists(i) /\ status[i] # "tombstone"
  /\ status' = st
  /\ report' = NewlyUnblocked(i, st)
  /\ UNCHANGED <<deps, batched>>

\* epic_child_rollup: the children of an epic that have a row, and of those the
\* ones that are done.
Children(e) ==
  {d.from : d \in {d \in deps : d.kind = "parent-child" /\ d.to = e
                                /\ Exists(d.from)}}
Done(e) == {i \in Children(e) : status[i] \in Terminal}

\* is_eligible_for_close, with the number of children that count as closed.
Eligible(e, closed) ==
  /\ e \in Epic /\ Exists(e) /\ status[e] \notin Terminal
  /\ Cardinality(Children(e)) > 0
  /\ closed = Cardinality(Children(e))

\* Faulty: an epic placed in an earlier round is not counted.
RoundSinglePass(placed) ==
  {e \in Epic \ placed : Eligible(e, Cardinality(Done(e)))}

\* One round of cascade_close_set: every epic placed so far is one more closed
\* child of the epics above it.
Round(placed) ==
  {e \in Epic \ placed :
     Eligible(e, Cardinality(Done(e)) + Cardinality(placed \cap Children(e)))}

\* What is placed after so many rounds; a round that adds nothing is the last.
Placed[n \in Nat] ==
  IF n = 0 THEN {} ELSE Placed[n - 1] \cup Round(Placed[n - 1])

CascadeCloseSet == Placed[Cardinality(Epic)]

\* close_eligible: the set is computed under the write lock and closed in one
\* transaction (a dry run writes nothing).
CloseEligible ==
  LET closing == CascadeCloseSet IN
  /\ closing # {}
  /\ status' = [i \in Issue |-> IF i \in closing THEN "closed" ELSE status[i]]
  /\ report' = {}
  /\ UNCHANGED <<deps, batched>>

\* claim_issue looks at the assignee, not at the status: a deleted issue may be
\* claimed, a closed one is refused by the table's CHECK (IssueLifecycle.tla).
Claim(i) ==
  /\ Exists(i) /\ status[i] # "closed"
  /\ status' = [status EXCEPT ![i] = "in_progress"]
  /\ report' = {}
  /\ UNCHANGED <<deps, batched>>

\* delete_issue, modes tombstone and cascade; one missing row fails them all.
Tombstone(T, cascade) ==
  LET all == IF cascade
               THEN T \cup {i \in Issue : Exists(i) /\ \E t \in T : i \in Dotted[t]}
               ELSE T
  IN /\ \A i \in all : Exists(i)
     /\ status' = [i \in Issue |-> IF i \in all THEN "tombstone" ELSE status[i]]
     /\ report' = {}
     /\ UNCHANGED <<deps, batched>>

\* Faulty: only the foreign key's cascade removes edges.
HardDeleteLeavingIncoming(T) ==
  /\ status' = [i \in Issue |-> IF i \in T THEN "absent" ELSE status[i]]
  /\ deps' = {e \in deps : e.from \notin T}
  /\ report' = {}
  /\ UNCHANGED batched

\* delete_issue, mode hard: edges to the row, then the row and its own edges.
HardDelete(T) ==
  /\ status' = [i \in Issue |-> IF i \in T THEN "absent" ELSE status[i]]
  /\ deps' = {e \in deps : e.from \notin T /\ e.to \notin T}
  /\ report' = {}
  /\ UNCHANGED batched

\* restore_issue: to closed or open, by closed_at (IssueLifecycle.tla).
Restore(i) ==
  /\ status[i] = "tombstone"
  /\ \E s \in {"open", "closed"} : status' = [status EXCEPT ![i] = s]
  /\ report' = {}
  /\ UNCHANGED <<deps, batched>>

-----------------------------------------------------------------------------
\* Bound: an insert declares at most two edges, from the issues of R.
EdgesFrom(R) ==
  LET E == [from : R, to : Node, kind : Kind]
  IN {{}} \cup {{e, f} : e, f \in E}

Next ==
  \/ \E i \in Issue, n \in Node, k \in Kind : AddDependency(i, n, k)
  \/ \E e \in deps : RemoveDependency(e)
  \/ \E i \in Absent : \E D \in EdgesFrom({i}) : Create(i, D)
  \/ \E R \in SUBSET Absent, st \in Present :
       \E D \in EdgesFrom(R) : CreateBatch(R, st, D)
  \/ \E i \in Issue, s \in Present \cup {Keep}, p \in Node \cup {Keep, Detach} :
       Update(i, s, p)
  \/ \E i \in Issue : Close(i) \/ Claim(i) \/ Restore(i)
  \/ CloseEligible
  \/ \E T \in SUBSET Issue : HardDelete(T) \/ \E c \in BOOLEAN : Tombstone(T, c)

Spec == Init /\ [][Next]_vars

-----------------------------------------------------------------------------
(* Properties.                                                             *)

\* No edge points at a row that does not exist, and none leaves one: the
\* existence guards, the hard delete and the foreign key together (D45).
NoDangling ==
  \A e \in deps : Exists(e.from) /\ Targetable(e.to, {})

\* As long as nothing came in by a batch insert, no sequence of creates, adds,
\* reparents, removals and deletes closes a gating cycle.
InteractiveAcyclic == ~batched => Acyclic(GatingArcs(deps))

\* The epics that must be closed: the least set that holds each live epic with
\* children, all of them done or in the set.  A ring of epics that came in by a
\* batch is not in it, nor is an epic above one.
Finished ==
  {e \in Epic :
     \A S \in SUBSET Epic :
       (\A f \in Epic :
          /\ status[f] \in Active /\ Children(f) # {}
          /\ Children(f) \subseteq Done(f) \cup S
          => f \in S)
       => e \in S}

\* close_eligible closes these and nothing else: no epic with an open child, and
\* all of a nest at once, however deep, in whatever order its epics came to be
\* (epic.rs, cascade_close_set).
CascadeExact ==
  [][CloseEligible =>
       {e \in Issue : status'[e] # status[e]} = Finished]_vars

\* The spine's claim that the cycle guard follows unblock's own blocking
\* direction (from an issue to its blocker, from a child to its parent): with
\* the guard on, issues never block each other in a ring.
BlockingDirection ==
  ~batched => Acyclic({ArcForward(e) : e \in {d \in deps :
                         d.kind \in Gating /\ Unresolved(d.to)}})

\* What close_with_suggestions reports is ready to be worked on.
SuggestionsReady == report \subseteq Ready
=============================================================================
