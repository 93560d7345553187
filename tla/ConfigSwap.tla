----------------------------- MODULE ConfigSwap -----------------------------
(***************************************************************************)
(* The live configuration of unblock.  Every Session keeps a snapshot of   *)
(* what its configuration layers resolve to; the database's config table   *)
(* is the layer all processes share.  `config set` and `config unset` read *)
(* the rows under the write guard, reload against the rows they are about  *)
(* to leave, and hand the guard to a spawned task that commits and swaps.  *)
(* A row no build can use gates the whole Session until it is repaired     *)
(* with `config unset`, perhaps by another process.                        *)
(*                                                                         *)
(* A snapshot is represented by the rows it was resolved from: its values, *)
(* sources and faults are functions of them and of layers no call writes.  *)
(***************************************************************************)
EXTENDS Naturals

CONSTANTS
  Session,     \* one per process
  Call,        \* calls in flight
  Nobody,      \* no call
  Key,         \* keys a row or a request may name
  Class,       \* the class of each key
  Value,       \* canonical values
  Bad,         \* a cell no build can decode
  Absent,      \* no row
  NoRows,      \* a local that is not set
  NoRequest,   \* the request of an idle call
  MaxEdit,     \* bound on edits of the table that take no lock
  MaxTrouble   \* bound on crashes, cancellations, errors and edits of files

Cell  == Value \cup {Bad, Absent}
Table == [Key -> Cell]
NoTable == [k \in Key |-> Absent]

\* What a client may ask a Session for.
Request == [at : Session, op : {"mutate"}]
     \cup [at : Session, op : {"unset"}, key : Key]
     \cup [at : Session, op : {"set"}, key : Key, val : Value \cup {Bad}]

ASSUME ConstantAssumption ==
  /\ Nobody \notin Call
  /\ Class \in [Key -> {"layer", "jsonl_export", "startup", "unknown"}]
  /\ {Bad, Absent} \cap Value = {}
  /\ Bad # Absent
  /\ NoRows \notin Table
  /\ NoRequest \notin Request
  /\ MaxEdit \in Nat
  /\ MaxTrouble \in Nat

VARIABLES
  rows,      \* the config table
  file,      \* whether the project and user files load
  up,        \* Sessions that are open
  snap,      \* the rows each live snapshot was resolved from
  pc,        \* where each call is; "commit" and "swap" are its spawned task
  request,   \* what it was asked for
  mine,      \* its rows: read, then prospective; a mutation's own snapshot
  guard,     \* who holds the permit and .write.lock (see WriteLock)
  edits,     \* edits of the table made without the lock
  readAt,    \* edits at the time a call read the rows
  trouble    \* see MaxTrouble

store == <<rows, file>>
live  == <<up, snap>>
call  == <<pc, request, mine, readAt>>
env   == <<edits, trouble>>
vars  == <<store, live, call, guard, env>>

CallPC == {"idle", "waiting", "holding", "read", "commit", "swap", "writing"}

TypeOK ==
  /\ rows \in Table
  /\ file \in {"sound", "broken"}
  /\ up \in [Session -> BOOLEAN]
  /\ snap \in [Session -> Table]
  /\ pc \in [Call -> CallPC]
  /\ request \in [Call -> Request \cup {NoRequest}]
  /\ mine \in [Call -> Table \cup {NoRows}]
  /\ guard \in Call \cup {Nobody}
  /\ edits \in 0..MaxEdit
  /\ readAt \in [Call -> 0..MaxEdit]
  /\ trouble \in 0..MaxTrouble

-----------------------------------------------------------------------------
(* Rows: decoding, the gate, what a request makes of the table.            *)

Fault(key, cell) ==
  CASE cell = Absent                                -> "none"
    [] cell = Bad                                   -> "invalid_value"
    [] cell \in Value /\ Class[key] = "layer"        -> "none"
    [] cell \in Value /\ Class[key] = "jsonl_export" -> "invalid_value"
    [] cell \in Value /\ Class[key] = "startup"      -> "startup_key"
    [] cell \in Value /\ Class[key] = "unknown"      -> "unknown_key"

Blocking(table) ==
  {k \in Key : Fault(k, table[k]) \in {"startup_key", "invalid_value"}}

Gated(s) == Blocking(snap[s]) # {}

\* classify_runtime_key and canonicalize_runtime_value.
SettableUnchecked(key, val) == Class[key] = "layer"
Settable(key, val) == Class[key] = "layer" /\ val \in Value

Prospective(r, table) ==
  [table EXCEPT ![r.key] = IF r.op = "set" THEN r.val ELSE Absent]

\* The call has returned or its future has been dropped; so is its guard.
Gone(calls) ==
  /\ pc' = [c \in Call |-> IF c \in calls THEN "idle" ELSE pc[c]]
  /\ request' = [c \in Call |-> IF c \in calls THEN NoRequest ELSE request[c]]
  /\ mine' = [c \in Call |-> IF c \in calls THEN NoRows ELSE mine[c]]
  /\ readAt' = [c \in Call |-> IF c \in calls THEN 0 ELSE readAt[c]]
  /\ guard' = IF guard \in calls THEN Nobody ELSE guard

Home(c) == request[c].at
Serves(c, s) == pc[c] # "idle" /\ Home(c) = s

Trouble == trouble < MaxTrouble /\ trouble' = trouble + 1 /\ UNCHANGED edits

-----------------------------------------------------------------------------
Init ==
  /\ rows \in Table
  /\ file = "sound"
  /\ up = [s \in Session |-> FALSE]
  /\ snap = [s \in Session |-> NoTable]
  /\ pc = [c \in Call |-> "idle"]
  /\ request = [c \in Call |-> NoRequest]
  /\ mine = [c \in Call |-> NoRows]
  /\ guard = Nobody
  /\ edits = 0
  /\ readAt = [c \in Call |-> 0]
  /\ trouble = 0

\* The rows are read without the lock; a fault never fails the open.
Open(s) ==
  /\ ~up[s]
  /\ file = "sound"
  /\ up' = [up EXCEPT ![s] = TRUE]
  /\ snap' = [snap EXCEPT ![s] = rows]
  /\ UNCHANGED <<store, call, guard, env>>

Crash(s) ==
  /\ up[s]
  /\ up' = [up EXCEPT ![s] = FALSE]
  /\ snap' = [snap EXCEPT ![s] = NoTable]
  /\ Gone({c \in Call : Serves(c, s)})
  /\ Trouble
  /\ UNCHANGED store

Begin(c, r) ==
  /\ up[r.at]
  /\ pc[c] = "idle"
  /\ pc' = [pc EXCEPT ![c] = "waiting"]
  /\ request' = [request EXCEPT ![c] = r]
  /\ UNCHANGED <<store, live, mine, readAt, guard, env>>

Acquire(c) ==
  /\ pc[c] = "waiting"
  /\ guard = Nobody
  /\ guard' = c
  /\ pc' = [pc EXCEPT ![c] = "holding"]
  /\ UNCHANGED <<store, live, request, mine, readAt, env>>

-----------------------------------------------------------------------------
(* A mutation: the gate on the snapshot taken under the guard, then the    *)
(* transaction with that snapshot's actor.                                 *)

GateRefuses(c) ==
  /\ pc[c] = "holding"
  /\ request[c].op = "mutate"
  /\ Gated(Home(c))
  /\ Gone({c})
  /\ UNCHANGED <<store, live, env>>

GatePasses(c) ==
  /\ pc[c] = "holding"
  /\ request[c].op = "mutate"
  /\ ~Gated(Home(c))
  /\ mine' = [mine EXCEPT ![c] = snap[Home(c)]]
  /\ pc' = [pc EXCEPT ![c] = "writing"]
  /\ UNCHANGED <<store, live, request, readAt, guard, env>>

Write(c) ==
  /\ pc[c] = "writing"
  /\ Gone({c})
  /\ UNCHANGED <<store, live, env>>

-----------------------------------------------------------------------------
(* config_set and config_unset.  `set` classifies before it reads, `unset` *)
(* after, and only a key that no row holds.                                *)

SetRefused(c) ==
  /\ pc[c] = "holding"
  /\ request[c].op = "set"
  /\ ~Settable(request[c].key, request[c].val)
  /\ Gone({c})
  /\ UNCHANGED <<store, live, env>>

ReadRows(c) ==
  /\ pc[c] = "holding"
  /\ \/ request[c].op = "unset"
     \/ request[c].op = "set" /\ Settable(request[c].key, request[c].val)
  /\ mine' = [mine EXCEPT ![c] = rows]
  /\ readAt' = [readAt EXCEPT ![c] = edits]
  /\ pc' = [pc EXCEPT ![c] = "read"]
  /\ UNCHANGED <<store, live, request, guard, env>>

NothingToDelete(c) ==
  request[c].op = "unset" /\ mine[c][request[c].key] = Absent

\* A key this snapshot lists as a fault is not refused: another process may
\* have removed the row.
RefusedThoughStale(c) ==
  NothingToDelete(c) /\ Class[request[c].key] # "layer"

Refused(c) ==
  /\ NothingToDelete(c)
  /\ Class[request[c].key] # "layer"
  /\ Fault(request[c].key, snap[Home(c)][request[c].key]) = "none"

UnsetRefused(c) ==
  /\ pc[c] = "read"
  /\ Refused(c)
  /\ Gone({c})
  /\ UNCHANGED <<store, live, env>>

ReloadFails(c) ==
  /\ pc[c] = "read"
  /\ ~Refused(c)
  /\ file = "broken"
  /\ Gone({c})
  /\ UNCHANGED <<store, live, env>>

ReloadCommitted(c) ==
  /\ pc[c] = "read"
  /\ ~Refused(c)
  /\ file = "sound"
  /\ pc' = [pc EXCEPT ![c] = IF NothingToDelete(c) THEN "swap" ELSE "commit"]
  /\ UNCHANGED <<store, live, request, readAt, mine, guard, env>>

\* Reload against the prospective rows; then spawn the task that owns the
\* guard.  With nothing to write it only swaps.
Reload(c) ==
  /\ pc[c] = "read"
  /\ ~Refused(c)
  /\ file = "sound"
  /\ mine' = [mine EXCEPT ![c] = Prospective(request[c], @)]
  /\ pc' = [pc EXCEPT ![c] = IF NothingToDelete(c) THEN "swap" ELSE "commit"]
  /\ UNCHANGED <<store, live, request, readAt, guard, env>>

CommitReleasing(c) ==
  /\ pc[c] = "commit"
  /\ rows' = Prospective(request[c], rows)
  /\ pc' = [pc EXCEPT ![c] = "swap"]
  /\ guard' = Nobody
  /\ UNCHANGED <<file, live, request, mine, readAt, env>>

Commit(c) ==
  /\ pc[c] = "commit"
  /\ rows' = Prospective(request[c], rows)
  /\ pc' = [pc EXCEPT ![c] = "swap"]
  /\ UNCHANGED <<file, live, request, mine, readAt, guard, env>>

SwapOfMoved(c) ==
  /\ pc[c] = "swap"
  /\ Gone({c})
  /\ snap' = [snap EXCEPT ![Home(c)] = mine'[c]]
  /\ UNCHANGED <<store, up, env>>

Swap(c) ==
  /\ pc[c] = "swap"
  /\ snap' = [snap EXCEPT ![Home(c)] = mine[c]]
  /\ Gone({c})
  /\ UNCHANGED <<store, up, env>>

-----------------------------------------------------------------------------
(* What goes wrong: the lock times out, a statement fails, the caller's    *)
(* future is dropped (which reaches the call, never its spawned task).     *)

DroppableTask == {"waiting", "holding", "writing", "commit", "swap"}
Droppable     == {"waiting", "holding", "writing"}

Cancel(c) ==
  /\ pc[c] \in Droppable
  /\ Gone({c})
  /\ Trouble
  /\ UNCHANGED <<store, live>>

\* The transaction rolls back: no swap.
CommitFails(c) ==
  /\ pc[c] = "commit"
  /\ Gone({c})
  /\ Trouble
  /\ UNCHANGED <<store, live>>

BreakFile ==
  /\ file = "sound"
  /\ file' = "broken"
  /\ Trouble
  /\ UNCHANGED <<rows, live, call, guard>>

MendFile ==
  /\ file = "broken"
  /\ file' = "sound"
  /\ UNCHANGED <<rows, live, call, guard, env>>

\* Another build or a hand edit writes a row without taking .write.lock.
EditTable(k, cell) ==
  /\ edits < MaxEdit
  /\ edits' = edits + 1
  /\ rows' = [rows EXCEPT ![k] = cell]
  /\ UNCHANGED <<file, live, call, guard, trouble>>

-----------------------------------------------------------------------------
Advance(c) ==
  \/ GateRefuses(c) \/ GatePasses(c) \/ Write(c)
  \/ SetRefused(c) \/ ReadRows(c)
  \/ UnsetRefused(c) \/ ReloadFails(c) \/ Reload(c)
  \/ Commit(c) \/ Swap(c)

Next ==
  \/ \E s \in Session : Open(s) \/ Crash(s)
  \/ \E c \in Call : \/ \E r \in Request : Begin(c, r)
                     \/ Acquire(c)
                     \/ Advance(c)
                     \/ Cancel(c)
                     \/ CommitFails(c)
  \/ BreakFile \/ MendFile
  \/ \E k \in Key, cell \in Cell : EditTable(k, cell)

Spec == Init /\ [][Next]_vars

-----------------------------------------------------------------------------
(* Properties.                                                             *)

\* A mutation writes under the snapshot that is live, and that snapshot passes
\* the gate: no reload lands inside a mutation, and none runs between the
\* commit of a config call of its Session and the swap ("no mutation can
\* observe the old snapshot after the commit", session/config.rs).
MutationOnLiveSnapshot ==
  \A c \in Call : pc[c] = "writing" =>
    /\ mine[c] = snap[Home(c)]
    /\ Blocking(mine[c]) = {}
    /\ \A d \in Call : pc[d] = "swap" => Home(d) # Home(c)

\* The snapshot about to be swapped in is that of the table as it is, other
\* processes' config calls included; only an edit that takes no lock, made
\* since the rows were read, can come between.
SwapIsTable ==
  \A c \in Call : pc[c] = "swap" /\ readAt[c] = edits => mine[c] = rows

\* A commit is followed by its swap whatever becomes of the caller; only the
\* death of the process comes between.
CommitThenSwap ==
  [][\A c \in Call : pc[c] = "swap" /\ pc'[c] # "swap" =>
       \/ snap'[Home(c)] = mine[c]
       \/ ~up'[Home(c)]]_vars

\* What `config set` accepts is what the decoding of rows accepts: a row turns
\* faulty only by an edit from outside, so no config call can gate a workspace.
NoFaultMinted ==
  [][\A k \in Key : Fault(k, rows[k]) = "none" /\ Fault(k, rows'[k]) # "none"
       => edits' # edits]_vars

\* The gate's own hint works: a `config unset` that is not cut short leaves a
\* snapshot in which its key does not block, also when another process has
\* removed the row meanwhile and also when the call is refused.  So every
\* hint a client follows takes one key off the gate.
HintRepairs ==
  [][\A c \in Call :
       /\ pc[c] # "idle" /\ pc'[c] = "idle"
       /\ request[c].op = "unset"
       /\ trouble' = trouble
       /\ file = "sound"
       => request[c].key \notin Blocking(snap'[Home(c)])]_vars
=============================================================================
