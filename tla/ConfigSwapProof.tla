--------------------------- MODULE ConfigSwapProof ---------------------------
(***************************************************************************)
(* Theorems about ConfigSwap, for every set of sessions, calls, keys and   *)
(* values.  The argument: a call past the wait owns the guard (Owned), so  *)
(* no row is written under .write.lock between the time a config call      *)
(* reads the rows and its swap, and its local rows are, at each step, what *)
(* the table is or is about to be (Current), unless it was edited without  *)
(* the lock; and no snapshot of its Session is swapped while a mutation    *)
(* writes (Live).                                                          *)
(***************************************************************************)
EXTENDS ConfigSwap, TLAPS

Inside     == {"holding", "read", "commit", "swap", "writing"}
Configures == {"read", "commit", "swap"}

Owned == \A c \in Call : pc[c] \in Inside => guard = c

Asked ==
  \A c \in Call :
    /\ pc[c] # "idle" => request[c] \in Request /\ up[Home(c)]
    /\ pc[c] = "writing" => request[c].op = "mutate"
    /\ pc[c] \in Configures =>
         /\ mine[c] \in Table
         /\ request[c].op \in {"set", "unset"}
         /\ request[c].op = "set" =>
              Settable(request[c].key, request[c].val)
    /\ pc[c] \in {"commit", "swap"} /\ request[c].op = "unset" =>
         mine[c][request[c].key] = Absent

Live ==
  \A c \in Call : pc[c] = "writing" =>
    mine[c] = snap[Home(c)] /\ Blocking(mine[c]) = {}

Current ==
  \A c \in Call :
    /\ readAt[c] <= edits
    /\ readAt[c] = edits =>
         /\ pc[c] \in {"read", "swap"} => mine[c] = rows
         /\ pc[c] = "commit" => mine[c] = Prospective(request[c], rows)

IInv == TypeOK /\ Owned /\ Asked /\ Live /\ Current

-----------------------------------------------------------------------------
\* What a request carries.
LEMMA RequestFacts ==
  ASSUME NEW r \in Request
  PROVE  /\ r.at \in Session
         /\ r.op \in {"mutate", "set", "unset"}
         /\ r.op # "mutate" => r.key \in Key
         /\ r.op = "set" => r.val \in Value \cup {Bad}
BY DEF Request

\* What a config call leaves is a table again.
LEMMA ProspectiveType ==
  ASSUME NEW r \in Request, r.op # "mutate", NEW t \in Table
  PROVE  Prospective(r, t) \in Table
BY RequestFacts DEF Prospective, Table, Cell

\* An absent row and a sound row of a layer key are no faults; what is no
\* fault does not block.
LEMMA FaultFacts ==
  ASSUME NEW k \in Key
  PROVE  /\ Fault(k, Absent) = "none"
         /\ \A v \in Value : Class[k] = "layer" => Fault(k, v) = "none"
         /\ \A t : Fault(k, t[k]) = "none" => k \notin Blocking(t)
<1>1. Fault(k, Absent) = "none"
  BY ConstantAssumption DEF Fault
<1>2. ASSUME NEW v \in Value, Class[k] = "layer"
      PROVE  Fault(k, v) = "none"
  BY <1>2, ConstantAssumption DEF Fault
<1>3. ASSUME NEW t, Fault(k, t[k]) = "none"
      PROVE  k \notin Blocking(t)
  BY <1>3 DEF Blocking
<1> QED
  BY <1>1, <1>2, <1>3

\* The calls that are gone are idle and hold nothing; the others are as before.
LEMMA GoneFacts ==
  ASSUME TypeOK, NEW calls \in SUBSET Call, Gone(calls)
  PROVE  /\ pc' \in [Call -> CallPC]
         /\ request' \in [Call -> Request \cup {NoRequest}]
         /\ mine' \in [Call -> Table \cup {NoRows}]
         /\ readAt' \in [Call -> 0..MaxEdit]
         /\ guard' \in Call \cup {Nobody}
         /\ \A c \in calls : pc'[c] = "idle" /\ readAt'[c] = 0
         /\ \A c \in Call \ calls :
              /\ pc'[c] = pc[c] /\ request'[c] = request[c]
              /\ mine'[c] = mine[c] /\ readAt'[c] = readAt[c]
              /\ guard = c => guard' = c
BY ConstantAssumption DEF TypeOK, Gone, CallPC

-----------------------------------------------------------------------------
\* Every step keeps every variable in its type.
LEMMA TypeStep == IInv /\ [Next]_vars => TypeOK'
<1> SUFFICES ASSUME IInv, [Next]_vars PROVE TypeOK'
  OBVIOUS
<1> USE ConstantAssumption DEF IInv, store, live, call, env
<1>1. ASSUME NEW s \in Session, Open(s) PROVE TypeOK'
  BY <1>1 DEF Open, TypeOK
<1>2. ASSUME NEW s \in Session, Crash(s) PROVE TypeOK'
  <2>1. NoTable \in Table
    BY DEF NoTable, Table, Cell
  <2> QED
    BY <1>2, <2>1, GoneFacts DEF Crash, Trouble, TypeOK
<1>3. ASSUME NEW c \in Call, NEW r \in Request, Begin(c, r) PROVE TypeOK'
  BY <1>3 DEF Begin, TypeOK, CallPC
<1>4. ASSUME NEW c \in Call, Acquire(c) PROVE TypeOK'
  BY <1>4 DEF Acquire, TypeOK, CallPC
<1>5. ASSUME NEW c \in Call,
             \/ GateRefuses(c) \/ Write(c) \/ SetRefused(c)
             \/ UnsetRefused(c) \/ ReloadFails(c)
      PROVE  TypeOK'
  BY <1>5, GoneFacts
     DEF GateRefuses, Write, SetRefused, UnsetRefused, ReloadFails, TypeOK
<1>6. ASSUME NEW c \in Call, Cancel(c) \/ CommitFails(c) PROVE TypeOK'
  BY <1>6, GoneFacts DEF Cancel, CommitFails, Trouble, TypeOK
<1>7. ASSUME NEW c \in Call, GatePasses(c) PROVE TypeOK'
  <2>1. request[c] \in Request /\ Home(c) \in Session
    BY <1>7, RequestFacts DEF GatePasses, Asked, Home
  <2> QED
    BY <1>7, <2>1 DEF GatePasses, TypeOK, CallPC
<1>8. ASSUME NEW c \in Call, ReadRows(c) PROVE TypeOK'
  BY <1>8 DEF ReadRows, TypeOK, CallPC
<1>9. ASSUME NEW c \in Call, Reload(c) PROVE TypeOK'
  <2>1. Prospective(request[c], mine[c]) \in Table
    BY <1>9, ProspectiveType DEF Reload, Asked, Configures
  <2> QED
    BY <1>9, <2>1 DEF Reload, TypeOK, CallPC
<1>10. ASSUME NEW c \in Call, Commit(c) PROVE TypeOK'
  <2>1. Prospective(request[c], rows) \in Table
    BY <1>10, ProspectiveType DEF Commit, Asked, Configures, TypeOK
  <2> QED
    BY <1>10, <2>1 DEF Commit, TypeOK, CallPC
<1>11. ASSUME NEW c \in Call, Swap(c) PROVE TypeOK'
  <2>1. mine[c] \in Table
    BY <1>11 DEF Swap, Asked, Configures
  <2>2. snap' \in [Session -> Table]
    BY <1>11, <2>1 DEF Swap, TypeOK
  <2> QED
    BY <1>11, <2>2, GoneFacts DEF Swap, TypeOK
<1>12. ASSUME BreakFile \/ MendFile PROVE TypeOK'
  BY <1>12 DEF BreakFile, MendFile, Trouble, TypeOK
<1>13. ASSUME NEW k \in Key, NEW cell \in Cell, EditTable(k, cell)
       PROVE  TypeOK'
  BY <1>13 DEF EditTable, TypeOK, Table
<1>14. CASE UNCHANGED vars
  BY <1>14 DEF vars, TypeOK
<1> QED
  BY <1>1, <1>2, <1>3, <1>4, <1>5, <1>6, <1>7, <1>8, <1>9, <1>10, <1>11,
     <1>12, <1>13, <1>14 DEF Next, Advance
-----------------------------------------------------------------------------
\* The steps that only let calls go.
Leaves(c) ==
  \/ GateRefuses(c) \/ Write(c) \/ SetRefused(c) \/ UnsetRefused(c)
  \/ ReloadFails(c) \/ Cancel(c) \/ CommitFails(c)

LEMMA LeavesFacts ==
  ASSUME NEW c \in Call, Leaves(c)
  PROVE  Gone({c}) /\ UNCHANGED <<store, live, edits>>
BY DEF Leaves, GateRefuses, Write, SetRefused, UnsetRefused, ReloadFails,
       Cancel, CommitFails, Trouble, env, store, live

LEMMA CrashFacts ==
  ASSUME NEW s \in Session, Crash(s)
  PROVE  /\ Gone({c \in Call : Serves(c, s)})
         /\ UNCHANGED <<rows, edits>>
BY DEF Crash, Trouble, store

-----------------------------------------------------------------------------
\* Mutual exclusion of the guard is kept.
LEMMA OwnedStep == IInv /\ [Next]_vars => Owned'
<1> SUFFICES ASSUME IInv, [Next]_vars PROVE Owned'
  OBVIOUS
<1> USE ConstantAssumption DEF IInv, store, live, call, env, Inside
<1>1. ASSUME NEW calls \in SUBSET Call, Gone(calls) PROVE Owned'
  BY <1>1, GoneFacts DEF Owned
<1>2. ASSUME NEW s \in Session, Open(s) PROVE Owned'
  BY <1>2 DEF Open, Owned
<1>3. ASSUME NEW s \in Session, Crash(s) PROVE Owned'
  BY <1>3, <1>1, CrashFacts
<1>4. ASSUME NEW c \in Call, Leaves(c) PROVE Owned'
  BY <1>4, <1>1, LeavesFacts
<1>5. ASSUME NEW c \in Call, Swap(c) PROVE Owned'
  BY <1>5, <1>1 DEF Swap
<1>6. ASSUME NEW c \in Call, NEW r \in Request, Begin(c, r) PROVE Owned'
  BY <1>6 DEF Begin, Owned, TypeOK
<1>7. ASSUME NEW c \in Call, Acquire(c) PROVE Owned'
  BY <1>7 DEF Acquire, Owned, TypeOK
<1>8. ASSUME NEW c \in Call,
             GatePasses(c) \/ ReadRows(c) \/ Reload(c) \/ Commit(c)
      PROVE  Owned'
  BY <1>8 DEF GatePasses, ReadRows, Reload, Commit, Owned, TypeOK
<1>9. CASE \/ BreakFile \/ MendFile \/ UNCHANGED vars
           \/ \E k \in Key, cell \in Cell : EditTable(k, cell)
  BY <1>9 DEF BreakFile, MendFile, EditTable, vars, Owned
<1> QED
  BY <1>2, <1>3, <1>4, <1>5, <1>6, <1>7, <1>8, <1>9
     DEF Next, Advance, Leaves

\* What a call was asked for, and what it may hold at each place, is kept.
LEMMA AskedStep == IInv /\ [Next]_vars => Asked'
<1> SUFFICES ASSUME IInv, [Next]_vars PROVE Asked'
  OBVIOUS
<1> USE ConstantAssumption DEF IInv, store, live, call, env, Configures, Home
<1>1. ASSUME NEW calls \in SUBSET Call, Gone(calls),
             \A c \in Call \ calls : pc[c] # "idle" => up'[Home(c)]
      PROVE  Asked'
  BY <1>1, GoneFacts DEF Asked
<1>2. ASSUME NEW s \in Session, Open(s) PROVE Asked'
  BY <1>2 DEF Open, Asked, TypeOK
<1>3. ASSUME NEW s \in Session, Crash(s) PROVE Asked'
  <2>1. \A c \in Call \ {d \in Call : Serves(d, s)} :
          pc[c] # "idle" => up'[Home(c)]
    BY <1>3, RequestFacts DEF Crash, Serves, Asked, TypeOK
  <2> QED
    BY <1>3, <2>1, <1>1, CrashFacts
<1>4. ASSUME NEW c \in Call, Leaves(c) PROVE Asked'
  BY <1>4, <1>1, LeavesFacts DEF Asked
<1>5. ASSUME NEW c \in Call, Swap(c) PROVE Asked'
  BY <1>5, <1>1 DEF Swap, Asked
<1>6. ASSUME NEW c \in Call, NEW r \in Request, Begin(c, r) PROVE Asked'
  BY <1>6 DEF Begin, Asked, TypeOK
<1>7. ASSUME NEW c \in Call, Acquire(c) \/ GatePasses(c) PROVE Asked'
  BY <1>7 DEF Acquire, GatePasses, Asked, TypeOK
<1>8. ASSUME NEW c \in Call, ReadRows(c) PROVE Asked'
  BY <1>8 DEF ReadRows, Asked, TypeOK
<1>9. ASSUME NEW c \in Call, Reload(c) PROVE Asked'
  <2>1. request[c] \in Request /\ request[c].op \in {"set", "unset"}
        /\ mine[c] \in Table
    BY <1>9 DEF Reload, Asked
  <2>2. Prospective(request[c], mine[c]) \in Table
    BY <2>1, ProspectiveType
  <2>3. request[c].op = "unset" =>
          Prospective(request[c], mine[c])[request[c].key] = Absent
    BY <2>1, RequestFacts DEF Prospective, Table
  <2> QED
    BY <1>9, <2>1, <2>2, <2>3 DEF Reload, Asked, TypeOK
<1>10. ASSUME NEW c \in Call, Commit(c) PROVE Asked'
  BY <1>10 DEF Commit, Asked, TypeOK
<1>11. CASE \/ BreakFile \/ MendFile \/ UNCHANGED vars
            \/ \E k \in Key, cell \in Cell : EditTable(k, cell)
  BY <1>11 DEF BreakFile, MendFile, EditTable, vars, Asked
<1> QED
  BY <1>2, <1>3, <1>4, <1>5, <1>6, <1>7, <1>8, <1>9, <1>10, <1>11
     DEF Next, Advance, Leaves
-----------------------------------------------------------------------------
\* No snapshot is swapped under a mutation that writes.
LEMMA LiveStep == IInv /\ [Next]_vars => Live'
<1> SUFFICES ASSUME IInv, [Next]_vars PROVE Live'
  OBVIOUS
<1> USE ConstantAssumption DEF IInv, store, live, call, env, Home
<1>1. ASSUME NEW calls \in SUBSET Call, Gone(calls), snap' = snap
      PROVE  Live'
  <2>1. \A c \in Call : pc'[c] = "writing" =>
          pc[c] = "writing" /\ mine'[c] = mine[c] /\ request'[c] = request[c]
    BY <1>1, GoneFacts
  <2> QED
    BY <1>1, <2>1 DEF Live
<1>2. ASSUME NEW s \in Session, Open(s) PROVE Live'
  <2>1. \A c \in Call : pc[c] # "idle" => request[c].at # s
    BY <1>2 DEF Open, Asked
  <2> QED
    BY <1>2, <2>1 DEF Open, Live, TypeOK
<1>3. ASSUME NEW s \in Session, Crash(s) PROVE Live'
  <2> DEFINE calls == {c \in Call : Serves(c, s)}
  <2>1. Gone(calls)
    BY <1>3, CrashFacts
  <2>2. ASSUME NEW c \in Call, pc'[c] = "writing"
        PROVE  c \notin calls /\ snap'[request[c].at] = snap[request[c].at]
    <3>1. c \notin calls
      BY <2>1, <2>2, GoneFacts
    <3>2. pc[c] = "writing"
      BY <2>1, <2>2, <3>1, GoneFacts
    <3>3. request[c].at # s
      BY <3>1, <3>2 DEF Serves
    <3> QED
      BY <1>3, <3>1, <3>2, <3>3, RequestFacts DEF Crash, Asked, TypeOK
  <2> QED
    BY <2>1, <2>2, GoneFacts DEF Live
<1>4. ASSUME NEW c \in Call, Leaves(c) PROVE Live'
  BY <1>4, <1>1, LeavesFacts
<1>5. ASSUME NEW c \in Call, Swap(c) PROVE Live'
  <2>1. \A d \in Call : pc[d] # "writing"
    BY <1>5 DEF Swap, Owned, Inside
  <2>2. \A d \in Call : pc'[d] # "writing"
    BY <1>5, <2>1, GoneFacts DEF Swap
  <2> QED
    BY <2>2 DEF Live
<1>6. ASSUME NEW c \in Call, NEW r \in Request, Begin(c, r) PROVE Live'
  BY <1>6 DEF Begin, Live, TypeOK
<1>7. ASSUME NEW c \in Call, GatePasses(c) PROVE Live'
  BY <1>7 DEF GatePasses, Gated, Live, TypeOK
<1>8. ASSUME NEW c \in Call,
             Acquire(c) \/ ReadRows(c) \/ Reload(c) \/ Commit(c)
      PROVE  Live'
  BY <1>8 DEF Acquire, ReadRows, Reload, Commit, Live, TypeOK
<1>9. CASE \/ BreakFile \/ MendFile \/ UNCHANGED vars
           \/ \E k \in Key, cell \in Cell : EditTable(k, cell)
  BY <1>9 DEF BreakFile, MendFile, EditTable, vars, Live
<1> QED
  BY <1>2, <1>3, <1>4, <1>5, <1>6, <1>7, <1>8, <1>9
     DEF Next, Advance, Leaves

\* Deleting what is not there leaves the table as it was.
LEMMA DeleteAbsent ==
  ASSUME NEW r \in Request, r.op = "unset", NEW t \in Table,
         t[r.key] = Absent
  PROVE  Prospective(r, t) = t
BY RequestFacts DEF Prospective, Table

\* Under the guard the rows a config call has read do not change unless they
\* are edited without it.
LEMMA CurrentStep == IInv /\ [Next]_vars => Current'
<1> SUFFICES ASSUME IInv, [Next]_vars PROVE Current'
  OBVIOUS
<1> USE ConstantAssumption DEF IInv, store, live, call, env
<1>1. ASSUME NEW calls \in SUBSET Call, Gone(calls),
             rows' = rows, edits' = edits
      PROVE  Current'
  BY <1>1, GoneFacts DEF Current, TypeOK
<1>2. ASSUME NEW s \in Session, Open(s) PROVE Current'
  BY <1>2 DEF Open, Current
<1>3. ASSUME NEW s \in Session, Crash(s) PROVE Current'
  BY <1>3, <1>1, CrashFacts
<1>4. ASSUME NEW c \in Call, Leaves(c) PROVE Current'
  BY <1>4, <1>1, LeavesFacts
<1>5. ASSUME NEW c \in Call, Swap(c) PROVE Current'
  BY <1>5, <1>1 DEF Swap
<1>6. ASSUME NEW c \in Call, NEW r \in Request, Begin(c, r) PROVE Current'
  BY <1>6 DEF Begin, Current, TypeOK
<1>7. ASSUME NEW c \in Call, Acquire(c) \/ GatePasses(c) PROVE Current'
  BY <1>7 DEF Acquire, GatePasses, Current, TypeOK
<1>8. ASSUME NEW c \in Call, ReadRows(c) PROVE Current'
  BY <1>8 DEF ReadRows, Current, TypeOK
<1>9. ASSUME NEW c \in Call, Reload(c) PROVE Current'
  <2>1. request[c] \in Request /\ mine[c] \in Table
    BY <1>9 DEF Reload, Asked, Configures
  <2>2. NothingToDelete(c) => Prospective(request[c], mine[c]) = mine[c]
    BY <2>1, DeleteAbsent DEF NothingToDelete
  <2>3. readAt[c] = edits => mine[c] = rows
    BY <1>9 DEF Reload, Current
  <2> QED
    BY <1>9, <2>2, <2>3 DEF Reload, Current, TypeOK
<1>10. ASSUME NEW c \in Call, Commit(c) PROVE Current'
  <2>1. \A d \in Call \ {c} : pc[d] \notin {"read", "swap", "commit"}
    BY <1>10 DEF Commit, Owned, Inside
  <2> QED
    BY <1>10, <2>1 DEF Commit, Current, TypeOK
<1>11. ASSUME NEW k \in Key, NEW cell \in Cell, EditTable(k, cell)
       PROVE  Current'
  BY <1>11 DEF EditTable, Current, TypeOK
<1>12. CASE BreakFile \/ MendFile \/ UNCHANGED vars
  BY <1>12 DEF BreakFile, MendFile, Trouble, vars, Current
<1> QED
  BY <1>2, <1>3, <1>4, <1>5, <1>6, <1>7, <1>8, <1>9, <1>10, <1>11, <1>12
     DEF Next, Advance, Leaves

LEMMA Initially == Init => IInv
<1>1. NoTable \in Table
  BY DEF NoTable, Table, Cell
<1> QED
  BY <1>1, ConstantAssumption
     DEF Init, IInv, TypeOK, Owned, Asked, Live, Current, CallPC, Inside,
         Configures

\* The inductive invariant holds.
THEOREM Invariance == Spec => []IInv
<1>1. IInv /\ [Next]_vars => IInv'
  BY TypeStep, OwnedStep, AskedStep, LiveStep, CurrentStep DEF IInv
<1> QED
  BY <1>1, Initially, PTL DEF Spec

-----------------------------------------------------------------------------
\* Every reachable state is well typed.
THEOREM TypeCorrect == Spec => []TypeOK
<1>1. IInv => TypeOK
  BY DEF IInv
<1> QED
  BY <1>1, Invariance, PTL

\* Mutations write under the live snapshot and an open gate, with no commit
\* of their own Session left to swap (session/config.rs, session/write.rs).
THEOREM LiveSnapshot == Spec => []MutationOnLiveSnapshot
<1>1. IInv => MutationOnLiveSnapshot
  BY DEF IInv, Live, Owned, Inside, MutationOnLiveSnapshot
<1> QED
  BY <1>1, Invariance, PTL

\* What a config call swaps in describes the table as it then is.
THEOREM SwapsTheTable == Spec => []SwapIsTable
<1>1. IInv => SwapIsTable
  BY DEF IInv, Current, SwapIsTable
<1> QED
  BY <1>1, Invariance, PTL
\* The task that has committed swaps, or its process dies: no cancellation of
\* the caller and no error comes between (session/config.rs commit_and_swap).
THEOREM CommitsSwap == Spec => CommitThenSwap
<1>1. ASSUME IInv, [Next]_vars,
             NEW c \in Call, pc[c] = "swap", pc'[c] # "swap"
      PROVE  snap'[Home(c)] = mine[c] \/ ~up'[Home(c)]
  <2> USE DEF IInv, Home
  <2>1. request[c] \in Request /\ request[c].at \in Session
    BY <1>1, RequestFacts DEF Asked
  <2>2. \A d \in Call : pc[d] \in Inside => d = c
    BY <1>1 DEF Owned, Inside
  <2>3. ASSUME NEW s \in Session, Crash(s) PROVE ~up'[Home(c)]
    <3>1. c \in {d \in Call : Serves(d, s)}
      BY <1>1, <2>3, CrashFacts, GoneFacts
    <3> QED
      BY <1>1, <2>1, <2>3, <3>1 DEF Crash, Serves, TypeOK
  <2>4. ASSUME NEW d \in Call, Swap(d) PROVE snap'[Home(c)] = mine[c]
    BY <1>1, <2>1, <2>2, <2>4 DEF Swap, Inside, TypeOK
  <2>5. ASSUME NEW d \in Call, Leaves(d) PROVE FALSE
    <3>1. d # c
      BY <1>1, <2>5 DEF Leaves, GateRefuses, Write, SetRefused, UnsetRefused,
                        ReloadFails, Cancel, Droppable, CommitFails
    <3>2. Gone({d})
      BY <2>5, LeavesFacts
    <3> QED
      BY <1>1, <3>1, <3>2, GoneFacts
  <2>6. ASSUME NEW d \in Call,
               \/ Acquire(d) \/ GatePasses(d) \/ ReadRows(d) \/ Reload(d)
               \/ Commit(d) \/ \E r \in Request : Begin(d, r)
        PROVE  FALSE
    BY <1>1, <2>6 DEF Acquire, GatePasses, ReadRows, Reload, Commit, Begin,
                      TypeOK
  <2>7. CASE \/ BreakFile \/ MendFile \/ UNCHANGED vars
             \/ \E s \in Session : Open(s)
             \/ \E k \in Key, cell \in Cell : EditTable(k, cell)
    BY <1>1, <2>7 DEF BreakFile, MendFile, Open, EditTable, vars, call
  <2> QED
    BY <1>1, <2>3, <2>4, <2>5, <2>6, <2>7 DEF Next, Advance, Leaves
<1>2. IInv /\ [Next]_vars =>
        [\A c \in Call : pc[c] = "swap" /\ pc'[c] # "swap" =>
           \/ snap'[Home(c)] = mine[c]
           \/ ~up'[Home(c)]]_vars
  BY <1>1
<1> QED
  BY <1>2, Invariance, PTL DEF Spec, CommitThenSwap

\* No config call writes a row that its own decoding takes for faulty
\* (reload.rs classify_runtime_key and canonicalize_runtime_value against
\* db_layer.rs decode_row).
THEOREM MintsNoFault == Spec => NoFaultMinted
<1>1. ASSUME IInv, [Next]_vars, NEW k \in Key,
             Fault(k, rows[k]) = "none", Fault(k, rows'[k]) # "none"
      PROVE  edits' # edits
  <2>1. ASSUME NEW c \in Call, Commit(c) PROVE FALSE
    <3>1. /\ request[c] \in Request /\ request[c].op \in {"set", "unset"}
          /\ request[c].op = "set" =>
               Settable(request[c].key, request[c].val)
      BY <1>1, <2>1 DEF Commit, IInv, Asked, Configures
    <3>2. CASE k # request[c].key
      BY <1>1, <2>1, <3>2 DEF Commit, Prospective, IInv, TypeOK, Table
    <3>3. CASE k = request[c].key /\ request[c].op = "set"
      <4>1. rows'[k] = request[c].val
        BY <1>1, <2>1, <3>1, <3>3 DEF Commit, Prospective, IInv, TypeOK, Table
      <4> QED
        BY <1>1, <3>1, <3>3, <4>1, FaultFacts DEF Settable
    <3>4. CASE k = request[c].key /\ request[c].op = "unset"
      <4>1. rows'[k] = Absent
        BY <1>1, <2>1, <3>1, <3>4 DEF Commit, Prospective, IInv, TypeOK, Table
      <4> QED
        BY <1>1, <4>1, FaultFacts
    <3> QED
      BY <3>1, <3>2, <3>3, <3>4
  <2>2. ASSUME rows' = rows PROVE FALSE
    BY <1>1, <2>2
  <2>3. ASSUME NEW j \in Key, NEW cell \in Cell, EditTable(j, cell)
        PROVE  edits' # edits
    BY <2>3 DEF EditTable, IInv, TypeOK
  <2>4. ASSUME NEW c \in Call, Advance(c), ~Commit(c) PROVE rows' = rows
    BY <2>4 DEF Advance, GateRefuses, GatePasses, Write, SetRefused,
                ReadRows, UnsetRefused, ReloadFails, Reload, Swap, store
  <2>5. ASSUME NEW c \in Call,
               \/ Acquire(c) \/ Cancel(c) \/ CommitFails(c)
               \/ \E r \in Request : Begin(c, r)
        PROVE  rows' = rows
    BY <2>5 DEF Acquire, Cancel, CommitFails, Begin, store
  <2>6. ASSUME \/ BreakFile \/ MendFile \/ UNCHANGED vars
               \/ \E s \in Session : Open(s) \/ Crash(s)
        PROVE  rows' = rows
    BY <2>6 DEF BreakFile, MendFile, Open, Crash, vars, store
  <2> QED
    BY <1>1, <2>1, <2>2, <2>3, <2>4, <2>5, <2>6 DEF Next
<1>2. IInv /\ [Next]_vars =>
        [\A k \in Key : Fault(k, rows[k]) = "none" /\ Fault(k, rows'[k]) # "none"
           => edits' # edits]_vars
  BY <1>1
<1> QED
  BY <1>2, Invariance, PTL DEF Spec, NoFaultMinted
\* Following the gate's hint takes the key off the gate, whatever other
\* processes have repaired meanwhile (session/config.rs config_unset).
THEOREM HintsRepair == Spec => HintRepairs
<1>1. ASSUME IInv, [Next]_vars, NEW c \in Call,
             pc[c] # "idle", pc'[c] = "idle",
             request[c].op = "unset", trouble' = trouble, file = "sound"
      PROVE  request[c].key \notin Blocking(snap'[Home(c)])
  <2> USE DEF IInv, Home
  <2>1. /\ request[c] \in Request
        /\ request[c].at \in Session /\ request[c].key \in Key
    BY <1>1, RequestFacts DEF Asked
  <2>2. CASE UnsetRefused(c)
    <3>1. /\ Fault(request[c].key, snap[request[c].at][request[c].key]) = "none"
          /\ snap' = snap
      BY <2>2 DEF UnsetRefused, Refused, live
    <3> QED
      BY <2>1, <3>1, FaultFacts
  <2>3. CASE Swap(c)
    <3>1. snap'[request[c].at] = mine[c]
      BY <1>1, <2>1, <2>3 DEF Swap, TypeOK
    <3>2. mine[c][request[c].key] = Absent
      BY <1>1, <2>3 DEF Swap, Asked
    <3> QED
      BY <2>1, <3>1, <3>2, FaultFacts
  <2>4. ASSUME NEW s \in Session, Crash(s) PROVE FALSE
    BY <1>1, <2>4 DEF Crash, Trouble, TypeOK
  <2>5. ASSUME NEW d \in Call, Leaves(d) \/ Swap(d), d # c PROVE FALSE
    <3>1. Gone({d})
      BY <2>5, LeavesFacts DEF Swap
    <3> QED
      BY <1>1, <2>5, <3>1, GoneFacts
  <2>6. ASSUME Leaves(c), ~UnsetRefused(c) PROVE FALSE
    BY <1>1, <2>6 DEF Leaves, GateRefuses, Write, SetRefused, ReloadFails,
                      Cancel, CommitFails, Trouble, TypeOK, Asked
  <2>7. ASSUME NEW d \in Call,
               \/ Acquire(d) \/ GatePasses(d) \/ ReadRows(d) \/ Reload(d)
               \/ Commit(d) \/ \E r \in Request : Begin(d, r)
        PROVE  FALSE
    BY <1>1, <2>7 DEF Acquire, GatePasses, ReadRows, Reload, Commit, Begin,
                      TypeOK
  <2>8. CASE \/ BreakFile \/ MendFile \/ UNCHANGED vars
             \/ \E s \in Session : Open(s)
             \/ \E k \in Key, cell \in Cell : EditTable(k, cell)
    BY <1>1, <2>8 DEF BreakFile, MendFile, Open, EditTable, vars, call
  <2> QED
    BY <1>1, <2>2, <2>3, <2>4, <2>5, <2>6, <2>7, <2>8
       DEF Next, Advance, Leaves
<1>2. IInv /\ [Next]_vars =>
        [\A c \in Call :
           /\ pc[c] # "idle" /\ pc'[c] = "idle"
           /\ request[c].op = "unset"
           /\ trouble' = trouble
           /\ file = "sound"
           => request[c].key \notin Blocking(snap'[Home(c)])]_vars
  BY <1>1
<1> QED
  BY <1>2, Invariance, PTL DEF Spec, HintRepairs
=============================================================================
