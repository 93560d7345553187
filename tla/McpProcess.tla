----------------------------- MODULE McpProcess -----------------------------
(***************************************************************************)
(* The process around the transport: the signal thread (shutdown.rs) and   *)
(* `unblock mcp` from the installation of the handlers to the exit code    *)
(* (commands/mcp.rs).  They share the recorded signal, the cancellation    *)
(* token and the shutdown flag, and nothing orders their steps.            *)
(***************************************************************************)
EXTENDS McpTransport

VARIABLES
  signalled,  \* ShutdownHandle.signalled
  flag,       \* ShutdownHandle.flag
  thread,     \* the signal thread: idle, recorded, fired
  main,       \* run(): opening, running, deciding, exited, killed
  torndown,   \* what Session::shutdown returned
  exit        \* the exit code, and the errors that were reported beside it

process == <<signalled, flag, thread, main, torndown, exit>>
pvars == <<vars, process>>

NoExit == [code |-> "none", shown |-> {}]

ProcInit ==
  /\ Init
  /\ signalled = FALSE /\ flag = FALSE /\ thread = "idle"
  /\ main = "opening" /\ torndown = "none" /\ exit = NoExit

Alive == main \notin {"exited", "killed"}

-----------------------------------------------------------------------------
(* The signal thread.                                                      *)

\* The first signal is recorded by a compare-and-set ...
RecordSignal ==
  /\ Alive /\ thread = "idle" /\ ~signalled
  /\ signalled' = TRUE /\ thread' = "recorded"
  /\ UNCHANGED <<vars, flag, main, torndown, exit>>

\* Faulty: the signal raises the flag alone, which nothing in the loop polls.
FireTokenForgotten ==
  /\ Alive /\ thread = "recorded"
  /\ thread' = "fired"
  /\ UNCHANGED <<vars, signalled, flag, main, torndown, exit>>

\* ... then the token is cancelled, then the flag is raised.
FireToken ==
  /\ Alive /\ thread = "recorded" /\ Cancel
  /\ thread' = "fired"
  /\ UNCHANGED <<signalled, flag, main, torndown, exit>>

RaiseFlag ==
  /\ Alive /\ thread = "fired"
  /\ flag' = TRUE /\ thread' = "idle"
  /\ UNCHANGED <<vars, signalled, main, torndown, exit>>

\* A second signal exits on the spot, whatever the others are doing.
SecondSignal ==
  /\ Alive /\ thread = "idle" /\ signalled
  /\ main' = "killed" /\ exit' = [code |-> "signal", shown |-> {}]
  /\ UNCHANGED <<vars, signalled, flag, thread, torndown>>

-----------------------------------------------------------------------------
(* run() of commands/mcp.rs.                                               *)

\* The handlers are installed; a failure to open keeps its own code.
OpenFails ==
  /\ main = "opening" /\ main' = "exited"
  /\ exit' = [code |-> "own", shown |-> {}]
  /\ UNCHANGED <<vars, signalled, flag, thread, torndown>>

OpenSucceeds ==
  /\ main = "opening" /\ main' = "running"
  /\ UNCHANGED <<vars, signalled, flag, thread, torndown, exit>>

\* Session::shutdown is reached whatever the run loop returned.
Teardown ==
  /\ main = "running" /\ phase = "over"
  /\ main' = "deciding" /\ torndown' \in {"ok", "failed"}
  /\ UNCHANGED <<vars, signalled, flag, thread, exit>>

\* How the serve loop ended, as run_mcp_server returns it.
RunFailed == result \notin {"eof", "drained"}
Disconnect == result = "disconnected"

\* resolve_mcp_exit: what decides the code, and what is reported beside it.
ResolveExit(signal) ==
  LET run  == IF RunFailed THEN {"run"} ELSE {}
      down == IF torndown = "failed" THEN {"teardown"} ELSE {}
  IN  IF signal THEN [code |-> "signal", shown |-> run \cup down]
      ELSE IF RunFailed /\ ~Disconnect THEN [code |-> "run", shown |-> down]
      ELSE IF down # {} THEN [code |-> "teardown", shown |-> run]
      ELSE [code |-> "zero", shown |-> run]

\* Faulty: the flag, which is raised last, tells whether a signal came.
DecideByFlag ==
  /\ main = "deciding"
  /\ main' = "exited" /\ exit' = ResolveExit(flag)
  /\ UNCHANGED <<vars, signalled, flag, thread, torndown>>

Decide ==
  /\ main = "deciding"
  /\ main' = "exited" /\ exit' = ResolveExit(signalled)
  /\ UNCHANGED <<vars, signalled, flag, thread, torndown>>

-----------------------------------------------------------------------------

SignalThread == RecordSignal \/ FireToken \/ RaiseFlag \/ SecondSignal
Main == OpenSucceeds \/ Teardown \/ Decide

\* A client may write before the server runs; the server needs the session.
ProcNext ==
  \/ Alive /\ Client /\ UNCHANGED process
  \/ main \in {"running", "deciding"} /\ Server /\ UNCHANGED process
  \/ SignalThread \/ Main \/ OpenFails

ProcSpec == ProcInit /\ [][ProcNext]_pvars

\* tokio polls what can make progress, a peer that has not gone reads, main
\* goes on, and the thread finishes the signal it has in hand; nothing is
\* assumed of the client, of failures or of the arrival of signals.
Running(A) == main \in {"running", "deciding"} /\ A /\ UNCHANGED process

FairProcSpec ==
  /\ ProcSpec
  /\ WF_pvars(Running(Receive)) /\ WF_pvars(Running(WriteParked))
  /\ WF_pvars(Running(Serve)) /\ WF_pvars(Running(ObserveCancel))
  /\ \A i \in Line : WF_pvars(Running(Handler(i)))
  /\ WF_pvars(Main) /\ WF_pvars(FireToken) /\ WF_pvars(RaiseFlag)

(* The exit code tells the truth about a run that came to its end.  If it  *)
(* was the token that ended it, the code is the signal's, although the     *)
(* thread and main run side by side; code 0 means that the store was       *)
(* closed cleanly and that the client had gone or left early; and every    *)
(* error either decides the code or is reported beside it.                 *)
ExitTruthful ==
  main = "exited" /\ torndown # "none" =>
    /\ result \in {"drained", "cancelled"} => exit.code = "signal"
    /\ exit.code = "zero" => torndown = "ok" /\ result \in {"eof", "disconnected"}
    /\ RunFailed => exit.code = "run" \/ "run" \in exit.shown
    /\ torndown = "failed" => exit.code = "teardown" \/ "teardown" \in exit.shown

(* A signal is obeyed: once it is recorded the process ends, wherever the  *)
(* reader, the handshake, a parked reply or a handler stood, provided the  *)
(* peer reads what is owed to it or has gone.                              *)
SignalEnds == signalled ~> ~Alive

(* A client that wrote a line whose id can be read is not left waiting for *)
(* ever: the line is answered, or the process ends, or the client has      *)
(* stopped reading.                                                        *)
Answered ==
  \A i \in Line :
    (pieces >= 2 * i /\ (sent[i].decode = "request" \/ OutOfBand(sent[i])))
      ~> (answers[i] # <<>> \/ peerGone \/ ~Alive)

=============================================================================
