---------------------------- MODULE McpTransport ----------------------------
(***************************************************************************)
(* The stdio transport of `unblock mcp`: the owned reader that scans every *)
(* line (wire.rs), the gate in front of the handshake (pre_handshake.rs)   *)
(* and the rate limit in front of the tools (server.rs), driven by rmcp's  *)
(* serve loop.  The loop polls receive() as one arm of an unbiased select  *)
(* and drops it whenever another arm wins; handlers run concurrently and a *)
(* cancellation token may stop everything at any step.                     *)
(***************************************************************************)
EXTENDS Naturals, Sequences, FiniteSets

CONSTANTS
  Streams,    \* what a client may write: sequences of frames
  MaxLines,   \* bound: lines of one stream
  Permits     \* max_concurrent_requests

Line == 1 .. MaxLines

(* What the properties tell apart in a line: what it decodes to, the       *)
(* method of a request, what the raw bytes say of the envelope's id,       *)
(* whether it is strict JSON, whether the duplicate-key scan is clean, and *)
(* whether the parameters keep the quotas.                                 *)
Decoded == {"request", "notification", "failed", "ignored", "blank"}
Method == {"initialize", "ping", "tools/call", "resources/read", "other"}
Frame == [decode : Decoded, method : Method,
          id : {"Absent", "Recovered", "Unusable"},
          json : BOOLEAN, clean : BOOLEAN, fits : BOOLEAN]

\* Only an id that decodes makes a line a request.
Input == {f \in Frame : f.decode = "request" => f.id = "Recovered"}

ASSUME StreamsAssumption ==
  /\ MaxLines \in Nat /\ Permits \in Nat
  /\ \A s \in Streams : s \in Seq(Input) /\ Len(s) <= MaxLines

\* A line whose head is missing or whose end was never written: not JSON.
Truncated == [decode |-> "failed", method |-> "other", id |-> "Absent",
              json |-> FALSE, clean |-> FALSE, fits |-> TRUE]

Reply == [code : {"result", "limited", "rejected", "invalid", "parse"}, id : BOOLEAN]
NoReply == [line |-> 0, reply |-> [code |-> "result", id |-> FALSE], state |-> "none"]
Parked == [line : Line, reply : Reply, state : {"writing", "done", "failed"}]

VARIABLES
  sent,         \* the lines the client writes
  pieces,       \* pieces written so far: line i is pieces 2i-1 and 2i
  eof,          \* the client has closed its side
  peerGone,     \* nobody reads what the server writes any more
  readPos,      \* pieces taken from the stream
  lineBuf,      \* DupScanningTransport.line_buf, as the pieces in it
  lineComplete, \* DupScanningTransport.line_complete
  parked,       \* DupScanningTransport.parked_reply
  at,           \* where the pending receive() waits
  answered,     \* PreHandshakeGateTransport.initialize_answered
  writeHalf,    \* DupScanningTransport.write: "open", or "taken" by close()
  answers,      \* what was written, by the line it answers
  phase,        \* rmcp: init, pinging, greeting, serving, closing, over
  result,       \* how the serve loop ended
  call,         \* the handler of each line
  cancelled,    \* McpServerOptions.cancel
  taken         \* history: the contents of line_buf, each time a line was handled

stream == <<sent, pieces, eof, peerGone>>
reader == <<readPos, lineBuf, lineComplete>>
loop   == <<phase, result>>
vars == <<stream, reader, parked, at, answered, writeHalf, answers, loop, call,
          cancelled, taken>>

Idle == [at |-> "none", code |-> "result"]

Init ==
  /\ sent \in Streams /\ pieces = 0 /\ eof = FALSE /\ peerGone = FALSE
  /\ readPos = 0 /\ lineBuf = <<>> /\ lineComplete = FALSE
  /\ parked = NoReply /\ at = "top"
  /\ answered = FALSE /\ writeHalf = "open"
  /\ answers = [i \in Line |-> <<>>]
  /\ phase = "init" /\ result = "none"
  /\ call = [i \in Line |-> Idle]
  /\ cancelled = FALSE /\ taken = <<>>

-----------------------------------------------------------------------------
(* The client.                                                             *)

\* Half a line; the client may stop anywhere.
WritePiece ==
  /\ ~eof /\ pieces < 2 * Len(sent)
  /\ pieces' = pieces + 1
  /\ UNCHANGED <<sent, eof, peerGone, reader, parked, at, answered, writeHalf,
                 answers, loop, call, cancelled, taken>>

\* The last line may lack its terminator only, or more than that.
CloseInput ==
  /\ ~eof /\ eof' = TRUE
  /\ \/ UNCHANGED sent
     \/ /\ pieces % 2 = 1
        /\ sent' = [sent EXCEPT ![(pieces + 1) \div 2] = Truncated]
  /\ UNCHANGED <<pieces, peerGone, reader, parked, at, answered, writeHalf, answers,
                 loop, call, cancelled, taken>>

PeerLeaves ==
  /\ ~peerGone /\ peerGone' = TRUE
  /\ UNCHANGED <<sent, pieces, eof, reader, parked, at, answered, writeHalf, answers,
                 loop, call, cancelled, taken>>

Cancel ==
  /\ ~cancelled /\ cancelled' = TRUE
  /\ UNCHANGED <<stream, reader, parked, at, answered, writeHalf, answers, loop,
                 call, taken>>

-----------------------------------------------------------------------------
(* The write half: one frame at a time under its mutex.                    *)

Writable == writeHalf = "open" /\ ~peerGone

WriteReply(i, r) == answers' = [answers EXCEPT ![i] = Append(@, r)]

\* The task of the parked reply: it runs on whatever becomes of receive().
WriteParked ==
  /\ parked.state = "writing"
  /\ \/ /\ Writable /\ WriteReply(parked.line, parked.reply)
        /\ parked' = [parked EXCEPT !.state = "done"]
     \/ /\ ~Writable /\ UNCHANGED answers
        /\ parked' = [parked EXCEPT !.state = "failed"]
  /\ UNCHANGED <<stream, reader, at, answered, writeHalf, loop, call, cancelled, taken>>

-----------------------------------------------------------------------------
(* receive(), from the outside in: clamp, gate, scan.                      *)

\* The line in the buffer, and what it decodes to.
LineOf(buf) == (buf[Len(buf)] + 1) \div 2
Decode(buf) ==
  LET i == LineOf(buf)
  IN  IF buf = <<2 * i - 1, 2 * i>> \/ (buf = <<2 * i - 1>> /\ eof)
      THEN sent[i] ELSE Truncated

\* receive() returns None: the handshake fails, or the serve loop ends.
EndRead ==
  /\ at' = "none"
  /\ \/ phase = "init" /\ phase' = "over" /\ result' = "disconnected"
     \/ phase = "serving" /\ phase' = "closing" /\ result' = "eof"

\* Faulty: the loop goes on while the reply is being written.
SettledAtOnce == TRUE

\* The parked task has ended, or there is none.
Settled == parked.state # "writing"

\* Faulty: the line that was handled stays in front of the next one.
ClearLineNever(buf, complete) == buf

\* Faulty: a line that a dropped call half read is thrown away.
ClearLineAlways(buf, complete) == <<>>

ClearLine(buf, complete) == IF complete THEN <<>> ELSE buf

\* The head of the loop: the parked reply is settled first, then the buffer
\* is cleared unless it holds the head of a line a dropped call left in it.
LoopHead ==
  /\ at = "top" /\ Settled
  /\ parked' = NoReply
  /\ \/ /\ parked.state = "failed"
        /\ EndRead
        /\ UNCHANGED <<lineBuf, lineComplete>>
     \/ /\ parked.state # "failed"
        /\ at' = "read"
        /\ lineBuf' = ClearLine(lineBuf, lineComplete)
        /\ lineComplete' = FALSE
        /\ UNCHANGED loop
  /\ UNCHANGED <<stream, readPos, answered, writeHalf, answers, call, cancelled, taken>>

\* read_until takes the first half of a line and waits for the rest.
FillHead ==
  /\ at = "read" /\ readPos < pieces /\ readPos % 2 = 0
  /\ readPos' = readPos + 1
  /\ lineBuf' = Append(lineBuf, readPos + 1)
  /\ UNCHANGED <<stream, lineComplete, parked, at, answered, writeHalf, answers, loop,
                 call, cancelled, taken>>

Park(i, code, id) ==
  /\ parked' = [line |-> i, reply |-> [code |-> code, id |-> id], state |-> "writing"]
  /\ at' = "top"
  /\ UNCHANGED <<loop, call>>

\* parse_error_reply_id: the recovered id, of strict JSON only.
ParseErrorId(f) == f.json /\ f.id = "Recovered"

\* A notification whose raw bytes carry an id: answered here and dropped.
UndecodableId(f) == f.decode = "notification" /\ f.id # "Absent"

Passes(f) == f.decode = "request" /\ f.method \in {"initialize", "ping"}

\* rmcp's half: what happens to the frame receive() returned.
Deliver(i, f) ==
  /\ UNCHANGED parked
  /\ \/ /\ phase = "init" /\ f.decode = "request" /\ f.method = "initialize"
        /\ phase' = "greeting" /\ at' = "none" /\ UNCHANGED <<result, call>>
     \/ /\ phase = "init" /\ f.decode = "request" /\ f.method = "ping"
        /\ phase' = "pinging" /\ at' = "none" /\ UNCHANGED <<result, call>>
     \/ /\ phase = "init" /\ ~Passes(f)
        /\ phase' = "over" /\ result' = "expected_initialize" /\ at' = "none"
        /\ UNCHANGED call
     \/ /\ phase = "serving" /\ at' = "top" /\ UNCHANGED loop
        /\ call' = IF f.decode = "request"
                   THEN [call EXCEPT ![i].at = "running"] ELSE call

\* Faulty: a premature request is dropped like a notification.
GateDropping(i, f) ==
  \/ (answered \/ Passes(f)) /\ Deliver(i, f)
  \/ /\ ~answered /\ ~Passes(f)
     /\ at' = "top" /\ UNCHANGED <<parked, loop, call>>

\* PreHandshakeGateTransport::receive, for a frame the scanner returned.
Gate(i, f) ==
  \/ (answered \/ Passes(f)) /\ Deliver(i, f)
  \/ /\ ~answered /\ f.decode = "request" /\ ~Passes(f)
     /\ at' = "gate" /\ UNCHANGED <<parked, loop, call>>
  \/ /\ ~answered /\ f.decode # "request"
     /\ at' = "top" /\ UNCHANGED <<parked, loop, call>>

\* A whole line: everything up to the next wait happens in one poll.
HandleLine(buf) ==
  LET i == LineOf(buf)
      f == Decode(buf)
  IN  /\ lineComplete' = TRUE
      /\ taken' = Append(taken, buf)
      /\ \/ /\ f.decode \in {"blank", "ignored"}
            /\ at' = "top" /\ UNCHANGED <<parked, loop, call>>
         \/ f.decode = "failed" /\ Park(i, "parse", ParseErrorId(f))
         \/ UndecodableId(f) /\ Park(i, "invalid", f.id = "Recovered")
         \/ /\ f.decode \in {"request", "notification"} /\ ~UndecodableId(f)
            /\ Gate(i, f)

FillLine ==
  /\ at = "read" /\ readPos < pieces /\ readPos % 2 = 1
  /\ readPos' = readPos + 1
  /\ lineBuf' = Append(lineBuf, readPos + 1)
  /\ HandleLine(lineBuf')
  /\ UNCHANGED <<stream, answered, writeHalf, answers, cancelled>>

\* End of input: what is left in the buffer is the last line.
ReadEof ==
  /\ at = "read" /\ eof /\ readPos = pieces
  /\ \/ /\ lineBuf = <<>> /\ EndRead
        /\ UNCHANGED <<lineBuf, lineComplete, parked, call, taken>>
     \/ lineBuf # <<>> /\ HandleLine(lineBuf) /\ UNCHANGED lineBuf
  /\ UNCHANGED <<stream, readPos, answered, writeHalf, answers, cancelled>>

\* A failed read abandons the line that was half read.
ReadFails ==
  /\ at = "read" /\ lineComplete' = TRUE /\ EndRead
  /\ UNCHANGED <<stream, readPos, lineBuf, parked, answered, writeHalf, answers, call,
                 cancelled, taken>>

\* The gate answers a premature request, inside receive().
GateReply ==
  /\ at = "gate"
  /\ \/ /\ Writable /\ at' = "top" /\ UNCHANGED loop
        /\ WriteReply(LineOf(lineBuf), [code |-> "invalid", id |-> TRUE])
     \/ ~Writable /\ EndRead /\ UNCHANGED answers
  /\ UNCHANGED <<stream, reader, parked, answered, writeHalf, call, cancelled, taken>>

-----------------------------------------------------------------------------
(* rmcp's serve loop.                                                      *)

\* Faulty: any reply opens the latch.
CompletesOnAnyReply(method) == TRUE

\* The latch: an InitializeResult opens it, the reply to a ping does not.
CompletesTheHandshake(method) == method = "initialize"

\* The two replies of the handshake; nothing is read while they are written.
HandshakeReply ==
  \E m \in {"initialize", "ping"} :
    /\ phase = IF m = "initialize" THEN "greeting" ELSE "pinging"
    /\ answered' = (answered \/ CompletesTheHandshake(m))
    /\ \/ /\ Writable
          /\ WriteReply(LineOf(lineBuf), [code |-> "result", id |-> TRUE])
          /\ phase' = IF m = "initialize" THEN "serving" ELSE "init"
          /\ at' = "top" /\ UNCHANGED result
       \/ /\ ~Writable /\ UNCHANGED <<answers, at>>
          /\ phase' = "over" /\ result' = "write_failed"
    /\ UNCHANGED <<stream, reader, parked, writeHalf, call, cancelled, taken>>

\* A handler has finished and its arm wins: receive() is dropped where it
\* stands and called again, and the reply is sent by a task.
Respond(i) ==
  /\ phase = "serving" /\ call[i].at = "answering"
  /\ call' = [call EXCEPT ![i].at = "sending"]
  /\ at' = "top"
  /\ UNCHANGED <<stream, reader, parked, answered, writeHalf, answers, loop, cancelled,
                 taken>>

SendResponse(i) ==
  /\ call[i].at = "sending"
  /\ call' = [call EXCEPT ![i].at = "done"]
  /\ \/ Writable /\ WriteReply(i, [code |-> call[i].code, id |-> TRUE])
     \/ ~Writable /\ UNCHANGED answers
  /\ UNCHANGED <<stream, reader, parked, at, answered, writeHalf, loop, cancelled, taken>>

\* The token's arm.  Before the handshake is over the transport is dropped
\* without close(); a parked reply's task is on its own then.
ObserveCancel ==
  /\ cancelled /\ phase \in {"init", "pinging", "greeting", "serving"}
  /\ at' = "none"
  /\ \/ phase = "serving" /\ phase' = "closing" /\ result' = "drained"
     \/ phase # "serving" /\ phase' = "over" /\ result' = "cancelled"
  /\ UNCHANGED <<stream, reader, parked, answered, writeHalf, answers, call, cancelled,
                 taken>>

\* close(): the parked reply first, then the write half is taken.
Close ==
  /\ phase = "closing" /\ Settled
  /\ parked' = NoReply /\ writeHalf' = "taken"
  /\ phase' = "over"
  /\ UNCHANGED <<stream, reader, at, answered, answers, result, call, cancelled, taken>>

-----------------------------------------------------------------------------
(* The handlers.                                                           *)

Limited(m) == m \in {"tools/call", "resources/read"}
Executing == {i \in Line : call[i].at = "executing"}

\* Faulty: the verdict of the duplicate-key scan is not asked for.
AcceptedUnscanned(f) == f.method = "tools/call" => f.fits

\* frame_scan_gate and enforce_request_quota guard the tools alone.
Accepted(f) == f.method = "tools/call" => f.clean /\ f.fits

SetCall(i, where, code) == call' = [call EXCEPT ![i] = [at |-> where, code |-> code]]

StartCall(i) ==
  /\ call[i].at = "running"
  /\ LET f == sent[i]
         free == Cardinality(Executing) < Permits
     IN  \/ ~Limited(f.method) /\ SetCall(i, "answering", "result")
         \/ Limited(f.method) /\ ~free /\ SetCall(i, "answering", "limited")
         \/ Limited(f.method) /\ free /\ ~Accepted(f) /\ SetCall(i, "answering", "rejected")
         \/ Limited(f.method) /\ free /\ Accepted(f) /\ SetCall(i, "executing", "result")
  /\ UNCHANGED <<stream, reader, parked, at, answered, writeHalf, answers, loop,
                 cancelled, taken>>

FinishCall(i) ==
  /\ call[i].at = "executing" /\ SetCall(i, "answering", "result")
  /\ UNCHANGED <<stream, reader, parked, at, answered, writeHalf, answers, loop,
                 cancelled, taken>>

-----------------------------------------------------------------------------

Client == WritePiece \/ CloseInput \/ PeerLeaves
Receive == LoopHead \/ FillHead \/ FillLine \/ ReadEof \/ GateReply
Serve == HandshakeReply \/ Close \/ \E i \in Line : Respond(i)
Handler(i) == StartCall(i) \/ FinishCall(i) \/ SendResponse(i)

\* Everything the server does by itself, and what can go wrong with it.
Server ==
  \/ Receive \/ ReadFails \/ WriteParked \/ Serve \/ ObserveCancel
  \/ \E i \in Line : Handler(i)

Next == Client \/ Server \/ Cancel
Spec == Init /\ [][Next]_vars

-----------------------------------------------------------------------------
(* Properties.                                                             *)

TypeOK ==
  /\ sent \in Seq(Input) /\ Len(sent) <= MaxLines
  /\ pieces \in 0 .. 2 * Len(sent) /\ readPos \in 0 .. pieces
  /\ eof \in BOOLEAN /\ peerGone \in BOOLEAN /\ lineComplete \in BOOLEAN
  /\ lineBuf \in {<<>>, <<readPos>>, <<readPos - 1, readPos>>}
  /\ parked \in Parked \cup {NoReply}
  /\ at \in {"none", "top", "read", "gate"}
  /\ answered \in BOOLEAN /\ cancelled \in BOOLEAN
  /\ writeHalf \in {"open", "taken"}
  /\ answers \in [Line -> Seq(Reply)]
  /\ phase \in {"init", "pinging", "greeting", "serving", "closing", "over"}
  /\ result \in {"none", "eof", "drained", "cancelled", "disconnected", "write_failed",
                 "expected_initialize"}
  /\ call \in [Line -> [at : {"none", "running", "executing", "answering", "sending", "done"},
                        code : {"result", "limited", "rejected"}]]
  /\ taken \in Seq(Seq(1 .. 2 * MaxLines))

(* However often receive() is dropped, and wherever it stood: the lines    *)
(* are handled in their order, each one once, and each one whole, except   *)
(* that the last one may lack the terminator the client never wrote.       *)
LinesWhole ==
  \A i \in 1 .. Len(taken) :
    \/ taken[i] = <<2 * i - 1, 2 * i>>
    \/ taken[i] = <<2 * i - 1>> /\ eof /\ pieces = 2 * i - 1

\* The transport owes line i an answer of its own.
OutOfBand(f) == f.decode = "failed" \/ UndecodableId(f)

(* A line the transport answers by itself is answered before the next byte *)
(* is read and before close() takes the write half, although the reply is  *)
(* written by a task of its own and receive() may be dropped meanwhile;    *)
(* only a peer that has gone is spared the reply.                          *)
ReplyBeforeNextRead ==
  \A i \in 1 .. Len(taken) :
    OutOfBand(sent[i]) /\ (readPos > 2 * i \/ at = "read" \/ writeHalf = "taken") =>
      answers[i] # <<>> \/ peerGone

(* No sequence of frames ends the process: before the server has answered  *)
(* initialize rmcp is handed nothing but initialize and ping, and what it  *)
(* serves was read after that.                                             *)
HandshakeHolds == result # "expected_initialize"

(* Every line is treated in one way only.  It is answered at most once; an *)
(* answer carries the line's id exactly if that can be read; a line which  *)
(* the transport or the gate answers is never dispatched, one that expects *)
(* no answer gets none; and what a tool executes was scanned clean.        *)
OneAnswer ==
  \A i \in 1 .. Len(sent) :
    LET f == sent[i]
    IN  /\ Len(answers[i]) <= 1
        /\ \A k \in 1 .. Len(answers[i]) :
             /\ f.decode = "request" \/ OutOfBand(f)
             /\ answers[i][k].id <=>
                  (IF f.decode = "failed" THEN ParseErrorId(f) ELSE f.id = "Recovered")
        /\ call[i].at # "none" =>
             f.decode = "request" /\ \A k \in 1 .. Len(answers[i]) : call[i].at = "done"
        /\ call[i].at = "executing" /\ f.method = "tools/call" => f.clean

=============================================================================
