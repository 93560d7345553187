--------------------------- MODULE McpProcessProof ---------------------------
(***************************************************************************)
(* Theorems about McpTransport and McpProcess, for any lines a client may  *)
(* write and any limit on concurrent calls.  The process refines the       *)
(* transport, so what is proved of the transport alone holds of both.      *)
(***************************************************************************)
EXTENDS McpProcess, SequenceTheorems, FiniteSetTheorems, TLAPS

\* Which loop reads, what its latch says, and what the parked reply is.
Place ==
  /\ at = "none" <=> phase \notin {"init", "serving"}
  /\ phase \in {"init", "pinging", "greeting"} => ~answered
  /\ phase = "serving" => answered
  /\ at = "gate" => phase = "init"
  /\ HandshakeHolds
  /\ at \in {"read", "gate"} \/ phase \in {"pinging", "greeting"} => parked = NoReply
  /\ parked.state = "writing" => writeHalf = "open"
  /\ parked.state = "failed" => peerGone
  /\ writeHalf = "taken" => phase = "over"

\* The buffer after n lines and pos pieces: nothing, after whole lines or
\* after the last one; the head of a line; or the line that was handled.
Buffered(n, pos, buf, complete) ==
  \/ ~complete /\ buf = <<>> /\ pos = 2 * n
  \/ ~complete /\ buf = <<>> /\ pos + 1 = 2 * n /\ eof /\ pieces = pos
  \/ ~complete /\ buf = <<pos>> /\ pos = 2 * n + 1
  \/ complete /\ n > 0 /\ buf = <<pos - 1, pos>> /\ pos = 2 * n
  \/ complete /\ n > 0 /\ buf = <<pos>> /\ pos + 1 = 2 * n /\ eof /\ pieces = pos

Buffer ==
  /\ at = "read" => ~lineComplete
  /\ at = "gate" \/ phase \in {"pinging", "greeting"} => lineComplete
  /\ 2 * Len(taken) <= readPos \/ (eof /\ readPos = pieces /\ 2 * Len(taken) = readPos + 1)
  /\ phase \in {"closing", "over"} \/ Buffered(Len(taken), readPos, lineBuf, lineComplete)
  /\ LinesWhole

\* The id an answer to a line has to carry.
HasId(f) == IF f.decode = "failed" THEN ParseErrorId(f) ELSE f.id = "Recovered"

Unanswered(i) == answers[i] = <<>> /\ call[i].at = "none"

\* A line that is not handled is untouched; one that is has one answer at
\* most, which nobody but its call still owes, or the parked reply.
LineInv(i) ==
  /\ i > Len(taken) => Unanswered(i)
  /\ answers[i] = <<>>
       \/ /\ Len(answers[i]) = 1
          /\ sent[i].decode = "request" \/ OutOfBand(sent[i])
          /\ answers[i][1].id <=> HasId(sent[i])
  /\ call[i].at # "none" => sent[i].decode = "request"
  /\ call[i].at \in {"running", "executing", "answering", "sending"} => answers[i] = <<>>
  /\ call[i].at = "executing" /\ sent[i].method = "tools/call" => sent[i].clean
  /\ i <= Len(taken) /\ OutOfBand(sent[i]) =>
       answers[i] # <<>> \/ peerGone \/ (parked.state = "writing" /\ i = Len(taken))

Lines == \A i \in Line : LineInv(i)

\* The last line, while the handshake, the gate or the parked reply owes it.
Pending ==
  /\ at = "gate" \/ phase \in {"pinging", "greeting"} =>
       Len(taken) > 0 /\ Unanswered(Len(taken)) /\ sent[Len(taken)].decode = "request"
  /\ parked.state = "writing" =>
       /\ Len(taken) > 0 /\ Unanswered(Len(taken)) /\ OutOfBand(sent[Len(taken)])
       /\ parked.line = Len(taken) /\ readPos <= 2 * Len(taken)
       /\ parked.reply.id <=> HasId(sent[Len(taken)])

TInv == TypeOK /\ Place /\ Buffer /\ Lines /\ Pending

-----------------------------------------------------------------------------
(* Sequences and halves.                                                   *)

LEMMA Appends ==
  ASSUME NEW x, NEW y
  PROVE  Append(<<>>, x) = <<x>> /\ Append(<<x>>, y) = <<x, y>>
<1> DEFINE S == {x, y}
<1>1. <<>> \in Seq(S) /\ <<x>> \in Seq(S) /\ <<x, y>> \in Seq(S)
  OBVIOUS
<1>2. Append(<<>>, x) \in Seq(S) /\ Append(<<x>>, y) \in Seq(S)
  BY <1>1, AppendProperties
<1>3. Append(<<>>, x) = <<x>>
  <2>1. Len(Append(<<>>, x)) = 1 /\ Len(<<x>>) = 1
    BY <1>1, AppendProperties
  <2>2. \A i \in 1 .. Len(<<x>>) : Append(<<>>, x)[i] = <<x>>[i]
    BY <1>1, <2>1, AppendProperties
  <2> QED BY <1>1, <1>2, <2>1, <2>2, SeqEqual
<1>4. Append(<<x>>, y) = <<x, y>>
  <2>1. Len(Append(<<x>>, y)) = 2 /\ Len(<<x, y>>) = 2
    BY <1>1, AppendProperties
  <2>2. Append(<<x>>, y)[1] = x /\ Append(<<x>>, y)[2] = y
    BY <1>1, AppendProperties
  <2>3. \A i \in 1 .. Len(<<x, y>>) : Append(<<x>>, y)[i] = <<x, y>>[i]
    BY <2>1, <2>2
  <2> QED BY <1>1, <1>2, <2>1, <2>3, SeqEqual
<1> QED BY <1>3, <1>4

LEMMA Lens ==
  ASSUME NEW x, NEW y
  PROVE  /\ Len(<<>>) = 0 /\ Len(<<x>>) = 1 /\ Len(<<x, y>>) = 2
         /\ <<>> # <<x>> /\ <<>> # <<x, y>> /\ <<x>> # <<x, y>>
         /\ <<x>>[1] = x /\ <<x, y>>[1] = x /\ <<x, y>>[2] = y
  OBVIOUS

LEMMA Halves ==
  ASSUME NEW n \in Nat
  PROVE  /\ (2 * n + 1) \div 2 = n /\ (2 * n) \div 2 = n
         /\ (2 * n) % 2 = 0 /\ (2 * n + 1) % 2 = 1
  OBVIOUS

LEMMA LineNumber ==
  ASSUME NEW n \in Nat \ {0}
  PROVE  LineOf(<<2 * n - 1, 2 * n>>) = n /\ LineOf(<<2 * n - 1>>) = n
  BY Halves DEF LineOf

\* A line that the client has closed early stays a line.
LEMMA Overwritten ==
  ASSUME NEW S, NEW s \in Seq(S), NEW j \in 1 .. Len(s), NEW e \in S
  PROVE  /\ [s EXCEPT ![j] = e] \in Seq(S) /\ Len([s EXCEPT ![j] = e]) = Len(s)
         /\ \A i \in 1 .. Len(s) : i # j => [s EXCEPT ![j] = e][i] = s[i]
  OBVIOUS

-----------------------------------------------------------------------------
(* Handling a line.                                                        *)

LEMMA Counts ==
  ASSUME TInv
  PROVE  /\ MaxLines \in Nat /\ Len(taken) \in Nat /\ Len(sent) \in Nat
         /\ pieces \in Nat /\ readPos \in Nat /\ readPos <= pieces
         /\ pieces <= 2 * Len(sent) /\ Len(sent) <= MaxLines
         /\ 2 * Len(taken) <= readPos + 1 /\ Len(taken) <= Len(sent)
         /\ \A i \in 1 .. Len(sent) : i \in Line /\ sent[i] \in Input
<1>1. /\ sent \in Seq(Input) /\ taken \in Seq(Seq(1 .. 2 * MaxLines))
      /\ MaxLines \in Nat
  BY StreamsAssumption DEF TInv, TypeOK
<1>2. Len(sent) \in Nat /\ Len(taken) \in Nat
  BY <1>1, LenProperties
<1>3. /\ pieces \in 0 .. 2 * Len(sent) /\ readPos \in 0 .. pieces
      /\ Len(sent) <= MaxLines
      /\ 2 * Len(taken) <= readPos \/ 2 * Len(taken) = readPos + 1
  BY DEF TInv, TypeOK, Buffer
<1>4. /\ pieces \in Nat /\ readPos \in Nat /\ readPos <= pieces
      /\ pieces <= 2 * Len(sent)
  BY <1>2, <1>3
<1>5. \A i \in 1 .. Len(sent) : i \in Line /\ sent[i] \in Input
  BY <1>1, <1>2, <1>3, ElementOfSeq DEF Line
<1> QED BY <1>1, <1>2, <1>3, <1>4, <1>5

\* What the scan, the gate and rmcp between them make of line i.
Outcome(i) ==
  \/ /\ at' = "top" /\ UNCHANGED <<parked, loop, call>>
     /\ ~OutOfBand(sent[i]) /\ sent[i].decode # "request"
  \/ /\ at' = "top" /\ UNCHANGED <<loop, call>> /\ OutOfBand(sent[i])
     /\ \E c \in {"invalid", "parse"}, id \in BOOLEAN :
          /\ id <=> HasId(sent[i])
          /\ parked' = [line |-> i, reply |-> [code |-> c, id |-> id],
                        state |-> "writing"]
  \/ /\ at' = "gate" /\ phase = "init" /\ sent[i].decode = "request"
     /\ UNCHANGED <<parked, loop, call>>
  \/ /\ at' = "none" /\ phase = "init" /\ sent[i].decode = "request"
     /\ phase' \in {"greeting", "pinging"} /\ UNCHANGED <<parked, result, call>>
  \/ /\ at' = "top" /\ phase = "serving" /\ sent[i].decode = "request"
     /\ call' = [call EXCEPT ![i].at = "running"] /\ UNCHANGED <<parked, loop>>

\* The buffer holds the next line.
NextLine(buf, n) ==
  \/ buf = <<2 * n - 1, 2 * n>> /\ 2 * n <= pieces
  \/ buf = <<2 * n - 1>> /\ eof /\ pieces = 2 * n - 1

LEMMA HandleOutcome ==
  ASSUME TInv, at = "read", NEW buf, HandleLine(buf), NEW n \in Nat,
         n = Len(taken) + 1, NextLine(buf, n)
  PROVE  /\ Outcome(n) /\ n \in 1 .. Len(sent) /\ n \in Line
         /\ taken' = Append(taken, buf) /\ lineComplete' = TRUE
<1>1. n \in 1 .. Len(sent) /\ n \in Line /\ sent[n] \in Input
  BY Counts DEF NextLine
<1>2. LineOf(buf) = n /\ Decode(buf) = sent[n]
  <2>1. n \in Nat \ {0}
    BY <1>1
  <2> QED BY <2>1, LineNumber DEF NextLine, Decode
<1> DEFINE f == sent[n]
<1>3. phase \in {"init", "serving"} /\ (phase = "init" => ~answered)
  BY DEF TInv, Place, TypeOK
<1>4. /\ f.decode \in {"request", "notification", "failed", "ignored", "blank"}
      /\ f.id \in {"Absent", "Recovered", "Unusable"} /\ f.json \in BOOLEAN
      /\ f.decode = "request" => f.id = "Recovered"
  BY <1>1 DEF Input, Frame, Decoded
<1>5. ASSUME NEW c \in {"invalid", "parse"}, NEW id \in BOOLEAN, id <=> HasId(f),
             Park(n, c, id), OutOfBand(f)
      PROVE  Outcome(n)
  BY <1>5 DEF Park, Outcome, loop
<1>6. ASSUME Deliver(n, f), answered \/ Passes(f), ~OutOfBand(f)
      PROVE  Outcome(n)
  <2>1. CASE phase = "init"
    BY <1>3, <1>6, <2>1 DEF Deliver, Outcome, Passes
  <2>2. CASE phase = "serving"
    BY <1>6, <2>2 DEF Deliver, Outcome
  <2> QED BY <1>3, <2>1, <2>2
<1>7. ASSUME Gate(n, f), ~OutOfBand(f)
      PROVE  Outcome(n)
  <2>1. CASE (answered \/ Passes(f)) /\ Deliver(n, f)
    BY <1>6, <1>7, <2>1
  <2>2. CASE /\ ~answered /\ f.decode = "request" /\ at' = "gate"
             /\ UNCHANGED <<parked, loop, call>>
    <3>1. phase = "init"
      BY <1>3, <2>2 DEF TInv, Place
    <3> QED BY <2>2, <3>1 DEF Outcome
  <2>3. CASE f.decode # "request" /\ at' = "top" /\ UNCHANGED <<parked, loop, call>>
    BY <1>7, <2>3 DEF Outcome
  <2> QED BY <1>7, <2>1, <2>2, <2>3 DEF Gate
<1>8. taken' = Append(taken, buf) /\ lineComplete' = TRUE
  BY DEF HandleLine
<1>9. CASE f.decode \in {"blank", "ignored"} /\ at' = "top" /\ UNCHANGED <<parked, loop, call>>
  <2>1. ~OutOfBand(f)
    BY <1>9 DEF OutOfBand, UndecodableId
  <2> QED BY <1>1, <1>8, <1>9, <2>1 DEF Outcome
<1>10. CASE f.decode = "failed" /\ Park(n, "parse", ParseErrorId(f))
  <2>1. OutOfBand(f) /\ ParseErrorId(f) \in BOOLEAN /\ (ParseErrorId(f) <=> HasId(f))
    BY <1>4, <1>10 DEF OutOfBand, ParseErrorId, HasId
  <2> QED BY <1>1, <1>5, <1>8, <1>10, <2>1
<1>11. CASE UndecodableId(f) /\ Park(n, "invalid", f.id = "Recovered")
  <2>1. /\ OutOfBand(f) /\ (f.id = "Recovered") \in BOOLEAN
        /\ (f.id = "Recovered") <=> HasId(f)
    BY <1>11 DEF OutOfBand, UndecodableId, HasId
  <2> QED BY <1>1, <1>5, <1>8, <1>11, <2>1
<1>12. CASE /\ f.decode \in {"request", "notification"} /\ ~UndecodableId(f)
            /\ Gate(n, f)
  <2>1. ~OutOfBand(f)
    BY <1>12 DEF OutOfBand
  <2> QED BY <1>1, <1>7, <1>8, <1>12, <2>1
<1> QED BY <1>2, <1>9, <1>10, <1>11, <1>12 DEF HandleLine

\* The history, one line longer.
LEMMA Taken ==
  ASSUME TInv, NEW buf, NEW n \in Nat, n = Len(taken) + 1, n <= MaxLines,
         NextLine(buf, n), taken' = Append(taken, buf),
         UNCHANGED <<pieces, eof>>
  PROVE  /\ taken' \in Seq(Seq(1 .. 2 * MaxLines)) /\ Len(taken') = n
         /\ LinesWhole'
<1>1. taken \in Seq(Seq(1 .. 2 * MaxLines)) /\ MaxLines \in Nat /\ LinesWhole
  BY Counts DEF TInv, TypeOK, Buffer
<1>2. buf \in Seq(1 .. 2 * MaxLines)
  <2>1. n > 0
    BY Counts
  <2>2. 2 * n - 1 \in 1 .. 2 * MaxLines /\ 2 * n \in 1 .. 2 * MaxLines
    BY <1>1, <2>1
  <2>3. \A S : \A x, y \in S : <<x>> \in Seq(S) /\ <<x, y>> \in Seq(S)
    OBVIOUS
  <2>4. <<2 * n - 1>> \in Seq(1 .. 2 * MaxLines)
    BY <2>2, <2>3
  <2>5. <<2 * n - 1, 2 * n>> \in Seq(1 .. 2 * MaxLines)
    BY <2>2, <2>3
  <2> QED BY <2>4, <2>5 DEF NextLine
<1>3. /\ taken' \in Seq(Seq(1 .. 2 * MaxLines)) /\ Len(taken') = n /\ taken'[n] = buf
      /\ \A i \in 1 .. Len(taken) : taken'[i] = taken[i]
  BY <1>1, <1>2, AppendProperties
<1>4. ASSUME NEW i \in 1 .. n
      PROVE  \/ taken'[i] = <<2 * i - 1, 2 * i>>
             \/ taken'[i] = <<2 * i - 1>> /\ eof /\ pieces = 2 * i - 1
  <2>1. CASE i = n
    BY <1>3, <2>1 DEF NextLine
  <2>2. CASE i # n
    <3>1. i \in 1 .. Len(taken)
      BY <2>2, Counts
    <3> QED BY <1>1, <1>3, <3>1 DEF LinesWhole
  <2> QED BY <2>1, <2>2
<1> QED BY <1>3, <1>4 DEF LinesWhole

LEMMA HandleStep ==
  ASSUME TInv, at = "read", NEW buf, HandleLine(buf), NEW n \in Nat,
         n = Len(taken) + 1, NextLine(buf, n), lineBuf' = buf,
         readPos' = IF buf = <<2 * n - 1, 2 * n>> THEN 2 * n ELSE 2 * n - 1,
         UNCHANGED <<stream, answered, writeHalf, answers, cancelled>>
  PROVE  TInv'
<1>1. /\ Outcome(n) /\ n \in 1 .. Len(sent) /\ n \in Line
      /\ taken' = Append(taken, buf) /\ lineComplete' = TRUE
  BY HandleOutcome
<1>2. /\ taken' \in Seq(Seq(1 .. 2 * MaxLines)) /\ Len(taken') = n /\ LinesWhole'
  BY <1>1, Taken DEF stream, Line
<1>3. /\ Unanswered(n) /\ parked = NoReply /\ phase \in {"init", "serving"}
      /\ (phase = "init" <=> ~answered) /\ writeHalf = "open"
  <2>1. phase \in {"init", "serving"}
    BY DEF TInv, Place, TypeOK
  <2>2. writeHalf = "open"
    BY <2>1 DEF TInv, Place, TypeOK
  <2>3. Unanswered(n)
    BY <1>1, Counts DEF TInv, Lines, LineInv
  <2> QED BY <2>1, <2>2, <2>3 DEF TInv, Place, TypeOK
<1>4. /\ Buffered(Len(taken), readPos, lineBuf, lineComplete)'
      /\ readPos' \in 0 .. pieces /\ n > 0
      /\ lineBuf' \in {<<>>, <<readPos'>>, <<readPos' - 1, readPos'>>}
      /\ 2 * n <= readPos' \/ (eof /\ readPos' = pieces /\ 2 * n = readPos' + 1)
  <2>1. n > 0 /\ pieces \in Nat /\ eof' = eof /\ pieces' = pieces
    BY <1>1, Counts DEF stream
  <2>2. CASE buf = <<2 * n - 1, 2 * n>> /\ 2 * n <= pieces
    <3>1. readPos' = 2 * n /\ lineBuf' = <<readPos' - 1, readPos'>>
      BY <2>2
    <3>2. readPos' \in 0 .. pieces
      BY <2>1, <2>2, <3>1
    <3> QED BY <1>1, <1>2, <2>1, <3>1, <3>2 DEF Buffered
  <2>3. CASE buf = <<2 * n - 1>> /\ eof /\ pieces = 2 * n - 1
    <3>1. readPos' = 2 * n - 1 /\ lineBuf' = <<readPos'>>
      BY <2>3, Lens
    <3>2. readPos' \in 0 .. pieces /\ readPos' + 1 = 2 * n /\ readPos' = pieces
      BY <2>1, <2>3, <3>1
    <3> QED BY <1>1, <1>2, <2>1, <2>3, <3>1, <3>2 DEF Buffered
  <2> QED BY <2>2, <2>3 DEF NextLine
<1>5. TypeOK'
  <2>1. parked' \in Parked \cup {NoReply}
    BY <1>1, <1>3 DEF Outcome, Parked, Reply
  <2>2. call' \in [Line -> [at : {"none", "running", "executing", "answering", "sending", "done"},
                            code : {"result", "limited", "rejected"}]]
    BY <1>1 DEF Outcome, TInv, TypeOK
  <2>3. at' \in {"none", "top", "read", "gate"}
    BY <1>1 DEF Outcome
  <2>4. /\ phase' \in {"init", "pinging", "greeting", "serving", "closing", "over"}
        /\ result' = result
    BY <1>1, <1>3 DEF Outcome, loop
  <2> QED BY <1>1, <1>2, <1>4, <2>1, <2>2, <2>3, <2>4 DEF TInv, TypeOK, stream
<1>6. Place'
  BY <1>1, <1>3 DEF Outcome, loop, stream, TInv, Place, HandshakeHolds, NoReply
<1>7. Buffer'
  <2>1. at' # "read"
    BY <1>1 DEF Outcome
  <2> QED BY <1>1, <1>2, <1>4, <2>1 DEF Buffer, stream
<1>8. Lines'
  <2> SUFFICES ASSUME NEW i \in Line PROVE LineInv(i)'
    BY DEF Lines
  <2>1. LineInv(i) /\ sent' = sent /\ answers' = answers /\ peerGone' = peerGone
    BY DEF TInv, Lines, stream
  <2>2. i # n => call'[i] = call[i]
    BY <1>1 DEF Outcome, TInv, TypeOK
  <2>3. CASE i # n
    <3>1. i \in Nat
      BY DEF Line
    <3>2. i > n => i > Len(taken)
      BY <3>1, Counts
    <3>3. i <= n => i <= Len(taken)
      BY <2>3, <3>1, Counts
    <3>4. parked.state # "writing"
      BY <1>3 DEF NoReply
    <3> QED BY <1>2, <2>1, <2>2, <2>3, <3>2, <3>3, <3>4
         DEF LineInv, Unanswered, OutOfBand, UndecodableId, HasId, ParseErrorId
  <2>4. CASE i = n
    <3>1. answers[n] = <<>> /\ call[n].at = "none"
      BY <1>3 DEF Unanswered
    <3>2. call'[n].at # "none" => sent[n].decode = "request" /\ call'[n].at = "running"
      BY <1>1, <3>1 DEF Outcome, TInv, TypeOK
    <3>3. OutOfBand(sent[n]) => parked'.state = "writing"
      BY <1>1 DEF Outcome, OutOfBand, UndecodableId
    <3> QED BY <1>2, <2>1, <2>4, <3>1, <3>2, <3>3 DEF LineInv, OutOfBand, UndecodableId
  <2> QED BY <2>3, <2>4
<1>9. Pending'
  <2>1. n > 0 /\ readPos' <= 2 * n
    BY <1>1
  <2>2. at' = "gate" \/ phase' \in {"pinging", "greeting"} =>
          sent[n].decode = "request" /\ call' = call
    BY <1>1, <1>3 DEF Outcome, loop
  <2>3. parked'.state = "writing" =>
          /\ OutOfBand(sent[n]) /\ parked'.line = n /\ call' = call
          /\ parked'.reply.id <=> HasId(sent[n])
    BY <1>1, <1>3 DEF Outcome, NoReply
  <2>4. sent' = sent /\ answers' = answers
    BY DEF stream
  <2> QED BY <1>2, <1>3, <2>1, <2>2, <2>3, <2>4
       DEF Pending, Unanswered, OutOfBand, UndecodableId, HasId, ParseErrorId
<1> QED BY <1>5, <1>6, <1>7, <1>8, <1>9 DEF TInv

LEMMA FillLineStep ==
  ASSUME TInv, FillLine
  PROVE  TInv'
<1>1. /\ at = "read" /\ readPos < pieces /\ readPos % 2 = 1
      /\ readPos' = readPos + 1 /\ lineBuf' = Append(lineBuf, readPos + 1)
      /\ UNCHANGED <<stream, answered, writeHalf, answers, cancelled>>
  BY DEF FillLine
<1>2. PICK n \in Nat : n = Len(taken) + 1
  BY Counts
<1>3. lineBuf = <<readPos>> /\ readPos = 2 * n - 1
  <2>1. ~lineComplete /\ Buffered(Len(taken), readPos, lineBuf, lineComplete)
    BY <1>1 DEF TInv, Buffer, Place
  <2>2. readPos # 2 * Len(taken)
    BY <1>1, Counts, Halves
  <2> QED BY <1>1, <1>2, <2>1, <2>2, Counts DEF Buffered
<1>4. PICK buf : buf = lineBuf'
  OBVIOUS
<1>5. buf = <<2 * n - 1, 2 * n>>
  <2>1. Append(<<readPos>>, readPos + 1) = <<readPos, readPos + 1>>
    BY Appends
  <2>2. readPos + 1 = 2 * n
    BY <1>3
  <2> QED BY <1>1, <1>3, <1>4, <2>1, <2>2
<1>6. HandleLine(buf)
  BY <1>4 DEF FillLine
<1>7. NextLine(buf, n)
  BY <1>1, <1>2, <1>3, <1>5, Counts DEF NextLine
<1> QED
  <2>1. readPos' = IF buf = <<2 * n - 1, 2 * n>> THEN 2 * n ELSE 2 * n - 1
    BY <1>1, <1>2, <1>3, <1>5
  <2> QED BY <1>1, <1>2, <1>4, <1>6, <1>7, <2>1, HandleStep

-----------------------------------------------------------------------------
(* Steps that leave something alone.                                       *)

LEMMA BufferKept ==
  ASSUME TInv, UNCHANGED <<pieces, eof, reader, taken>>,
         at' = "read" => at = "read", at' = "gate" => at = "gate",
         phase' \in {"pinging", "greeting"} => phase = phase',
         phase \in {"closing", "over"} => phase' \in {"closing", "over"}
  PROVE  Buffer'
  BY DEF TInv, Buffer, Buffered, LinesWhole, reader

LEMMA LinesKept ==
  ASSUME TInv, UNCHANGED <<sent, answers, call, taken>>, peerGone => peerGone',
         parked.state = "writing" => parked'.state = "writing" \/ peerGone'
  PROVE  Lines'
  BY DEF TInv, Lines, LineInv, Unanswered, OutOfBand, UndecodableId, HasId, ParseErrorId

LEMMA PendingKept ==
  ASSUME TInv, UNCHANGED <<sent, answers, call, taken, readPos>>,
         at' = "gate" => at = "gate",
         phase' \in {"pinging", "greeting"} => phase = phase',
         parked'.state = "writing" => parked' = parked
  PROVE  Pending'
  BY DEF TInv, Pending, Unanswered, OutOfBand, UndecodableId, HasId, ParseErrorId

LEMMA PeerLeavesStep ==
  ASSUME TInv, PeerLeaves
  PROVE  TInv'
<1> USE DEF PeerLeaves, loop, reader
<1>1. TypeOK' /\ Place'
  BY DEF TInv, TypeOK, Place, HandshakeHolds
<1> QED BY <1>1, BufferKept, LinesKept, PendingKept DEF TInv

LEMMA CancelStep ==
  ASSUME TInv, Cancel
  PROVE  TInv'
<1> USE DEF Cancel, loop, reader, stream
<1>1. TypeOK' /\ Place'
  BY DEF TInv, TypeOK, Place, HandshakeHolds
<1> QED BY <1>1, BufferKept, LinesKept, PendingKept DEF TInv

LEMMA ObserveCancelStep ==
  ASSUME TInv, ObserveCancel
  PROVE  TInv'
<1> USE DEF ObserveCancel, reader, stream
<1>1. TypeOK' /\ Place'
  BY DEF TInv, TypeOK, Place, HandshakeHolds
<1> QED BY <1>1, BufferKept, LinesKept, PendingKept DEF TInv

LEMMA CloseStep ==
  ASSUME TInv, Close
  PROVE  TInv'
<1> USE DEF Close, reader, stream
<1>1. parked.state # "writing" /\ NoReply.state # "writing" /\ NoReply.state # "failed"
  BY DEF Settled, NoReply
<1>2. TypeOK' /\ Place'
  BY <1>1 DEF TInv, TypeOK, Place, HandshakeHolds
<1> QED BY <1>1, <1>2, BufferKept, LinesKept, PendingKept DEF TInv

\* The end of the input, or of reading.
LEMMA EndReadStep ==
  ASSUME TInv, EndRead, UNCHANGED <<stream, readPos, lineBuf, answered, writeHalf,
                                    answers, call, cancelled, taken>>,
         lineComplete' \in BOOLEAN,
         parked' = parked \/ (parked' = NoReply /\ parked.state # "writing")
  PROVE  TInv'
<1> USE DEF EndRead, stream
<1>1. NoReply.state # "writing" /\ NoReply.state # "failed"
  BY DEF NoReply
<1>2. TypeOK' /\ Place'
  BY <1>1 DEF TInv, TypeOK, Place, HandshakeHolds
<1>3. Buffer'
  BY DEF TInv, Buffer, LinesWhole
<1> QED BY <1>1, <1>2, <1>3, LinesKept, PendingKept DEF TInv

LEMMA ReadFailsStep ==
  ASSUME TInv, ReadFails
  PROVE  TInv'
  BY EndReadStep DEF ReadFails

LEMMA ReadEofStep ==
  ASSUME TInv, ReadEof
  PROVE  TInv'
<1>1. /\ at = "read" /\ eof /\ readPos = pieces
      /\ UNCHANGED <<stream, readPos, answered, writeHalf, answers, cancelled>>
  BY DEF ReadEof
<1>2. CASE /\ EndRead
           /\ UNCHANGED <<lineBuf, lineComplete, parked, call, taken>>
  BY <1>1, <1>2, EndReadStep DEF TInv, TypeOK
<1>3. CASE lineBuf # <<>> /\ HandleLine(lineBuf) /\ UNCHANGED lineBuf
  <2>1. PICK n \in Nat : n = Len(taken) + 1
    BY Counts
  <2>2. lineBuf = <<readPos>> /\ readPos = 2 * n - 1
    <3>1. ~lineComplete /\ Buffered(Len(taken), readPos, lineBuf, lineComplete)
      BY <1>1 DEF TInv, Buffer, Place
    <3> QED BY <1>1, <1>3, <2>1, <3>1, Counts DEF Buffered
  <2>3. PICK buf : buf = lineBuf
    OBVIOUS
  <2>4. HandleLine(buf) /\ lineBuf' = buf /\ buf = <<2 * n - 1>>
    BY <1>3, <2>2, <2>3
  <2>5. NextLine(buf, n)
    BY <1>1, <2>2, <2>4 DEF NextLine
  <2>6. readPos' = IF buf = <<2 * n - 1, 2 * n>> THEN 2 * n ELSE 2 * n - 1
    BY <1>1, <2>2, <2>4, Lens
  <2> QED BY <1>1, <2>1, <2>4, <2>5, <2>6, HandleStep
<1> QED BY <1>2, <1>3 DEF ReadEof

LEMMA WritePieceStep ==
  ASSUME TInv, WritePiece
  PROVE  TInv'
<1> USE DEF WritePiece, loop, reader
<1>1. pieces' = pieces + 1 /\ ~eof /\ pieces' \in 0 .. 2 * Len(sent)
  BY Counts
<1>2. readPos \in 0 .. pieces'
  BY <1>1, Counts
<1>3. TypeOK'
  BY <1>1, <1>2 DEF TInv, TypeOK
<1>4. Place'
  BY DEF TInv, Place, HandshakeHolds
<1>5. Buffer'
  BY <1>1 DEF TInv, Buffer, Buffered, LinesWhole
<1> QED BY <1>3, <1>4, <1>5, LinesKept, PendingKept DEF TInv

\* A client that closes in the middle of a line changes that line only, and
\* nobody has read it.
LEMMA CloseInputStep ==
  ASSUME TInv, CloseInput
  PROVE  TInv'
<1>1. /\ ~eof /\ eof' = TRUE
      /\ UNCHANGED <<pieces, peerGone, reader, parked, at, answered, writeHalf,
                     answers, loop, call, cancelled, taken>>
  BY DEF CloseInput
<1>2. /\ sent' \in Seq(Input) /\ Len(sent') = Len(sent)
      /\ \A i \in 1 .. Len(taken) : sent'[i] = sent[i]
  <2>1. CASE UNCHANGED sent
    BY <2>1 DEF TInv, TypeOK
  <2>2. CASE pieces % 2 = 1 /\ sent' = [sent EXCEPT ![(pieces + 1) \div 2] = Truncated]
    <3>1. PICK m \in Nat : pieces = 2 * m + 1
      BY <2>2, Counts
    <3>2. (pieces + 1) \div 2 = m + 1
      <4>1. pieces + 1 = 2 * (m + 1) /\ m + 1 \in Nat
        BY <3>1
      <4> QED BY <4>1, Halves
    <3>3. m + 1 \in 1 .. Len(sent) /\ m + 1 > Len(taken)
      <4>1. 2 * Len(taken) <= readPos /\ readPos <= pieces
        BY <1>1, Counts DEF TInv, Buffer
      <4> QED BY <3>1, <4>1, Counts
    <3>4. Truncated \in Input
      BY DEF Truncated, Input, Frame, Decoded, Method
    <3>5. sent \in Seq(Input) /\ Len(taken) <= Len(sent) /\ Len(taken) \in Nat
      BY Counts DEF TInv, TypeOK
    <3>6. /\ sent' \in Seq(Input) /\ Len(sent') = Len(sent)
          /\ \A i \in 1 .. Len(sent) : i # m + 1 => sent'[i] = sent[i]
      BY <2>2, <3>2, <3>3, <3>4, <3>5, Overwritten
    <3> QED BY <3>3, <3>5, <3>6, Counts
  <2> QED BY <2>1, <2>2 DEF CloseInput
<1>3. TypeOK'
  BY <1>1, <1>2 DEF TInv, TypeOK, reader, loop
<1>4. Place'
  BY <1>1 DEF TInv, Place, HandshakeHolds, reader, loop
<1>5. Buffer'
  BY <1>1 DEF TInv, Buffer, Buffered, LinesWhole, reader, loop
<1>6. Lines'
  <2> SUFFICES ASSUME NEW i \in Line PROVE LineInv(i)'
    BY DEF Lines
  <2>1. LineInv(i) /\ i \in Nat /\ i > 0
    BY DEF TInv, Lines, Line
  <2>2. CASE i <= Len(taken)
    <3>1. sent'[i] = sent[i]
      BY <1>2, <2>1, <2>2, Counts
    <3> QED BY <1>1, <2>1, <3>1
         DEF LineInv, Unanswered, OutOfBand, UndecodableId, HasId, ParseErrorId
  <2>3. CASE i > Len(taken)
    BY <1>1, <2>1, <2>3, Counts DEF LineInv, Unanswered
  <2> QED BY <2>1, <2>2, <2>3, Counts
<1>7. Pending'
  <2>1. Len(taken) > 0 => sent'[Len(taken)] = sent[Len(taken)]
    BY <1>2, Counts
  <2> QED BY <1>1, <2>1 DEF TInv, Pending, Unanswered, OutOfBand, UndecodableId,
                            HasId, ParseErrorId, reader, loop
<1> QED BY <1>3, <1>4, <1>5, <1>6, <1>7 DEF TInv

LEMMA LoopHeadStep ==
  ASSUME TInv, LoopHead
  PROVE  TInv'
<1>1. /\ at = "top" /\ parked.state # "writing" /\ parked' = NoReply
      /\ UNCHANGED <<stream, readPos, answered, writeHalf, answers, call, cancelled,
                     taken>>
  BY DEF LoopHead, Settled
<1>2. CASE EndRead /\ UNCHANGED <<lineBuf, lineComplete>>
  BY <1>1, <1>2, EndReadStep DEF TInv, TypeOK
<1>3. CASE /\ at' = "read" /\ lineBuf' = ClearLine(lineBuf, lineComplete)
           /\ lineComplete' = FALSE /\ UNCHANGED loop
  <2>1. NoReply.state # "writing" /\ NoReply.state # "failed"
    BY DEF NoReply
  <2>2. phase \in {"init", "serving"}
    BY <1>1 DEF TInv, Place, TypeOK
  <2>3. lineComplete \in BOOLEAN /\ lineBuf' = IF lineComplete THEN <<>> ELSE lineBuf
    BY <1>3 DEF ClearLine, TInv, TypeOK
  <2>4. TypeOK'
    <3>1. lineBuf' \in {<<>>, <<readPos'>>, <<readPos' - 1, readPos'>>}
      BY <1>1, <2>3 DEF TInv, TypeOK
    <3>2. parked' \in Parked \cup {NoReply} /\ at' = "read" /\ lineComplete' \in BOOLEAN
      BY <1>1, <1>3
    <3>3. UNCHANGED <<sent, pieces, eof, peerGone, phase, result>>
      BY <1>1, <1>3 DEF stream, loop
    <3> QED BY <1>1, <3>1, <3>2, <3>3 DEF TInv, TypeOK
  <2>5. Place'
    BY <1>1, <1>3, <2>1, <2>2 DEF TInv, Place, HandshakeHolds, stream, loop
  <2>6. Buffer'
    <3>1. Buffered(Len(taken), readPos, lineBuf, lineComplete)
      BY <2>2 DEF TInv, Buffer
    <3>2. Buffered(Len(taken), readPos, lineBuf, lineComplete)'
      BY <1>1, <1>3, <2>3, <3>1 DEF Buffered, stream
    <3> QED BY <1>1, <1>3, <2>2, <3>2 DEF TInv, Buffer, LinesWhole, stream, loop
  <2>7. Lines' /\ Pending'
    BY <1>1, <1>3, <2>1, LinesKept, PendingKept DEF stream, loop
  <2> QED BY <2>4, <2>5, <2>6, <2>7 DEF TInv
<1> QED BY <1>2, <1>3 DEF LoopHead

LEMMA FillHeadStep ==
  ASSUME TInv, FillHead
  PROVE  TInv'
<1>1. /\ at = "read" /\ readPos < pieces /\ readPos % 2 = 0
      /\ readPos' = readPos + 1 /\ lineBuf' = Append(lineBuf, readPos + 1)
      /\ UNCHANGED <<stream, lineComplete, parked, at, answered, writeHalf, answers,
                     loop, call, cancelled, taken>>
  BY DEF FillHead
<1>2. lineBuf = <<>> /\ readPos = 2 * Len(taken) /\ ~lineComplete
  <2>1. ~lineComplete /\ Buffered(Len(taken), readPos, lineBuf, lineComplete)
    BY <1>1 DEF TInv, Buffer, Place
  <2>2. readPos # 2 * Len(taken) + 1
    BY <1>1, Counts, Halves
  <2> QED BY <1>1, <2>1, <2>2, Counts DEF Buffered
<1>3. lineBuf' = <<readPos'>> /\ readPos' = 2 * Len(taken) + 1
  BY <1>1, <1>2, Appends
<1>4. readPos' \in 0 .. pieces /\ readPos' \in Nat
  BY <1>1, Counts
<1>5. TypeOK'
  <2>1. lineBuf' \in {<<>>, <<readPos'>>, <<readPos' - 1, readPos'>>}
    BY <1>3
  <2>2. UNCHANGED <<sent, pieces, eof, peerGone, phase, result>>
    BY <1>1 DEF stream, loop
  <2> QED BY <1>1, <1>4, <2>1, <2>2 DEF TInv, TypeOK
<1>6. Place'
  BY <1>1 DEF TInv, Place, HandshakeHolds, stream, loop
<1>7. Buffer'
  <2>1. Buffered(Len(taken), readPos, lineBuf, lineComplete)'
    BY <1>1, <1>2, <1>3 DEF Buffered
  <2>2. 2 * Len(taken) <= readPos'
    BY <1>3, Counts
  <2> QED BY <1>1, <1>2, <2>1, <2>2 DEF TInv, Buffer, LinesWhole, stream, loop
<1>8. parked = NoReply /\ NoReply.state # "writing"
  BY <1>1 DEF TInv, Place, NoReply
<1>9. Lines'
  BY <1>1, LinesKept DEF stream
<1>10. Pending'
  <2>1. at = "read" /\ phase \notin {"pinging", "greeting"}
    BY <1>1 DEF TInv, Place
  <2> QED BY <1>1, <1>8, <2>1 DEF Pending, loop
<1> QED BY <1>5, <1>6, <1>7, <1>9, <1>10 DEF TInv

-----------------------------------------------------------------------------
(* Answers.                                                                *)

\* The first answer of a line.
LEMMA Wrote ==
  ASSUME TInv, NEW i \in Line, answers[i] = <<>>, NEW r \in Reply, WriteReply(i, r)
  PROVE  /\ answers' \in [Line -> Seq(Reply)]
         /\ Len(answers'[i]) = 1 /\ answers'[i][1] = r /\ answers'[i] # <<>>
         /\ \A j \in Line : j # i => answers'[j] = answers[j]
<1>1. answers \in [Line -> Seq(Reply)]
  BY DEF TInv, TypeOK
<1>2. Append(<<>>, r) = <<r>> /\ <<r>> \in Seq(Reply)
  BY Appends
<1>3. answers' = [answers EXCEPT ![i] = <<r>>]
  BY <1>2 DEF WriteReply
<1> QED BY <1>1, <1>2, <1>3, Lens

\* A line in hand gets the answer that it was owed.
LEMMA LinesAnswered ==
  ASSUME TInv, NEW i \in Line, i <= Len(taken), answers[i] = <<>>, NEW r \in Reply,
         WriteReply(i, r), UNCHANGED <<sent, peerGone, taken>>,
         r.id <=> HasId(sent[i]), sent[i].decode = "request" \/ OutOfBand(sent[i]),
         call' = [call EXCEPT ![i].at = "done"] \/ (call' = call /\ call[i].at = "none"),
         call' = [call EXCEPT ![i].at = "done"] => call[i].at = "sending",
         \A j \in Line : j # i /\ j = Len(taken) /\ parked.state = "writing"
                            => parked'.state = "writing"
  PROVE  Lines'
<1> SUFFICES ASSUME NEW j \in Line PROVE LineInv(j)'
  BY DEF Lines
<1>1. LineInv(j) /\ LineInv(i)
  BY DEF TInv, Lines
<1>2. /\ Len(answers'[i]) = 1 /\ answers'[i][1] = r /\ answers'[i] # <<>>
      /\ j # i => answers'[j] = answers[j]
  BY Wrote
<1>3. CASE j = i
  <2>1. j \in Nat /\ Len(taken) \in Nat
    BY Counts DEF Line
  <2>2. call'[i].at \in {"done", "none"} /\ (call'[i].at # "none" => call[i].at # "none")
    BY DEF TInv, TypeOK
  <2> QED BY <1>1, <1>2, <1>3, <2>1, <2>2
       DEF LineInv, OutOfBand, UndecodableId, HasId, ParseErrorId
<1>4. CASE j # i
  <2>1. call'[j] = call[j]
    BY <1>4 DEF TInv, TypeOK
  <2> QED BY <1>1, <1>2, <1>4, <2>1
       DEF LineInv, Unanswered, OutOfBand, UndecodableId, HasId, ParseErrorId
<1> QED BY <1>3, <1>4

LEMMA LastLine ==
  ASSUME TInv, Len(taken) > 0
  PROVE  Len(taken) \in Line /\ sent[Len(taken)] \in Input
  BY Counts DEF Line

LEMMA WriteParkedStep ==
  ASSUME TInv, WriteParked
  PROVE  TInv'
<1>1. /\ parked.state = "writing" /\ parked \in Parked
      /\ UNCHANGED <<stream, reader, at, answered, writeHalf, loop, call, cancelled,
                     taken>>
  BY DEF WriteParked, TInv, TypeOK, NoReply
<1>2. /\ Len(taken) > 0 /\ Unanswered(Len(taken)) /\ OutOfBand(sent[Len(taken)])
      /\ parked.line = Len(taken) /\ (parked.reply.id <=> HasId(sent[Len(taken)]))
  BY <1>1 DEF TInv, Pending
<1>3. Len(taken) \in Line /\ parked.reply \in Reply
  BY <1>1, <1>2, LastLine DEF Parked
<1>4. at \notin {"read", "gate"} /\ phase \notin {"pinging", "greeting"} /\ writeHalf = "open"
  BY <1>1 DEF TInv, Place, NoReply
<1>5. Buffer'
  BY <1>1, BufferKept DEF stream, loop
<1>6. CASE /\ Writable /\ WriteReply(parked.line, parked.reply)
           /\ parked' = [parked EXCEPT !.state = "done"]
  <2>1. /\ answers' \in [Line -> Seq(Reply)]
    BY <1>2, <1>3, <1>6, Wrote DEF Unanswered
  <2>2. parked' \in Parked /\ parked'.state = "done"
    BY <1>1, <1>6 DEF Parked
  <2>3. TypeOK'
    BY <1>1, <2>1, <2>2 DEF TInv, TypeOK, stream, reader, loop
  <2>4. Place'
    BY <1>1, <1>4, <2>2 DEF TInv, Place, HandshakeHolds, stream, loop
  <2>5. Lines'
    <3>1. /\ Len(taken) <= Len(taken) /\ UNCHANGED <<sent, peerGone, taken>>
          /\ answers[Len(taken)] = <<>> /\ call[Len(taken)].at = "none" /\ call' = call
      BY <1>1, <1>2, Counts DEF Unanswered, stream
    <3>2. WriteReply(Len(taken), parked.reply)
      BY <1>2, <1>6
    <3>3. call' = [call EXCEPT ![Len(taken)].at = "done"] => call[Len(taken)].at = "sending"
      BY <1>3, <3>1 DEF TInv, TypeOK
    <3> QED BY <1>2, <1>3, <3>1, <3>2, <3>3, LinesAnswered
  <2>6. Pending'
    BY <1>1, <1>4, <2>2 DEF Pending, loop
  <2> QED BY <1>5, <2>3, <2>4, <2>5, <2>6 DEF TInv
<1>7. CASE /\ ~Writable /\ UNCHANGED answers
           /\ parked' = [parked EXCEPT !.state = "failed"]
  <2>1. peerGone
    BY <1>4, <1>7 DEF Writable
  <2>2. parked' \in Parked /\ parked'.state = "failed"
    BY <1>1, <1>7 DEF Parked
  <2>3. TypeOK'
    BY <1>1, <1>7, <2>2 DEF TInv, TypeOK, stream, reader, loop
  <2>4. Place'
    BY <1>1, <1>4, <2>1, <2>2 DEF TInv, Place, HandshakeHolds, stream, loop
  <2>5. Lines'
    BY <1>1, <1>7, <2>1, LinesKept DEF stream
  <2>6. Pending'
    BY <1>1, <1>4, <2>2 DEF Pending, loop
  <2> QED BY <1>5, <2>3, <2>4, <2>5, <2>6 DEF TInv
<1> QED BY <1>6, <1>7 DEF WriteParked

\* The line that the gate or the handshake has in hand.
LEMMA InHand ==
  ASSUME TInv, at = "gate" \/ phase \in {"pinging", "greeting"}
  PROVE  /\ LineOf(lineBuf) = Len(taken) /\ Len(taken) \in Line
         /\ Unanswered(Len(taken)) /\ sent[Len(taken)].decode = "request"
         /\ HasId(sent[Len(taken)]) /\ parked = NoReply
<1>1. /\ Len(taken) > 0 /\ Unanswered(Len(taken)) /\ sent[Len(taken)].decode = "request"
      /\ parked = NoReply
  BY DEF TInv, Pending, Place
<1>2. Len(taken) \in Line /\ sent[Len(taken)] \in Input
  BY <1>1, LastLine
<1>3. HasId(sent[Len(taken)])
  BY <1>1, <1>2 DEF HasId, Input
<1>4. lineComplete /\ Buffered(Len(taken), readPos, lineBuf, lineComplete)
  BY DEF TInv, Buffer, Place
<1>5. LineOf(lineBuf) = Len(taken)
  <2>1. Len(taken) \in Nat \ {0}
    BY <1>1, Counts
  <2>2. \/ lineBuf = <<2 * Len(taken) - 1, 2 * Len(taken)>>
        \/ lineBuf = <<2 * Len(taken) - 1>>
    <3>1. CASE lineBuf = <<readPos - 1, readPos>> /\ readPos = 2 * Len(taken)
      BY <3>1
    <3>2. CASE lineBuf = <<readPos>> /\ readPos + 1 = 2 * Len(taken)
      <4>1. readPos = 2 * Len(taken) - 1
        BY <3>2, Counts
      <4> QED BY <3>2, <4>1
    <3> QED BY <1>4, <3>1, <3>2 DEF Buffered
  <2> QED BY <2>1, <2>2, LineNumber
<1> QED BY <1>1, <1>2, <1>3, <1>5

LEMMA GateReplyStep ==
  ASSUME TInv, GateReply
  PROVE  TInv'
<1>1. /\ at = "gate" /\ phase = "init"
      /\ UNCHANGED <<stream, reader, parked, answered, writeHalf, call, cancelled, taken>>
  BY DEF GateReply, TInv, Place
<1>2. CASE ~Writable /\ EndRead /\ UNCHANGED answers
  BY <1>1, <1>2, EndReadStep DEF reader, TInv, TypeOK
<1>3. CASE /\ Writable /\ at' = "top" /\ UNCHANGED loop
           /\ WriteReply(LineOf(lineBuf), [code |-> "invalid", id |-> TRUE])
  <2> DEFINE r == [code |-> "invalid", id |-> TRUE]
  <2>1. r \in Reply /\ r.id = TRUE
    BY DEF Reply
  <2>2. /\ WriteReply(Len(taken), r) /\ Len(taken) \in Line /\ Unanswered(Len(taken))
        /\ sent[Len(taken)].decode = "request" /\ HasId(sent[Len(taken)])
        /\ parked = NoReply
    BY <1>1, <1>3, InHand
  <2> HIDE DEF r
  <2>3. answers' \in [Line -> Seq(Reply)]
    BY <2>1, <2>2, Wrote DEF Unanswered
  <2>4. TypeOK'
    BY <1>1, <1>3, <2>3 DEF TInv, TypeOK, stream, reader, loop
  <2>5. Place'
    BY <1>1, <1>3 DEF TInv, Place, HandshakeHolds, stream, loop
  <2>6. Buffer'
    BY <1>1, <1>3, BufferKept DEF stream, loop
  <2>7. Lines'
    <3>1. /\ Len(taken) <= Len(taken) /\ UNCHANGED <<sent, peerGone, taken>>
          /\ answers[Len(taken)] = <<>> /\ call[Len(taken)].at = "none" /\ call' = call
      BY <1>1, <2>2, Counts DEF Unanswered, stream
    <3>2. call' = [call EXCEPT ![Len(taken)].at = "done"] => call[Len(taken)].at = "sending"
      BY <2>2, <3>1 DEF TInv, TypeOK
    <3>3. r.id <=> HasId(sent[Len(taken)])
      BY <2>1, <2>2
    <3> QED BY <2>1, <2>2, <3>1, <3>2, <3>3, LinesAnswered
  <2>8. Pending'
    BY <1>1, <1>3, <2>2 DEF Pending, loop, NoReply
  <2> QED BY <2>4, <2>5, <2>6, <2>7, <2>8 DEF TInv
<1> QED BY <1>2, <1>3 DEF GateReply

LEMMA HandshakeReplyStep ==
  ASSUME TInv, HandshakeReply
  PROVE  TInv'
<1>1. PICK m \in {"initialize", "ping"} :
        /\ phase = IF m = "initialize" THEN "greeting" ELSE "pinging"
        /\ answered' = (answered \/ CompletesTheHandshake(m))
        /\ \/ /\ Writable
              /\ WriteReply(LineOf(lineBuf), [code |-> "result", id |-> TRUE])
              /\ phase' = IF m = "initialize" THEN "serving" ELSE "init"
              /\ at' = "top" /\ UNCHANGED result
           \/ /\ ~Writable /\ UNCHANGED <<answers, at>>
              /\ phase' = "over" /\ result' = "write_failed"
        /\ UNCHANGED <<stream, reader, parked, writeHalf, call, cancelled, taken>>
  BY DEF HandshakeReply
<1>2. /\ phase \in {"pinging", "greeting"} /\ ~answered /\ at = "none"
      /\ answered' = (m = "initialize")
  BY <1>1 DEF TInv, Place, CompletesTheHandshake
<1>3. /\ LineOf(lineBuf) = Len(taken) /\ Len(taken) \in Line /\ Unanswered(Len(taken))
      /\ sent[Len(taken)].decode = "request" /\ HasId(sent[Len(taken)])
      /\ parked = NoReply /\ NoReply.state # "writing"
  BY <1>2, InHand DEF NoReply
<1>4. /\ lineComplete /\ Buffered(Len(taken), readPos, lineBuf, lineComplete)
      /\ parked'.state # "writing"
  BY <1>1, <1>2, <1>3 DEF TInv, Buffer
<1>5. CASE ~Writable /\ UNCHANGED <<answers, at>> /\ phase' = "over" /\ result' = "write_failed"
  <2>1. TypeOK'
    BY <1>1, <1>2, <1>5 DEF TInv, TypeOK, stream, reader
  <2>2. Place'
    BY <1>1, <1>2, <1>3, <1>5 DEF TInv, Place, HandshakeHolds, stream, NoReply
  <2>3. Buffer'
    BY <1>1, <1>2, <1>5, BufferKept DEF stream
  <2>4. Lines' /\ Pending'
    BY <1>1, <1>3, <1>2, <1>5, LinesKept, PendingKept DEF stream, reader
  <2> QED BY <2>1, <2>2, <2>3, <2>4 DEF TInv
<1>6. CASE /\ Writable
           /\ WriteReply(LineOf(lineBuf), [code |-> "result", id |-> TRUE])
           /\ phase' = IF m = "initialize" THEN "serving" ELSE "init"
           /\ at' = "top" /\ UNCHANGED result
  <2> DEFINE r == [code |-> "result", id |-> TRUE]
  <2>1. r \in Reply /\ r.id = TRUE /\ WriteReply(Len(taken), r)
    BY <1>3, <1>6 DEF Reply
  <2> HIDE DEF r
  <2>2. answers' \in [Line -> Seq(Reply)]
    BY <1>3, <2>1, Wrote DEF Unanswered
  <2>3. TypeOK'
    BY <1>1, <1>2, <1>6, <2>2 DEF TInv, TypeOK, stream, reader
  <2>4. Place'
    BY <1>1, <1>2, <1>3, <1>6 DEF TInv, Place, HandshakeHolds, stream, NoReply
  <2>5. Buffer'
    BY <1>1, <1>2, <1>6, BufferKept DEF stream
  <2>6. Lines'
    <3>1. /\ Len(taken) <= Len(taken) /\ UNCHANGED <<sent, peerGone, taken>>
          /\ answers[Len(taken)] = <<>> /\ call[Len(taken)].at = "none" /\ call' = call
      BY <1>1, <1>3, Counts DEF Unanswered, stream
    <3>2. call' = [call EXCEPT ![Len(taken)].at = "done"] => call[Len(taken)].at = "sending"
      BY <1>3, <3>1 DEF TInv, TypeOK
    <3>3. r.id <=> HasId(sent[Len(taken)])
      BY <1>3, <2>1
    <3> QED BY <1>3, <2>1, <3>1, <3>2, <3>3, LinesAnswered
  <2>7. Pending'
    BY <1>1, <1>4, <1>6 DEF Pending
  <2> QED BY <2>3, <2>4, <2>5, <2>6, <2>7 DEF TInv
<1> QED BY <1>1, <1>5, <1>6

-----------------------------------------------------------------------------
(* The handlers.                                                           *)

\* A call that is going on is one of a request that was handled and that
\* neither the gate nor the transport has in hand.
LEMMA InCall ==
  ASSUME TInv, NEW i \in Line, call[i].at # "none"
  PROVE  /\ i <= Len(taken) /\ sent[i].decode = "request" /\ HasId(sent[i])
         /\ i = Len(taken) => /\ parked.state # "writing" /\ at # "gate"
                              /\ phase \notin {"pinging", "greeting"}
<1>1. i \in Nat /\ i > 0 /\ LineInv(i)
  BY DEF TInv, Lines, Line
<1>2. i <= Len(taken) /\ sent[i].decode = "request"
  BY <1>1, Counts DEF LineInv, Unanswered
<1>3. sent[i] \in Input
  BY <1>1, <1>2, Counts
<1> QED BY <1>2, <1>3 DEF HasId, Input, TInv, Pending, Unanswered

\* A call that goes on does not touch what the others hold.
LEMMA CallStep ==
  ASSUME TInv, NEW i \in Line, call[i].at # "none",
         NEW l \in {"executing", "answering", "sending"},
         NEW c \in {"result", "limited", "rejected"},
         call' = [call EXCEPT ![i] = [at |-> l, code |-> c]],
         call[i].at \in {"running", "executing", "answering", "sending"},
         l = "executing" /\ sent[i].method = "tools/call" => sent[i].clean,
         UNCHANGED <<stream, reader, parked, answered, writeHalf, answers, loop,
                     cancelled, taken>>,
         at' = at \/ (at' = "top" /\ phase = "serving")
  PROVE  TInv'
<1>1. /\ call' \in [Line -> [at : {"none", "running", "executing", "answering", "sending", "done"},
                             code : {"result", "limited", "rejected"}]]
      /\ call'[i].at = l /\ \A j \in Line : j # i => call'[j] = call[j]
  BY DEF TInv, TypeOK
<1>2. TypeOK'
  BY <1>1 DEF TInv, TypeOK, stream, reader, loop
<1>3. Place'
  BY DEF TInv, Place, HandshakeHolds, stream, loop
<1>4. Buffer'
  BY BufferKept DEF stream, loop
<1>5. Lines'
  <2> SUFFICES ASSUME NEW j \in Line PROVE LineInv(j)'
    BY DEF Lines
  <2>1. LineInv(j) /\ UNCHANGED <<sent, answers, peerGone, parked, taken>>
    BY DEF TInv, Lines, stream
  <2>2. CASE j = i
    <3>1. j <= Len(taken) /\ j \in Nat /\ sent[j].decode = "request" /\ ~(j > Len(taken))
      BY <2>2, InCall, Counts DEF Line
    <3> QED BY <1>1, <2>1, <2>2, <3>1
         DEF LineInv, OutOfBand, UndecodableId, HasId, ParseErrorId
  <2>3. CASE j # i
    BY <1>1, <2>1, <2>3
       DEF LineInv, Unanswered, OutOfBand, UndecodableId, HasId, ParseErrorId
  <2> QED BY <2>2, <2>3
<1>6. Pending'
  <2>1. Len(taken) > 0 /\ Unanswered(Len(taken)) => call'[Len(taken)] = call[Len(taken)]
    BY <1>1, LastLine DEF Unanswered
  <2> QED BY <2>1 DEF TInv, Place, Pending, Unanswered, OutOfBand, UndecodableId,
                      HasId, ParseErrorId, stream, reader, loop
<1> QED BY <1>2, <1>3, <1>4, <1>5, <1>6 DEF TInv

LEMMA RespondStep ==
  ASSUME TInv, NEW i \in Line, Respond(i)
  PROVE  TInv'
<1>1. /\ phase = "serving" /\ call[i].at = "answering" /\ at' = "top"
      /\ call' = [call EXCEPT ![i].at = "sending"]
      /\ UNCHANGED <<stream, reader, parked, answered, writeHalf, answers, loop,
                     cancelled, taken>>
  BY DEF Respond
<1>2. /\ call' = [call EXCEPT ![i] = [at |-> "sending", code |-> call[i].code]]
      /\ call[i].code \in {"result", "limited", "rejected"}
  <2>1. call[i] \in [at : {"none", "running", "executing", "answering", "sending", "done"},
                     code : {"result", "limited", "rejected"}]
    BY DEF TInv, TypeOK
  <2>2. [call[i] EXCEPT !.at = "sending"] = [at |-> "sending", code |-> call[i].code]
    BY <2>1
  <2> QED BY <1>1, <2>1, <2>2
<1> QED BY <1>1, <1>2, CallStep

LEMMA StartCallStep ==
  ASSUME TInv, NEW i \in Line, StartCall(i)
  PROVE  TInv'
<1>1. /\ call[i].at = "running"
      /\ UNCHANGED <<stream, reader, parked, at, answered, writeHalf, answers, loop,
                     cancelled, taken>>
  BY DEF StartCall
<1>2. PICK l \in {"executing", "answering"}, c \in {"result", "limited", "rejected"} :
        /\ call' = [call EXCEPT ![i] = [at |-> l, code |-> c]]
        /\ l = "executing" => Accepted(sent[i])
  BY DEF StartCall, SetCall
<1>3. l = "executing" /\ sent[i].method = "tools/call" => sent[i].clean
  BY <1>2 DEF Accepted
<1> QED BY <1>1, <1>2, <1>3, CallStep

LEMMA FinishCallStep ==
  ASSUME TInv, NEW i \in Line, FinishCall(i)
  PROVE  TInv'
<1>1. /\ call[i].at = "executing"
      /\ call' = [call EXCEPT ![i] = [at |-> "answering", code |-> "result"]]
      /\ UNCHANGED <<stream, reader, parked, at, answered, writeHalf, answers, loop,
                     cancelled, taken>>
  BY DEF FinishCall, SetCall
<1> QED BY <1>1, CallStep

LEMMA SendResponseStep ==
  ASSUME TInv, NEW i \in Line, SendResponse(i)
  PROVE  TInv'
<1>1. /\ call[i].at = "sending" /\ call' = [call EXCEPT ![i].at = "done"]
      /\ UNCHANGED <<stream, reader, parked, at, answered, writeHalf, loop, cancelled,
                     taken>>
  BY DEF SendResponse
<1>2. /\ call' \in [Line -> [at : {"none", "running", "executing", "answering", "sending", "done"},
                             code : {"result", "limited", "rejected"}]]
      /\ call'[i].at = "done" /\ \A j \in Line : j # i => call'[j] = call[j]
      /\ call[i].code \in {"result", "limited", "rejected"}
  BY <1>1 DEF TInv, TypeOK
<1>3. /\ i <= Len(taken) /\ sent[i].decode = "request" /\ HasId(sent[i])
      /\ i = Len(taken) => /\ parked.state # "writing" /\ at # "gate"
                           /\ phase \notin {"pinging", "greeting"}
  BY <1>1, InCall
<1>4. answers[i] = <<>>
  BY <1>1 DEF TInv, Lines, LineInv
<1> DEFINE r == [code |-> call[i].code, id |-> TRUE]
<1>5. r \in Reply /\ r.id = TRUE
  BY <1>2 DEF Reply
<1>6. WriteReply(i, r) \/ answers' = answers
  BY DEF SendResponse
<1> HIDE DEF r
<1>7. /\ answers' \in [Line -> Seq(Reply)]
      /\ \A j \in Line : j # i => answers'[j] = answers[j]
  BY <1>4, <1>5, <1>6, Wrote DEF TInv, TypeOK
<1>8. TypeOK'
  BY <1>1, <1>2, <1>7 DEF TInv, TypeOK, stream, reader, loop
<1>9. Place'
  BY <1>1 DEF TInv, Place, HandshakeHolds, stream, loop
<1>10. Buffer'
  BY <1>1, BufferKept DEF stream, loop
<1>11. Lines'
  <2>1. CASE WriteReply(i, r)
    <3>1. UNCHANGED <<sent, peerGone, taken, parked>>
      BY <1>1 DEF stream
    <3>2. r.id <=> HasId(sent[i])
      BY <1>3, <1>5
    <3> QED BY <1>1, <1>3, <1>4, <1>5, <2>1, <3>1, <3>2, LinesAnswered
  <2>2. CASE answers' = answers
    <3> SUFFICES ASSUME NEW j \in Line PROVE LineInv(j)'
      BY DEF Lines
    <3>1. LineInv(j) /\ UNCHANGED <<sent, answers, peerGone, parked, taken>>
      BY <1>1, <2>2 DEF TInv, Lines, stream
    <3>2. i > Len(taken) => FALSE
      BY <1>3, Counts DEF Line
    <3> QED BY <1>1, <1>2, <1>3, <3>1, <3>2
         DEF LineInv, Unanswered, OutOfBand, UndecodableId, HasId, ParseErrorId
  <2> QED BY <1>6, <2>1, <2>2
<1>12. Pending'
  <2>1. /\ Len(taken) > 0 /\ Unanswered(Len(taken)) /\ i # Len(taken) =>
             call'[Len(taken)] = call[Len(taken)] /\ answers'[Len(taken)] = answers[Len(taken)]
    BY <1>2, <1>7, LastLine
  <2> QED BY <1>1, <1>3, <2>1 DEF TInv, Pending, Unanswered, OutOfBand, UndecodableId,
                                  HasId, ParseErrorId, stream, reader, loop
<1> QED BY <1>8, <1>9, <1>10, <1>11, <1>12 DEF TInv

-----------------------------------------------------------------------------
(* The transport.                                                          *)

LEMMA InitTInv == Init => TInv
<1> SUFFICES ASSUME Init PROVE TInv
  OBVIOUS
<1>1. /\ sent \in Seq(Input) /\ Len(sent) <= MaxLines /\ Len(sent) \in Nat
      /\ taken = <<>> /\ Len(taken) = 0 /\ NoReply.state = "none"
  BY StreamsAssumption, LenProperties DEF Init, NoReply
<1>2. TypeOK
  <2>1. Idle \in [at : {"none", "running", "executing", "answering", "sending", "done"},
                  code : {"result", "limited", "rejected"}]
    BY DEF Idle
  <2>2. answers \in [Line -> Seq(Reply)] /\ taken \in Seq(Seq(1 .. 2 * MaxLines))
    <3>1. \A S : <<>> \in Seq(S)
      OBVIOUS
    <3> QED BY <3>1 DEF Init
  <2>3. call \in [Line -> [at : {"none", "running", "executing", "answering", "sending", "done"},
                           code : {"result", "limited", "rejected"}]]
    BY <2>1 DEF Init
  <2>4. pieces \in 0 .. 2 * Len(sent) /\ readPos \in 0 .. pieces
    BY <1>1 DEF Init
  <2> QED BY <1>1, <2>2, <2>3, <2>4 DEF Init, TypeOK
<1>3. Place
  BY <1>1 DEF Init, Place, HandshakeHolds
<1>4. Buffer
  BY <1>1 DEF Init, Buffer, Buffered, LinesWhole
<1>5. Lines
  <2> SUFFICES ASSUME NEW i \in Line PROVE LineInv(i)
    BY DEF Lines
  <2>1. i \in Nat /\ i > 0 /\ answers[i] = <<>> /\ call[i].at = "none"
    BY DEF Init, Line, Idle
  <2> QED BY <1>1, <2>1 DEF LineInv, Unanswered
<1>6. Pending
  BY <1>1 DEF Init, Pending
<1> QED BY <1>2, <1>3, <1>4, <1>5, <1>6 DEF TInv

LEMMA TStep == TInv /\ [Next]_vars => TInv'
<1> SUFFICES ASSUME TInv, [Next]_vars PROVE TInv'
  OBVIOUS
<1>1. CASE Client \/ Cancel
  BY <1>1, WritePieceStep, CloseInputStep, PeerLeavesStep, CancelStep DEF Client
<1>2. CASE Receive \/ ReadFails \/ WriteParked
  BY <1>2, LoopHeadStep, FillHeadStep, FillLineStep, ReadEofStep, GateReplyStep,
     ReadFailsStep, WriteParkedStep DEF Receive
<1>3. CASE Serve \/ ObserveCancel
  BY <1>3, HandshakeReplyStep, CloseStep, RespondStep, ObserveCancelStep DEF Serve
<1>4. ASSUME NEW i \in Line, Handler(i) PROVE TInv'
  BY <1>4, StartCallStep, FinishCallStep, SendResponseStep DEF Handler
<1>5. CASE UNCHANGED vars
  <2>1. UNCHANGED <<sent, pieces, eof, peerGone, readPos, lineBuf, lineComplete, parked,
                    at, answered, writeHalf, answers, phase, result, call, cancelled,
                    taken>>
    BY <1>5 DEF vars, stream, reader, loop
  <2>2. TypeOK' /\ Place'
    BY <2>1 DEF TInv, TypeOK, Place, HandshakeHolds
  <2>3. Buffer' /\ Lines' /\ Pending'
    BY <2>1, BufferKept, LinesKept, PendingKept DEF reader
  <2> QED BY <2>2, <2>3 DEF TInv
<1> QED BY <1>1, <1>2, <1>3, <1>4, <1>5 DEF Next, Server

LEMMA Transport == Spec => []TInv
  BY InitTInv, TStep, PTL DEF Spec

LEMMA RepliesInTime == TInv => ReplyBeforeNextRead
<1> SUFFICES ASSUME TInv, NEW i \in 1 .. Len(taken), OutOfBand(sent[i]),
                    readPos > 2 * i \/ at = "read" \/ writeHalf = "taken",
                    answers[i] = <<>>
             PROVE  peerGone
  BY DEF ReplyBeforeNextRead
<1>1. i \in Line /\ i \in Nat
  BY Counts
<1>2. peerGone \/ (parked.state = "writing" /\ i = Len(taken))
  BY <1>1 DEF TInv, Lines, LineInv
<1>3. ASSUME parked.state = "writing", i = Len(taken) PROVE FALSE
  <2>1. readPos <= 2 * i /\ at # "read" /\ writeHalf = "open"
    BY <1>3 DEF TInv, Pending, Place, NoReply
  <2> QED BY <1>1, <2>1, Counts
<1> QED BY <1>2, <1>3

LEMMA AnswersOnce == TInv => OneAnswer
<1> SUFFICES ASSUME TInv, NEW i \in 1 .. Len(sent)
             PROVE  LET f == sent[i]
                    IN  /\ Len(answers[i]) <= 1
                        /\ \A k \in 1 .. Len(answers[i]) :
                             /\ f.decode = "request" \/ OutOfBand(f)
                             /\ answers[i][k].id <=>
                                  (IF f.decode = "failed" THEN ParseErrorId(f)
                                                          ELSE f.id = "Recovered")
                        /\ call[i].at # "none" =>
                             f.decode = "request" /\
                             \A k \in 1 .. Len(answers[i]) : call[i].at = "done"
                        /\ call[i].at = "executing" /\ f.method = "tools/call" => f.clean
  BY DEF OneAnswer
<1>1. LineInv(i) /\ i \in Line
  BY Counts DEF TInv, Lines
<1>2. call[i].at \in {"none", "running", "executing", "answering", "sending", "done"}
  BY <1>1 DEF TInv, TypeOK
<1>3. CASE answers[i] = <<>>
  BY <1>1, <1>3 DEF LineInv
<1>4. CASE answers[i] # <<>>
  <2>1. Len(answers[i]) = 1
    BY <1>1, <1>4 DEF LineInv
  <2>2. \A k \in 1 .. Len(answers[i]) : k = 1
    BY <2>1
  <2>3. /\ sent[i].decode = "request" \/ OutOfBand(sent[i])
        /\ answers[i][1].id <=> HasId(sent[i])
        /\ call[i].at # "none" => sent[i].decode = "request" /\ call[i].at = "done"
        /\ call[i].at = "executing" /\ sent[i].method = "tools/call" => sent[i].clean
    BY <1>1, <1>2, <1>4 DEF LineInv
  <2> QED BY <2>1, <2>2, <2>3 DEF HasId
<1> QED BY <1>3, <1>4

-----------------------------------------------------------------------------
(* The process.                                                            *)

\* Every step of the process is one of the transport or leaves it alone.
THEOREM Refines == ProcSpec => Spec
<1>1. ProcInit => Init
  BY DEF ProcInit
<1>2. [ProcNext]_pvars => [Next]_vars
  BY DEF ProcNext, pvars, Next, SignalThread, Main, RecordSignal, FireToken, RaiseFlag,
         SecondSignal, OpenFails, OpenSucceeds, Teardown, Decide
<1> QED BY <1>1, <1>2, PTL DEF ProcSpec, Spec

\* Every variable of the transport is of its type, for any streams.
THEOREM TransportTyped == ProcSpec => []TypeOK
<1>1. TInv => TypeOK
  BY DEF TInv
<1> QED BY <1>1, Refines, Transport, PTL

\* However often receive() is dropped, every line is handled once, whole and
\* in its order (wire.rs, DupScanningTransport).
THEOREM WholeLines == ProcSpec => []LinesWhole
<1>1. TInv => LinesWhole
  BY DEF TInv, Buffer
<1> QED BY <1>1, Refines, Transport, PTL

\* The transport's own reply is out before the next byte is read and before
\* close() takes the write half (wire.rs, receive and close).
THEOREM RepliesFirst == ProcSpec => []ReplyBeforeNextRead
  BY RepliesInTime, Refines, Transport, PTL

\* rmcp never sees anything but initialize and ping in front of the handshake
\* (pre_handshake.rs).
THEOREM HandshakeGuarded == ProcSpec => []HandshakeHolds
<1>1. TInv => HandshakeHolds
  BY DEF TInv, Place
<1> QED BY <1>1, Refines, Transport, PTL

\* Every line is treated in one way only, and answered at most once.
THEOREM AnsweredOnce == ProcSpec => []OneAnswer
  BY AnswersOnce, Refines, Transport, PTL

\* Who has said what: the token is fired for a recorded signal alone, the run
\* ends in the way the token made it end, and the decision is the last word.
PInv ==
  /\ thread = "recorded" => signalled
  /\ cancelled => signalled
  /\ result \in {"drained", "cancelled"} => cancelled
  /\ torndown \in {"none", "ok", "failed"}
  /\ main \in {"opening", "running"} => torndown = "none"
  /\ torndown # "none" => phase = "over"
  /\ main = "exited" /\ torndown # "none" => exit = ResolveExit(signalled)

LEMMA ProcessInv == ProcSpec => []PInv
<1>1. ProcInit => PInv
  BY DEF ProcInit, Init, PInv
<1>2. TInv /\ PInv /\ [ProcNext]_pvars => PInv'
  <2> SUFFICES ASSUME TInv, PInv, [ProcNext]_pvars PROVE PInv'
    OBVIOUS
  <2> USE DEF PInv
  <2>1. CASE Client /\ UNCHANGED process
    BY <2>1 DEF process, Client, WritePiece, CloseInput, PeerLeaves, loop, ResolveExit,
                RunFailed, Disconnect
  <2>2. CASE Server /\ UNCHANGED process /\ main \in {"running", "deciding"}
    <3>1. ObserveCancel => cancelled /\ cancelled' = cancelled
      BY DEF ObserveCancel
    <3>2. ~ObserveCancel =>
             result' = result \/ result' \notin {"drained", "cancelled"}
      BY <2>2 DEF Server, Receive, LoopHead, FillHead, FillLine, ReadEof, GateReply,
                  ReadFails, WriteParked, Serve, HandshakeReply, Close, Respond, Handler,
                  StartCall, FinishCall, SendResponse, EndRead, HandleLine, Park, Gate,
                  Deliver, loop
    <3>3. cancelled' = cancelled
      BY <2>2 DEF Server, Receive, LoopHead, FillHead, FillLine, ReadEof, GateReply,
                  ReadFails, WriteParked, Serve, HandshakeReply, Close, Respond, Handler,
                  StartCall, FinishCall, SendResponse, ObserveCancel
    <3>4. phase = "over" => phase' = "over"
      <4> SUFFICES ASSUME phase = "over" PROVE phase' = "over"
        OBVIOUS
      <4>1. at = "none"
        BY DEF TInv, Place
      <4> QED BY <2>2, <4>1
           DEF Server, Receive, LoopHead, FillHead, FillLine, ReadEof, GateReply,
               ReadFails, WriteParked, Serve, HandshakeReply, Close, Respond, Handler,
               StartCall, FinishCall, SendResponse, ObserveCancel, loop
    <3> QED BY <2>2, <3>1, <3>2, <3>3, <3>4 DEF process
  <2>3. CASE SignalThread
    BY <2>3 DEF SignalThread, RecordSignal, FireToken, RaiseFlag, SecondSignal, Cancel,
                Alive, vars, loop, ResolveExit, RunFailed, Disconnect
  <2>4. CASE Main \/ OpenFails
    BY <2>4 DEF Main, OpenFails, OpenSucceeds, Teardown, Decide, vars, loop,
                ResolveExit, RunFailed, Disconnect
  <2>5. CASE UNCHANGED pvars
    BY <2>5 DEF pvars, vars, process, loop, ResolveExit, RunFailed, Disconnect
  <2> QED BY <2>1, <2>2, <2>3, <2>4, <2>5 DEF ProcNext
<1> QED BY <1>1, <1>2, Refines, Transport, PTL DEF ProcSpec

\* The exit code tells the truth about a run that came to its end, whatever
\* the order of the signal thread's and main's steps (commands/mcp.rs).
THEOREM ExitTrue == ProcSpec => []ExitTruthful
<1>1. PInv => ExitTruthful
  BY DEF PInv, ExitTruthful, ResolveExit, RunFailed, Disconnect
<1> QED BY <1>1, ProcessInv, PTL

-----------------------------------------------------------------------------
(* What is owed.                                                           *)

\* The handler of line i has its answer still to give.
AtWork(i) == call[i].at \in {"running", "executing", "answering", "sending"}

\* A request that was handled is answered, or somebody has it in hand, or
\* there is nobody to answer any more.
Owed(i) ==
  i <= Len(taken) /\ sent[i].decode = "request" =>
    \/ answers[i] # <<>> \/ peerGone \/ phase = "over" \/ AtWork(i)
    \/ i = Len(taken) /\ (at = "gate" \/ phase \in {"pinging", "greeting"})

Owing == \A i \in Line : Owed(i)

\* A step that handles no line, and takes nothing out of anybody's hand.
LEMMA OwedKept ==
  ASSUME TInv, NEW i \in Line, Owed(i), UNCHANGED <<sent, taken>>,
         answers[i] # <<>> => answers'[i] # <<>>,
         peerGone => peerGone', phase = "over" => phase' = "over",
         AtWork(i) => AtWork(i)' \/ answers'[i] # <<>> \/ peerGone' \/ phase' = "over",
         i = Len(taken) /\ (at = "gate" \/ phase \in {"pinging", "greeting"}) =>
           \/ answers'[i] # <<>> \/ phase' = "over"
           \/ at' = "gate" \/ phase' \in {"pinging", "greeting"}
  PROVE  Owed(i)'
  BY DEF Owed, AtWork

\* The line that was read last is dispatched, put in a hand, or no request.
LEMMA OwedHandled ==
  ASSUME TInv, at = "read", NEW buf, HandleLine(buf), NEW n \in Nat,
         n = Len(taken) + 1, NextLine(buf, n), UNCHANGED <<stream, answers>>,
         NEW i \in Line, Owed(i)
  PROVE  Owed(i)'
<1>1. /\ Outcome(n) /\ n \in 1 .. Len(sent) /\ n \in Line /\ taken' = Append(taken, buf)
      /\ Len(taken') = n
  <2>1. /\ Outcome(n) /\ n \in 1 .. Len(sent) /\ n \in Line
        /\ taken' = Append(taken, buf)
    BY HandleOutcome
  <2>2. n <= MaxLines /\ UNCHANGED <<pieces, eof>>
    BY <2>1, Counts DEF stream, Line
  <2> QED BY <2>1, <2>2, Taken
<1>2. phase \in {"init", "serving"} /\ i \in Nat /\ Len(taken) \in Nat
  BY Counts DEF TInv, Place, TypeOK, Line
<1>3. call \in [Line -> [at : {"none", "running", "executing", "answering", "sending", "done"},
                         code : {"result", "limited", "rejected"}]]
  BY DEF TInv, TypeOK
<1>4. CASE i = n
  <2>1. sent[n].decode = "request" => ~OutOfBand(sent[n])
    BY DEF OutOfBand, UndecodableId
  <2>2. sent[n].decode = "request" =>
          \/ at' = "gate" \/ phase' \in {"greeting", "pinging"}
          \/ call'[n].at = "running"
    BY <1>1, <1>3, <2>1 DEF Outcome
  <2> QED BY <1>1, <1>4, <2>2 DEF Owed, AtWork, stream
<1>5. CASE i # n
  <2>1. call'[i] = call[i]
    BY <1>1, <1>3, <1>5 DEF Outcome
  <2>2. i <= n => i <= Len(taken)
    BY <1>2, <1>5
  <2> QED BY <1>1, <1>2, <1>5, <2>1, <2>2 DEF Owed, AtWork, stream
<1> QED BY <1>4, <1>5

LEMMA OwedStep == TInv /\ Owing /\ [Next]_vars => Owing'
<1> SUFFICES ASSUME TInv, Owing, [Next]_vars, NEW i \in Line PROVE Owed(i)'
  BY DEF Owing
<1>1. /\ Owed(i) /\ answers \in [Line -> Seq(Reply)] /\ i \in Nat
      /\ call \in [Line -> [at : {"none", "running", "executing", "answering", "sending", "done"},
                            code : {"result", "limited", "rejected"}]]
  BY DEF Owing, TInv, TypeOK, Line
<1>2. CASE Client \/ Cancel
  <2>1. CASE CloseInput
    <3>1. i <= Len(taken) => sent'[i] = sent[i]
      <4>1. CASE UNCHANGED sent
        BY <4>1
      <4>2. CASE pieces % 2 = 1 /\ sent' = [sent EXCEPT ![(pieces + 1) \div 2] = Truncated]
        <5>1. PICK m \in Nat : pieces = 2 * m + 1
          BY <4>2, Counts
        <5>2. (pieces + 1) \div 2 = m + 1
          <6>1. pieces + 1 = 2 * (m + 1) /\ m + 1 \in Nat
            BY <5>1
          <6> QED BY <6>1, Halves
        <5>3. m + 1 > Len(taken)
          <6>1. ~eof
            BY <2>1 DEF CloseInput
          <6>2. 2 * Len(taken) <= readPos /\ readPos <= pieces
            BY <6>1, Counts DEF TInv, Buffer
          <6> QED BY <5>1, <6>2, Counts
        <5> QED BY <1>1, <4>2, <5>2, <5>3, Counts DEF TInv, TypeOK
      <4> QED BY <2>1, <4>1, <4>2 DEF CloseInput
    <3> QED BY <1>1, <2>1, <3>1 DEF CloseInput, Owed, AtWork, loop
  <2>2. CASE WritePiece \/ PeerLeaves \/ Cancel
    BY <1>1, <2>2, OwedKept DEF WritePiece, PeerLeaves, Cancel, stream, loop, AtWork
  <2> QED BY <1>2, <2>1, <2>2 DEF Client
<1>3. CASE FillLine
  <2>1. /\ at = "read" /\ readPos < pieces /\ readPos % 2 = 1
        /\ lineBuf' = Append(lineBuf, readPos + 1) /\ UNCHANGED <<stream, answers>>
    BY <1>3 DEF FillLine
  <2>2. PICK n \in Nat : n = Len(taken) + 1
    BY Counts
  <2>3. lineBuf = <<readPos>> /\ readPos = 2 * n - 1
    <3>1. ~lineComplete /\ Buffered(Len(taken), readPos, lineBuf, lineComplete)
      BY <2>1 DEF TInv, Buffer, Place
    <3>2. readPos # 2 * Len(taken)
      BY <2>1, Counts, Halves
    <3> QED BY <2>1, <2>2, <3>1, <3>2, Counts DEF Buffered
  <2>4. PICK buf : buf = lineBuf'
    OBVIOUS
  <2>5. NextLine(buf, n)
    <3>1. Append(<<readPos>>, readPos + 1) = <<readPos, readPos + 1>>
      BY Appends
    <3>2. readPos + 1 = 2 * n /\ 2 * n <= pieces
      BY <2>1, <2>3, Counts
    <3> QED BY <2>1, <2>2, <2>3, <2>4, <3>1, <3>2 DEF NextLine
  <2>6. HandleLine(buf)
    BY <1>3, <2>4 DEF FillLine
  <2> QED BY <1>1, <2>1, <2>2, <2>5, <2>6, OwedHandled
<1>4. CASE ReadEof
  <2>1. CASE EndRead /\ UNCHANGED <<lineBuf, lineComplete, parked, call, taken>>
    BY <1>1, <1>4, <2>1, OwedKept DEF ReadEof, EndRead, stream, AtWork, TInv, Place
  <2>2. CASE lineBuf # <<>> /\ HandleLine(lineBuf)
    <3>1. at = "read" /\ eof /\ readPos = pieces /\ UNCHANGED <<stream, answers>>
      BY <1>4 DEF ReadEof
    <3>2. PICK n \in Nat : n = Len(taken) + 1
      BY Counts
    <3>3. ~lineComplete /\ Buffered(Len(taken), readPos, lineBuf, lineComplete)
      BY <3>1 DEF TInv, Buffer, Place
    <3>4. NextLine(lineBuf, n)
      BY <2>2, <3>1, <3>2, <3>3, Counts DEF Buffered, NextLine
    <3> QED BY <1>1, <2>2, <3>1, <3>2, <3>4, OwedHandled
  <2> QED BY <1>4, <2>1, <2>2 DEF ReadEof
<1>5. CASE LoopHead \/ FillHead \/ ReadFails \/ Close \/ ObserveCancel
  BY <1>1, <1>5, OwedKept
     DEF LoopHead, FillHead, ReadFails, Close, ObserveCancel, EndRead, stream, loop,
         AtWork, TInv, Place
<1>6. CASE WriteParked
  <2>1. answers[i] # <<>> => answers'[i] # <<>>
    <3>1. parked \in Parked
      BY <1>6 DEF WriteParked, TInv, TypeOK, NoReply
    <3>2. answers[parked.line] = <<>> /\ parked.line \in Line
      BY <1>6, <3>1, LastLine DEF WriteParked, TInv, Pending, Unanswered
    <3>3. i # parked.line => answers'[i] = answers[i]
      BY <1>1, <1>6 DEF WriteParked, WriteReply
    <3> QED BY <3>2, <3>3
  <2> QED BY <1>1, <1>6, <2>1, OwedKept DEF WriteParked, stream, loop, AtWork
<1>7. CASE GateReply \/ HandshakeReply
  <2>1. at = "gate" \/ phase \in {"pinging", "greeting"}
    BY <1>7 DEF GateReply, HandshakeReply
  <2>2. /\ LineOf(lineBuf) = Len(taken) /\ Len(taken) \in Line
        /\ answers[Len(taken)] = <<>>
    BY <2>1, InHand DEF Unanswered
  <2>3. ASSUME NEW r \in Reply, WriteReply(LineOf(lineBuf), r)
        PROVE  /\ answers'[Len(taken)] # <<>>
               /\ i # Len(taken) => answers'[i] = answers[i]
    BY <2>2, <2>3, Wrote
  <2>4. /\ [code |-> "invalid", id |-> TRUE] \in Reply
        /\ [code |-> "result", id |-> TRUE] \in Reply
    BY DEF Reply
  <2>5. CASE GateReply
    <3>1. CASE WriteReply(LineOf(lineBuf), [code |-> "invalid", id |-> TRUE])
      BY <1>1, <2>2, <2>3, <2>4, <2>5, <3>1, OwedKept
         DEF GateReply, EndRead, stream, loop, AtWork, TInv, Place
    <3>2. CASE EndRead /\ UNCHANGED answers
      BY <1>1, <2>5, <3>2, OwedKept DEF GateReply, EndRead, stream, AtWork, TInv, Place
    <3> QED BY <2>5, <3>1, <3>2 DEF GateReply
  <2>6. CASE HandshakeReply
    <3>1. CASE WriteReply(LineOf(lineBuf), [code |-> "result", id |-> TRUE])
      BY <1>1, <2>2, <2>3, <2>4, <2>6, <3>1, OwedKept
         DEF HandshakeReply, stream, AtWork, TInv, Place
    <3>2. CASE phase' = "over" /\ UNCHANGED answers
      BY <1>1, <2>6, <3>2, OwedKept DEF HandshakeReply, stream, AtWork
    <3> QED BY <2>6, <3>1, <3>2 DEF HandshakeReply
  <2> QED BY <1>7, <2>5, <2>6
<1>8. ASSUME NEW j \in Line, Respond(j) \/ StartCall(j) \/ FinishCall(j)
      PROVE  Owed(i)'
  <2>1. AtWork(j) /\ AtWork(j)'
    BY <1>1, <1>8 DEF Respond, StartCall, FinishCall, SetCall, AtWork
  <2>2. i # j => call'[i] = call[i]
    BY <1>1, <1>8 DEF Respond, StartCall, FinishCall, SetCall
  <2>3. /\ UNCHANGED <<stream, answers, loop, taken>>
        /\ at' = at \/ (at' = "top" /\ phase = "serving")
    BY <1>8 DEF Respond, StartCall, FinishCall
  <2> QED BY <1>1, <2>1, <2>2, <2>3, OwedKept DEF stream, loop, AtWork, TInv, Place
<1>9. ASSUME NEW j \in Line, SendResponse(j)
      PROVE  Owed(i)'
  <2>1. call[j].at = "sending" /\ UNCHANGED <<stream, at, loop, taken, writeHalf>>
    BY <1>9 DEF SendResponse
  <2>2. i # j => call'[i] = call[i]
    BY <1>1, <1>9 DEF SendResponse
  <2>3. answers[j] = <<>> /\ [code |-> call[j].code, id |-> TRUE] \in Reply
    BY <1>1, <2>1 DEF TInv, Lines, LineInv, Reply
  <2>4. CASE WriteReply(j, [code |-> call[j].code, id |-> TRUE])
    <3>1. answers'[j] # <<>> /\ (i # j => answers'[i] = answers[i])
      BY <2>3, <2>4, Wrote
    <3> QED BY <1>1, <2>1, <2>2, <2>3, <3>1, OwedKept DEF stream, loop, AtWork
  <2>5. CASE ~Writable /\ UNCHANGED answers
    <3>1. peerGone \/ phase = "over"
      BY <2>5 DEF Writable, TInv, TypeOK, Place
    <3> QED BY <1>1, <2>1, <2>5, <3>1, OwedKept DEF stream, loop
  <2> QED BY <1>9, <2>4, <2>5 DEF SendResponse
<1>10. CASE UNCHANGED vars
  BY <1>1, <1>10 DEF Owed, AtWork, vars, stream, loop
<1> QED BY <1>2, <1>3, <1>4, <1>5, <1>6, <1>7, <1>8, <1>9, <1>10
     DEF Next, Server, Client, Receive, Serve, Handler

\* While the reader waits for the next byte, every line that was read whole
\* and expects an answer has it, or a handler that is still to give it.
NoneForgotten ==
  at = "read" =>
    \A i \in Line :
      2 * i <= readPos /\ (sent[i].decode = "request" \/ OutOfBand(sent[i])) =>
        answers[i] # <<>> \/ peerGone \/ AtWork(i)

\* Whatever the client writes and however often receive() is dropped: no line
\* that expects an answer is lost on its way through the transport, the gate,
\* the handshake and the handlers (wire.rs, pre_handshake.rs, server.rs).
THEOREM NothingForgotten == ProcSpec => []NoneForgotten
<1>1. Init => Owing
  <2> SUFFICES ASSUME Init, NEW i \in Line PROVE Owed(i)
    BY DEF Owing
  <2>1. taken = <<>> /\ Len(taken) = 0 /\ i > 0 /\ i \in Nat
    BY DEF Init, Line
  <2> QED BY <2>1 DEF Owed
<1>2. TInv /\ Owing => NoneForgotten
  <2> SUFFICES ASSUME TInv, Owing, at = "read", NEW i \in Line, 2 * i <= readPos,
                      sent[i].decode = "request" \/ OutOfBand(sent[i])
               PROVE  answers[i] # <<>> \/ peerGone \/ AtWork(i)
    BY DEF NoneForgotten
  <2>1. phase \in {"init", "serving"} /\ i \in Nat /\ i > 0
    BY DEF TInv, Place, TypeOK, Line
  <2>2. i <= Len(taken)
    <3>1. ~lineComplete /\ Buffered(Len(taken), readPos, lineBuf, lineComplete)
      BY <2>1 DEF TInv, Buffer
    <3> QED BY <2>1, <3>1, Counts DEF Buffered
  <2>3. CASE sent[i].decode = "request"
    BY <2>1, <2>2, <2>3 DEF Owing, Owed
  <2>4. CASE OutOfBand(sent[i])
    BY <2>1, <2>2, <2>4, RepliesInTime, Counts DEF ReplyBeforeNextRead
  <2> QED BY <2>3, <2>4
<1> QED BY <1>1, <1>2, OwedStep, Transport, Refines, PTL DEF Spec

-----------------------------------------------------------------------------
(* The permits.                                                            *)

\* Never more calls execute at a time than there are permits.
PermitsKept == IsFiniteSet(Executing) /\ Cardinality(Executing) <= Permits

LEMMA PermitsStep == TInv /\ PermitsKept /\ [Next]_vars => PermitsKept'
<1> SUFFICES ASSUME TInv, PermitsKept, [Next]_vars PROVE PermitsKept'
  OBVIOUS
<1>1. /\ Permits \in Nat /\ Cardinality(Executing) \in Nat
      /\ call \in [Line -> [at : {"none", "running", "executing", "answering", "sending", "done"},
                            code : {"result", "limited", "rejected"}]]
  BY StreamsAssumption, FS_CardinalityType DEF PermitsKept, TInv, TypeOK
<1>2. ASSUME Executing' \subseteq Executing PROVE PermitsKept'
  <2>1. IsFiniteSet(Executing') /\ Cardinality(Executing') <= Cardinality(Executing)
    BY <1>2, FS_Subset DEF PermitsKept
  <2>2. Cardinality(Executing') \in Nat
    BY <2>1, FS_CardinalityType
  <2> QED BY <1>1, <2>1, <2>2 DEF PermitsKept
<1>3. CASE call' = call
  BY <1>2, <1>3 DEF Executing
<1>4. ASSUME NEW i \in Line, StartCall(i) PROVE PermitsKept'
  <2>1. \A j \in Line : j # i => call'[j] = call[j]
    BY <1>1, <1>4 DEF StartCall, SetCall
  <2>2. CASE SetCall(i, "executing", "result") /\ Cardinality(Executing) < Permits
    <3>1. Executing' = Executing \cup {i} /\ i \notin Executing
      BY <1>1, <1>4, <2>1, <2>2 DEF StartCall, SetCall, Executing
    <3>2. IsFiniteSet(Executing') /\ Cardinality(Executing') = Cardinality(Executing) + 1
      BY <3>1, FS_AddElement DEF PermitsKept
    <3> QED BY <1>1, <2>2, <3>2 DEF PermitsKept
  <2>3. CASE \E c : SetCall(i, "answering", c)
    BY <1>1, <1>2, <2>1, <2>3 DEF SetCall, Executing
  <2> QED BY <1>4, <2>2, <2>3 DEF StartCall
<1>5. ASSUME NEW i \in Line, Respond(i) \/ FinishCall(i) \/ SendResponse(i)
      PROVE  PermitsKept'
  BY <1>1, <1>2, <1>5 DEF Respond, FinishCall, SendResponse, SetCall, Executing
<1>6. ASSUME NEW buf, HandleLine(buf) PROVE PermitsKept'
  <2>1. \/ call' = call
        \/ \E i : call' = [call EXCEPT ![i].at = "running"]
    BY <1>6 DEF HandleLine, Park, Gate, Deliver
  <2> QED BY <1>1, <1>2, <1>3, <2>1 DEF Executing
<1>7. CASE FillLine \/ ReadEof
  BY <1>3, <1>6, <1>7 DEF FillLine, ReadEof
<1>8. CASE \/ Client \/ Cancel \/ LoopHead \/ FillHead \/ GateReply \/ ReadFails
           \/ WriteParked \/ HandshakeReply \/ Close \/ ObserveCancel
  BY <1>3, <1>8 DEF Client, WritePiece, CloseInput, PeerLeaves, Cancel, LoopHead,
     FillHead, GateReply, ReadFails, WriteParked, HandshakeReply, Close, ObserveCancel
<1>9. CASE UNCHANGED vars
  BY <1>3, <1>9 DEF vars
<1> QED BY <1>4, <1>5, <1>7, <1>8, <1>9 DEF Next, Server, Receive, Serve, Handler

\* The limit on concurrent calls holds whatever the client sends and in any
\* order of starting and finishing (server.rs, call_tool and read_resource).
THEOREM LimitKept == ProcSpec => []PermitsKept
<1>1. Init => PermitsKept
  <2> SUFFICES ASSUME Init PROVE PermitsKept
    OBVIOUS
  <2>1. Executing = {}
    BY DEF Init, Executing, Idle
  <2> QED BY <2>1, FS_EmptySet, StreamsAssumption DEF PermitsKept
<1> QED BY <1>1, PermitsStep, Transport, Refines, PTL DEF Spec

=============================================================================
