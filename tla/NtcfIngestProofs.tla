-------------------------- MODULE NtcfIngestProofs --------------------------
(***************************************************************************)
(* Proofs about the ingestion pipeline: what Run has counted, taken and    *)
(* committed at every step, for sources of any length, any set of lines    *)
(* that decode or do not fit, and any number of failures and restarts.     *)
(***************************************************************************)
EXTENDS NtcfIngest, SequenceTheorems, TLAPS

\* One for a condition that holds.
Delta(b) == IF b THEN 1 ELSE 0

Handling == pc \in {"check", "decode", "append"}

\* The tokens taken since the scanner started: a line whose beginning was
\* skipped and one whose end was never read are a token each.
Tokens == IF tok = start THEN 0 ELSE (tok + 1) \div 2 - start \div 2

(***************************************************************************)
(* The scanner.  It stands between two lines, unless it started inside one *)
(* or handed out a torn last one; the line being handled is the one before *)
(* it, and its part follows from where the scanner started and stands.     *)
(***************************************************************************)
BetweenLines ==
    /\ tok % 2 = 1 => tok = start \/ (readErr # "none" /\ tok = rd)
    /\ readErr # "none" => pc \notin {"read", "wait"}

LineInHand ==
    Handling =>
        /\ line \in Line
        /\ start < tok
        /\ line.of = (tok + 1) \div 2
        /\ line.part = "whole" <=> (tok % 2 = 0 /\ start <= tok - 2)
        /\ line.part = "rest" <=> (tok % 2 = 0 /\ start = tok - 1)

\* Why the reads ended: a pipe that is closed has no more, and only a cancelled
\* Tailer comes to an end.
EndOfInput ==
    /\ input \in Inputs
    /\ input # "tail_end" => start = 0
    /\ readErr = "eof" /\ input = "pipe" => ended /\ rd = written
    /\ readErr = "eof" /\ Follow => ctxDone
    /\ pc = "wait" => Follow

(***************************************************************************)
(* The counters of Stats, against the tokens taken and the writer's log.   *)
(***************************************************************************)
OutcomeFits ==
    /\ runErr # "nil" => pc \in {"close", "done"}
    /\ result = "none" <=> pc # "done"
    /\ runErr = "canceled" => ctxDone
    /\ pc \in {"close", "done"} /\ runErr = "nil" => readErr = "eof" /\ tok = rd
    /\ up /\ result = "nil" => durable = Len(log) /\ runErr \in {"nil", "canceled"}

Counted ==
    /\ lines + Delta(pc = "check" \/ runErr = "canceled") = Tokens
    /\ records + skipped + Delta(pc \in {"decode", "append"} \/ runErr = "append") = lines
    /\ up => Len(log) = records + Delta(runErr = "append")

\* Everything above: where Run stands.
Standing ==
    /\ TypeOK
    /\ BetweenLines
    /\ LineInHand
    /\ EndOfInput
    /\ OutcomeFits
    /\ Counted

(***************************************************************************)
(* The log.  Its lines are behind the scanner, in order, and the whole ones *)
(* among them are the decodable ones that were handled.                     *)
(***************************************************************************)
HandledLines == lines - Delta(pc \in {"decode", "append"})

LogInOrder ==
    /\ \A i \in 1 .. Len(log) : log[i].of \in FirstLine .. FirstLine + HandledLines - 1
    /\ \A i, j \in 1 .. Len(log) : i < j => log[i].of < log[j].of

LogOfWholeLines ==
    /\ \A i \in 1 .. Len(log) : log[i].part = "whole" => log[i].of \in Decodable
    /\ \A l \in FirstLine .. FirstLine + HandledLines - 1 :
          start <= 2 * l - 2 /\ 2 * l <= tok /\ l \in Decodable =>
              \E i \in 1 .. Len(log) : log[i] = WholeLine(l)

LogInv ==
    /\ up => LogInOrder /\ LogOfWholeLines
    /\ pc = "append" => (line.part = "whole" => line.of \in Decodable)

\* Of a followed file, a torn line gets past the check of ctx only when the
\* read failed.
TornInv ==
    /\ TornLineDropped
    /\ Follow /\ pc \in {"decode", "append"} /\ line.part = "start" => readErr = "failed"

DeadlineInv ==
    /\ overdue \in {0, 1}
    /\ overdue = 1 => pc \in {"checkpoint", "close", "done"}
    /\ due => Checkpointing

(***************************************************************************)
(* Where Run stands, step by step.                                         *)
(***************************************************************************)

\* What a scan that finds a token does to the scanner: the token is the line
\* that comes next, whole or torn, and only the first one may lack its start.
LEMMA TokenTaken ==
    ASSUME Standing, Scan, pc' = "check"
    PROVE  \E whole \in BOOLEAN :
              /\ Token(whole)
              /\ NextLine \in 1 .. NLines
              /\ 2 * NextLine - 2 <= tok /\ tok < 2 * NextLine
              /\ tok' = IF whole THEN 2 * NextLine ELSE 2 * NextLine - 1
              /\ tok' <= rd
              /\ tok % 2 = 1 => whole /\ tok = start
              /\ ~ whole => rd = tok' /\ readErr # "none"
<1> USE IngestAssumption DEF Standing, TypeOK
<1>1. PICK whole \in BOOLEAN :
         /\ Token(whole)
         /\ rd > tok
         /\ whole => HasLine
         /\ ~ whole => ~ HasLine /\ ~ TooLong /\ readErr # "none"
  <2>1. \/ HasLine /\ Token(TRUE)
        \/ ~ TooLong /\ ~ HasLine /\ readErr # "none" /\ rd > tok /\ Token(FALSE)
    BY DEF Scan, Fail, EndOfScan
  <2>2. HasLine => rd > tok
    BY DEF HasLine, NextLine
  <2> QED
    BY <2>1, <2>2
<1>2. /\ NextLine \in 1 .. NLines
      /\ 2 * NextLine - 2 <= tok /\ tok < 2 * NextLine
  BY <1>1 DEF NextLine
<1>3. ~ whole => rd = tok' /\ rd = 2 * NextLine - 1
  BY <1>1, <1>2 DEF HasLine, Token
<1>4. tok % 2 = 1 => tok = 2 * NextLine - 1 /\ tok = start
  BY <1>1 DEF BetweenLines, NextLine
<1> QED
  BY <1>1, <1>2, <1>3, <1>4 DEF Token, HasLine

\* A scan keeps the scanner's place and the line in hand in step.
LEMMA ScanTakesLine ==
    ASSUME Standing, Scan
    PROVE  LineInHand'
<1> USE DEF Standing, TypeOK, Handling, LineInHand
<1>1. CASE pc' # "check"
  BY <1>1 DEF Scan, Fail, Token, EndOfScan
<1>2. CASE pc' = "check"
  <2>1. PICK whole \in BOOLEAN :
            /\ Token(whole)
            /\ NextLine \in 1 .. NLines
            /\ 2 * NextLine - 2 <= tok /\ tok < 2 * NextLine
            /\ tok' = IF whole THEN 2 * NextLine ELSE 2 * NextLine - 1
            /\ tok % 2 = 1 => whole /\ tok = start
    BY <1>2, TokenTaken
  <2> QED
    BY <2>1, <1>2 DEF Token, Taken, Scan, life, Line, Parts
<1> QED
  BY <1>1, <1>2

\* A scan takes one token, which no counter knows of yet, or none.
LEMMA ScanCounts ==
    ASSUME Standing, Scan
    PROVE  Counted'
<1> USE DEF Standing, TypeOK, Counted, Delta, Tokens, BetweenLines, OutcomeFits
<1>1. CASE pc' # "check"
  BY <1>1 DEF Scan, Fail, Token, EndOfScan, life, stats, writer
<1>2. CASE pc' = "check"
  <2>1. PICK whole \in BOOLEAN :
            /\ Token(whole)
            /\ NextLine \in 1 .. NLines
            /\ 2 * NextLine - 2 <= tok /\ tok < 2 * NextLine
            /\ tok' = IF whole THEN 2 * NextLine ELSE 2 * NextLine - 1
            /\ tok % 2 = 1 => whole /\ tok = start
    BY <1>2, TokenTaken
  <2>2. UNCHANGED start
    BY DEF Scan, life
  <2>3. Tokens' = Tokens + 1
    BY <2>1, <2>2
  <2>4. UNCHANGED <<lines, records, skipped, log, up, runErr>>
    BY <2>1 DEF Scan, Token, stats, writer
  <2>5. pc = "scan" /\ runErr = "nil"
    BY DEF Scan
  <2> HIDE DEF Tokens
  <2> QED
    BY <2>3, <2>4, <2>5, <1>2
<1> QED
  BY <1>1, <1>2

\* A line that is counted is one token; a cancelled run leaves the last token
\* out.
LEMMA CheckCounts ==
    ASSUME Standing, Check
    PROVE  Counted'
<1> USE DEF Standing, TypeOK, Counted, Delta, OutcomeFits
<1>1. UNCHANGED <<tok, start, records, skipped, log, up>> /\ pc = "check" /\ runErr = "nil"
  BY DEF Check, scanner, life, writer
<1>2. Tokens' = Tokens /\ Tokens \in Int
  BY <1>1 DEF Tokens
<1>3. CASE ctxDone
  BY <1>1, <1>2, <1>3 DEF Check, CheckContext, Fail
<1>4. CASE ~ ctxDone
  BY <1>1, <1>2, <1>4 DEF Check, CheckContext, CountLine
<1> QED
  BY <1>3, <1>4

\* An append puts one record into the log, and counts it unless it failed.
LEMMA AppendCounts ==
    ASSUME Standing, AppendRecord
    PROVE  Counted'
<1> USE DEF Standing, TypeOK, Counted, Delta, OutcomeFits
<1>1. UNCHANGED <<tok, start, lines, skipped, up>> /\ pc = "append" /\ runErr = "nil"
  BY DEF AppendRecord, scanner, life, Writer!Add
<1>2. Tokens' = Tokens
  BY <1>1 DEF Tokens
<1>3. Len(log') = Len(log) + 1 /\ Len(log) \in Nat
  BY AppendProperties DEF AppendRecord, Writer!Add, Writer!TypeOK
<1>4. \/ records' = records + 1 /\ pc' \in {"scan", "checkpoint"} /\ runErr' = "nil"
      \/ records' = records /\ pc' = "close" /\ runErr' = "append"
  BY <1>1 DEF AppendRecord, AppendFailed, Fail
<1> QED
  BY <1>1, <1>2, <1>3, <1>4

\* A call of the writer's and a crash leave the log well typed.
LEMMA WriterType ==
    ASSUME Standing, Checkpoint \/ Close \/ Crash \/ Restart
    PROVE  Writer!TypeOK'
<1> USE DEF Standing, TypeOK, Writer!TypeOK
<1>1. CASE Checkpoint \/ Close
  <2>1. log' = log /\ up' = up /\ durable' \in {durable, Len(log)}
    BY <1>1 DEF Checkpoint, Close, Writer!Commit, writer
  <2> QED
    BY <2>1
<1>2. CASE Crash
  <2>1. log' \in Seq(Line) /\ Len(log') = durable
    BY <1>2, SubSeqProperties DEF Crash, Writer!Crash
  <2>2. up' = FALSE /\ durable' = durable
    BY <1>2 DEF Crash, Writer!Crash
  <2>3. durable' \in 0 .. Len(log')
    BY <2>1, <2>2
  <2> QED
    BY <2>1, <2>2, <2>3
<1>3. CASE Restart
  BY <1>3 DEF Restart, Created
<1> QED
  BY <1>1, <1>2, <1>3

\* Every step, of Run and of its surroundings, leaves the counters, the scanner
\* and the log in step (ingest.go:84-119).
LEMMA StandingStep ==
    ASSUME Standing, [Next]_vars
    PROVE  Standing'
<1> USE IngestAssumption DEF Standing, TypeOK, Line, NoLine, Parts, Writer!TypeOK, Follow,
      Handling, Tokens, Delta, source, scanner, stats, writer, clock, life
<1>1. CASE SourceGrows
  <2>1. TypeOK'
    BY <1>1 DEF SourceGrows
  <2>2. BetweenLines'
    BY <1>1 DEF BetweenLines, LineInHand, SourceGrows
  <2>3. LineInHand'
    BY <1>1 DEF LineInHand, SourceGrows
  <2>4. EndOfInput'
    BY <1>1 DEF EndOfInput, SourceGrows
  <2>5. OutcomeFits'
    BY <1>1 DEF OutcomeFits, Counted, BetweenLines, EndOfInput, SourceGrows
  <2>6. Counted'
    BY <1>1 DEF Counted, OutcomeFits, SourceGrows
  <2> QED
    BY <2>1, <2>2, <2>3, <2>4, <2>5, <2>6
<1>2. CASE SourceEnds
  <2>1. TypeOK'
    BY <1>2 DEF SourceEnds
  <2>2. BetweenLines'
    BY <1>2 DEF BetweenLines, LineInHand, SourceEnds
  <2>3. LineInHand'
    BY <1>2 DEF LineInHand, SourceEnds
  <2>4. EndOfInput'
    BY <1>2 DEF EndOfInput, SourceEnds
  <2>5. OutcomeFits'
    BY <1>2 DEF OutcomeFits, Counted, BetweenLines, EndOfInput, SourceEnds
  <2>6. Counted'
    BY <1>2 DEF Counted, OutcomeFits, SourceEnds
  <2> QED
    BY <2>1, <2>2, <2>3, <2>4, <2>5, <2>6
<1>3. CASE Cancel
  <2>1. TypeOK'
    BY <1>3 DEF Cancel
  <2>2. BetweenLines'
    BY <1>3 DEF BetweenLines, LineInHand, Cancel
  <2>3. LineInHand'
    BY <1>3 DEF LineInHand, Cancel
  <2>4. EndOfInput'
    BY <1>3 DEF EndOfInput, Cancel
  <2>5. OutcomeFits'
    BY <1>3 DEF OutcomeFits, Counted, BetweenLines, EndOfInput, Cancel
  <2>6. Counted'
    BY <1>3 DEF Counted, OutcomeFits, Cancel
  <2> QED
    BY <2>1, <2>2, <2>3, <2>4, <2>5, <2>6
<1>4. CASE DeadlinePasses
  <2>1. TypeOK'
    BY <1>4 DEF DeadlinePasses
  <2>2. BetweenLines'
    BY <1>4 DEF BetweenLines, LineInHand, DeadlinePasses
  <2>3. LineInHand'
    BY <1>4 DEF LineInHand, DeadlinePasses
  <2>4. EndOfInput'
    BY <1>4 DEF EndOfInput, DeadlinePasses
  <2>5. OutcomeFits'
    BY <1>4 DEF OutcomeFits, Counted, BetweenLines, EndOfInput, DeadlinePasses
  <2>6. Counted'
    BY <1>4 DEF Counted, OutcomeFits, DeadlinePasses
  <2> QED
    BY <2>1, <2>2, <2>3, <2>4, <2>5, <2>6
<1>5. CASE Crash
  <2>1. TypeOK'
    BY <1>5, WriterType DEF Crash
  <2>2. BetweenLines'
    BY <1>5 DEF BetweenLines, LineInHand, Crash, Writer!Crash
  <2>3. LineInHand'
    BY <1>5 DEF LineInHand, Crash, Writer!Crash
  <2>4. EndOfInput'
    BY <1>5 DEF EndOfInput, Crash, Writer!Crash
  <2>5. OutcomeFits'
    BY <1>5 DEF OutcomeFits, Counted, BetweenLines, EndOfInput, Crash, Writer!Crash
  <2>6. Counted'
    BY <1>5 DEF Counted, OutcomeFits, Crash, Writer!Crash
  <2> QED
    BY <2>1, <2>2, <2>3, <2>4, <2>5, <2>6
<1>6. CASE Restart
  <2>1. TypeOK'
    <3>1. start' \in 0 .. written'
      BY <1>6 DEF Restart
    <3>2. 0 \in 0 .. NLines /\ 0 \in 0 .. 0
      BY IngestAssumption
    <3>3. Writer!TypeOK'
      BY <1>6, WriterType
    <3>4. /\ written' \in 0 .. 2 * NLines /\ rd' \in 0 .. written'
          /\ start' \in 0 .. tok' /\ tok' \in 0 .. rd' /\ faults' \in 0 .. MaxFaults
      BY <1>6, <3>1 DEF Restart
    <3>5. ended' \in BOOLEAN /\ ctxDone' \in BOOLEAN /\ due' \in BOOLEAN
      BY <1>6 DEF Restart
    <3> QED
      BY <1>6, <3>2, <3>3, <3>4, <3>5 DEF Restart
  <2>2. BetweenLines'
    BY <1>6 DEF BetweenLines, LineInHand, Restart, Created
  <2>3. LineInHand'
    BY <1>6 DEF LineInHand, Restart, Created
  <2>4. EndOfInput'
    BY <1>6 DEF EndOfInput, Restart, Created
  <2>5. OutcomeFits'
    BY <1>6 DEF OutcomeFits, Counted, BetweenLines, EndOfInput, Restart, Created
  <2>6. Counted'
    BY <1>6 DEF Counted, OutcomeFits, Restart, Created
  <2> QED
    BY <2>1, <2>2, <2>3, <2>4, <2>5, <2>6
<1>7. CASE up /\ Scan
  <2>1. TypeOK'
    <3>1. CASE pc' = "check"
      <4>1. PICK whole \in BOOLEAN :
                /\ Token(whole)
                /\ NextLine \in 1 .. NLines
                /\ 2 * NextLine - 2 <= tok /\ tok < 2 * NextLine
                /\ tok' = IF whole THEN 2 * NextLine ELSE 2 * NextLine - 1
                /\ tok' <= rd
        BY <1>7, <3>1, TokenTaken
      <4>2. line' \in Line
        BY <4>1 DEF Token, Taken
      <4>3. start \in 0 .. tok' /\ tok' \in 0 .. rd
        BY <4>1
      <4>4. UNCHANGED <<source, ctxDone, clock, rd, readErr, result, stats, writer, faults, life, runErr>>
        BY <1>7, <4>1 DEF Scan, Token
      <4> QED
        BY <3>1, <4>2, <4>3, <4>4
    <3>2. CASE pc' # "check"
      BY <1>7, <3>2 DEF Scan, Token, EndOfScan, Fail
    <3> QED
      BY <3>1, <3>2
  <2>2. BetweenLines'
    <3>1. CASE pc' = "check"
      <4>1. PICK whole \in BOOLEAN :
                /\ NextLine \in 1 .. NLines
                /\ tok' = IF whole THEN 2 * NextLine ELSE 2 * NextLine - 1
                /\ ~ whole => rd = tok' /\ readErr # "none"
        BY <1>7, <3>1, TokenTaken
      <4>2. UNCHANGED <<start, rd, readErr>>
        BY <1>7 DEF Scan
      <4> QED
        BY <3>1, <4>1, <4>2 DEF BetweenLines
    <3>2. CASE pc' # "check"
      BY <1>7, <3>2 DEF BetweenLines, Scan, Token, EndOfScan, Fail
    <3> QED
      BY <3>1, <3>2
  <2>3. LineInHand'
    BY <1>7, ScanTakesLine
  <2>4. EndOfInput'
    BY <1>7 DEF EndOfInput, Scan, NextLine, MayBeTooLong, TooLong, HasLine, Taken, Token,
       EndOfScan, Fail
  <2>5. OutcomeFits'
    BY <1>7 DEF OutcomeFits, Counted, BetweenLines, EndOfInput, Scan, NextLine,
       MayBeTooLong, TooLong, HasLine, Taken, Token, EndOfScan, Fail
  <2>6. Counted'
    BY <1>7, ScanCounts
  <2> QED
    BY <2>1, <2>2, <2>3, <2>4, <2>5, <2>6
<1>8. CASE up /\ Read
  <2>1. TypeOK'
    BY <1>8 DEF Read, ReadEnds, TailerStops, Fault
  <2>2. BetweenLines'
    BY <1>8 DEF BetweenLines, LineInHand, Read, ReadEnds, TailerStops, Fault
  <2>3. LineInHand'
    BY <1>8 DEF LineInHand, Read, ReadEnds, TailerStops, Fault
  <2>4. EndOfInput'
    BY <1>8 DEF EndOfInput, Read, ReadEnds, TailerStops, Fault
  <2>5. OutcomeFits'
    BY <1>8 DEF OutcomeFits, Counted, BetweenLines, EndOfInput, Read, ReadEnds,
       TailerStops, Fault
  <2>6. Counted'
    BY <1>8 DEF Counted, OutcomeFits, Read, ReadEnds, TailerStops, Fault
  <2> QED
    BY <2>1, <2>2, <2>3, <2>4, <2>5, <2>6
<1>9. CASE up /\ Wait
  <2>1. TypeOK'
    BY <1>9 DEF Wait, TailerStops, ReadEnds
  <2>2. BetweenLines'
    BY <1>9 DEF BetweenLines, LineInHand, Wait, TailerStops, ReadEnds
  <2>3. LineInHand'
    BY <1>9 DEF LineInHand, Wait, TailerStops, ReadEnds
  <2>4. EndOfInput'
    BY <1>9 DEF EndOfInput, Wait, TailerStops, ReadEnds
  <2>5. OutcomeFits'
    BY <1>9 DEF OutcomeFits, Counted, BetweenLines, EndOfInput, Wait, TailerStops, ReadEnds
  <2>6. Counted'
    BY <1>9 DEF Counted, OutcomeFits, Wait, TailerStops, ReadEnds
  <2> QED
    BY <2>1, <2>2, <2>3, <2>4, <2>5, <2>6
<1>10. CASE up /\ Check
  <2>1. TypeOK'
    BY <1>10 DEF LineInHand, Counted, Check, CheckContext, CountLine, Fail
  <2>2. BetweenLines'
    BY <1>10 DEF BetweenLines, LineInHand, Check, CheckContext, CountLine, Fail
  <2>3. LineInHand'
    BY <1>10 DEF LineInHand, Check, CheckContext, CountLine, Fail
  <2>4. EndOfInput'
    BY <1>10 DEF EndOfInput, Check, CheckContext, CountLine, Fail
  <2>5. OutcomeFits'
    BY <1>10 DEF OutcomeFits, Counted, BetweenLines, EndOfInput, Check, CheckContext,
       CountLine, Fail
  <2>6. Counted'
    BY <1>10, CheckCounts
  <2> QED
    BY <2>1, <2>2, <2>3, <2>4, <2>5, <2>6
<1>11. CASE up /\ Decode
  <2>1. TypeOK'
    BY <1>11 DEF Counted, Decode, Decodes
  <2>2. BetweenLines'
    BY <1>11 DEF BetweenLines, LineInHand, Decode, Decodes
  <2>3. LineInHand'
    BY <1>11 DEF LineInHand, Decode, Decodes
  <2>4. EndOfInput'
    BY <1>11 DEF EndOfInput, Decode, Decodes
  <2>5. OutcomeFits'
    BY <1>11 DEF OutcomeFits, Counted, BetweenLines, EndOfInput, Decode, Decodes
  <2>6. Counted'
    <3>1. /\ UNCHANGED <<start, tok, rd, lines, records, runErr, log, up>> /\ pc = "decode"
          /\ \/ pc' = "append" /\ UNCHANGED skipped
             \/ pc' = "scan" /\ skipped' = skipped + 1
      BY <1>11 DEF Decode
    <3>2. runErr = "nil"
      BY <3>1 DEF OutcomeFits
    <3>3. UNCHANGED Tokens
      BY <3>1 DEF Tokens
    <3>4. /\ lines = Tokens
          /\ records + skipped + 1 = lines
          /\ up => Len(log) = records
      BY <3>1, <3>2 DEF Counted
    <3>5. (lines + Delta(pc = "check" \/ runErr = "canceled") = Tokens)'
      BY <3>1, <3>2, <3>3, <3>4
    <3>6. (records + skipped + Delta(pc \in {"decode", "append"} \/ runErr = "append") = lines)'
      BY <3>1, <3>2, <3>4
    <3>7. (up => Len(log) = records + Delta(runErr = "append"))'
      BY <3>1, <3>2, <3>4
    <3> QED  BY <3>5, <3>6, <3>7 DEF Counted
  <2> QED
    BY <2>1, <2>2, <2>3, <2>4, <2>5, <2>6
<1>12. CASE up /\ AppendRecord
  <2>1. TypeOK'
    BY <1>12 DEF Counted, LineInHand, AppendRecord, Writer!Add, CheckpointNow,
       AppendFailed, Fail, Fault
  <2>2. BetweenLines'
    BY <1>12 DEF BetweenLines, LineInHand, AppendRecord, Writer!Add, CheckpointNow,
       AppendFailed, Fail, Fault
  <2>3. LineInHand'
    BY <1>12 DEF LineInHand, AppendRecord, Writer!Add, CheckpointNow, AppendFailed, Fail,
       Fault
  <2>4. EndOfInput'
    BY <1>12 DEF EndOfInput, AppendRecord, Writer!Add, CheckpointNow, AppendFailed, Fail,
       Fault
  <2>5. OutcomeFits'
    BY <1>12 DEF OutcomeFits, Counted, BetweenLines, EndOfInput, AppendRecord, Writer!Add,
       CheckpointNow, AppendFailed, Fail, Fault
  <2>6. Counted'
    BY <1>12, AppendCounts
  <2> QED
    BY <2>1, <2>2, <2>3, <2>4, <2>5, <2>6
<1>13. CASE up /\ Checkpoint
  <2>1. TypeOK'
    <3>1. /\ runErr' \in {"nil", "canceled", "read", "overlong", "append", "checkpoint"}
          /\ pc' \in {"scan", "close"}
          /\ faults' = faults \/ Fault
      BY <1>13 DEF Checkpoint, Fail
    <3>2. (due' = FALSE /\ overdue' = 0) \/ UNCHANGED clock
      BY <1>13 DEF Checkpoint
    <3>3. due' \in BOOLEAN
      BY <3>2
    <3>4. overdue' \in Nat
      BY <3>2
    <3>5. faults' \in 0 .. MaxFaults
      BY <3>1, IngestAssumption DEF Fault
    <3>6. Writer!TypeOK'
      BY <1>13, WriterType
    <3>7. UNCHANGED <<source, ctxDone, scanner, result, stats, life>>
      BY <1>13 DEF Checkpoint
    <3> QED
      BY <3>1, <3>3, <3>4, <3>5, <3>6, <3>7
  <2>2. BetweenLines'
    BY <1>13 DEF BetweenLines, LineInHand, Checkpoint, Writer!Commit, Fail, Fault
  <2>3. LineInHand'
    BY <1>13 DEF LineInHand, Checkpoint, Writer!Commit, Fail, Fault
  <2>4. EndOfInput'
    BY <1>13 DEF EndOfInput, Checkpoint, Writer!Commit, Fail, Fault
  <2>5. OutcomeFits'
    BY <1>13 DEF OutcomeFits, Counted, BetweenLines, EndOfInput, Checkpoint, Writer!Commit,
       Fail, Fault
  <2>6. Counted'
    BY <1>13 DEF Counted, OutcomeFits, Checkpoint, Writer!Commit, Fail, Fault
  <2> QED
    BY <2>1, <2>2, <2>3, <2>4, <2>5, <2>6
<1>14. CASE up /\ Close
  <2>1. TypeOK'
    <3>1. result' \in {"nil", "error"}
      BY <1>14 DEF Close, Result
    <3>2. faults' = faults \/ Fault
      BY <1>14 DEF Close
    <3>3. faults' \in 0 .. MaxFaults
      BY <3>2, IngestAssumption DEF Fault
    <3>4. Writer!TypeOK'
      BY <1>14, WriterType
    <3>5. UNCHANGED <<source, ctxDone, scanner, runErr, clock, stats, life>> /\ pc' = "done"
      BY <1>14 DEF Close
    <3> QED
      BY <3>1, <3>3, <3>4, <3>5
  <2>2. BetweenLines'
    BY <1>14 DEF BetweenLines, LineInHand, Close, Writer!Commit, Result, Primary, Fault
  <2>3. LineInHand'
    BY <1>14 DEF LineInHand, Close, Writer!Commit, Result, Primary, Fault
  <2>4. EndOfInput'
    BY <1>14 DEF EndOfInput, Close, Writer!Commit, Result, Primary, Fault
  <2>5. OutcomeFits'
    BY <1>14 DEF OutcomeFits, Counted, BetweenLines, EndOfInput, Close, Writer!Commit,
       Result, Primary, Fault
  <2>6. Counted'
    BY <1>14 DEF Counted, OutcomeFits, Close, Writer!Commit, Result, Primary, Fault
  <2> QED
    BY <2>1, <2>2, <2>3, <2>4, <2>5, <2>6
<1>15. CASE UNCHANGED vars
  BY <1>15 DEF BetweenLines, LineInHand, EndOfInput, OutcomeFits, Counted, vars
<1> QED
  BY <1>1, <1>2, <1>3, <1>4, <1>5, <1>6, <1>7, <1>8, <1>9, <1>10, <1>11, <1>12, <1>13,
     <1>14, <1>15 DEF Next, Step, Surroundings

\* A command that starts has counted nothing, and its writer has nothing
\* (ingest.go:67-84).
LEMMA InitStanding == Init => Standing
<1> SUFFICES ASSUME Init PROVE Standing
  OBVIOUS
<1> USE IngestAssumption DEF Init, Writer!Init
<1>1. TypeOK
  <2>1. Writer!TypeOK
    BY DEF Writer!TypeOK
  <2>2. /\ written \in 0 .. 2 * NLines /\ start \in 0 .. written
        /\ rd = start /\ tok = start
    OBVIOUS
  <2>3. 0 \in 0 .. NLines /\ 0 \in 0 .. 0 /\ 0 \in 0 .. MaxFaults
    OBVIOUS
  <2>4. ended \in BOOLEAN /\ ctxDone \in BOOLEAN /\ due \in BOOLEAN
    OBVIOUS
  <2> QED
    BY <2>1, <2>2, <2>3, <2>4 DEF TypeOK
<1>2. BetweenLines /\ LineInHand /\ EndOfInput /\ OutcomeFits
  BY DEF BetweenLines, LineInHand, EndOfInput, OutcomeFits, Handling
<1>3. Counted
  BY DEF Counted, Tokens, Delta
<1> QED
  BY <1>1, <1>2, <1>3 DEF Standing

\* At every step the scanner, the line in hand, the counters and the log stand
\* to each other as Standing says.
LEMMA AlwaysStanding == Spec => []Standing
<1>1. Init => Standing
  BY InitStanding
<1>2. Standing /\ [Next]_vars => Standing'
  BY StandingStep
<1> QED
  BY <1>1, <1>2, PTL DEF Spec

\* The counters stay within the lines the source carries, the scanner within
\* what was read, and what is durable within the log (ingest.go:67-119).
THEOREM TypeCorrect == Spec => []TypeOK
<1>1. Standing => TypeOK
  BY DEF Standing
<1> QED
  BY <1>1, AlwaysStanding, PTL

\* Whatever made Run return, its counters add up to the records the writer
\* has, but for the one whose Append failed (ingest.go:92-104).
THEOREM CountersAddUp == Spec => []StatsAddUp
<1>1. Standing => StatsAddUp
  BY DEF Standing, TypeOK, Counted, OutcomeFits, Delta, StatsAddUp
<1> QED
  BY <1>1, AlwaysStanding, PTL

\* A Run that returns nil has everything it took behind a footer, and has taken
\* its whole source unless it was cancelled (ingest.go:46-49, :114-119).
THEOREM NilIsComplete == Spec => []NilMeansComplete
<1>1. Standing => NilMeansComplete
  BY IngestAssumption DEF Standing, TypeOK, Counted, OutcomeFits, EndOfInput, Follow,
     Tokens, Delta, NilMeansComplete
<1> QED
  BY <1>1, AlwaysStanding, PTL

(***************************************************************************)
(* The deadline and the torn line.                                         *)
(***************************************************************************)

\* Only an append past the deadline counts, and it is followed by a checkpoint
\* that either clears the count or ends the loop.
LEMMA DeadlineStep ==
    ASSUME Standing, DeadlineInv, [Next]_vars
    PROVE  DeadlineInv'
<1> USE IngestAssumption DEF DeadlineInv, source, scanner, stats, writer, clock, life
<1>1. CASE DeadlinePasses \/ Restart
  BY <1>1 DEF DeadlinePasses, Restart
<1>2. CASE AppendRecord
  <2>1. pc = "append" /\ UNCHANGED due /\ overdue' = IF due THEN overdue + 1 ELSE overdue
    BY <1>2 DEF AppendRecord
  <2>2. pc' = "close" \/ pc' = IF CheckpointNow THEN "checkpoint" ELSE "scan"
    BY <1>2 DEF AppendRecord, Fail
  <2>3. overdue = 0
    BY <2>1
  <2>4. due => pc' \in {"checkpoint", "close"}
    BY <2>2 DEF CheckpointNow
  <2> QED
    BY <2>1, <2>3, <2>4
<1>3. CASE Checkpoint
  BY <1>3 DEF Checkpoint, Fail
<1>4. CASE Close
  BY <1>4 DEF Close
<1>5. CASE Scan \/ Read \/ Wait \/ Check \/ Decode
  <2>1. UNCHANGED <<due, overdue>> /\ pc \in {"scan", "read", "wait", "check", "decode"}
    BY <1>5 DEF Scan, Read, Wait, Check, Decode
  <2> QED
    BY <2>1
<1>6. CASE SourceGrows \/ SourceEnds \/ Cancel \/ Crash \/ UNCHANGED vars
  BY <1>6 DEF SourceGrows, SourceEnds, Cancel, Crash, vars
<1> QED
  BY <1>1, <1>2, <1>3, <1>4, <1>5, <1>6 DEF Next, Step, Surroundings

\* Once the deadline has passed at most one record is appended before a
\* checkpoint is tried, whatever the clock does meanwhile (ingest.go:104).
THEOREM AtMostOneOverdue == Spec => []DeadlineHonoured
<1>1. Init => DeadlineInv
  BY IngestAssumption DEF Init, DeadlineInv
<1>2. Standing /\ DeadlineInv /\ [Next]_vars => DeadlineInv'
  BY DeadlineStep
<1>3. DeadlineInv => DeadlineHonoured
  BY DEF DeadlineInv, DeadlineHonoured
<1> QED
  BY <1>1, <1>2, <1>3, AlwaysStanding, PTL DEF Spec

\* Two half lines to a line: what the halves of a token make of its line.
LEMMA Halves ==
    ASSUME NEW s \in Nat, NEW t \in Nat, s < t
    PROVE  /\ t % 2 = 0 /\ s = t - 1 => s % 2 = 1 /\ (t + 1) \div 2 = s \div 2 + 1
           /\ ~ (t % 2 = 0 /\ s <= t - 2) /\ ~ (t % 2 = 0 /\ s = t - 1) => t % 2 = 1
  OBVIOUS

\* A torn line of a followed file that is not the effect of a failed read
\* stops at the check of ctx: at the end of its file the Tailer reports an end
\* only once ctx is done.
LEMMA TornStep ==
    ASSUME Standing, TornInv, [Next]_vars
    PROVE  TornInv'
<1> USE DEF TornInv, TornLineDropped, Standing, TypeOK, Writer!TypeOK, FirstLine, source,
      scanner, stats, writer, clock, life
<1>1. CASE AppendRecord
  <2>1. UNCHANGED <<input, readErr, start, line>> /\ pc' \notin {"decode", "append"} /\ pc = "append"
    BY <1>1 DEF AppendRecord, Fail
  <2>2. /\ Len(log') = Len(log) + 1 /\ Len(log) \in Nat
        /\ log'[Len(log) + 1] = line
        /\ \A i \in 1 .. Len(log) : log'[i] = log[i]
    BY <1>1, AppendProperties DEF AppendRecord, Writer!Add
  <2>3. \/ line.part = "whole"
        \/ line.part = "rest" /\ start % 2 = 1 /\ line.of = start \div 2 + 1
        \/ line.part = "start"
    <3>1. start \in Nat /\ tok \in Nat /\ start < tok
      BY <2>1 DEF LineInHand, Handling
    <3>2. /\ line.part \in Parts /\ line.of = (tok + 1) \div 2
          /\ line.part = "rest" => tok % 2 = 0 /\ start = tok - 1
      BY <2>1 DEF LineInHand, Handling, Line
    <3>3. line.part = "rest" => start % 2 = 1 /\ line.of = start \div 2 + 1
      BY <3>1, <3>2, Halves
    <3> QED  BY <3>2, <3>3 DEF Parts
  <2>4. ASSUME Follow', readErr' # "failed", NEW i \in 1 .. Len(log')
        PROVE  \/ log'[i].part = "whole"
               \/ log'[i].part = "rest" /\ start' % 2 = 1 /\ log'[i].of = start' \div 2 + 1
    <3>1. CASE i = Len(log) + 1
      BY <2>1, <2>2, <2>3, <2>4, <3>1 DEF Follow
    <3>2. CASE i # Len(log) + 1
      <4>1. i \in 1 .. Len(log)
        BY <2>2, <3>2
      <4> QED
        BY <2>1, <2>2, <2>4, <4>1 DEF Follow
    <3> QED
      BY <3>1, <3>2
  <2> QED
    BY <2>1, <2>4
<1>2. CASE Crash
  <2>1. /\ Len(log') = durable /\ durable \in 0 .. Len(log)
        /\ \A i \in 1 .. Len(log') : log'[i] = log[i]
    BY <1>2, SubSeqProperties DEF Crash, Writer!Crash
  <2>2. UNCHANGED <<input, readErr, start, line, pc>>
    BY <1>2 DEF Crash
  <2> QED
    BY <2>1, <2>2 DEF Follow
<1>3. CASE Restart
  BY <1>3 DEF Restart, Created, Follow
<1>4. CASE Check
  <2>1. UNCHANGED <<input, readErr, start, line, log>> /\ pc = "check"
    BY <1>4 DEF Check
  <2>2. pc' = "decode" => ~ ctxDone
    BY <1>4 DEF Check, CheckContext, Fail
  <2>3. line.part = "start" => readErr # "none"
    <3>1. start \in Nat /\ tok \in Nat /\ start < tok
      BY <2>1 DEF LineInHand, Handling
    <3>2. line.part = "start" =>
             ~ (tok % 2 = 0 /\ start <= tok - 2) /\ ~ (tok % 2 = 0 /\ start = tok - 1)
      BY <2>1 DEF LineInHand, Handling
    <3>3. line.part = "start" => tok % 2 = 1
      BY <3>1, <3>2, Halves
    <3> QED  BY <3>1, <3>3 DEF BetweenLines
  <2>4. pc' # "append"
    BY <1>4 DEF Check, CheckContext, CountLine, Fail
  <2> QED
    BY <2>1, <2>2, <2>3, <2>4 DEF Follow, EndOfInput
<1>5. CASE Scan \/ Read \/ Wait
  <2>1. UNCHANGED <<input, start, log>> /\ pc' \notin {"decode", "append"}
    BY <1>5 DEF Scan, Read, Wait, Token, EndOfScan, Fail, ReadEnds
  <2>2. readErr = "failed" => readErr' = "failed"
    BY <1>5 DEF Scan, Read, Wait, BetweenLines
  <2> QED
    BY <2>1, <2>2 DEF Follow
<1>6. CASE Decode
  <2>1. UNCHANGED <<input, start, log, readErr, line>> /\ pc = "decode"
    BY <1>6 DEF Decode
  <2> QED
    BY <2>1 DEF Follow
<1>7. CASE Checkpoint \/ Close
  <2>1. UNCHANGED <<input, start, log, readErr, line>> /\ pc' \notin {"decode", "append"}
    BY <1>7 DEF Checkpoint, Close, Writer!Commit, Fail
  <2> QED
    BY <2>1 DEF Follow
<1>8. CASE SourceGrows \/ SourceEnds \/ Cancel \/ DeadlinePasses \/ UNCHANGED vars
  <2>1. UNCHANGED <<input, start, log, readErr, line, pc>>
    BY <1>8 DEF SourceGrows, SourceEnds, Cancel, DeadlinePasses, vars
  <2> QED
    BY <2>1 DEF Follow
<1> QED
  BY <1>1, <1>2, <1>3, <1>4, <1>5, <1>6, <1>7, <1>8 DEF Next, Step, Surroundings

\* A line whose end its producer has not written is never ingested from a
\* followed file, but after a failed read (ingest.go:86, tail.go:52).
THEOREM NoTornLine == Spec => []TornLineDropped
<1>1. Init => TornInv
  BY DEF Init, Writer!Init, TornInv, TornLineDropped
<1>2. Standing /\ TornInv /\ [Next]_vars => TornInv'
  BY TornStep
<1>3. TornInv => TornLineDropped
  BY DEF TornInv
<1> QED
  BY <1>1, <1>2, <1>3, AlwaysStanding, PTL DEF Spec

(***************************************************************************)
(* The log.                                                                *)
(***************************************************************************)

\* The line counted last comes after those counted before.
LEMMA LastIsLater ==
    ASSUME NEW first \in Nat, NEW n \in Nat, NEW a \in first .. first + n - 2,
           NEW b, b = first + n - 1
    PROVE  a < b
  OBVIOUS

\* The line in hand, once counted, is the last of the counted ones.
LEMMA LastCounted ==
    ASSUME Standing, pc \in {"decode", "append"}
    PROVE  /\ FirstLine \in Nat /\ lines > 0
           /\ line.of = FirstLine + lines - 1
           /\ HandledLines = lines - 1
           /\ line.part = "whole" <=> start <= 2 * line.of - 2 /\ 2 * line.of <= tok
<1>1. /\ start < tok /\ start \in Nat /\ tok \in Nat /\ lines \in Nat
      /\ line.of = (tok + 1) \div 2
      /\ line.part = "whole" <=> (tok % 2 = 0 /\ start <= tok - 2)
  BY DEF Standing, TypeOK, LineInHand, Handling
<1>2. runErr = "nil"
  BY DEF Standing, OutcomeFits
<1>3. lines = Tokens
  BY <1>1, <1>2 DEF Standing, Counted, Delta
<1>4. FirstLine \in Nat /\ lines > 0 /\ line.of = FirstLine + lines - 1
  BY <1>1, <1>3 DEF Tokens, FirstLine
<1>5. HandledLines = lines - 1
  BY DEF HandledLines, Delta
<1> QED
  BY <1>1, <1>4, <1>5

\* A step that leaves the log and the lines handled alone, and the scanner
\* behind them, leaves LogInv as it was.
LEMMA QuietLog ==
    ASSUME LogInv, Standing,
           UNCHANGED <<log, start>>, HandledLines' = HandledLines,
           up' => up,
           pc' = "append" => pc = "append" /\ UNCHANGED line,
           tok' = tok \/ (\A l \in FirstLine .. FirstLine + HandledLines - 1 : 2 * l <= tok)
    PROVE  LogInv'
<1>1. FirstLine' = FirstLine
  BY DEF FirstLine
<1>2. up' => LogInOrder'
  BY <1>1 DEF LogInv, LogInOrder
<1>3. up' => LogOfWholeLines'
  <2> SUFFICES ASSUME up' PROVE LogOfWholeLines'
    OBVIOUS
  <2>1. LogOfWholeLines
    BY DEF LogInv
  <2>2. \A i \in 1 .. Len(log') : log'[i].part = "whole" => log'[i].of \in Decodable
    BY <2>1 DEF LogOfWholeLines
  <2>3. ASSUME NEW l \in FirstLine .. FirstLine + HandledLines - 1,
               start <= 2 * l - 2, 2 * l <= tok', l \in Decodable
        PROVE  \E i \in 1 .. Len(log) : log[i] = WholeLine(l)
    BY <2>1, <2>3 DEF LogOfWholeLines
  <2> QED
    BY <1>1, <2>2, <2>3 DEF LogOfWholeLines, WholeLine
<1> QED
  BY <1>2, <1>3 DEF LogInv

\* Run handles a line by appending it if it decodes and by counting it as
\* skipped if it does not; all else leaves the log and the lines handled alone.
LEMMA LogStep ==
    ASSUME Standing, LogInv, [Next]_vars
    PROVE  LogInv'
<1> USE DEF source, scanner, stats, writer, clock, life
<1>0. /\ start \in Nat /\ tok \in Nat /\ lines \in Nat /\ log \in Seq(Line)
      /\ pc \notin {"close", "done"} => runErr = "nil"
  BY DEF Standing, TypeOK, Writer!TypeOK, OutcomeFits
<1>1. CASE up /\ AppendRecord
  <2>1. UNCHANGED <<start, tok, lines, line, up>> /\ pc = "append"
        /\ pc' \in {"close", "checkpoint", "scan"}
    BY <1>1 DEF AppendRecord, Fail, Writer!Add
  <2>2. /\ Len(log') = Len(log) + 1 /\ Len(log) \in Nat
        /\ log'[Len(log) + 1] = line
        /\ \A i \in 1 .. Len(log) : log'[i] = log[i]
    BY <1>0, <1>1, AppendProperties DEF AppendRecord, Writer!Add, Standing, LineInHand,
       Handling
  <2>3. /\ FirstLine \in Nat /\ lines > 0
        /\ line.of = FirstLine + lines - 1 /\ HandledLines = lines - 1
        /\ line.part = "whole" <=> start <= 2 * line.of - 2 /\ 2 * line.of <= tok
    BY <2>1, LastCounted
  <2>4. HandledLines' = lines /\ FirstLine' = FirstLine
    BY <1>0, <2>1 DEF HandledLines, Delta, FirstLine
  <2>5. /\ line \in Line
        /\ line.part = "whole" => line.of \in Decodable
    BY <2>1 DEF LogInv, Standing, LineInHand, Handling
  <2>6. LogInOrder'
    <3>1. \A i \in 1 .. Len(log) : log[i].of \in FirstLine .. FirstLine + lines - 2
      BY <1>0, <1>1, <2>3, <2>4 DEF LogInv, LogInOrder
    <3>2. \A i \in 1 .. Len(log) + 1 : log'[i].of \in FirstLine .. FirstLine + lines - 1
      <4> SUFFICES ASSUME NEW i \in 1 .. Len(log) + 1
                   PROVE  log'[i].of \in FirstLine .. FirstLine + lines - 1
        OBVIOUS
      <4>1. CASE i \in 1 .. Len(log)
        BY <1>0, <2>2, <2>3, <3>1, <4>1
      <4>2. CASE i = Len(log) + 1
        <5>1. log'[i].of = FirstLine + lines - 1
          BY <2>2, <2>3, <4>2
        <5> QED  BY <1>0, <2>3, <5>1
      <4> QED  BY <2>2, <4>1, <4>2
    <3>3. \A i, j \in 1 .. Len(log) + 1 : i < j => log'[i].of < log'[j].of
      <4> SUFFICES ASSUME NEW i \in 1 .. Len(log) + 1, NEW j \in 1 .. Len(log) + 1, i < j
                   PROVE  log'[i].of < log'[j].of
        OBVIOUS
      <4>1. i \in 1 .. Len(log) /\ log'[i].of = log[i].of
        BY <2>2
      <4>2. CASE j = Len(log) + 1
        <5>1. log'[j].of = FirstLine + lines - 1
          BY <2>2, <2>3, <4>2
        <5>2. log'[i].of \in FirstLine .. FirstLine + lines - 2
          BY <3>1, <4>1
        <5> QED  BY <1>0, <2>3, <5>1, <5>2, LastIsLater
      <4>3. CASE j # Len(log) + 1
        <5>1. j \in 1 .. Len(log) /\ log'[j].of = log[j].of
          BY <2>2, <4>3
        <5>2. \A k, m \in 1 .. Len(log) : k < m => log[k].of < log[m].of
          BY <1>1 DEF LogInv, LogInOrder
        <5> QED  BY <4>1, <5>1, <5>2
      <4> QED
        BY <4>2, <4>3
    <3> QED
      BY <2>2, <2>4, <3>2, <3>3 DEF LogInOrder
  <2>7. LogOfWholeLines'
    <3>1. \A i \in 1 .. Len(log) + 1 : log'[i].part = "whole" => log'[i].of \in Decodable
      BY <1>1, <2>2, <2>5 DEF LogInv, LogOfWholeLines
    <3>2. ASSUME NEW l \in FirstLine .. FirstLine + lines - 1,
                 start <= 2 * l - 2, 2 * l <= tok, l \in Decodable
          PROVE  \E i \in 1 .. Len(log) + 1 : log'[i] = WholeLine(l)
      <4>1. CASE l = line.of
        <5>1. line = WholeLine(l)
          BY <2>3, <2>5, <3>2, <4>1 DEF Line, WholeLine
        <5> QED
          BY <2>2, <5>1
      <4>2. CASE l # line.of
        <5>1. l \in FirstLine .. FirstLine + HandledLines - 1
          BY <1>0, <2>3, <2>4, <4>2
        <5>2. PICK i \in 1 .. Len(log) : log[i] = WholeLine(l)
          BY <1>1, <3>2, <5>1 DEF LogInv, LogOfWholeLines
        <5> QED
          BY <2>2, <5>2
      <4> QED
        BY <4>1, <4>2
    <3> QED
      BY <2>1, <2>2, <2>4, <3>1, <3>2 DEF LogOfWholeLines, WholeLine
  <2> QED
    BY <2>1, <2>6, <2>7 DEF LogInv
<1>2. CASE up /\ Decode
  <2>1. UNCHANGED <<start, tok, lines, line, up, log>> /\ pc = "decode"
    BY <1>2 DEF Decode
  <2>2. /\ FirstLine \in Nat /\ lines > 0
        /\ line.of = FirstLine + lines - 1 /\ HandledLines = lines - 1
        /\ line.part = "whole" <=> start <= 2 * line.of - 2 /\ 2 * line.of <= tok
    BY <2>1, LastCounted
  <2>3. PICK ok \in BOOLEAN :
           /\ line.part = "whole" => (ok <=> line.of \in Decodable)
           /\ pc' = IF ok THEN "append" ELSE "scan"
    BY <1>2 DEF Decode, Decodes
  <2>4. HandledLines' = (IF ok THEN HandledLines ELSE HandledLines + 1) /\ FirstLine' = FirstLine
    BY <1>0, <2>1, <2>2, <2>3 DEF HandledLines, Delta, FirstLine
  <2>5. LogInOrder'
    BY <1>0, <1>2, <2>1, <2>2, <2>4 DEF LogInv, LogInOrder
  <2>6. LogOfWholeLines'
    <3>1. ASSUME NEW l \in FirstLine .. FirstLine + HandledLines' - 1,
                 start <= 2 * l - 2, 2 * l <= tok, l \in Decodable
          PROVE  \E i \in 1 .. Len(log) : log[i] = WholeLine(l)
      <4>1. l \in FirstLine .. FirstLine + HandledLines - 1
        BY <1>0, <2>2, <2>3, <2>4, <3>1
      <4> QED
        BY <1>2, <3>1, <4>1 DEF LogInv, LogOfWholeLines
    <3> QED
      BY <1>2, <2>1, <2>4, <3>1 DEF LogInv, LogOfWholeLines, WholeLine
  <2> QED
    BY <2>1, <2>3, <2>5, <2>6 DEF LogInv
<1>3. CASE up /\ Scan
  <2>1. UNCHANGED <<log, start, up, lines>> /\ pc = "scan" /\ pc' \in {"check", "read", "close"}
    BY <1>3 DEF Scan, Token, EndOfScan, Fail
  <2>2. HandledLines' = HandledLines /\ HandledLines = lines
    BY <1>0, <2>1 DEF HandledLines, Delta
  <2>3. CASE pc' # "check"
    <3>1. tok' = tok
      BY <1>3, <2>3 DEF Scan, Token, EndOfScan, Fail
    <3> QED
      BY <2>1, <2>2, <3>1, QuietLog
  <2>4. CASE pc' = "check"
    <3>1. tok % 2 = 1 => tok = start
      BY <1>3, <2>4, TokenTaken
    <3>2. lines = Tokens
      BY <1>0, <2>1 DEF Standing, Counted, Delta
    <3>3. start <= tok
      BY DEF Standing, TypeOK
    <3>4. \A l \in FirstLine .. FirstLine + HandledLines - 1 : 2 * l <= tok
      BY <1>0, <2>2, <3>1, <3>2, <3>3 DEF Tokens, FirstLine
    <3> QED
      BY <2>1, <2>2, <2>4, <3>4, QuietLog
  <2> QED
    BY <2>3, <2>4
<1>4. CASE up /\ Check
  <2>1. UNCHANGED <<log, start, up, tok>> /\ pc = "check" /\ pc' \in {"decode", "close"}
        /\ lines' = (IF pc' = "decode" THEN lines + 1 ELSE lines)
    BY <1>4 DEF Check, CheckContext, CountLine, Fail
  <2>2. HandledLines' = HandledLines
    BY <1>0, <2>1 DEF HandledLines, Delta
  <2> QED
    BY <2>1, <2>2, QuietLog
<1>5. CASE Crash
  <2>1. up' = FALSE /\ UNCHANGED <<pc, line>>
    BY <1>5 DEF Crash, Writer!Crash
  <2> QED
    BY <2>1 DEF LogInv
<1>6. CASE Restart
  <2>1. Len(log') = 0 /\ pc' = "scan"
    BY <1>6 DEF Restart, Created
  <2>2. FirstLine' \in Nat
    BY <1>0, <1>6 DEF Restart, FirstLine, Standing, TypeOK
  <2>3. lines' = 0 /\ pc' \notin {"decode", "append"}
    BY <1>6 DEF Restart
  <2>4. HandledLines' = 0
    <3>1. Delta(pc \in {"decode", "append"})' = 0
      BY <2>3 DEF Delta
    <3> QED
      BY <2>3, <3>1 DEF HandledLines
  <2>5. LogInOrder'
    BY <2>1, <2>2, <2>4 DEF LogInOrder
  <2>6. LogOfWholeLines'
    <3>1. \A n \in Nat : \A l \in n .. n + 0 - 1 : FALSE
      OBVIOUS
    <3>2. \A l \in FirstLine' .. FirstLine' + HandledLines' - 1 : FALSE
      BY <2>2, <2>4, <3>1, Zenon
    <3> QED
      BY <2>1, <3>2 DEF LogOfWholeLines
  <2> QED
    BY <2>1, <2>5, <2>6 DEF LogInv
<1>7. CASE up /\ (Read \/ Wait \/ Checkpoint \/ Close)
  <2>1. UNCHANGED <<log, start, up, tok, lines>> /\ pc \notin {"decode", "append"} /\ pc' \notin {"decode", "append"}
    BY <1>7 DEF Read, Wait, Checkpoint, Close, Writer!Commit, Fail, ReadEnds
  <2>2. HandledLines' = HandledLines
    BY <2>1 DEF HandledLines
  <2> QED
    BY <2>1, <2>2, QuietLog
<1>8. CASE SourceGrows \/ SourceEnds \/ Cancel \/ DeadlinePasses \/ UNCHANGED vars
  <2>1. UNCHANGED <<log, start, up, tok, lines, line, pc>>
    BY <1>8 DEF SourceGrows, SourceEnds, Cancel, DeadlinePasses, vars
  <2>2. HandledLines' = HandledLines
    BY <2>1 DEF HandledLines
  <2> QED
    BY <2>1, <2>2, QuietLog
<1> QED
  BY <1>1, <1>2, <1>3, <1>4, <1>5, <1>6, <1>7, <1>8 DEF Next, Step, Surroundings

\* Between two lines the log has every whole line handled that decodes, and
\* each line once and in order: Run neither drops, repeats nor reorders
\* (ingest.go:84-110).
THEOREM EachLineOnce == Spec => []EveryLineOnce
<1>1. Init => LogInv
  BY DEF Init, Writer!Init, LogInv, LogInOrder, LogOfWholeLines, HandledLines, Delta,
     FirstLine
<1>2. Standing /\ LogInv /\ [Next]_vars => LogInv'
  BY LogStep
<1>3. Standing /\ LogInv => EveryLineOnce
  <2> SUFFICES ASSUME Standing, LogInv, up, Settled
               PROVE  /\ \A l \in FirstLine .. FirstLine + lines - 1 :
                            start <= 2 * l - 2 /\ 2 * l <= tok => (WholeLine(l) \in LogSet <=> l \in Decodable)
                      /\ \A i, j \in 1 .. Len(log) : i < j => log[i].of < log[j].of
    BY DEF EveryLineOnce
  <2>1. HandledLines = lines
    BY DEF Settled, HandledLines, Delta, Standing, TypeOK
  <2>2. ASSUME NEW l \in FirstLine .. FirstLine + lines - 1, start <= 2 * l - 2, 2 * l <= tok
        PROVE  WholeLine(l) \in LogSet <=> l \in Decodable
    <3>1. l \in Decodable => WholeLine(l) \in LogSet
      BY <2>1, <2>2 DEF LogInv, LogOfWholeLines, LogSet
    <3>2. WholeLine(l) \in LogSet => l \in Decodable
      BY DEF LogInv, LogOfWholeLines, LogSet, WholeLine
    <3> QED
      BY <3>1, <3>2
  <2> QED
    BY <2>2 DEF LogInv, LogInOrder
<1> QED
  BY <1>1, <1>2, <1>3, AlwaysStanding, PTL DEF Spec
=============================================================================
