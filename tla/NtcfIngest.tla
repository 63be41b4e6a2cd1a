----------------------------- MODULE NtcfIngest -----------------------------
(***************************************************************************)
(* The ingestion pipeline of internal/ingest: Run reads lines from a pipe  *)
(* or a file, or from one that grows (Tailer), decodes them and appends    *)
(* them to a writer, committing when the checkpoint interval has passed.   *)
(*                                                                         *)
(* The writer is the durable log that NtcfWriter implements.  The source   *)
(* is a stream of half lines: half 2l-1 is the start of line l and half 2l *)
(* its end with the newline, so a reader may see a torn last line, and one *)
(* that starts at the end of a growing file may miss the start of its      *)
(* first line.  A process that crashed may be started again.               *)
(***************************************************************************)
EXTENDS Naturals, Sequences, SequencesExt

CONSTANTS
    NLines,         \* bound: lines the source ever carries
    Decodable,      \* the lines the adapter decodes; it skips the others
    Overlong,       \* the lines that do not fit in the scanner's buffer
    Inputs,         \* how the source may be read, of "pipe", "file", "tail" and "tail_end"
    Checkpointing,  \* Options.Checkpoint > 0
    MaxFaults,      \* bound: failing reads and writes
    MaxRestarts     \* bound: processes started after a crash

ASSUME IngestAssumption ==
    /\ NLines \in Nat
    /\ Decodable \subseteq 1 .. NLines
    /\ Overlong \subseteq 1 .. NLines
    /\ Inputs \subseteq {"pipe", "file", "tail", "tail_end"}
    /\ Checkpointing \in BOOLEAN
    /\ MaxFaults \in Nat
    /\ MaxRestarts \in Nat

VARIABLES
    input,                      \* the arguments of the command: how it reads
    written, ended,             \* the source: halves so far, no more to come
    start,                      \* the halves a Tailer that starts at the end skipped
    ctxDone,                    \* ctx is cancelled
    due,                        \* time.Now().After(nextCheckpoint)
    rd, tok, readErr,           \* the scanner: halves read, halves consumed, s.err
    line,                       \* sc.Bytes(), the line being handled
    pc, runErr, result,         \* where Run stands, what it will return
    lines, records, skipped,    \* Stats
    overdue,                    \* history: records appended past the deadline
    log, durable, up,           \* the writer, and the process
    faults, restarts            \* bound: failures and restarts so far

source  == <<input, written, ended>>
scanner == <<rd, tok, readErr, line>>
stats   == <<lines, records, skipped>>
writer  == <<log, durable, up>>
clock   == <<due, overdue>>
life    == <<start, restarts>>
vars    == <<source, ctxDone, clock, scanner, pc, runErr, result, stats, writer, faults, life>>

\* What a token of the scanner holds: a line, whole, or without its end or its
\* beginning.
Parts == {"whole", "start", "rest"}

Line == [of : 1 .. NLines, part : Parts]

NoLine == [of |-> 0, part |-> "whole"]

Follow == input \in {"tail", "tail_end"}

Writer == INSTANCE DurableLog WITH Record <- Line

TypeOK ==
    /\ written \in 0 .. 2 * NLines
    /\ rd \in 0 .. written
    /\ start \in 0 .. tok /\ tok \in 0 .. rd
    /\ readErr \in {"none", "eof", "failed"}
    /\ ended \in BOOLEAN /\ ctxDone \in BOOLEAN /\ due \in BOOLEAN
    /\ line \in Line \cup {NoLine}
    /\ pc \in {"scan", "read", "wait", "check", "decode", "append", "checkpoint",
               "close", "done"}
    /\ runErr \in {"nil", "canceled", "read", "overlong", "append", "checkpoint"}
    /\ result \in {"none", "nil", "error"}
    /\ lines \in 0 .. NLines /\ records \in 0 .. lines /\ skipped \in 0 .. lines
    /\ overdue \in Nat
    /\ Writer!TypeOK
    /\ faults \in 0 .. MaxFaults

\* A source that is not a pipe may have content before it is opened.
Init ==
    /\ input \in Inputs
    /\ written \in IF input = "pipe" THEN {0} ELSE 0 .. 2 * NLines
    /\ ended = FALSE
    /\ start = IF input = "tail_end" THEN written ELSE 0
    /\ ctxDone = FALSE
    /\ due = FALSE /\ overdue = 0
    /\ rd = start /\ tok = start /\ readErr = "none" /\ line = NoLine
    /\ pc = "scan" /\ runErr = "nil" /\ result = "none"
    /\ lines = 0 /\ records = 0 /\ skipped = 0
    /\ Writer!Init
    /\ faults = 0 /\ restarts = 0

Fault ==
    /\ faults < MaxFaults
    /\ faults' = faults + 1

Fail(err) ==
    /\ runErr' = err
    /\ pc' = "close"

(***************************************************************************)
(* The surroundings: the source, the clock, a signal, a crash.             *)
(***************************************************************************)
SourceGrows ==
    /\ ~ ended
    /\ written < 2 * NLines
    /\ written' = written + 1
    /\ UNCHANGED <<input, ended, ctxDone, clock, scanner, pc, runErr, result, stats, writer, faults, life>>

SourceEnds ==
    /\ input = "pipe"
    /\ ~ ended
    /\ ended' = TRUE
    /\ UNCHANGED <<input, written, ctxDone, clock, scanner, pc, runErr, result, stats, writer, faults, life>>

Cancel ==
    /\ ~ ctxDone
    /\ ctxDone' = TRUE
    /\ UNCHANGED <<source, clock, scanner, pc, runErr, result, stats, writer, faults, life>>

DeadlinePasses ==
    /\ Checkpointing
    /\ ~ due
    /\ due' = TRUE
    /\ UNCHANGED <<source, ctxDone, overdue, scanner, pc, runErr, result, stats, writer, faults, life>>

Crash ==
    /\ Writer!Crash
    /\ UNCHANGED <<source, ctxDone, clock, scanner, pc, runErr, result, stats, faults, life>>

\* A slip: the output file is opened without being emptied.
Reopened ==
    /\ up' = TRUE
    /\ UNCHANGED <<log, durable>>

\* os.Create empties the file, with all that a crash had left in it.
Created ==
    /\ up' = TRUE
    /\ log' = <<>>
    /\ durable' = 0

\* The same command is run again.  The source has gone on without it; a pipe
\* died with its reader.
Restart ==
    /\ ~ up
    /\ input # "pipe"
    /\ restarts < MaxRestarts
    /\ restarts' = restarts + 1
    /\ Created
    /\ start' = IF input = "tail_end" THEN written ELSE 0
    /\ rd' = start' /\ tok' = start' /\ readErr' = "none" /\ line' = NoLine
    /\ pc' = "scan" /\ runErr' = "nil" /\ result' = "none"
    /\ lines' = 0 /\ records' = 0 /\ skipped' = 0
    /\ ctxDone' = FALSE
    /\ due' = FALSE /\ overdue' = 0
    /\ UNCHANGED <<source, faults>>

(***************************************************************************)
(* bufio.Scanner.Scan.  A line that outgrows the buffer ends the scan; at  *)
(* the end of the input, or after a failed read, what is left of the       *)
(* buffer is one last token.                                               *)
(***************************************************************************)
NextLine == tok \div 2 + 1

\* What is left of a line may fit although all of it does not.
MayBeTooLong == rd > tok /\ NextLine \in Overlong
TooLong == MayBeTooLong /\ tok % 2 = 0

HasLine == 2 * NextLine <= rd /\ ~ TooLong

Taken(whole) ==
    IF ~ whole THEN "start" ELSE IF tok % 2 = 1 THEN "rest" ELSE "whole"

\* A slip: what was read ahead is thrown away with the line.
TokenDropsRest(whole) ==
    /\ line' = [of |-> NextLine, part |-> Taken(whole)]
    /\ tok' = rd
    /\ pc' = "check"
    /\ UNCHANGED runErr

\* A slip: the last token is taken to end in a newline.
TokenWithNewline(whole) ==
    /\ line' = [of |-> NextLine, part |-> Taken(whole)]
    /\ tok' = 2 * NextLine
    /\ pc' = "check"
    /\ UNCHANGED runErr

Token(whole) ==
    /\ line' = [of |-> NextLine, part |-> Taken(whole)]
    /\ tok' = IF whole THEN 2 * NextLine ELSE rd
    /\ pc' = "check"
    /\ UNCHANGED runErr

EndOfScan ==
    /\ UNCHANGED <<line, tok>>
    /\ IF readErr = "failed" THEN Fail("read") ELSE pc' = "close" /\ UNCHANGED runErr

Scan ==
    /\ pc = "scan"
    /\ \/ MayBeTooLong /\ Fail("overlong") /\ UNCHANGED <<line, tok>>
       \/ HasLine /\ Token(TRUE)
       \/ /\ ~ TooLong /\ ~ HasLine
          /\ \/ readErr = "none" /\ pc' = "read" /\ UNCHANGED <<line, tok, runErr>>
             \/ readErr # "none" /\ rd > tok /\ Token(FALSE)
             \/ readErr # "none" /\ rd = tok /\ EndOfScan
    /\ UNCHANGED <<source, ctxDone, clock, rd, readErr, result, stats, writer, faults, life>>

(***************************************************************************)
(* Reads.  A pipe blocks until there is data or its other end closes; a    *)
(* file ends where it ends when it is read; the Tailer polls at the end of *)
(* the file until ctx is done.  Its select takes ctx when that is done on  *)
(* entry, either way when both come up while it sleeps.                    *)
(***************************************************************************)

\* A slip: the scanner is not told that there is nothing more.
ReadGoesOn(err) ==
    /\ pc' = "scan"
    /\ UNCHANGED <<rd, readErr>>

ReadEnds(err) ==
    /\ readErr' = err
    /\ pc' = "scan"
    /\ UNCHANGED rd

\* A slip: the Tailer never looks at its ctx.
NeverStops == FALSE

TailerStops == ctxDone

Read ==
    /\ pc = "read"
    /\ \/ \E n \in (rd + 1) .. written :
             rd' = n /\ pc' = "scan" /\ UNCHANGED <<readErr, faults>>
       \/ ReadEnds("failed") /\ Fault
       \/ /\ rd = written
          /\ input = "file" \/ (input = "pipe" /\ ended)
          /\ ReadEnds("eof")
          /\ UNCHANGED faults
       \/ /\ Follow /\ rd = written
          /\ IF TailerStops THEN ReadEnds("eof") ELSE pc' = "wait" /\ UNCHANGED <<rd, readErr>>
          /\ UNCHANGED faults
    /\ UNCHANGED <<source, ctxDone, clock, tok, line, runErr, result, stats, writer, life>>

Wait ==
    /\ pc = "wait"
    /\ \/ pc' = "read" /\ UNCHANGED <<rd, readErr>>
       \/ TailerStops /\ ReadEnds("eof")
    /\ UNCHANGED <<source, ctxDone, clock, tok, line, runErr, result, stats, writer, faults, life>>

(***************************************************************************)
(* The loop body of Run: ctx, Decode, Append, Checkpoint.  A torn line may *)
(* or may not decode.  A failed Append still leaves its record with the    *)
(* writer; a write may fail although all its bytes went out.               *)
(***************************************************************************)

\* A slip: the line is handled although ctx is done.
CountLine ==
    /\ lines' = lines + 1
    /\ pc' = "decode"
    /\ UNCHANGED runErr

CheckContext ==
    IF ctxDone THEN Fail("canceled") /\ UNCHANGED lines ELSE CountLine

Check ==
    /\ pc = "check"
    /\ CheckContext
    /\ UNCHANGED <<source, ctxDone, clock, scanner, result, records, skipped, writer, faults, life>>

Decodes(l, ok) == l.part = "whole" => (ok <=> l.of \in Decodable)

Decode ==
    /\ pc = "decode"
    /\ \E ok \in BOOLEAN :
          /\ Decodes(line, ok)
          /\ IF ok
             THEN pc' = "append" /\ UNCHANGED skipped
             ELSE pc' = "scan" /\ skipped' = skipped + 1
    /\ UNCHANGED <<source, ctxDone, clock, scanner, runErr, result, lines, records, writer, faults, life>>

\* A slip: the checkpoint waits until the buffer has run dry.
CheckpointNowIfDry == Checkpointing /\ due /\ rd = tok

CheckpointNow == Checkpointing /\ due

\* A slip: the record is counted before the error of Append is looked at.
CountAnyway == records' = records + 1

AppendFailed == UNCHANGED records

AppendRecord ==
    /\ pc = "append"
    /\ Writer!Add(line)
    /\ overdue' = IF due THEN overdue + 1 ELSE overdue
    /\ \/ /\ records' = records + 1
          /\ pc' = IF CheckpointNow THEN "checkpoint" ELSE "scan"
          /\ UNCHANGED <<runErr, faults>>
       \/ AppendFailed /\ Fail("append") /\ Fault
    /\ UNCHANGED <<source, ctxDone, due, scanner, result, lines, skipped, life>>

Checkpoint ==
    /\ pc = "checkpoint"
    /\ \/ /\ Writer!Commit
          /\ due' = FALSE /\ overdue' = 0
          /\ pc' = "scan"
          /\ UNCHANGED <<runErr, faults>>
       \/ /\ Writer!Commit \/ UNCHANGED writer
          /\ Fail("checkpoint") /\ Fault
          /\ UNCHANGED clock
    /\ UNCHANGED <<source, ctxDone, scanner, result, stats, life>>

(***************************************************************************)
(* Close, and what Run returns: a cancelled run is as good as one that     *)
(* reached the end of its input.                                           *)
(***************************************************************************)
Primary == runErr \notin {"nil", "canceled"}

\* A slip: the error of a cancelled run hides that of Close.
ResultIgnoresClose(closed) ==
    IF Primary THEN "error" ELSE IF runErr = "canceled" \/ closed THEN "nil" ELSE "error"

Result(closed) == IF Primary \/ ~ closed THEN "error" ELSE "nil"

Close ==
    /\ pc = "close"
    /\ up
    /\ pc' = "done"
    /\ \/ Writer!Commit /\ result' = Result(TRUE) /\ UNCHANGED faults
       \/ (Writer!Commit \/ UNCHANGED writer) /\ result' = Result(FALSE) /\ Fault
    /\ UNCHANGED <<source, ctxDone, clock, scanner, runErr, stats, life>>

\* The steps of the goroutine that runs Run.
Step ==
    /\ up
    /\ \/ Scan
       \/ Read
       \/ Wait
       \/ Check
       \/ Decode
       \/ AppendRecord
       \/ Checkpoint
       \/ Close

Surroundings ==
    \/ SourceGrows
    \/ SourceEnds
    \/ Cancel
    \/ DeadlinePasses
    \/ Crash
    \/ Restart

Next == Step \/ Surroundings

(***************************************************************************)
(* The goroutine is scheduled and the clock advances; nothing obliges the  *)
(* source to go on, or anybody to cancel.                                  *)
(***************************************************************************)
Fairness == WF_vars(Step) /\ WF_vars(DeadlinePasses)

Spec == Init /\ [][Next]_vars /\ Fairness

(***************************************************************************)
(* Properties.                                                             *)
(***************************************************************************)
WholeLine(l) == [of |-> l, part |-> "whole"]

LogSet == {log[i] : i \in 1 .. Len(log)}

Settled == pc \in {"scan", "read", "wait", "close", "done"}

FirstLine == start \div 2 + 1

\* Between two lines the log has every decodable whole line handled so far,
\* and each line once and in order, torn ones and failures of the writer
\* included: Run neither drops, repeats nor reorders (ingest.go:84-110), and
\* what it writes after a crash does not come on top of what it wrote before
\* (cmd/ntcf/ingest.go:65).
EveryLineOnce ==
    up /\ Settled =>
        /\ \A l \in FirstLine .. FirstLine + lines - 1 :
              start <= 2 * l - 2 /\ 2 * l <= tok => (WholeLine(l) \in LogSet <=> l \in Decodable)
        /\ \A i, j \in 1 .. Len(log) : i < j => log[i].of < log[j].of

\* When Run returns nil everything it took is behind a footer, Stats.Records
\* says how much, and unless it was cancelled it took every line of its source,
\* all that a pipe ever carries (ingest.go:46-49).
NilMeansComplete ==
    up /\ result = "nil" =>
        /\ durable = Len(log)
        /\ records = Len(log)
        /\ runErr = "nil" /\ ~ ctxDone => ~ Follow /\ lines = (rd + 1) \div 2
        /\ runErr = "nil" /\ ~ ctxDone /\ input = "pipe" => ended /\ rd = written

\* Whatever made Run return, its counters add up, and the writer has at most
\* one record more than Stats.Records, the one whose Append failed.
StatsAddUp ==
    up /\ pc = "done" =>
        /\ Len(log) = lines - skipped
        /\ records = IF runErr = "append" THEN Len(log) - 1 ELSE Len(log)

\* A line that its producer has not finished writing is never ingested from
\* a followed file: at cancellation the scanner hands it out, and Run drops
\* it because ctx is done (ingest.go:86, tail.go:52).  Only the first line can
\* lack its beginning, when the Tailer starts in its middle (tail.go:33).
TornLineDropped ==
    Follow /\ readErr # "failed" =>
        \A i \in 1 .. Len(log) :
            \/ log[i].part = "whole"
            \/ log[i].part = "rest" /\ start % 2 = 1 /\ log[i].of = FirstLine

\* Once the deadline has passed at most one record is appended before a
\* checkpoint is tried (ingest.go:104).
DeadlineHonoured == overdue <= 1

Returned == pc = "done" \/ ~ up

\* After cancellation Run returns, however the file that it follows or reads
\* behaves (ingest.go:6 "context-cancellable", :46-49).
CancelReturns == (ctxDone /\ input # "pipe") ~> Returned

\* The same of any source, as the comments have it.
AnyCancelReturns == ctxDone ~> Returned

\* At the end of its input Run returns by itself: when a pipe is closed, and
\* always from a file that is not followed (ingest.go:46-47).
EndReturns == (ended \/ input = "file") ~> Returned
=============================================================================
