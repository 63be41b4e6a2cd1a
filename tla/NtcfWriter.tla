----------------------------- MODULE NtcfWriter -----------------------------
(***************************************************************************)
(* The streaming writer of pkg/ntcf/writer.go over an append-only file.    *)
(*                                                                         *)
(* A call (Append, Flush, Checkpoint, Close) runs as a sequence of steps,  *)
(* one per io.Writer.Write, each of which succeeds or fails after any      *)
(* number of cells; the process may die between any two of them.           *)
(***************************************************************************)
EXTENDS NtcfFormat

CONSTANTS
    Records,        \* the records a caller appends
    TsCol,          \* the timestamp column, 0 when the schema has none
    SegmentRows,    \* WriterOptions.SegmentRows as the caller gave it
    DefaultRows,    \* what NewWriter uses in its place when it is not positive
    MaxRecords,     \* bound: records appended
    MaxFaults       \* bound: failing writes

ASSUME WriterAssumption ==
    /\ Records \subseteq [Cols -> Word \cup {Null}]
    /\ TsCol \in 0 .. NCols
    /\ SegmentRows \in Int
    /\ DefaultRows \in Nat \ {0}
    /\ MaxRecords \in Nat
    /\ MaxFaults \in Nat

VARIABLES
    file,       \* what the underlying writer has received
    pos,        \* Writer.pos
    builders,   \* Writer.builders
    segments,   \* Writer.segments
    totalRows,  \* Writer.totalRows
    span,       \* Writer.minTS, maxTS, haveTS
    dirty,      \* Writer.dirty
    closed,     \* Writer.closed
    call,       \* the call in progress
    step,       \* where it stands
    col,        \* flushSegment's j
    seg,        \* flushSegment's seg
    accepted,   \* history: the records the builders have taken
    faults      \* bound: failed writes so far

meta == <<builders, segments, totalRows, span, dirty, closed>>
vars == <<file, pos, meta, call, step, col, seg, accepted, faults>>

Span == [min : Int, max : Int, have : BOOLEAN]

NoSpan == [min |-> 0, max |-> 0, have |-> FALSE]

NoSegment ==
    [offset |-> 0, length |-> 0, first |-> 0, rows |-> 0,
     minTS |-> 0, maxTS |-> 0, columns |-> <<>>]

Calls == {"none", "append", "flush", "checkpoint", "close"}
Steps == {"new", "idle", "chunk", "index", "finish", "footer", "gone"}

TypeOK ==
    /\ file \in Seq(Cell)
    /\ pos \in Nat
    /\ DOMAIN builders = Cols
    /\ \A c \in Cols : Sound(builders[c])
    /\ segments \in Seq(SegmentDir)
    /\ totalRows \in Nat
    /\ span \in Span
    /\ dirty \in BOOLEAN
    /\ closed \in BOOLEAN
    /\ call \in Calls
    /\ step \in Steps
    /\ col \in Cols
    /\ seg \in SegmentDir /\ seg.offset <= pos
    /\ accepted \in Seq(Records)
    /\ faults \in 0 .. MaxFaults

(***************************************************************************)
(* Writer.write: pos advances by what was taken, also when the write fails *)
(***************************************************************************)
Written(block) ==
    /\ file' = file \o block
    /\ pos' = pos + Len(block)
    /\ UNCHANGED faults

\* A slip: a failed write leaves pos where it was.
FailsUncounted(block) ==
    /\ faults < MaxFaults
    /\ faults' = faults + 1
    /\ \E n \in 0 .. Len(block) : file' = file \o SubSeq(block, 1, n)
    /\ UNCHANGED pos

WriteFails(block) ==
    /\ faults < MaxFaults
    /\ faults' = faults + 1
    /\ \E n \in 0 .. Len(block) :
          /\ file' = file \o SubSeq(block, 1, n)
          /\ pos' = pos + n

Return ==
    /\ call' = "none"
    /\ step' = "idle"
    /\ col' = 1
    /\ seg' = NoSegment

(***************************************************************************)
(* NewWriter.  Without a header there is no writer.                        *)
(***************************************************************************)
EffectiveRows ==
    LET asked == IF SegmentRows <= 0 THEN DefaultRows ELSE SegmentRows
    IN  IF asked > MaxSegmentRows THEN MaxSegmentRows ELSE asked

NoRows == [c \in Cols |-> NewBuilder]

Init ==
    /\ file = <<>>
    /\ pos = 0
    /\ builders = NoRows
    /\ segments = <<>>
    /\ totalRows = 0
    /\ span = NoSpan
    /\ dirty = FALSE
    /\ closed = FALSE
    /\ call = "none"
    /\ step = "new"
    /\ col = 1
    /\ seg = NoSegment
    /\ accepted = <<>>
    /\ faults = 0

NewWriter ==
    /\ step = "new"
    /\ \/ Written(HeaderBlock) /\ step' = "idle"
       \/ WriteFails(HeaderBlock) /\ step' = "gone"
    /\ UNCHANGED <<meta, call, col, seg, accepted>>

(***************************************************************************)
(* Entry of the calls.  EnterFlush is the head of flushSegment, on n rows. *)
(***************************************************************************)
OpenSegment(n) ==
    [offset |-> pos, length |-> 0, first |-> totalRows, rows |-> n,
     minTS |-> 0, maxTS |-> 0, columns |-> <<>>]

EnterFlush(c, n) ==
    /\ call' = c
    /\ step' = "chunk"
    /\ col' = 1
    /\ seg' = OpenSegment(n)

BufferedRows == Rows(builders[1])

\* A slip: Append forgets to mark the writer dirty.
StayClean == UNCHANGED dirty

MarkDirty == dirty' = TRUE

AppendRecord(r) ==
    /\ step = "idle"
    /\ ~ closed
    /\ Len(accepted) < MaxRecords
    /\ accepted' = Append(accepted, r)
    /\ builders' = [c \in Cols |-> AppendCell(builders[c], r[c])]
    /\ MarkDirty
    /\ IF BufferedRows + 1 >= EffectiveRows
       THEN EnterFlush("append", BufferedRows + 1)
       ELSE UNCHANGED <<call, step, col, seg>>
    /\ UNCHANGED <<file, pos, segments, totalRows, span, closed, faults>>

\* Flush has no closed guard: on a closed writer there are no rows to flush.
Flush ==
    /\ step = "idle"
    /\ BufferedRows > 0
    /\ EnterFlush("flush", BufferedRows)
    /\ UNCHANGED <<file, pos, meta, accepted, faults>>

FlushThenFooter(c) ==
    /\ IF BufferedRows > 0
       THEN EnterFlush(c, BufferedRows)
       ELSE call' = c /\ step' = "footer" /\ UNCHANGED <<col, seg>>
    /\ UNCHANGED <<file, pos, meta, accepted, faults>>

Checkpoint ==
    /\ step = "idle"
    /\ ~ closed
    /\ dirty
    /\ FlushThenFooter("checkpoint")

Close ==
    /\ step = "idle"
    /\ ~ closed
    /\ FlushThenFooter("close")

(***************************************************************************)
(* The column loop of flushSegment: statistics and chunk, then the index   *)
(* blob of an indexed column.  A failing write abandons the segment and    *)
(* leaves every builder as it was.                                         *)
(***************************************************************************)
NextColumn ==
    IF col < NCols
    THEN step' = "chunk" /\ col' = col + 1
    ELSE step' = "finish" /\ UNCHANGED col

ColumnEntry(b) ==
    LET st == Stats(b)
    IN  [chunkOffset |-> pos, chunkLength |-> ChunkLen,
         indexOffset |-> 0, indexLength |-> 0,
         hasNulls |-> st.hasNulls, nonNull |-> st.nonNull,
         min |-> st.min, max |-> st.max]

WriteChunk ==
    /\ step = "chunk"
    /\ LET b == builders[col]
       IN  \/ /\ Written(ChunkBlock(b))
              /\ seg' = [seg EXCEPT !.columns = Append(@, ColumnEntry(b))]
              /\ IF col \in Indexed THEN step' = "index" /\ UNCHANGED col ELSE NextColumn
              /\ UNCHANGED call
           \/ WriteFails(ChunkBlock(b)) /\ Return
    /\ UNCHANGED <<meta, accepted>>

\* A slip: the index offset is taken after the blob is written.
IndexOffsetTooLate(cd) ==
    [cd EXCEPT !.indexOffset = pos + IndexLen, !.indexLength = IndexLen]

WithIndex(cd) == [cd EXCEPT !.indexOffset = pos, !.indexLength = IndexLen]

WriteIndex ==
    /\ step = "index"
    /\ LET blob == IndexBlock(builders[col])
       IN  \/ /\ Written(blob)
              /\ seg' = [seg EXCEPT !.columns[col] = WithIndex(@)]
              /\ NextColumn
              /\ UNCHANGED call
           \/ WriteFails(blob) /\ Return
    /\ UNCHANGED <<meta, accepted>>

(***************************************************************************)
(* The tail of flushSegment, once every block is out: the segment's and    *)
(* the file's time span, the directory entry, and the builders' reset.     *)
(***************************************************************************)
TimeStats == Stats(builders[TsCol])

HasTimes == TsCol # 0 /\ TimeStats.nonNull > 0

Finished ==
    LET s == [seg EXCEPT !.length = pos - seg.offset]
    IN  IF HasTimes
        THEN [s EXCEPT !.minTS = AsInt64(TimeStats.min), !.maxTS = AsInt64(TimeStats.max)]
        ELSE s

\* A slip: the zero values of a fresh writer count as a span.
WidenFromZero(s) ==
    [min  |-> IF s.minTS < span.min THEN s.minTS ELSE span.min,
     max  |-> IF s.maxTS > span.max THEN s.maxTS ELSE span.max,
     have |-> TRUE]

Widen(s) ==
    [min  |-> IF ~ span.have \/ s.minTS < span.min THEN s.minTS ELSE span.min,
     max  |-> IF ~ span.have \/ s.maxTS > span.max THEN s.maxTS ELSE span.max,
     have |-> TRUE]

FinishSegment ==
    /\ step = "finish"
    /\ segments' = Append(segments, Finished)
    /\ totalRows' = totalRows + seg.rows
    /\ span' = IF HasTimes THEN Widen(Finished) ELSE span
    /\ builders' = [c \in Cols |-> Reset(builders[c])]
    /\ IF call \in {"checkpoint", "close"}
       THEN step' = "footer" /\ col' = 1 /\ seg' = NoSegment /\ UNCHANGED call
       ELSE Return
    /\ UNCHANGED <<file, pos, dirty, closed, accepted, faults>>

(***************************************************************************)
(* writeFooter, and what Checkpoint and Close do once it returns.          *)
(***************************************************************************)
FooterNow ==
    [segments |-> segments, totalRows |-> totalRows, minTS |-> span.min, maxTS |-> span.max]

\* A slip: Close marks the writer closed although the footer failed.
ClosedAnyway == closed' = (call = "close") /\ UNCHANGED dirty

FooterFailed == UNCHANGED <<dirty, closed>>

WriteFooter ==
    /\ step = "footer"
    /\ \/ Written(FooterBlock(FooterNow)) /\ dirty' = FALSE /\ closed' = (call = "close")
       \/ WriteFails(FooterBlock(FooterNow)) /\ FooterFailed
    /\ Return
    /\ UNCHANGED <<builders, segments, totalRows, span, accepted>>

\* The process dies; the file keeps what was written.
Crash ==
    /\ step # "gone"
    /\ step' = "gone"
    /\ UNCHANGED <<file, pos, meta, call, col, seg, accepted, faults>>

Next ==
    \/ NewWriter
    \/ \E r \in Records : AppendRecord(r)
    \/ Flush
    \/ Checkpoint
    \/ Close
    \/ WriteChunk
    \/ WriteIndex
    \/ FinishSegment
    \/ WriteFooter
    \/ Crash

Spec == Init /\ [][Next]_vars

(***************************************************************************)
(* Properties.  A crash leaves some prefix of the file behind; Image(n) is *)
(* the one of n cells, Footers are the ends at which some image ends with  *)
(* a footer that reads.                                                    *)
(***************************************************************************)
Image(n) == SubSeq(file, 1, n)

Footers == {end \in 1 .. Len(file) : FooterAt(file, end)}

RecoverableRows(img) ==
    IF CanRecover(img) THEN RecoveredFooter(img).totalRows ELSE 0

\* Whatever prefix of the file a crash leaves, at whatever step, what
\* store.Recover makes of it decodes to the first records appended, in order
\* and with their nulls, and to nothing else (writer.go:164, recover.go:14).
CommittedRowsIntact ==
    \A n \in 0 .. Len(file) :
        CanRecover(Image(n)) =>
            LET f == RecoveredFooter(Image(n))
            IN  /\ f.totalRows <= Len(accepted)
                /\ Decodable(Image(n), f)
                /\ ReadRows(Image(n), f) = SubSeq(accepted, 1, f.totalRows)

\* The records of column c that a footer's segment s covers.
CellsOf(s, c) == {accepted[r][c] : r \in (s.first + 1) .. (s.first + s.rows)}

\* The zone maps a reader prunes with: min and max are values of the segment
\* and bound them all, nonNull is zero exactly when there is none, hasNulls
\* tells whether a null is among them (footer.go:23, builder.go:93).
ZoneMapsSound ==
    \A end \in Footers : \A i \in 1 .. Len(file[end].of.segments), c \in Cols :
        LET s  == file[end].of.segments[i]
            cd == s.columns[c]
            V  == CellsOf(s, c) \ {Null}
        IN  /\ cd.nonNull = Cardinality({r \in (s.first + 1) .. (s.first + s.rows) :
                                            accepted[r][c] # Null})
            /\ cd.hasNulls <=> Null \in CellsOf(s, c)
            /\ V # {} => cd.min \in V /\ cd.max \in V
            /\ \A v \in V : cd.min <= v /\ v <= cd.max

\* An index blob is there for the indexed columns and for no other, it lies
\* whole inside every image that holds the footer, and it answers for exactly
\* the values of its own segment: no equality query is pruned wrongly.
IndexesCover ==
    \A end \in Footers : \A i \in 1 .. Len(file[end].of.segments), c \in Cols :
        LET s  == file[end].of.segments[i]
            cd == s.columns[c]
        IN  IF c \in Indexed
            THEN /\ IndexReads(Image(end), cd)
                 /\ IndexKeys(Image(end), cd) = CellsOf(s, c) \ {Null}
            ELSE cd.indexLength = 0

\* The signed times of the rows a footer covers.
TimesOf(f) ==
    {AsInt64(accepted[r][TsCol]) : r \in {q \in 1 .. f.totalRows : accepted[q][TsCol] # Null}}

\* Every footer's time span is the exact minimum and maximum over the file's
\* rows, 0 when no row has a time (draft-ntcf-format-00.md:375).
TimeSpanExact ==
    TsCol # 0 =>
        \A end \in Footers :
            LET f == file[end].of
                T == TimesOf(f)
            IN  IF T = {}
                THEN f.minTS = 0 /\ f.maxTS = 0
                ELSE f.minTS = Min(T) /\ f.maxTS = Max(T)

\* Between calls, a writer that is not dirty has every appended record behind
\* a footer: a Checkpoint that returned nil, or skipped its work, was right to.
CleanMeansCommitted ==
    step = "idle" /\ ~ dirty => RecoverableRows(file) = Len(accepted)

\* Once Close has succeeded the file opens without recovery and stays so,
\* whatever is called next, with every record appended.
ClosedFileOpens ==
    closed => /\ CanOpen(file)
              /\ file[Len(file)].of.totalRows = Len(accepted)

\* A crash after a checkpoint leaves a file that still opens
\* (writer.go:164: "a fully valid, readable file").
CheckpointedFileOpens ==
    step = "gone" /\ RecoverableRows(file) > 0 => CanOpen(file)

\* Every committed segment stays within the rows a reader accepts
\* (limits.go:19: "The writer flushes well below this").
FlushesBelowLimit ==
    \A i \in 1 .. Len(segments) : segments[i].rows <= MaxSegmentRows

\* No step, and no failed or torn write, ever makes recovery give back fewer
\* rows than before (writer.go:168: the previous footer stays intact).
RecoveryNeverShrinks ==
    [][RecoverableRows(file) <= RecoverableRows(file')]_vars

(***************************************************************************)
(* The writer implements the durable log.  While it runs the log is what   *)
(* was appended; after a crash it is what recovery reads back.             *)
(***************************************************************************)
\* What recovery reads back; the sets of one element make TLC find the footer
\* once and not once for every row.
Survivors ==
    IF CanRecover(file)
    THEN CHOOSE r \in {ReadRows(file, f) : f \in {RecoveredFooter(file)}} : TRUE
    ELSE <<>>

Log == INSTANCE DurableLog WITH
    Record  <- Records,
    log     <- IF step = "gone" THEN Survivors ELSE accepted,
    durable <- RecoverableRows(file),
    up      <- (step # "gone")

\* A crash at any step loses the records since the last footer and nothing
\* else; a footer commits every record appended before it.
ImplementsDurableLog == Log!Spec

(***************************************************************************)
(* The inductive invariant behind CommittedRowsIntact: every record is in  *)
(* exactly one place, a written segment or the builders, and nothing that  *)
(* a footer or a directory entry points at ever moves.                     *)
(***************************************************************************)

\* In image img, the chunk that cd locates holds column c of the n records
\* of recs that follow the first `first` ones.
Holds(img, recs, cd, c, first, n) ==
    /\ cd.chunkLength = ChunkLen
    /\ IsBlock(img, cd.chunkOffset, ChunkLen, "chunk")
    /\ Rows(img[cd.chunkOffset + 1].of) = n
    /\ \A i \in 1 .. n : CellAt(img[cd.chunkOffset + 1].of, i) = recs[first + i][c]

RowsIn(s) == IF s = <<>> THEN 0 ELSE s[Len(s)].first + s[Len(s)].rows

BuffersHoldTail ==
    \A c \in Cols :
        /\ Rows(builders[c]) = Len(accepted) - totalRows
        /\ \A i \in 1 .. Rows(builders[c]) :
              CellAt(builders[c], i) = accepted[totalRows + i][c]

SegmentsTile ==
    /\ totalRows = RowsIn(segments)
    /\ \A i \in 1 .. Len(segments) :
          /\ segments[i].first =
                IF i = 1 THEN 0 ELSE segments[i - 1].first + segments[i - 1].rows
          /\ segments[i].first + segments[i].rows <= totalRows

SegmentsStored ==
    \A i \in 1 .. Len(segments), c \in Cols :
        /\ Len(segments[i].columns) = NCols
        /\ Holds(file, accepted, segments[i].columns[c], c,
                 segments[i].first, segments[i].rows)

SegmentInProgress ==
    step \in {"chunk", "index", "finish"} =>
        /\ seg.first = totalRows
        /\ seg.rows = Len(accepted) - totalRows
        /\ Len(seg.columns) = IF step = "chunk" THEN col - 1 ELSE col
        /\ step = "finish" => col = NCols
        /\ \A c \in 1 .. Len(seg.columns) :
              Holds(file, accepted, seg.columns[c], c, seg.first, seg.rows)

\* Footer f tells of the first of the segments segs, all of it before `end`.
Describes(f, segs, end) ==
    /\ f \in Footer
    /\ Len(f.segments) <= Len(segs)
    /\ \A i \in 1 .. Len(f.segments) : f.segments[i] = segs[i]
    /\ f.totalRows = RowsIn(f.segments)
    /\ \A i \in 1 .. Len(f.segments), c \in Cols :
          f.segments[i].columns[c].chunkOffset + ChunkLen <= end

FootersDescribe ==
    \A end \in 1 .. Len(file) :
        file[end].kind = "footer" => Describes(file[end].of, segments, end)

\* Every record appended is stored once, in order, where the directory says it
\* is, or still buffered; footers only ever describe a prefix of the directory.
EachRecordOnce ==
    /\ TypeOK
    /\ pos = Len(file)
    /\ BuffersHoldTail
    /\ SegmentsTile
    /\ SegmentsStored
    /\ SegmentInProgress
    /\ FootersDescribe
=============================================================================
