-------------------------- MODULE NtcfWriterProofs --------------------------
(***************************************************************************)
(* Theorems about the writer, for every schema, every record set, every    *)
(* segment size and every number of failing writes.                        *)
(***************************************************************************)
EXTENDS NtcfWriter, NtcfColumnProofs

(***************************************************************************)
(* Writes.                                                                 *)
(***************************************************************************)

\* A block is a sequence of cells.
LEMMA BlockType ==
    ASSUME NEW kind \in {"header", "chunk", "index", "footer"},
           NEW of \in Payload, NEW len \in Nat
    PROVE  /\ Block(kind, of, len) \in Seq(Cell)
           /\ Len(Block(kind, of, len)) = len
  BY IsASeq DEF Block, Cell

\* What a step does to the file: n more cells of one block.
Grows(kind, of, n) ==
    /\ file' \in Seq(Cell)
    /\ Len(file') = Len(file) + n
    /\ pos' = pos + n
    /\ \A k \in 1 .. Len(file) : file'[k] = file[k]
    /\ \A p \in 1 .. n : /\ file'[Len(file) + p].kind = kind
                         /\ file'[Len(file) + p].of = of
                         /\ file'[Len(file) + p].part = p
    /\ faults' \in 0 .. MaxFaults

\* Writer.write appends a whole block when it succeeds (writer.go:126).
LEMMA WrittenGrows ==
    ASSUME TypeOK,
           NEW kind \in {"header", "chunk", "index", "footer"},
           NEW of \in Payload, NEW len \in Nat,
           Written(Block(kind, of, len))
    PROVE  Grows(kind, of, len)
<1> DEFINE b == Block(kind, of, len)
<1>1. b \in Seq(Cell) /\ Len(b) = len
  BY BlockType
<1>2. file \in Seq(Cell)
  BY DEF TypeOK
<1>3. \A p \in 1 .. len : b[p].kind = kind /\ b[p].of = of /\ b[p].part = p
  BY DEF Block
<1> HIDE DEF b
<1>4. /\ file \o b \in Seq(Cell)
      /\ Len(file \o b) = Len(file) + Len(b)
      /\ \A i \in 1 .. Len(file) + Len(b) :
            (file \o b)[i] = IF i <= Len(file) THEN file[i] ELSE b[i - Len(file)]
  BY <1>1, <1>2, ConcatProperties
<1>5. file' = file \o b /\ pos' = pos + Len(b) /\ faults' = faults
  BY DEF Written, b
<1>6. Len(file) \in Nat
  BY <1>2
<1>7. \A p \in 1 .. len : file'[Len(file) + p] = b[p]
  BY <1>1, <1>4, <1>5, <1>6
<1> QED  BY <1>1, <1>3, <1>4, <1>5, <1>6, <1>7 DEF Grows, TypeOK

\* When it fails it has appended some first cells of it, and counted them.
LEMMA FailureGrows ==
    ASSUME TypeOK,
           NEW kind \in {"header", "chunk", "index", "footer"},
           NEW of \in Payload, NEW len \in Nat,
           WriteFails(Block(kind, of, len))
    PROVE  \E n \in 0 .. len : Grows(kind, of, n)
<1> DEFINE b == Block(kind, of, len)
<1>1. b \in Seq(Cell) /\ Len(b) = len
  BY BlockType
<1>2. file \in Seq(Cell) /\ Len(file) \in Nat
  BY DEF TypeOK
<1>3. \A p \in 1 .. len : b[p].kind = kind /\ b[p].of = of /\ b[p].part = p
  BY DEF Block
<1> HIDE DEF b
<1>4. PICK n \in 0 .. len : file' = file \o SubSeq(b, 1, n) /\ pos' = pos + n
  BY <1>1 DEF WriteFails, b
<1> DEFINE t == SubSeq(b, 1, n)
<1>5. t \in Seq(Cell) /\ Len(t) = n /\ \A p \in 1 .. n : t[p] = b[p]
  BY <1>1, SubSeqProperties
<1> HIDE DEF t
<1>6. /\ file \o t \in Seq(Cell)
      /\ Len(file \o t) = Len(file) + Len(t)
      /\ \A i \in 1 .. Len(file) + Len(t) :
            (file \o t)[i] = IF i <= Len(file) THEN file[i] ELSE t[i - Len(file)]
  BY <1>2, <1>5, ConcatProperties
<1>7. file' = file \o t
  BY <1>4 DEF t
<1>8. faults' \in 0 .. MaxFaults
  BY WriterAssumption DEF WriteFails, TypeOK
<1>9. \A p \in 1 .. n : file'[Len(file) + p] = b[p]
  BY <1>2, <1>5, <1>6, <1>7
<1>10. Grows(kind, of, n)
  BY <1>2, <1>3, <1>4, <1>5, <1>6, <1>7, <1>8, <1>9 DEF Grows
<1> QED  BY <1>10

(***************************************************************************)
(* Type correctness.                                                       *)
(***************************************************************************)

\* The payloads of the blocks that the writer emits.
LEMMA PayloadTypes ==
    ASSUME TypeOK
    PROVE  /\ [magic |-> TRUE] \in Payload
           /\ \A c \in Cols : builders[c] \in Payload
           /\ \A c \in Cols : [keys |-> PresentValues(builders[c])] \in Payload
           /\ FooterNow \in Footer /\ FooterNow \in Payload
<1>1. \A c \in Cols : PresentValues(builders[c]) \subseteq Word
  BY SoundFields DEF TypeOK, PresentValues, PresentRows
<1>2. FooterNow \in Footer
  BY DEF FooterNow, Footer, TypeOK, Span
<1> QED  BY <1>1, <1>2 DEF Payload, TypeOK, Sound

\* flushSegment's directory entries are well formed (writer.go:212-248).
LEMMA EntryTypes ==
    ASSUME TypeOK, NEW b, Sound(b)
    PROVE  /\ ColumnEntry(b) \in ColumnDir
           /\ \A cd \in ColumnDir : WithIndex(cd) \in ColumnDir
<1>1. Stats(b) \in [hasNulls : BOOLEAN, nonNull : Nat, min : Word, max : Word]
  BY StatsType
<1>2. ChunkLen \in Nat /\ IndexLen \in Nat /\ pos \in Nat
  BY FormatAssumption DEF TypeOK
<1>3. ColumnEntry(b) \in ColumnDir
  BY <1>1, <1>2 DEF ColumnEntry, ColumnDir
<1>4. \A cd \in ColumnDir : WithIndex(cd) \in ColumnDir
  BY <1>2 DEF WithIndex, ColumnDir
<1> QED  BY <1>3, <1>4

LEMMA InitType == Init => TypeOK
<1> SUFFICES ASSUME Init PROVE TypeOK
  OBVIOUS
<1>1. NoSegment \in SegmentDir /\ NoSpan \in Span
  BY DEF NoSegment, SegmentDir, NoSpan, Span
<1>2. 1 \in Cols /\ 0 \in 0 .. MaxFaults
  BY FormatAssumption, WriterAssumption DEF Cols
<1>3. DOMAIN builders = Cols /\ \A c \in Cols : Sound(builders[c])
  BY EmptyBuilder DEF Init, NoRows
<1>4. \A S : <<>> \in Seq(S)
  OBVIOUS
<1>5. /\ file \in Seq(Cell) /\ segments \in Seq(SegmentDir) /\ accepted \in Seq(Records)
      /\ pos \in Nat /\ totalRows \in Nat /\ dirty \in BOOLEAN /\ closed \in BOOLEAN
  BY <1>4 DEF Init
<1>6. call \in Calls /\ step \in Steps /\ col \in Cols /\ faults \in 0 .. MaxFaults
      /\ span \in Span /\ seg \in SegmentDir /\ seg.offset <= pos
  BY <1>1, <1>2 DEF Init, Calls, Steps, NoSegment
<1> QED  BY <1>3, <1>5, <1>6 DEF TypeOK

LEMMA SegmentUpdate ==
    ASSUME NEW s \in SegmentDir, NEW cs \in Seq(ColumnDir)
    PROVE  /\ [s EXCEPT !.columns = cs] \in SegmentDir
           /\ [s EXCEPT !.columns = cs].offset = s.offset
           /\ [s EXCEPT !.columns = cs].first = s.first
           /\ [s EXCEPT !.columns = cs].rows = s.rows
           /\ [s EXCEPT !.columns = cs].columns = cs
  BY DEF SegmentDir

LEMMA OpenSegmentType ==
    ASSUME TypeOK, NEW n \in Nat
    PROVE  OpenSegment(n) \in SegmentDir /\ OpenSegment(n).offset = pos
  BY DEF OpenSegment, SegmentDir, TypeOK

LEMMA NextType == TypeOK /\ [Next]_vars => TypeOK'
<1> SUFFICES ASSUME TypeOK, [Next]_vars PROVE TypeOK'
  OBVIOUS
<1> USE DEF Calls, Steps
<1>0. /\ NoSegment \in SegmentDir /\ NoSegment.offset = 0 /\ 1 \in Cols
      /\ Len(accepted) \in Nat /\ Len(segments) \in Nat
      /\ pos \in Nat /\ seg.offset \in Nat /\ seg.offset <= pos
  BY FormatAssumption DEF NoSegment, SegmentDir, Cols, TypeOK
<1>1. CASE NewWriter
  <2>1. Written(HeaderBlock) \/ WriteFails(HeaderBlock)
    BY <1>1 DEF NewWriter
  <2>2. HeaderLen \in Nat
    BY FormatAssumption
  <2>3. PICK n \in Nat : Grows("header", [magic |-> TRUE], n)
    BY <2>1, <2>2, PayloadTypes, WrittenGrows, FailureGrows DEF HeaderBlock
  <2> QED  BY <1>0, <1>1, <2>3 DEF NewWriter, Grows, TypeOK, meta
<1>2. ASSUME NEW r \in Records, AppendRecord(r) PROVE TypeOK'
  <2>1. \A c \in Cols : r[c] \in Word \cup {Null}
    BY WriterAssumption
  <2>2. DOMAIN builders' = Cols /\ \A c \in Cols : Sound(builders'[c])
    BY <1>2, <2>1, AppendCellFacts DEF AppendRecord, TypeOK
  <2>3. accepted' \in Seq(Records)
    BY <1>2, AppendProperties DEF AppendRecord, TypeOK
  <2>4. BufferedRows + 1 \in Nat
    BY <1>0, SoundFields DEF BufferedRows, TypeOK
  <2>5. call' \in Calls /\ step' \in Steps /\ col' \in Cols /\ seg' \in SegmentDir
    BY <1>0, <1>2, <2>4, OpenSegmentType DEF AppendRecord, EnterFlush, TypeOK
  <2>6. seg'.offset <= pos'
    BY <1>2 DEF AppendRecord, EnterFlush, TypeOK, OpenSegment
  <2> QED  BY <1>2, <2>2, <2>3, <2>5, <2>6 DEF AppendRecord, MarkDirty, TypeOK
<1>3. CASE Flush \/ Checkpoint \/ Close
  <2>1. BufferedRows \in Nat
    BY <1>0, SoundFields DEF BufferedRows, TypeOK
  <2>2. call' \in Calls /\ step' \in Steps /\ col' \in Cols /\ seg' \in SegmentDir
    BY <1>0, <1>3, <2>1, OpenSegmentType
       DEF Flush, Checkpoint, Close, FlushThenFooter, EnterFlush, TypeOK
  <2>3. UNCHANGED <<file, pos, meta, accepted, faults>>
    BY <1>3 DEF Flush, Checkpoint, Close, FlushThenFooter
  <2>4. seg'.offset <= pos'
    BY <1>3 DEF Flush, Checkpoint, Close, FlushThenFooter, EnterFlush, TypeOK, OpenSegment
  <2> QED  BY <2>2, <2>3, <2>4 DEF TypeOK, meta
<1>4. CASE WriteChunk
  <2> DEFINE b == builders[col]
  <2>1. Sound(b) /\ b \in Payload /\ ChunkLen \in Nat
    BY PayloadTypes, FormatAssumption DEF TypeOK
  <2>2. Written(ChunkBlock(b)) \/ WriteFails(ChunkBlock(b))
    BY <1>4 DEF WriteChunk
  <2>3. PICK n \in Nat : Grows("chunk", b, n)
    BY <2>1, <2>2, WrittenGrows, FailureGrows DEF ChunkBlock
  <2>4. Append(seg.columns, ColumnEntry(b)) \in Seq(ColumnDir)
    BY <2>1, EntryTypes, AppendProperties DEF TypeOK, SegmentDir
  <2>5. seg' \in SegmentDir /\ seg'.offset \in {0, seg.offset}
    <3>1. \/ seg' = NoSegment
          \/ seg' = [seg EXCEPT !.columns = Append(seg.columns, ColumnEntry(b))]
      BY <1>4 DEF WriteChunk, Return
    <3>2. seg \in SegmentDir
      BY DEF TypeOK
    <3> DEFINE s == [seg EXCEPT !.columns = Append(seg.columns, ColumnEntry(b))]
    <3>3. s \in SegmentDir /\ s.offset = seg.offset
      BY <2>4, <3>2, SegmentUpdate
    <3> HIDE DEF s
    <3>4. seg' = NoSegment \/ seg' = s
      BY <3>1 DEF s
    <3> QED  BY <1>0, <3>3, <3>4
  <2>7. seg'.offset <= pos'
    BY <1>0, <2>3, <2>5 DEF Grows
  <2>6. call' \in Calls /\ step' \in Steps /\ col' \in Cols
    <3>1. call' \in {call, "none"} /\ step' \in {"index", "chunk", "finish", "idle"}
      BY <1>4 DEF WriteChunk, Return, NextColumn
    <3>2. col' \in {col, 1} \/ (col < NCols /\ col' = col + 1)
      BY <1>4 DEF WriteChunk, Return, NextColumn
    <3>3. call \in Calls /\ col \in Cols
      BY <1>0 DEF TypeOK
    <3> QED  BY <3>1, <3>2, <3>3, FormatAssumption DEF Cols
  <2>8. UNCHANGED <<meta, accepted>>
    BY <1>4 DEF WriteChunk
  <2>9. file' \in Seq(Cell) /\ faults' \in 0 .. MaxFaults
    BY <2>3 DEF Grows
  <2>10. pos' \in Nat
    <3>1. pos \in Nat
      BY <1>0 DEF TypeOK
    <3> QED  BY <2>3, <3>1 DEF Grows
  <2> QED  BY <2>5, <2>6, <2>7, <2>8, <2>9, <2>10 DEF TypeOK, meta
<1>5. CASE WriteIndex
  <2> DEFINE k == [keys |-> PresentValues(builders[col])]
             cs == [seg.columns EXCEPT ![col] = WithIndex(seg.columns[col])]
  <2>1. k \in Payload /\ IndexLen \in Nat
    BY PayloadTypes, FormatAssumption DEF TypeOK
  <2>2. Written(IndexBlock(builders[col])) \/ WriteFails(IndexBlock(builders[col]))
    BY <1>5 DEF WriteIndex
  <2>3. PICK n \in Nat : Grows("index", k, n)
    BY <2>1, <2>2, WrittenGrows, FailureGrows DEF IndexBlock
  <2>4. cs \in Seq(ColumnDir)
    <3>1. \A i \in 1 .. Len(seg.columns) : WithIndex(seg.columns[i]) \in ColumnDir
      BY EntryTypes, EmptyBuilder DEF TypeOK, SegmentDir
    <3>2. seg.columns \in Seq(ColumnDir)
      BY DEF TypeOK, SegmentDir
    <3>3. CASE col \in 1 .. Len(seg.columns)
      <4> DEFINE cd == WithIndex(seg.columns[col])
      <4>1. cd \in ColumnDir
        BY <3>1, <3>3
      <4> HIDE DEF cd
      <4>2. [seg.columns EXCEPT ![col] = cd] \in Seq(ColumnDir)
        BY <3>2, <3>3, <4>1, ExceptSeq
      <4> QED  BY <4>2 DEF cd
    <3>4. CASE col \notin 1 .. Len(seg.columns)
      <4>1. cs = seg.columns
        BY <3>2, <3>4
      <4> QED  BY <3>2, <4>1
    <3> QED  BY <3>3, <3>4
  <2>5. seg' \in SegmentDir /\ seg'.offset \in {0, seg.offset}
    <3>1. \/ seg' = NoSegment
          \/ seg' = [seg EXCEPT !.columns = cs]
      BY <1>5 DEF WriteIndex, Return
    <3>2. seg \in SegmentDir
      BY DEF TypeOK
    <3> HIDE DEF cs
    <3> DEFINE s == [seg EXCEPT !.columns = cs]
    <3>3. s \in SegmentDir /\ s.offset = seg.offset
      BY <2>4, <3>2, SegmentUpdate
    <3> HIDE DEF s
    <3>4. seg' = NoSegment \/ seg' = s
      BY <3>1 DEF s
    <3> QED  BY <1>0, <3>3, <3>4
  <2>7. seg'.offset <= pos'
    BY <1>0, <2>3, <2>5 DEF Grows
  <2>6. call' \in Calls /\ step' \in Steps /\ col' \in Cols
    <3>1. call' \in {call, "none"} /\ step' \in {"chunk", "finish", "idle"}
      BY <1>5 DEF WriteIndex, Return, NextColumn
    <3>2. col' \in {col, 1} \/ (col < NCols /\ col' = col + 1)
      BY <1>5 DEF WriteIndex, Return, NextColumn
    <3>3. call \in Calls /\ col \in Cols
      BY <1>0 DEF TypeOK
    <3> QED  BY <3>1, <3>2, <3>3, FormatAssumption DEF Cols
  <2>8. UNCHANGED <<meta, accepted>>
    BY <1>5 DEF WriteIndex
  <2>9. file' \in Seq(Cell) /\ faults' \in 0 .. MaxFaults
    BY <2>3 DEF Grows
  <2>10. pos' \in Nat
    <3>1. pos \in Nat
      BY <1>0 DEF TypeOK
    <3> QED  BY <2>3, <3>1 DEF Grows
  <2> QED  BY <2>5, <2>6, <2>7, <2>8, <2>9, <2>10 DEF TypeOK, meta
<1>6. CASE FinishSegment
  <2>1. HasTimes => TimeStats.min \in Word /\ TimeStats.max \in Word
    <3>1. HasTimes => TsCol \in Cols
      BY WriterAssumption, FormatAssumption DEF HasTimes, Cols
    <3> QED  BY <3>1, StatsType DEF TimeStats, TypeOK
  <2>2. \A v \in Word : AsInt64(v) \in Int
    BY ColumnAssumption DEF AsInt64, Word
  <2>3. pos - seg.offset \in Nat
    BY DEF TypeOK, SegmentDir
  <2>4. Finished \in SegmentDir
    BY <2>1, <2>2, <2>3 DEF Finished, TypeOK, SegmentDir
  <2>5. span' \in Span
    BY <1>6, <2>4 DEF FinishSegment, Widen, TypeOK, Span, SegmentDir
  <2>6. segments' \in Seq(SegmentDir) /\ totalRows' \in Nat
    <3>1. segments \in Seq(SegmentDir) /\ totalRows \in Nat /\ seg.rows \in Nat
      BY DEF TypeOK, SegmentDir
    <3> QED  BY <1>6, <2>4, <3>1, AppendProperties DEF FinishSegment
  <2>7. DOMAIN builders' = Cols /\ \A c \in Cols : Sound(builders'[c])
    BY <1>6, EmptyBuilder DEF FinishSegment
  <2>8. call' \in Calls /\ step' \in Steps /\ col' \in Cols /\ seg' \in SegmentDir
      /\ seg'.offset = 0
    BY <1>0, <1>6 DEF FinishSegment, Return, TypeOK
  <2> QED  BY <1>6, <2>5, <2>6, <2>7, <2>8 DEF FinishSegment, TypeOK
<1>7. CASE WriteFooter
  <2>1. FooterNow \in Payload /\ FooterLen \in Nat
    BY PayloadTypes, FormatAssumption
  <2>2. Written(FooterBlock(FooterNow)) \/ WriteFails(FooterBlock(FooterNow))
    BY <1>7 DEF WriteFooter
  <2>3. PICK n \in Nat : Grows("footer", FooterNow, n)
    BY <2>1, <2>2, WrittenGrows, FailureGrows DEF FooterBlock
  <2>4. dirty' \in BOOLEAN /\ closed' \in BOOLEAN
    BY <1>7 DEF WriteFooter, FooterFailed, TypeOK
  <2> QED  BY <1>0, <1>7, <2>3, <2>4 DEF WriteFooter, Return, Grows, TypeOK
<1>8. CASE Crash
  BY <1>8 DEF Crash, TypeOK, meta
<1>9. CASE UNCHANGED vars
  BY <1>9 DEF vars, meta, TypeOK
<1> QED  BY <1>1, <1>2, <1>3, <1>4, <1>5, <1>6, <1>7, <1>8, <1>9 DEF Next

\* The writer's variables keep their types (the state of pkg/ntcf/writer.go).
THEOREM TypeCorrect == Spec => []TypeOK
<1>1. Init => TypeOK
  BY InitType
<1>2. TypeOK /\ [Next]_vars => TypeOK'
  BY NextType
<1> QED  BY <1>1, <1>2, PTL DEF Spec

(***************************************************************************)
(* What stays readable while the file grows.                               *)
(***************************************************************************)

\* Image g is image f with more cells after it.
Extends(f, g) ==
    /\ f \in Seq(Cell) /\ g \in Seq(Cell)
    /\ Len(f) <= Len(g)
    /\ \A k \in 1 .. Len(f) : g[k] = f[k]

LEMMA GrowsExtends ==
    ASSUME TypeOK, NEW kind, NEW of, NEW n \in Nat, Grows(kind, of, n)
    PROVE  Extends(file, file')
  BY DEF TypeOK, Grows, Extends

LEMMA BlockKept ==
    ASSUME NEW f, NEW g, Extends(f, g),
           NEW off \in Nat, NEW len \in Nat \ {0}, NEW kind,
           IsBlock(f, off, len, kind)
    PROVE  IsBlock(g, off, len, kind) /\ g[off + 1] = f[off + 1]
<1>1. Len(f) \in Nat /\ Len(g) \in Nat
  BY DEF Extends
<1>2. off + len <= Len(f)
  BY DEF IsBlock
<1>3. \A p \in 1 .. len : g[off + p] = f[off + p]
  BY <1>1, <1>2 DEF Extends
<1>4. off + len <= Len(g)
  BY <1>1, <1>2 DEF Extends
<1>5. g[off + 1] = f[off + 1]
  BY <1>3
<1> QED  BY <1>3, <1>4, <1>5 DEF IsBlock

\* A chunk that holds some records of the log still does when the file has
\* grown, as long as those records have not changed.
LEMMA HoldsKept ==
    ASSUME NEW f, NEW g, Extends(f, g),
           NEW a, NEW b, NEW first \in Nat, NEW n \in Nat,
           \A r \in 1 .. (first + n) : b[r] = a[r],
           NEW cd \in ColumnDir, NEW c,
           Holds(f, a, cd, c, first, n)
    PROVE  Holds(g, b, cd, c, first, n)
<1>1. cd.chunkOffset \in Nat /\ ChunkLen \in Nat \ {0}
  BY FormatAssumption DEF ColumnDir
<1>2. IsBlock(g, cd.chunkOffset, ChunkLen, "chunk") /\ g[cd.chunkOffset + 1] = f[cd.chunkOffset + 1]
  BY <1>1, BlockKept DEF Holds
<1>3. \A i \in 1 .. n : b[first + i] = a[first + i]
  OBVIOUS
<1> QED  BY <1>2, <1>3 DEF Holds

\* A chunk just written at the end of the file holds what its builder holds.
LEMMA NewChunkHolds ==
    ASSUME TypeOK, pos = Len(file), NEW c \in Cols,
           Grows("chunk", builders[c], ChunkLen),
           Rows(builders[c]) = Len(accepted) - totalRows,
           \A i \in 1 .. Rows(builders[c]) :
               CellAt(builders[c], i) = accepted[totalRows + i][c]
    PROVE  Holds(file', accepted, ColumnEntry(builders[c]), c,
                 totalRows, Len(accepted) - totalRows)
<1> DEFINE cd == ColumnEntry(builders[c])
<1>1. cd.chunkOffset = pos /\ cd.chunkLength = ChunkLen
  BY DEF ColumnEntry
<1>2. pos \in Nat /\ ChunkLen \in Nat \ {0}
  BY FormatAssumption DEF TypeOK
<1>3. \A p \in 1 .. ChunkLen : /\ file'[pos + p].kind = "chunk"
                               /\ file'[pos + p].part = p
                               /\ file'[pos + p].of = builders[c]
  BY DEF Grows
<1>4. file'[pos + 1].of = builders[c]
  <2>1. 1 \in 1 .. ChunkLen
    BY <1>2
  <2> QED  BY <1>3, <2>1
<1>5. Len(file') = pos + ChunkLen
  BY DEF Grows
<1>6. IsBlock(file', pos, ChunkLen, "chunk")
  <2>1. \A p \in 1 .. ChunkLen : /\ file'[pos + p].kind = "chunk"
                                 /\ file'[pos + p].part = p
                                 /\ file'[pos + p].of = builders[c]
    BY <1>3
  <2>2. pos + ChunkLen <= Len(file')
    BY <1>2, <1>5
  <2> QED  BY <1>4, <2>1, <2>2 DEF IsBlock
<1> HIDE DEF cd
<1> QED  BY <1>1, <1>4, <1>6 DEF Holds, cd

(***************************************************************************)
(* What a step that leaves the directory alone keeps.                      *)
(***************************************************************************)
LEMMA Counts ==
    ASSUME EachRecordOnce
    PROVE  /\ totalRows <= Len(accepted) /\ Len(accepted) \in Nat /\ totalRows \in Nat
           /\ BufferedRows = Len(accepted) - totalRows
           /\ Len(file) \in Nat /\ Len(segments) \in Nat
<1>1. 1 \in Cols
  BY FormatAssumption DEF Cols
<1>2. Rows(builders[1]) \in Nat
  BY <1>1, SoundFields DEF EachRecordOnce, TypeOK
<1> QED  BY <1>1, <1>2 DEF EachRecordOnce, TypeOK, BuffersHoldTail, BufferedRows

\* The segments of the directory stay where they are, with what they hold.
LEMMA SegmentsKept ==
    ASSUME EachRecordOnce,
           Extends(file, file'),
           \A r \in 1 .. Len(accepted) : accepted'[r] = accepted[r],
           UNCHANGED <<segments, totalRows>>
    PROVE  SegmentsTile' /\ SegmentsStored'
<1>1. totalRows <= Len(accepted) /\ Len(accepted) \in Nat /\ totalRows \in Nat
  BY Counts
<1>2. SegmentsTile'
  BY DEF EachRecordOnce, SegmentsTile, RowsIn
<1>3. ASSUME NEW i \in 1 .. Len(segments), NEW c \in Cols
      PROVE  /\ Len(segments[i].columns) = NCols
             /\ Holds(file', accepted', segments[i].columns[c], c,
                      segments[i].first, segments[i].rows)
  <2>1. /\ Len(segments[i].columns) = NCols
        /\ Holds(file, accepted, segments[i].columns[c], c,
                 segments[i].first, segments[i].rows)
    BY <1>3 DEF EachRecordOnce, SegmentsStored
  <2>2. segments[i] \in SegmentDir
    BY DEF EachRecordOnce, TypeOK
  <2>3. segments[i].first \in Nat /\ segments[i].rows \in Nat
        /\ segments[i].columns[c] \in ColumnDir
    BY <2>1, <2>2 DEF SegmentDir, Cols
  <2>4. segments[i].first + segments[i].rows <= totalRows
    BY DEF EachRecordOnce, SegmentsTile
  <2>5. \A r \in 1 .. (segments[i].first + segments[i].rows) : accepted'[r] = accepted[r]
    BY <1>1, <2>3, <2>4
  <2> DEFINE first == segments[i].first
             n == segments[i].rows
             cd == segments[i].columns[c]
  <2>6. /\ first \in Nat /\ n \in Nat /\ cd \in ColumnDir
        /\ \A r \in 1 .. (first + n) : accepted'[r] = accepted[r]
        /\ Holds(file, accepted, cd, c, first, n)
    BY <2>1, <2>3, <2>5
  <2> HIDE DEF first, n, cd
  <2>7. Holds(file', accepted', cd, c, first, n)
    BY <2>6, HoldsKept
  <2> QED  BY <2>1, <2>7 DEF first, n, cd
<1>4. SegmentsStored'
  BY <1>3 DEF SegmentsStored
<1> QED  BY <1>2, <1>4

\* So does what the earlier footers say, when the new cells are of no footer.
LEMMA FootersKept ==
    ASSUME EachRecordOnce,
           Extends(file, file'),
           \A k \in (Len(file) + 1) .. Len(file') : file'[k].kind # "footer",
           UNCHANGED segments
    PROVE  FootersDescribe'
<1> SUFFICES ASSUME NEW end \in 1 .. Len(file'), file'[end].kind = "footer"
             PROVE  Describes(file'[end].of, segments', end)
  BY DEF FootersDescribe
<1>1. Len(file) \in Nat /\ Len(file') \in Nat
  BY DEF Extends
<1>2. end \in 1 .. Len(file)
  BY <1>1
<1>3. file'[end] = file[end]
  BY <1>2 DEF Extends
<1> QED  BY <1>2, <1>3 DEF EachRecordOnce, FootersDescribe

\* A write of anything but a footer keeps all of it.
LEMMA WriteKeepsDirectory ==
    ASSUME EachRecordOnce,
           NEW kind \in {"header", "chunk", "index"}, NEW of, NEW n \in Nat,
           Grows(kind, of, n),
           UNCHANGED <<segments, totalRows, accepted>>
    PROVE  /\ Extends(file, file')
           /\ pos' = Len(file')
           /\ SegmentsTile' /\ SegmentsStored' /\ FootersDescribe'
<1>1. Extends(file, file')
  BY GrowsExtends DEF EachRecordOnce
<1>2. pos' = Len(file')
  BY DEF EachRecordOnce, Grows
<1>3. \A k \in (Len(file) + 1) .. Len(file') : file'[k].kind # "footer"
  <2> SUFFICES ASSUME NEW k \in (Len(file) + 1) .. Len(file')
               PROVE  file'[k].kind # "footer"
    OBVIOUS
  <2>1. Len(file) \in Nat /\ Len(file') = Len(file) + n
    BY Counts DEF Grows
  <2>2. k - Len(file) \in 1 .. n /\ Len(file) + (k - Len(file)) = k
    BY <2>1
  <2>3. file'[k].kind = kind
    BY <2>2 DEF Grows
  <2> QED  BY <2>3
<1> QED  BY <1>1, <1>2, <1>3, SegmentsKept, FootersKept

(***************************************************************************)
(* The invariant is inductive.                                             *)
(***************************************************************************)
LEMMA InitEachRecordOnce == Init => EachRecordOnce
<1> SUFFICES ASSUME Init PROVE EachRecordOnce
  OBVIOUS
<1>1. TypeOK
  BY InitType
<1>2. file = <<>> /\ segments = <<>> /\ accepted = <<>> /\ totalRows = 0 /\ pos = 0
      /\ step = "new" /\ \A c \in Cols : builders[c] = NewBuilder
  BY DEF Init, NoRows
<1>3. BuffersHoldTail
  BY <1>2, EmptyBuilder DEF BuffersHoldTail
<1>4. SegmentsTile /\ SegmentsStored /\ FootersDescribe /\ SegmentInProgress /\ pos = Len(file)
  BY <1>2 DEF SegmentsTile, SegmentsStored, FootersDescribe, SegmentInProgress, RowsIn
<1> QED  BY <1>1, <1>3, <1>4 DEF EachRecordOnce

\* NewWriter, Crash and the steps that change nothing.
LEMMA QuietSteps ==
    ASSUME EachRecordOnce, TypeOK', NewWriter \/ Crash \/ UNCHANGED vars
    PROVE  EachRecordOnce'
<1>1. CASE NewWriter
  <2>1. HeaderLen \in Nat
    BY FormatAssumption
  <2>2. PICK n \in Nat : Grows("header", [magic |-> TRUE], n)
    BY <1>1, <2>1, PayloadTypes, WrittenGrows, FailureGrows
       DEF NewWriter, HeaderBlock, EachRecordOnce
  <2>3. UNCHANGED <<meta, accepted>> /\ step' \in {"idle", "gone"}
    BY <1>1 DEF NewWriter
  <2>4. pos' = Len(file') /\ SegmentsTile' /\ SegmentsStored' /\ FootersDescribe'
    BY <2>2, <2>3, WriteKeepsDirectory DEF meta
  <2>5. BuffersHoldTail' /\ SegmentInProgress'
    BY <2>3 DEF EachRecordOnce, BuffersHoldTail, SegmentInProgress, meta
  <2> QED  BY <2>4, <2>5 DEF EachRecordOnce
<1>2. CASE Crash
  BY <1>2 DEF Crash, meta, EachRecordOnce, BuffersHoldTail, SegmentsTile, SegmentsStored,
              SegmentInProgress, FootersDescribe
<1>3. CASE UNCHANGED vars
  BY <1>3 DEF vars, meta, EachRecordOnce, BuffersHoldTail, SegmentsTile, SegmentsStored,
              SegmentInProgress, FootersDescribe
<1> QED  BY <1>1, <1>2, <1>3

\* Entering a flush of all the buffered rows.
LEMMA EnteringFlush ==
    ASSUME EachRecordOnce, TypeOK', NEW c, NEW n \in Nat,
           EnterFlush(c, n), n = Len(accepted') - totalRows', UNCHANGED totalRows
    PROVE  SegmentInProgress'
<1>1. /\ step' = "chunk" /\ col' = 1 /\ seg'.first = totalRows' /\ seg'.rows = n
      /\ seg'.columns = <<>>
  BY DEF EnterFlush, OpenSegment
<1> QED  BY <1>1 DEF SegmentInProgress

LEMMA AppendStep ==
    ASSUME EachRecordOnce, TypeOK', NEW r \in Records, AppendRecord(r)
    PROVE  EachRecordOnce'
<1>1. \A c \in Cols : r[c] \in Word \cup {Null}
  BY WriterAssumption
<1>2. /\ accepted' \in Seq(Records) /\ Len(accepted') = Len(accepted) + 1
      /\ \A k \in 1 .. Len(accepted) : accepted'[k] = accepted[k]
      /\ accepted'[Len(accepted) + 1] = r
  BY AppendProperties DEF AppendRecord, EachRecordOnce, TypeOK
<1>3. BuffersHoldTail'
  <2> SUFFICES ASSUME NEW c \in Cols
               PROVE  /\ Rows(builders'[c]) = Len(accepted') - totalRows
                      /\ \A i \in 1 .. Rows(builders'[c]) :
                            CellAt(builders'[c], i) = accepted'[totalRows + i][c]
    BY DEF BuffersHoldTail, AppendRecord
  <2> DEFINE b == builders[c]
  <2>1. builders'[c] = AppendCell(b, r[c]) /\ Sound(b) /\ Rows(b) \in Nat
    BY SoundFields DEF AppendRecord, EachRecordOnce, TypeOK
  <2>2. /\ Rows(b) = Len(accepted) - totalRows
        /\ \A i \in 1 .. Rows(b) : CellAt(b, i) = accepted[totalRows + i][c]
    BY DEF EachRecordOnce, BuffersHoldTail
  <2> HIDE DEF b
  <2>3. /\ Rows(AppendCell(b, r[c])) = Rows(b) + 1
        /\ \A i \in 1 .. Rows(b) : CellAt(AppendCell(b, r[c]), i) = CellAt(b, i)
        /\ CellAt(AppendCell(b, r[c]), Rows(b) + 1) = r[c]
    BY <1>1, <2>1, AppendCellFacts
  <2>4. ASSUME NEW i \in 1 .. Rows(b)
        PROVE  CellAt(AppendCell(b, r[c]), i) = accepted'[totalRows + i][c]
    <3>1. totalRows + i \in 1 .. Len(accepted)
      BY <2>1, <2>2, Counts
    <3>2. accepted'[totalRows + i] = accepted[totalRows + i]
      BY <1>2, <3>1
    <3> QED  BY <2>2, <2>3, <3>2
  <2>5. accepted'[totalRows + (Rows(b) + 1)][c] = r[c]
    BY <1>2, <2>1, <2>2, Counts
  <2>6. Rows(b) + 1 = Len(accepted') - totalRows
    BY <1>2, <2>1, <2>2, Counts
  <2>7. \A i \in 1 .. (Rows(b) + 1) : i \in 1 .. Rows(b) \/ i = Rows(b) + 1
    BY <2>1
  <2> QED  BY <2>1, <2>3, <2>4, <2>5, <2>6, <2>7
<1>4. SegmentInProgress'
  <2>1. CASE EnterFlush("append", BufferedRows + 1)
    BY <1>2, <2>1, Counts, EnteringFlush DEF AppendRecord
  <2>2. CASE UNCHANGED <<call, step, col, seg>>
    BY <2>2 DEF AppendRecord, SegmentInProgress
  <2> QED  BY <2>1, <2>2 DEF AppendRecord
<1>5. Extends(file, file') /\ pos' = Len(file')
  BY DEF AppendRecord, Extends, EachRecordOnce, TypeOK
<1>6. SegmentsTile' /\ SegmentsStored'
  BY <1>2, <1>5, SegmentsKept DEF AppendRecord
<1>7. FootersDescribe'
  BY DEF AppendRecord, EachRecordOnce, FootersDescribe
<1> QED  BY <1>3, <1>4, <1>5, <1>6, <1>7 DEF EachRecordOnce

LEMMA EnterSteps ==
    ASSUME EachRecordOnce, TypeOK', Flush \/ Checkpoint \/ Close
    PROVE  EachRecordOnce'
<1>1. UNCHANGED <<file, pos, meta, accepted>>
  BY DEF Flush, Checkpoint, Close, FlushThenFooter
<1>2. SegmentInProgress'
  <2>1. CASE step' = "footer"
    BY <2>1 DEF SegmentInProgress
  <2>2. ASSUME NEW c, EnterFlush(c, BufferedRows) PROVE SegmentInProgress'
    BY <1>1, <2>2, Counts, EnteringFlush DEF meta
  <2> QED  BY <2>1, <2>2 DEF Flush, Checkpoint, Close, FlushThenFooter
<1>3. BuffersHoldTail' /\ SegmentsTile' /\ SegmentsStored' /\ FootersDescribe' /\ pos' = Len(file')
  BY <1>1 DEF EachRecordOnce, BuffersHoldTail, SegmentsTile, SegmentsStored, FootersDescribe, meta
<1> QED  BY <1>2, <1>3 DEF EachRecordOnce

\* WriteChunk: the entry just made holds its column; the earlier ones still do.
LEMMA ChunkStep ==
    ASSUME EachRecordOnce, TypeOK', WriteChunk
    PROVE  EachRecordOnce'
<1> DEFINE b == builders[col]
<1>1. /\ step = "chunk" /\ col \in Cols /\ b \in Payload /\ Sound(b)
      /\ ChunkLen \in Nat
  BY PayloadTypes, FormatAssumption DEF WriteChunk, EachRecordOnce, TypeOK
<1>2. UNCHANGED <<builders, segments, totalRows, accepted>>
  BY DEF WriteChunk, meta
<1>3. CASE WriteFails(ChunkBlock(b)) /\ Return
  <2>1. PICK n \in Nat : Grows("chunk", b, n)
    BY <1>1, <1>3, FailureGrows DEF ChunkBlock, EachRecordOnce
  <2>2. pos' = Len(file') /\ SegmentsTile' /\ SegmentsStored' /\ FootersDescribe'
    BY <1>2, <2>1, WriteKeepsDirectory
  <2>3. BuffersHoldTail' /\ SegmentInProgress'
    BY <1>2, <1>3 DEF Return, EachRecordOnce, BuffersHoldTail, SegmentInProgress
  <2> QED  BY <2>2, <2>3 DEF EachRecordOnce
<1>4. CASE /\ Written(ChunkBlock(b))
           /\ seg' = [seg EXCEPT !.columns = Append(@, ColumnEntry(b))]
           /\ IF col \in Indexed THEN step' = "index" /\ UNCHANGED col ELSE NextColumn
  <2>1. Grows("chunk", b, ChunkLen)
    BY <1>1, <1>4, WrittenGrows DEF ChunkBlock, EachRecordOnce
  <2>2. Extends(file, file') /\ pos' = Len(file')
        /\ SegmentsTile' /\ SegmentsStored' /\ FootersDescribe'
    BY <1>1, <1>2, <2>1, WriteKeepsDirectory
  <2>3. BuffersHoldTail'
    BY <1>2 DEF EachRecordOnce, BuffersHoldTail
  <2>4. /\ seg.columns \in Seq(ColumnDir) /\ seg \in SegmentDir
        /\ ColumnEntry(b) \in ColumnDir
    BY <1>1, EntryTypes DEF EachRecordOnce, TypeOK, SegmentDir
  <2> DEFINE cs == Append(seg.columns, ColumnEntry(b))
  <2>5. /\ cs \in Seq(ColumnDir) /\ Len(cs) = Len(seg.columns) + 1
        /\ \A i \in 1 .. Len(seg.columns) : cs[i] = seg.columns[i]
        /\ cs[Len(seg.columns) + 1] = ColumnEntry(b)
    BY <2>4, AppendProperties
  <2> HIDE DEF cs
  <2>6. seg'.first = seg.first /\ seg'.rows = seg.rows /\ seg'.columns = cs
    BY <1>4, <2>4, <2>5, SegmentUpdate DEF cs
  <2>7. /\ seg.first = totalRows /\ seg.rows = Len(accepted) - totalRows
        /\ Len(seg.columns) = col - 1
        /\ \A c \in 1 .. Len(seg.columns) :
              Holds(file, accepted, seg.columns[c], c, totalRows, Len(accepted) - totalRows)
    BY <1>1 DEF EachRecordOnce, SegmentInProgress
  <2>8. Holds(file', accepted, ColumnEntry(b), col, totalRows, Len(accepted) - totalRows)
    BY <1>1, <2>1, NewChunkHolds DEF EachRecordOnce, BuffersHoldTail
  <2>9. ASSUME NEW c \in 1 .. Len(seg.columns)
        PROVE  Holds(file', accepted, seg.columns[c], c, totalRows, Len(accepted) - totalRows)
    <3>1. seg.columns[c] \in ColumnDir
      BY <2>4
    <3>2. totalRows \in Nat /\ Len(accepted) - totalRows \in Nat
      BY Counts
    <3> DEFINE cd == seg.columns[c]
               n == Len(accepted) - totalRows
    <3>3. Holds(file, accepted, cd, c, totalRows, n)
      BY <2>7
    <3>4. cd \in ColumnDir /\ n \in Nat
      BY <3>1, <3>2
    <3> HIDE DEF cd, n
    <3>5. Holds(file', accepted, cd, c, totalRows, n)
      BY <2>2, <3>2, <3>3, <3>4, HoldsKept
    <3> QED  BY <3>5 DEF cd, n
  <2>10. Len(cs) = col /\ \A c \in 1 .. Len(cs) :
            Holds(file', accepted, cs[c], c, totalRows, Len(accepted) - totalRows)
    <3>1. Len(seg.columns) \in Nat /\ Len(cs) = col
      BY <1>1, <2>4, <2>5, <2>7 DEF Cols
    <3>2. \A c \in 1 .. Len(cs) : c \in 1 .. Len(seg.columns) \/ c = Len(seg.columns) + 1
      BY <2>5, <3>1
    <3> QED  BY <2>5, <2>7, <2>8, <2>9, <3>1, <3>2
  <2>11. step' \in {"index", "chunk", "finish"}
         /\ (step' = "chunk" => col' = col + 1)
         /\ (step' # "chunk" => col' = col)
         /\ (step' = "finish" => col' = NCols)
    BY <1>1, <1>4, FormatAssumption DEF NextColumn, Cols
  <2>12. SegmentInProgress'
    <3>1. Len(cs) = IF step' = "chunk" THEN col' - 1 ELSE col'
      BY <1>1, <2>10, <2>11 DEF Cols
    <3> QED  BY <1>2, <2>6, <2>7, <2>10, <2>11, <3>1 DEF SegmentInProgress
  <2> QED  BY <2>2, <2>3, <2>12 DEF EachRecordOnce
<1> QED  BY <1>3, <1>4 DEF WriteChunk

\* WriteIndex: the entry of this column only gains the place of its index.
LEMMA IndexStep ==
    ASSUME EachRecordOnce, TypeOK', WriteIndex
    PROVE  EachRecordOnce'
<1> DEFINE k == [keys |-> PresentValues(builders[col])]
           cs == [seg.columns EXCEPT ![col] = WithIndex(seg.columns[col])]
<1>1. step = "index" /\ col \in Cols /\ k \in Payload /\ IndexLen \in Nat
  BY PayloadTypes, FormatAssumption DEF WriteIndex, EachRecordOnce, TypeOK
<1>2. UNCHANGED <<builders, segments, totalRows, accepted>>
  BY DEF WriteIndex, meta
<1>3. PICK n \in Nat : Grows("index", k, n)
  BY <1>1, WrittenGrows, FailureGrows DEF WriteIndex, IndexBlock, EachRecordOnce
<1>4. Extends(file, file') /\ pos' = Len(file')
      /\ SegmentsTile' /\ SegmentsStored' /\ FootersDescribe'
  BY <1>2, <1>3, WriteKeepsDirectory
<1>5. BuffersHoldTail'
  BY <1>2 DEF EachRecordOnce, BuffersHoldTail
<1>6. CASE Return
  BY <1>4, <1>5, <1>6 DEF Return, EachRecordOnce, SegmentInProgress
<1>7. CASE seg' = [seg EXCEPT !.columns = cs] /\ NextColumn
  <2>1. /\ seg.columns \in Seq(ColumnDir) /\ seg \in SegmentDir
        /\ seg.first = totalRows /\ seg.rows = Len(accepted) - totalRows
        /\ Len(seg.columns) = col
        /\ \A c \in 1 .. Len(seg.columns) :
              Holds(file, accepted, seg.columns[c], c, totalRows, Len(accepted) - totalRows)
    BY <1>1 DEF EachRecordOnce, TypeOK, SegmentDir, SegmentInProgress
  <2>2. col \in 1 .. Len(seg.columns) /\ seg.columns[col] \in ColumnDir
    BY <1>1, <2>1 DEF Cols
  <2> DEFINE cd == WithIndex(seg.columns[col])
  <2>3. /\ cd \in ColumnDir
        /\ cd.chunkOffset = seg.columns[col].chunkOffset
        /\ cd.chunkLength = seg.columns[col].chunkLength
    <3>1. cd \in ColumnDir
      BY <2>2, EntryTypes, EmptyBuilder DEF EachRecordOnce
    <3> QED  BY <2>2, <3>1 DEF WithIndex, ColumnDir
  <2> HIDE DEF cd
  <2>4. /\ cs \in Seq(ColumnDir) /\ Len(cs) = Len(seg.columns)
        /\ \A c \in 1 .. Len(seg.columns) : cs[c] = IF c = col THEN cd ELSE seg.columns[c]
    <3>1. cs = [seg.columns EXCEPT ![col] = cd]
      BY DEF cd
    <3> HIDE DEF cs
    <3> QED  BY <2>1, <2>2, <2>3, <3>1, ExceptSeq
  <2> HIDE DEF cs
  <2>5. seg'.first = seg.first /\ seg'.rows = seg.rows /\ seg'.columns = cs
    BY <1>7, <2>1, <2>4, SegmentUpdate
  <2>6. ASSUME NEW c \in 1 .. Len(seg.columns)
        PROVE  Holds(file', accepted, cs[c], c, totalRows, Len(accepted) - totalRows)
    <3>1. cs[c] \in ColumnDir
      BY <2>4
    <3>2. totalRows \in Nat /\ Len(accepted) - totalRows \in Nat
      BY Counts
    <3>3. /\ cs[c].chunkOffset = seg.columns[c].chunkOffset
          /\ cs[c].chunkLength = seg.columns[c].chunkLength
      BY <2>3, <2>4
    <3>4. Holds(file, accepted, cs[c], c, totalRows, Len(accepted) - totalRows)
      BY <2>1, <3>3 DEF Holds
    <3> QED  BY <1>4, <3>1, <3>2, <3>4, HoldsKept
  <2>7. step' \in {"chunk", "finish"}
         /\ (step' = "chunk" => col' = col + 1)
         /\ (step' = "finish" => col' = col /\ col = NCols)
    BY <1>1, <1>7, FormatAssumption DEF NextColumn, Cols
  <2>8. SegmentInProgress'
    <3>1. Len(cs) = IF step' = "chunk" THEN col' - 1 ELSE col'
      BY <1>1, <2>1, <2>4, <2>7 DEF Cols
    <3> QED  BY <1>2, <2>1, <2>4, <2>5, <2>6, <2>7, <3>1 DEF SegmentInProgress
  <2> QED  BY <1>4, <1>5, <2>8 DEF EachRecordOnce
<1> QED  BY <1>6, <1>7 DEF WriteIndex

LEMMA Appended ==
    ASSUME NEW S, NEW s \in Seq(S), NEW e \in S
    PROVE  /\ Append(s, e) # <<>> /\ Len(Append(s, e)) = Len(s) + 1
           /\ Append(s, e)[Len(s) + 1] = e
           /\ \A i \in 1 .. Len(s) : Append(s, e)[i] = s[i]
           /\ \A i \in 1 .. Len(s) + 1 : i \in 1 .. Len(s) \/ i = Len(s) + 1
  BY AppendProperties

\* FinishSegment: the buffered rows become the next segment of the directory.
LEMMA FinishStep ==
    ASSUME EachRecordOnce, TypeOK', FinishSegment
    PROVE  EachRecordOnce'
<1> DEFINE n == Len(accepted) - totalRows
           new == Finished
<1>1. UNCHANGED <<file, pos, accepted>> /\ step = "finish" /\ step' \in {"footer", "idle"}
  BY DEF FinishSegment, Return
<1>2. /\ seg \in SegmentDir /\ seg.first = totalRows /\ seg.rows = n
      /\ Len(seg.columns) = NCols
      /\ \A c \in Cols : Holds(file, accepted, seg.columns[c], c, seg.first, seg.rows)
  BY <1>1 DEF EachRecordOnce, TypeOK, SegmentInProgress, Cols
<1>3. new.first = totalRows /\ new.rows = n /\ new.columns = seg.columns
  BY <1>2 DEF Finished, SegmentDir
<1>4. segments' = Append(segments, new) /\ totalRows' = totalRows + n
      /\ segments \in Seq(SegmentDir) /\ segments' \in Seq(SegmentDir)
  BY <1>2 DEF FinishSegment, EachRecordOnce, TypeOK
<1>5. new \in SegmentDir /\ Len(segments) \in Nat
  <2>1. segments'[Len(segments) + 1] = new /\ Len(segments') = Len(segments) + 1
    BY <1>4
  <2>2. Len(segments) + 1 \in 1 .. Len(segments')
    BY <1>4, <2>1
  <2> QED  BY <1>4, <2>1, <2>2, ElementOfSeq
<1> HIDE DEF new
<1>6. /\ segments' # <<>> /\ Len(segments') = Len(segments) + 1
      /\ segments'[Len(segments) + 1] = new
      /\ \A i \in 1 .. Len(segments) : segments'[i] = segments[i]
      /\ \A i \in 1 .. Len(segments') : i \in 1 .. Len(segments) \/ i = Len(segments) + 1
  BY <1>4, <1>5, Appended
<1>7. totalRows' = Len(accepted) /\ totalRows <= totalRows' /\ n \in Nat /\ totalRows \in Nat
  BY <1>4, Counts
<1> HIDE DEF n
<1>8. BuffersHoldTail'
  <2>1. \A c \in Cols : builders'[c] = NewBuilder
    BY EmptyBuilder DEF FinishSegment
  <2>2. Len(accepted') - totalRows' = 0
    BY <1>1, <1>7, Counts
  <2> QED  BY <2>1, <2>2, EmptyBuilder DEF BuffersHoldTail
<1>9. SegmentsTile'
  <2>1. totalRows' = RowsIn(segments')
    BY <1>3, <1>4, <1>6 DEF RowsIn
  <2>2. ASSUME NEW i \in 1 .. Len(segments)
        PROVE  /\ segments'[i].first =
                     IF i = 1 THEN 0 ELSE segments'[i - 1].first + segments'[i - 1].rows
               /\ segments'[i].first + segments'[i].rows <= totalRows'
    <3>1. /\ segments[i].first =
                IF i = 1 THEN 0 ELSE segments[i - 1].first + segments[i - 1].rows
          /\ segments[i].first + segments[i].rows <= totalRows
      BY DEF EachRecordOnce, SegmentsTile
    <3>2. segments'[i] = segments[i] /\ (i # 1 => segments'[i - 1] = segments[i - 1])
      BY <1>5, <1>6
    <3>3. segments[i] \in SegmentDir
      BY <1>4
    <3>4. segments[i].first \in Nat /\ segments[i].rows \in Nat
      BY <3>3 DEF SegmentDir
    <3> QED  BY <1>7, <3>1, <3>2, <3>4
  <2>3. /\ new.first = IF Len(segments) + 1 = 1 THEN 0
                       ELSE segments'[Len(segments)].first + segments'[Len(segments)].rows
        /\ new.first + new.rows <= totalRows'
    <3>1. totalRows = RowsIn(segments)
      BY DEF EachRecordOnce, SegmentsTile
    <3>2. segments = <<>> <=> Len(segments) = 0
      BY <1>4
    <3>3. Len(segments) # 0 => segments'[Len(segments)] = segments[Len(segments)]
      BY <1>5, <1>6
    <3> QED  BY <1>3, <1>4, <1>5, <1>7, <3>1, <3>2, <3>3 DEF RowsIn
  <2> QED  BY <1>5, <1>6, <2>1, <2>2, <2>3 DEF SegmentsTile
<1>10. SegmentsStored'
  <2> SUFFICES ASSUME NEW i \in 1 .. Len(segments'), NEW c \in Cols
               PROVE  /\ Len(segments'[i].columns) = NCols
                      /\ Holds(file, accepted, segments'[i].columns[c], c,
                               segments'[i].first, segments'[i].rows)
    BY <1>1 DEF SegmentsStored
  <2>1. CASE i \in 1 .. Len(segments)
    <3>1. segments'[i] = segments[i]
      BY <1>6, <2>1
    <3> QED  BY <2>1, <3>1 DEF EachRecordOnce, SegmentsStored
  <2>2. CASE i = Len(segments) + 1
    <3>1. segments'[i] = new
      BY <1>6, <2>2
    <3> QED  BY <1>2, <1>3, <3>1
  <2> QED  BY <1>6, <2>1, <2>2
<1>11. FootersDescribe'
  <2> SUFFICES ASSUME NEW end \in 1 .. Len(file), file[end].kind = "footer"
               PROVE  Describes(file[end].of, segments', end)
    BY <1>1 DEF FootersDescribe
  <2> DEFINE f == file[end].of
  <2>1. Describes(f, segments, end)
    BY DEF EachRecordOnce, FootersDescribe
  <2> HIDE DEF f
  <2>2. Len(f.segments) \in Nat /\ Len(f.segments) <= Len(segments)
    BY <2>1 DEF Describes, Footer
  <2>3. \A i \in 1 .. Len(f.segments) : segments'[i] = segments[i]
    BY <1>5, <1>6, <2>2
  <2>4. Describes(f, segments', end)
    BY <1>5, <1>6, <2>1, <2>2, <2>3 DEF Describes
  <2> QED  BY <2>4 DEF f
<1>12. SegmentInProgress' /\ pos' = Len(file')
  BY <1>1 DEF SegmentInProgress, EachRecordOnce
<1> QED  BY <1>8, <1>9, <1>10, <1>11, <1>12 DEF EachRecordOnce

\* WriteFooter: the new footer, whole or torn, tells of the whole directory.
LEMMA FooterStep ==
    ASSUME EachRecordOnce, TypeOK', WriteFooter
    PROVE  EachRecordOnce'
<1>1. FooterNow \in Payload /\ FooterNow \in Footer /\ FooterLen \in Nat
  BY PayloadTypes, FormatAssumption DEF EachRecordOnce
<1>2. PICK n \in Nat : Grows("footer", FooterNow, n)
  BY <1>1, WrittenGrows, FailureGrows DEF WriteFooter, FooterBlock, EachRecordOnce
<1>3. UNCHANGED <<builders, segments, totalRows, accepted>> /\ step' = "idle"
  BY DEF WriteFooter, Return
<1>4. Extends(file, file')
  BY <1>2, GrowsExtends DEF EachRecordOnce
<1>5. SegmentsTile' /\ SegmentsStored'
  BY <1>3, <1>4, SegmentsKept
<1>6. BuffersHoldTail' /\ SegmentInProgress' /\ pos' = Len(file')
  BY <1>2, <1>3 DEF EachRecordOnce, BuffersHoldTail, SegmentInProgress, Grows
<1>7. \A i \in 1 .. Len(segments), c \in Cols :
         segments[i].columns[c].chunkOffset + ChunkLen <= Len(file)
  BY DEF EachRecordOnce, SegmentsStored, Holds, IsBlock
<1>8. Len(file) \in Nat /\ Len(file') = Len(file) + n
  BY <1>2, Counts DEF Grows
<1>9. FootersDescribe'
  <2> SUFFICES ASSUME NEW end \in 1 .. Len(file'), file'[end].kind = "footer"
               PROVE  Describes(file'[end].of, segments, end)
    BY <1>3 DEF FootersDescribe
  <2>1. CASE end \in 1 .. Len(file)
    <3>1. file'[end] = file[end]
      BY <1>4, <2>1 DEF Extends
    <3> QED  BY <2>1, <3>1 DEF EachRecordOnce, FootersDescribe
  <2>2. CASE end \notin 1 .. Len(file)
    <3>1. end - Len(file) \in 1 .. n /\ Len(file) + (end - Len(file)) = end
      BY <1>8, <2>2
    <3>2. file'[end].of = FooterNow
      BY <1>2, <3>1 DEF Grows
    <3>3. FooterNow.segments = segments /\ FooterNow.totalRows = totalRows
      BY DEF FooterNow
    <3>4. \A i \in 1 .. Len(segments), c \in Cols :
             segments[i].columns[c].chunkOffset + ChunkLen <= end
      <4> SUFFICES ASSUME NEW i \in 1 .. Len(segments), NEW c \in Cols
                   PROVE  segments[i].columns[c].chunkOffset + ChunkLen <= end
        OBVIOUS
      <4>1. segments[i] \in SegmentDir /\ Len(segments[i].columns) = NCols
        BY DEF EachRecordOnce, TypeOK, SegmentsStored
      <4>2. segments[i].columns[c].chunkOffset \in Nat
        <5>1. segments[i].columns \in Seq(ColumnDir)
          BY <4>1 DEF SegmentDir
        <5>2. segments[i].columns[c] \in ColumnDir
          BY <4>1, <5>1 DEF Cols
        <5> QED  BY <5>2 DEF ColumnDir
      <4> QED  BY <1>7, <1>8, <2>2, <4>2, FormatAssumption
    <3>5. totalRows = RowsIn(segments)
      BY DEF EachRecordOnce, SegmentsTile
    <3>6. Len(segments) \in Nat
      BY Counts
    <3>7. Describes(FooterNow, segments, end)
      BY <1>1, <3>3, <3>4, <3>5, <3>6 DEF Describes
    <3> QED  BY <3>2, <3>7
  <2> QED  BY <2>1, <2>2
<1> QED  BY <1>5, <1>6, <1>9 DEF EachRecordOnce

\* Every record is in one place and every directory entry tells the truth, in
\* every reachable state.
THEOREM RecordsStoredOnce == Spec => []EachRecordOnce
<1>1. Init => EachRecordOnce
  BY InitEachRecordOnce
<1>2. EachRecordOnce /\ [Next]_vars => EachRecordOnce'
  <2> SUFFICES ASSUME EachRecordOnce, [Next]_vars PROVE EachRecordOnce'
    OBVIOUS
  <2>1. TypeOK'
    BY NextType DEF EachRecordOnce
  <2>2. CASE NewWriter \/ Crash \/ UNCHANGED vars
    BY <2>1, <2>2, QuietSteps
  <2>3. ASSUME NEW r \in Records, AppendRecord(r) PROVE EachRecordOnce'
    BY <2>1, <2>3, AppendStep
  <2>4. CASE Flush \/ Checkpoint \/ Close
    BY <2>1, <2>4, EnterSteps
  <2>5. CASE WriteChunk
    BY <2>1, <2>5, ChunkStep
  <2>6. CASE WriteIndex
    BY <2>1, <2>6, IndexStep
  <2>7. CASE FinishSegment
    BY <2>1, <2>7, FinishStep
  <2>8. CASE WriteFooter
    BY <2>1, <2>8, FooterStep
  <2> QED  BY <2>2, <2>3, <2>4, <2>5, <2>6, <2>7, <2>8 DEF Next
<1> QED  BY <1>1, <1>2, PTL DEF Spec

(***************************************************************************)
(* What recovery gives back.                                               *)
(***************************************************************************)

\* A prefix of the file, as an image of its own.
LEMMA PrefixFacts ==
    ASSUME file \in Seq(Cell), NEW n \in 0 .. Len(file)
    PROVE  /\ Image(n) \in Seq(Cell) /\ Len(Image(n)) = n
           /\ \A k \in 1 .. n : Image(n)[k] = file[k]
<1>1. \A k \in 1 .. n : file[k] \in Cell
  OBVIOUS
<1>2. /\ SubSeq(file, 1, n) \in Seq(Cell)
      /\ Len(SubSeq(file, 1, n)) = IF 1 <= n THEN n - 1 + 1 ELSE 0
      /\ \A i \in 1 .. n - 1 + 1 : SubSeq(file, 1, n)[i] = file[1 + i - 1]
  BY <1>1, SubSeqProperties
<1> QED  BY <1>2 DEF Image

\* store.Recover settles on some footer inside the image (reader.go:57).
LEMMA RecoveredEnd ==
    ASSUME NEW img \in Seq(Cell), CanRecover(img)
    PROVE  \E end \in 1 .. Len(img) : FooterAt(img, end) /\ RecoveredFooter(img) = img[end].of
<1>1. Len(img) \in Nat /\ HeaderLen \in Nat \ {0} /\ FooterLen \in Nat
  BY FormatAssumption
<1>2. CASE FooterAt(img, Len(img))
  <2>1. Len(img) \in 1 .. Len(img)
    BY <1>1, <1>2 DEF FooterAt
  <2> QED  BY <1>2, <2>1 DEF RecoveredFooter
<1>3. CASE ~ FooterAt(img, Len(img))
  <2>1. FooterEnds(img) # {} /\ FooterEnds(img) \in SUBSET (0 .. Len(img))
    BY <1>1, <1>3 DEF CanRecover, FooterEnds, Candidates
  <2>2. Max(FooterEnds(img)) \in FooterEnds(img)
    BY <1>1, <2>1, MaxOfNats
  <2>3. Max(FooterEnds(img)) \in 1 .. Len(img) /\ FooterAt(img, Max(FooterEnds(img)))
    BY <1>1, <2>2 DEF FooterEnds, Candidates
  <2> QED  BY <1>3, <2>3 DEF RecoveredFooter
<1> QED  BY <1>2, <1>3

\* In a directory that tiles, every row has a segment that covers it.
LEMMA EveryRowCovered ==
    ASSUME NEW f \in Footer, f.totalRows = RowsIn(f.segments),
           \A i \in 1 .. Len(f.segments) :
               f.segments[i].first = IF i = 1 THEN 0 ELSE f.segments[i - 1].first
                                                           + f.segments[i - 1].rows,
           NEW r \in 1 .. f.totalRows
    PROVE  /\ SegmentOfRow(f, r) \in 1 .. Len(f.segments)
           /\ r \in (f.segments[SegmentOfRow(f, r)].first + 1) ..
                     (f.segments[SegmentOfRow(f, r)].first + f.segments[SegmentOfRow(f, r)].rows)
<1> DEFINE n == Len(f.segments)
           E(i) == f.segments[i].first + f.segments[i].rows
           S == {i \in 1 .. n : r <= E(i)}
<1>1. n \in Nat /\ f.segments \in Seq(SegmentDir) /\ f.totalRows \in Nat
  BY DEF Footer
<1>2. \A i \in 1 .. n : f.segments[i].first \in Nat /\ f.segments[i].rows \in Nat
  <2>1. \A i \in 1 .. n : f.segments[i] \in SegmentDir
    BY <1>1
  <2> QED  BY <2>1 DEF SegmentDir
<1>3. f.segments # <<>> /\ f.totalRows = E(n) /\ n \in 1 .. n
  <2>1. f.segments # <<>>
    BY <1>1 DEF RowsIn
  <2> QED  BY <1>1, <2>1 DEF RowsIn
<1>4. S \in SUBSET Nat /\ S # {}
  BY <1>1, <1>2, <1>3
<1>5. Min(S) \in S /\ \A i \in S : Min(S) <= i
  <2> HIDE DEF S
  <2> QED  BY <1>4, MinOfNats
<1> DEFINE m == Min(S)
<1>6. m \in 1 .. n /\ r <= E(m) /\ \A i \in 1 .. n : i < m => ~ (r <= E(i))
  <2>1. m \in 1 .. n /\ r <= E(m)
    BY <1>5
  <2>2. ASSUME NEW i \in 1 .. n, i < m PROVE ~ (r <= E(i))
    <3>1. SUFFICES ASSUME r <= E(i) PROVE FALSE
      OBVIOUS
    <3>2. i \in S
      BY <3>1
    <3>3. m <= i
      BY <1>5, <3>2
    <3> HIDE DEF m
    <3> QED  BY <1>1, <2>1, <2>2, <3>3
  <2> QED  BY <2>1, <2>2
<1> HIDE DEF m, S
<1>7. f.segments[m].first + 1 <= r
  <2>1. CASE m = 1
    BY <1>6, <2>1
  <2>2. CASE m # 1
    <3>1. m - 1 \in 1 .. n /\ m - 1 < m
      BY <1>1, <1>6, <2>2
    <3>2. ~ (r <= E(m - 1)) /\ f.segments[m].first = E(m - 1)
      BY <1>6, <2>2, <3>1
    <3>3. E(m - 1) \in Nat
      BY <1>2, <3>1
    <3> QED  BY <3>2, <3>3
  <2> QED  BY <2>1, <2>2
<1>8. r \in (f.segments[m].first + 1) .. (f.segments[m].first + f.segments[m].rows)
  BY <1>2, <1>6, <1>7
<1> QED  BY <1>6, <1>8 DEF SegmentOfRow

\* The invariant makes every image recover to the first records appended, as
\* long as no segment outgrew what a reader accepts.
LEMMA PrefixRecovers ==
    ASSUME EachRecordOnce, FlushesBelowLimit,
           NEW n \in 0 .. Len(file), CanRecover(Image(n))
    PROVE  LET f == RecoveredFooter(Image(n))
           IN  /\ f.totalRows <= Len(accepted)
               /\ Decodable(Image(n), f)
               /\ ReadRows(Image(n), f) = SubSeq(accepted, 1, f.totalRows)
<1> DEFINE img == Image(n)
           f == RecoveredFooter(img)
<1>1. file \in Seq(Cell) /\ Len(file) \in Nat /\ segments \in Seq(SegmentDir)
      /\ accepted \in Seq(Records) /\ Len(segments) \in Nat
  BY Counts DEF EachRecordOnce, TypeOK
<1>2. img \in Seq(Cell) /\ Len(img) = n /\ \A k \in 1 .. n : img[k] = file[k]
  BY <1>1, PrefixFacts
<1> HIDE DEF img
<1>3. PICK end \in 1 .. n : FooterAt(img, end) /\ f = img[end].of
  BY <1>2, RecoveredEnd DEF img
<1>4. file[end].kind = "footer" /\ f = file[end].of /\ end \in 1 .. Len(file)
  <2>1. FooterLen \in Nat \ {0}
    BY FormatAssumption
  <2>2. img[(end - FooterLen) + FooterLen].kind = "footer"
    BY <1>3, <2>1 DEF FooterAt, IsBlock
  <2>3. (end - FooterLen) + FooterLen = end
    BY <1>1, <2>1
  <2> QED  BY <1>1, <1>2, <1>3, <2>2, <2>3
<1>5. Describes(f, segments, end)
  BY <1>4 DEF EachRecordOnce, FootersDescribe
<1> HIDE DEF f
<1>6. /\ f \in Footer /\ f.totalRows = RowsIn(f.segments)
      /\ Len(f.segments) \in Nat /\ Len(f.segments) <= Len(segments)
      /\ \A i \in 1 .. Len(f.segments) : f.segments[i] = segments[i]
  BY <1>5 DEF Describes, Footer
<1>7. ASSUME NEW i \in 1 .. Len(f.segments)
      PROVE  /\ i \in 1 .. Len(segments) /\ f.segments[i] = segments[i]
             /\ segments[i] \in SegmentDir
             /\ segments[i].first \in Nat /\ segments[i].rows \in Nat
             /\ segments[i].first + segments[i].rows <= Len(accepted)
             /\ segments[i].rows <= MaxSegmentRows
  <2>1. i \in 1 .. Len(segments) /\ f.segments[i] = segments[i]
    BY <1>1, <1>6
  <2>2. segments[i] \in SegmentDir
    BY <1>1, <2>1
  <2>3. segments[i].first + segments[i].rows <= totalRows
    BY <2>1 DEF EachRecordOnce, SegmentsTile
  <2>4. segments[i].first \in Nat /\ segments[i].rows \in Nat
    BY <2>2 DEF SegmentDir
  <2>5. segments[i].first + segments[i].rows <= Len(accepted)
    BY <2>3, <2>4, Counts
  <2> QED  BY <2>1, <2>2, <2>4, <2>5 DEF FlushesBelowLimit
<1>8. f.totalRows \in Nat /\ f.totalRows <= Len(accepted)
  <2>1. CASE f.segments = <<>>
    BY <1>6, <2>1, Counts DEF RowsIn
  <2>2. CASE f.segments # <<>>
    <3>1. Len(f.segments) \in 1 .. Len(f.segments)
      BY <1>6, <2>2 DEF Footer
    <3> QED  BY <1>6, <1>7, <2>2, <3>1 DEF RowsIn
  <2> QED  BY <2>1, <2>2
<1>9. ASSUME NEW i \in 1 .. Len(f.segments), NEW c \in Cols
      PROVE  LET cd == f.segments[i].columns[c]
             IN  /\ ChunkDecodes(img, cd)
                 /\ \A k \in 1 .. f.segments[i].rows :
                       CellAt(DecodeChunk(img, cd), k) = accepted[f.segments[i].first + k][c]
  <2> DEFINE cd == segments[i].columns[c]
  <2>1. f.segments[i].columns[c] = cd
    BY <1>7
  <2>2. Len(segments[i].columns) = NCols
        /\ Holds(file, accepted, cd, c, segments[i].first, segments[i].rows)
    BY <1>7 DEF EachRecordOnce, SegmentsStored
  <2>3. cd \in ColumnDir
    <3>1. segments[i].columns \in Seq(ColumnDir)
      BY <1>7 DEF SegmentDir
    <3> QED  BY <2>2, <3>1 DEF Cols
  <2>4. cd.chunkOffset \in Nat /\ ChunkLen \in Nat \ {0}
    BY <2>3, FormatAssumption DEF ColumnDir
  <2>5. cd.chunkOffset + ChunkLen <= end
    BY <1>5, <2>1 DEF Describes
  <2> HIDE DEF cd
  <2>6. \A p \in 1 .. ChunkLen : img[cd.chunkOffset + p] = file[cd.chunkOffset + p]
    <3> SUFFICES ASSUME NEW p \in 1 .. ChunkLen
                 PROVE  img[cd.chunkOffset + p] = file[cd.chunkOffset + p]
      OBVIOUS
    <3>1. cd.chunkOffset + p \in 1 .. n
      BY <1>3, <2>4, <2>5
    <3> QED  BY <1>2, <3>1
  <2>7. img[cd.chunkOffset + 1] = file[cd.chunkOffset + 1]
    BY <2>4, <2>6
  <2>8. IsBlock(img, cd.chunkOffset, ChunkLen, "chunk")
    <3>1. cd.chunkOffset + ChunkLen <= Len(img)
      BY <1>2, <1>3, <2>4, <2>5
    <3> QED  BY <2>2, <2>6, <2>7, <3>1 DEF Holds, IsBlock
  <2>9. ChunkDecodes(img, cd)
    BY <1>7, <2>2, <2>7, <2>8 DEF ChunkDecodes, Holds
  <2>10. \A k \in 1 .. segments[i].rows :
            CellAt(DecodeChunk(img, cd), k) = accepted[segments[i].first + k][c]
    BY <2>2, <2>7 DEF Holds, DecodeChunk
  <2> QED  BY <1>7, <2>1, <2>9, <2>10
<1>10. Decodable(img, f)
  BY <1>9 DEF Decodable
<1>11. ASSUME NEW r \in 1 .. f.totalRows
       PROVE  ReadRow(img, f, r) = accepted[r]
  <2> DEFINE i == SegmentOfRow(f, r)
             k == r - f.segments[i].first
  <2>1. \A j \in 1 .. Len(f.segments) :
           f.segments[j].first = IF j = 1 THEN 0 ELSE f.segments[j - 1].first
                                                       + f.segments[j - 1].rows
    <3> SUFFICES ASSUME NEW j \in 1 .. Len(f.segments)
                 PROVE  f.segments[j].first = IF j = 1 THEN 0 ELSE f.segments[j - 1].first
                                                                   + f.segments[j - 1].rows
      OBVIOUS
    <3>1. segments[j].first = IF j = 1 THEN 0 ELSE segments[j - 1].first + segments[j - 1].rows
      BY <1>7 DEF EachRecordOnce, SegmentsTile
    <3>2. j # 1 => j - 1 \in 1 .. Len(f.segments)
      BY <1>6
    <3> QED  BY <1>6, <3>1, <3>2
  <2>2. /\ i \in 1 .. Len(f.segments)
        /\ r \in (f.segments[i].first + 1) .. (f.segments[i].first + f.segments[i].rows)
    BY <1>6, <2>1, EveryRowCovered
  <2> HIDE DEF i
  <2>3. f.segments[i].first \in Nat /\ f.segments[i].rows \in Nat
    BY <1>7, <2>2
  <2>4. k \in 1 .. f.segments[i].rows /\ f.segments[i].first + k = r
    BY <2>2, <2>3
  <2> HIDE DEF k
  <2>5. \A c \in Cols : CellAt(DecodeChunk(img, f.segments[i].columns[c]), k) = accepted[r][c]
    BY <1>9, <2>2, <2>4
  <2>6. ReadRow(img, f, r) = [c \in Cols |-> accepted[r][c]]
    BY <2>5 DEF ReadRow, i, k
  <2>7. accepted[r] \in [Cols -> Word \cup {Null}]
    <3>1. r \in 1 .. Len(accepted)
      BY <1>8, Counts
    <3>2. accepted[r] \in Records
      BY <1>1, <3>1
    <3> QED  BY <3>2, WriterAssumption
  <2> QED  BY <2>6, <2>7
<1>12. ReadRows(img, f) = SubSeq(accepted, 1, f.totalRows)
  <2>1. ReadRows(img, f) = [r \in 1 .. f.totalRows |-> accepted[r]]
    BY <1>11 DEF ReadRows
  <2>2. SubSeq(accepted, 1, f.totalRows) = [r \in 1 .. f.totalRows |-> accepted[r]]
    BY <1>1, <1>8
  <2> QED  BY <2>1, <2>2
<1> QED  BY <1>8, <1>10, <1>12 DEF f, img

\* Whatever prefix of the file a crash leaves, at whatever step and after
\* however many failed writes, recovery gives back the first records appended,
\* provided no committed segment is larger than a reader accepts (which the
\* writer does not ensure: see FlushesBelowLimit).
THEOREM RecoveryIsExact == Spec => [](FlushesBelowLimit => CommittedRowsIntact)
<1>1. EachRecordOnce => (FlushesBelowLimit => CommittedRowsIntact)
  BY PrefixRecovers DEF CommittedRowsIntact
<1> QED  BY <1>1, RecordsStoredOnce, PTL

(***************************************************************************)
(* What the file tells a reader.  First what a crash leaves: a writer that *)
(* is not dirty has committed everything, a closed file opens, recovery    *)
(* never gives back less than before, and the writer implements the        *)
(* durable log.  Then what the directory says of the rows.                 *)
(***************************************************************************)

\* The cells of the file that belong to a footer, and the ends of those that
\* are whole; a reader takes a whole one unless its directory is too long.
FooterCells == {k \in 1 .. Len(file) : file[k].kind = "footer"}

WholeFooter(end) ==
    /\ end >= HeaderLen + FooterLen
    /\ IsBlock(file, end - FooterLen, FooterLen, "footer")

\* The directory is no longer than a reader accepts (limits.go:17).
DirectoryFits == Len(segments) <= MaxSegments

(***************************************************************************)
(* The header comes first, and a footer tells of at least as many rows as  *)
(* the footers before it and of at most those in the directory.            *)
(***************************************************************************)
HeaderFirst ==
    /\ step = "new" => Len(file) = 0
    /\ step \notin {"new", "gone"} => HeaderReads(file)
    /\ HeaderReads(file) \/ FooterCells = {}

TotalsGrow ==
    /\ \A k \in FooterCells : file[k].of.totalRows <= totalRows
    /\ \A j, k \in FooterCells : j <= k => file[j].of.totalRows <= file[k].of.totalRows

(***************************************************************************)
(* What is behind a footer.  No row is buffered when a footer is written,  *)
(* and a clean writer has no row that the last footer leaves out.          *)
(***************************************************************************)
AllWritten == totalRows = Len(accepted)

Covered ==
    \/ totalRows = 0
    \/ \E k \in FooterCells : WholeFooter(k) /\ file[k].of.totalRows = totalRows

CleanIsCovered ==
    /\ step = "footer" => AllWritten
    /\ ~ dirty => AllWritten /\ Covered

ClosedIsFinal ==
    closed =>
        /\ step \in {"idle", "gone"} /\ ~ dirty
        /\ Len(file) > 0 /\ WholeFooter(Len(file))
        /\ file[Len(file)].of.totalRows = totalRows

Committed ==
    /\ HeaderFirst
    /\ TotalsGrow
    /\ CleanIsCovered
    /\ ClosedIsFinal

(***************************************************************************)
(* What a step does to the file.                                           *)
(***************************************************************************)

\* NewWriter's write adds cells of the header and of no footer.
LEMMA HeaderWrite ==
    ASSUME EachRecordOnce, NewWriter
    PROVE  \E n \in Nat :
              /\ Grows("header", [magic |-> TRUE], n)
              /\ (step' = "idle" /\ n = HeaderLen) \/ step' = "gone"
<1>1. HeaderLen \in Nat /\ TypeOK /\ [magic |-> TRUE] \in Payload
  BY FormatAssumption, PayloadTypes DEF EachRecordOnce
<1>2. CASE Written(HeaderBlock) /\ step' = "idle"
  BY <1>1, <1>2, WrittenGrows DEF HeaderBlock
<1>3. CASE WriteFails(HeaderBlock) /\ step' = "gone"
  BY <1>1, <1>3, FailureGrows DEF HeaderBlock
<1> QED
  BY <1>2, <1>3 DEF NewWriter

\* A column's blocks are no footer cells either.
LEMMA ColumnWrite ==
    ASSUME EachRecordOnce, WriteChunk \/ WriteIndex
    PROVE  \E kind \in {"chunk", "index"}, of \in Payload, n \in Nat : Grows(kind, of, n)
<1>1. /\ TypeOK /\ ChunkLen \in Nat /\ IndexLen \in Nat
      /\ builders[col] \in Payload /\ [keys |-> PresentValues(builders[col])] \in Payload
  BY FormatAssumption, PayloadTypes DEF EachRecordOnce, TypeOK
<1>2. CASE WriteChunk
  <2>1. Written(ChunkBlock(builders[col])) \/ WriteFails(ChunkBlock(builders[col]))
    BY <1>2 DEF WriteChunk
  <2>2. PICK n \in Nat : Grows("chunk", builders[col], n)
    BY <1>1, <2>1, WrittenGrows, FailureGrows DEF ChunkBlock
  <2> QED
    BY <1>1, <2>2
<1>3. CASE WriteIndex
  <2>1. Written(IndexBlock(builders[col])) \/ WriteFails(IndexBlock(builders[col]))
    BY <1>3 DEF WriteIndex
  <2>2. PICK n \in Nat : Grows("index", [keys |-> PresentValues(builders[col])], n)
    BY <1>1, <2>1, WrittenGrows, FailureGrows DEF IndexBlock
  <2> QED
    BY <1>1, <2>2
<1> QED
  BY <1>2, <1>3

\* writeFooter adds first cells of a footer, all of them unless it fails.
LEMMA FooterWrite ==
    ASSUME EachRecordOnce, WriteFooter
    PROVE  \E n \in 0 .. FooterLen :
              /\ Grows("footer", FooterNow, n)
              /\ \/ n = FooterLen /\ dirty' = FALSE /\ closed' = (call = "close")
                 \/ UNCHANGED <<dirty, closed>>
<1>1. FooterLen \in Nat /\ TypeOK /\ FooterNow \in Payload
  BY FormatAssumption, PayloadTypes DEF EachRecordOnce
<1>2. CASE Written(FooterBlock(FooterNow)) /\ dirty' = FALSE /\ closed' = (call = "close")
  <2>1. Grows("footer", FooterNow, FooterLen)
    BY <1>1, <1>2, WrittenGrows DEF FooterBlock
  <2> QED
    BY <1>1, <1>2, <2>1
<1>3. CASE WriteFails(FooterBlock(FooterNow)) /\ UNCHANGED <<dirty, closed>>
  <2>1. PICK n \in 0 .. FooterLen : Grows("footer", FooterNow, n)
    BY <1>1, <1>3, FailureGrows DEF FooterBlock
  <2> QED
    BY <1>1, <1>3, <2>1
<1> QED
  BY <1>2, <1>3 DEF WriteFooter, FooterFailed

\* The cells that a write adds are of its block.
LEMMA AddedCells ==
    ASSUME TypeOK, NEW kind, NEW of, NEW n \in Nat, Grows(kind, of, n)
    PROVE  /\ Extends(file, file') /\ Len(file) \in Nat /\ Len(file') = Len(file) + n
           /\ \A k \in 1 .. Len(file') :
                 \/ k \in 1 .. Len(file) /\ file'[k] = file[k]
                 \/ /\ k \notin 1 .. Len(file)
                    /\ file'[k].kind = kind /\ file'[k].of = of /\ file'[k].part = k - Len(file)
<1>1. Extends(file, file') /\ Len(file) \in Nat /\ Len(file') = Len(file) + n
  <2>1. Extends(file, file')
    BY GrowsExtends
  <2>2. file \in Seq(Cell)
    BY DEF TypeOK
  <2>3. Len(file') = Len(file) + n
    BY DEF Grows
  <2> QED
    BY <2>1, <2>2, <2>3
<1>2. ASSUME NEW k \in 1 .. Len(file'), k \notin 1 .. Len(file)
      PROVE  file'[k].kind = kind /\ file'[k].of = of /\ file'[k].part = k - Len(file)
  <2>1. k - Len(file) \in 1 .. n /\ Len(file) + (k - Len(file)) = k
    BY <1>1, <1>2
  <2> QED
    BY <2>1 DEF Grows
<1> QED
  BY <1>1, <1>2 DEF Extends

\* No step but WriteFooter touches a footer cell.
LEMMA OtherSteps ==
    ASSUME EachRecordOnce, [Next]_vars, ~ WriteFooter
    PROVE  /\ Extends(file, file')
           /\ FooterCells' = FooterCells
           /\ \A k \in FooterCells : file'[k] = file[k]
<1>1. CASE NewWriter \/ WriteChunk \/ WriteIndex
  <2>1. PICK kind \in {"header", "chunk", "index"}, of \in Payload \cup {[magic |-> TRUE]}, n \in Nat :
           Grows(kind, of, n)
    BY <1>1, HeaderWrite, ColumnWrite
  <2>2. /\ Extends(file, file') /\ Len(file) \in Nat /\ Len(file') = Len(file) + n
        /\ \A k \in 1 .. Len(file') :
              (k \in 1 .. Len(file) /\ file'[k] = file[k]) \/ (k \notin 1 .. Len(file) /\ file'[k].kind = kind)
    BY <2>1, AddedCells DEF EachRecordOnce
  <2> QED
    BY <2>1, <2>2 DEF FooterCells
<1>2. CASE UNCHANGED file
  BY <1>2 DEF FooterCells, Extends, EachRecordOnce, TypeOK
<1>3. NewWriter \/ WriteChunk \/ WriteIndex \/ UNCHANGED file
  BY DEF Next, vars, AppendRecord, Flush, Checkpoint, Close, FlushThenFooter,
     FinishSegment, Crash
<1> QED
  BY <1>1, <1>2, <1>3

\* A header and whole footers stay where they are.
LEMMA WholeKept ==
    ASSUME Extends(file, file'), Len(file) \in Nat
    PROVE  /\ HeaderReads(file) => HeaderReads(file')
           /\ \A k \in 1 .. Len(file) : WholeFooter(k) => WholeFooter(k)' /\ file'[k] = file[k]
<1>1. HeaderLen \in Nat \ {0} /\ FooterLen \in Nat \ {0}
  BY FormatAssumption
<1>2. HeaderReads(file) => HeaderReads(file')
  BY <1>1, BlockKept DEF HeaderReads
<1>3. ASSUME NEW k \in 1 .. Len(file), WholeFooter(k)
      PROVE  WholeFooter(k)' /\ file'[k] = file[k]
  <2>1. k - FooterLen \in Nat
    BY <1>1, <1>3 DEF WholeFooter
  <2>2. IsBlock(file', k - FooterLen, FooterLen, "footer")
    BY <1>1, <1>3, <2>1, BlockKept DEF WholeFooter
  <2> QED
    BY <1>3, <2>2 DEF WholeFooter, Extends
<1> QED
  BY <1>2, <1>3

\* A footer written in full behind the header is a whole one.
LEMMA NewFooterWhole ==
    ASSUME EachRecordOnce, HeaderReads(file), Grows("footer", FooterNow, FooterLen)
    PROVE  /\ Len(file') \in FooterCells' /\ WholeFooter(Len(file))'
           /\ file'[Len(file')].of = FooterNow
<1>1. HeaderLen \in Nat \ {0} /\ FooterLen \in Nat \ {0}
  BY FormatAssumption
<1>2. /\ Len(file) \in Nat /\ Len(file') = Len(file) + FooterLen
      /\ \A p \in 1 .. FooterLen : /\ file'[Len(file) + p].kind = "footer"
                                   /\ file'[Len(file) + p].of = FooterNow
                                   /\ file'[Len(file) + p].part = p
  BY Counts DEF Grows
<1>3. HeaderLen <= Len(file)
  BY <1>1 DEF HeaderReads, IsBlock
<1>4. Len(file') - FooterLen = Len(file) /\ FooterLen \in 1 .. FooterLen /\ 1 \in 1 .. FooterLen
  BY <1>1, <1>2
<1>5. IsBlock(file', Len(file), FooterLen, "footer")
  BY <1>1, <1>2, <1>4 DEF IsBlock
<1>6. Len(file') >= HeaderLen + FooterLen /\ Len(file') \in 1 .. Len(file')
  BY <1>1, <1>2, <1>3
<1> QED
  BY <1>2, <1>4, <1>5, <1>6 DEF WholeFooter, FooterCells

(***************************************************************************)
(* The invariant, action by action.                                        *)
(***************************************************************************)

LEMMA InitCommitted == Init => Committed
<1> SUFFICES ASSUME Init PROVE Committed
  OBVIOUS
<1>1. Len(file) = 0 /\ FooterCells = {} /\ totalRows = 0 /\ Len(accepted) = 0
  BY DEF Init, FooterCells
<1>2. HeaderFirst
  BY <1>1 DEF Init, HeaderFirst
<1>3. TotalsGrow
  BY <1>1 DEF TotalsGrow
<1>4. CleanIsCovered
  BY <1>1 DEF Init, CleanIsCovered, AllWritten, Covered
<1>5. ClosedIsFinal
  BY DEF Init, ClosedIsFinal
<1> QED
  BY <1>2, <1>3, <1>4, <1>5 DEF Committed

\* NewWriter's header, when it is written in full.
LEMMA HeaderArrives ==
    ASSUME EachRecordOnce, Committed, NewWriter
    PROVE  step' = "gone" \/ HeaderReads(file')
<1>1. PICK n \in Nat :
         /\ Grows("header", [magic |-> TRUE], n)
         /\ (step' = "idle" /\ n = HeaderLen) \/ step' = "gone"
  BY HeaderWrite
<1>2. SUFFICES ASSUME n = HeaderLen PROVE HeaderReads(file')
  BY <1>1
<1>3. Len(file) = 0 /\ HeaderLen \in Nat \ {0}
  BY FormatAssumption DEF Committed, HeaderFirst, NewWriter
<1>4. /\ Len(file') = HeaderLen
      /\ \A p \in 1 .. HeaderLen : /\ file'[p].kind = "header"
                                   /\ file'[p].of = [magic |-> TRUE]
                                   /\ file'[p].part = p
  BY <1>1, <1>2, <1>3 DEF Grows
<1> QED
  BY <1>3, <1>4 DEF HeaderReads, IsBlock

\* Everything but writeFooter leaves what the footers say as it is.
LEMMA FootersStand ==
    ASSUME EachRecordOnce, Committed, [Next]_vars, ~ WriteFooter, totalRows' \in Nat,
           totalRows <= totalRows'
    PROVE  HeaderFirst' /\ TotalsGrow' /\ (Covered /\ totalRows' = totalRows => Covered')
<1>1. /\ Extends(file, file') /\ Len(file) \in Nat
      /\ FooterCells' = FooterCells /\ \A k \in FooterCells : file'[k] = file[k]
  BY OtherSteps, Counts
<1>2. /\ HeaderReads(file) => HeaderReads(file')
      /\ \A k \in 1 .. Len(file) : WholeFooter(k) => WholeFooter(k)' /\ file'[k] = file[k]
  BY <1>1, WholeKept
<1>3. HeaderFirst'
  <2>1. step' = "new" => Len(file') = 0
    BY DEF Committed, HeaderFirst, Next, vars, NewWriter, AppendRecord, Flush, Checkpoint,
       Close,
           FlushThenFooter, EnterFlush, WriteChunk, WriteIndex, NextColumn, Return,
           FinishSegment, Crash
  <2>2. step' \notin {"new", "gone"} => step \notin {"new", "gone"} \/ NewWriter
    BY DEF Next, vars, AppendRecord, Flush, Checkpoint, Close, WriteChunk, WriteIndex,
           FinishSegment, Crash
  <2>3. step' \notin {"new", "gone"} => HeaderReads(file')
    BY <1>2, <2>2, HeaderArrives DEF Committed, HeaderFirst
  <2>4. HeaderReads(file') \/ FooterCells' = {}
    BY <1>1, <1>2 DEF Committed, HeaderFirst
  <2> QED
    BY <2>1, <2>3, <2>4 DEF HeaderFirst
<1>4. TotalsGrow'
  <2>1. \A k \in FooterCells : file[k].of.totalRows \in Nat /\ file[k].of.totalRows <= totalRows
    <3>1. \A k \in FooterCells : file[k].of \in Footer
      BY DEF FooterCells, EachRecordOnce, FootersDescribe, Describes
    <3>2. \A k \in FooterCells : file[k].of.totalRows \in Nat
      BY <3>1 DEF Footer
    <3> QED
      BY <3>2 DEF Committed, TotalsGrow
  <2>2. totalRows \in Nat
    BY Counts
  <2> QED
    BY <1>1, <2>1, <2>2 DEF Committed, TotalsGrow
<1>5. Covered /\ totalRows' = totalRows => Covered'
  BY <1>1, <1>2 DEF Covered, FooterCells
<1> QED
  BY <1>3, <1>4, <1>5

\* A step that writes no footer and commits nothing keeps the invariant.
LEMMA QuietCommitted ==
    ASSUME EachRecordOnce, Committed, [Next]_vars, ~ WriteFooter, ~ FinishSegment
    PROVE  Committed'
<1>1. totalRows' = totalRows /\ totalRows \in Nat
  BY Counts DEF Next, vars, meta, NewWriter, AppendRecord, Flush, Checkpoint, Close,
     FlushThenFooter,
                WriteChunk, WriteIndex, Crash
<1>2. HeaderFirst' /\ TotalsGrow' /\ (Covered => Covered')
  BY <1>1, FootersStand
<1>3. CASE UNCHANGED <<dirty, closed, accepted>> /\ step' # "footer" /\ ~ closed
  <2>1. CleanIsCovered'
    BY <1>1, <1>2, <1>3 DEF Committed, CleanIsCovered, AllWritten
  <2> QED
    BY <1>2, <1>3, <2>1 DEF Committed, ClosedIsFinal
<1>4. CASE NewWriter \/ WriteChunk \/ WriteIndex
  <2>1. ~ closed
    BY <1>4 DEF NewWriter, WriteChunk, WriteIndex, Committed, ClosedIsFinal
  <2>2. UNCHANGED <<dirty, closed, accepted>> /\ step' # "footer"
    BY <1>4 DEF NewWriter, WriteChunk, WriteIndex, NextColumn, Return, meta
  <2> QED
    BY <1>3, <2>1, <2>2
<1>5. ASSUME NEW r \in Records, AppendRecord(r) PROVE Committed'
  <2>1. ~ closed' /\ dirty' /\ step' # "footer"
    BY <1>5 DEF AppendRecord, MarkDirty, EnterFlush
  <2> QED
    BY <1>2, <2>1 DEF Committed, CleanIsCovered, ClosedIsFinal
<1>6. CASE Flush
  <2>1. ~ closed
    <3>1. closed => totalRows = Len(accepted)
      BY DEF Committed, ClosedIsFinal, CleanIsCovered, AllWritten
    <3>2. BufferedRows > 0 /\ BufferedRows = Len(accepted) - totalRows /\ Len(accepted) \in Nat
      BY <1>6, Counts DEF Flush
    <3> QED
      BY <1>1, <3>1, <3>2
  <2>2. UNCHANGED <<dirty, closed, accepted>> /\ step' # "footer"
    BY <1>6 DEF Flush, EnterFlush, meta
  <2> QED
    BY <1>3, <2>1, <2>2
<1>7. CASE Checkpoint \/ Close
  <2>1. ~ closed /\ UNCHANGED <<dirty, closed, accepted>>
    BY <1>7 DEF Checkpoint, Close, FlushThenFooter, meta
  <2>2. step' = "footer" => ~ BufferedRows > 0
    BY <1>7 DEF Checkpoint, Close, FlushThenFooter, EnterFlush
  <2>3. step' = "footer" => AllWritten
    <3>1. BufferedRows = Len(accepted) - totalRows /\ totalRows <= Len(accepted)
          /\ Len(accepted) \in Nat
      BY Counts
    <3> QED
      BY <1>1, <2>2, <3>1 DEF AllWritten
  <2>4. CleanIsCovered'
    BY <1>1, <1>2, <2>1, <2>3 DEF Committed, CleanIsCovered, AllWritten
  <2> QED
    BY <1>2, <2>1, <2>4 DEF Committed, ClosedIsFinal
<1>8. CASE Crash \/ UNCHANGED vars
  <2>1. UNCHANGED <<file, dirty, closed, accepted>> /\ (step' = "gone" \/ step' = step)
    BY <1>8 DEF Crash, vars, meta
  <2>2. CleanIsCovered'
    BY <1>1, <1>2, <2>1 DEF Committed, CleanIsCovered, AllWritten
  <2>3. ClosedIsFinal'
    BY <1>1, <2>1 DEF Committed, ClosedIsFinal, WholeFooter
  <2> QED
    BY <1>2, <2>2, <2>3 DEF Committed
<1> QED
  BY <1>4, <1>5, <1>6, <1>7, <1>8 DEF Next

\* The end of flushSegment writes every buffered row into the directory.
LEMMA FinishCommitted ==
    ASSUME EachRecordOnce, Committed, FinishSegment
    PROVE  Committed'
<1>1. totalRows' = Len(accepted) /\ UNCHANGED <<dirty, closed, accepted>> /\ step' \in {"footer", "idle"}
  <2>1. seg.rows = Len(accepted) - totalRows /\ totalRows' = totalRows + seg.rows
    BY DEF FinishSegment, EachRecordOnce, SegmentInProgress
  <2>2. totalRows' = Len(accepted)
    BY <2>1, Counts
  <2> QED
    BY <2>2 DEF FinishSegment, Return
<1>2. totalRows <= totalRows' /\ totalRows' \in Nat
  BY <1>1, Counts
<1>3. HeaderFirst' /\ TotalsGrow' /\ (Covered /\ totalRows' = totalRows => Covered')
  <2>1. [Next]_vars /\ ~ WriteFooter
    BY DEF Next, FinishSegment, WriteFooter
  <2> QED
    BY <1>2, <2>1, FootersStand
<1>4. CleanIsCovered'
  BY <1>1, <1>3 DEF Committed, CleanIsCovered, AllWritten
<1>5. ~ closed'
  BY <1>1 DEF FinishSegment, Committed, ClosedIsFinal
<1> QED
  BY <1>3, <1>4, <1>5 DEF Committed, ClosedIsFinal

\* writeFooter commits every row appended, or leaves the writer dirty.
LEMMA FooterCommitted ==
    ASSUME EachRecordOnce, Committed, WriteFooter
    PROVE  Committed'
<1>1. PICK n \in 0 .. FooterLen :
         /\ Grows("footer", FooterNow, n)
         /\ \/ n = FooterLen /\ dirty' = FALSE /\ closed' = (call = "close")
            \/ UNCHANGED <<dirty, closed>>
  BY FooterWrite
<1>2. n \in Nat /\ FooterNow.totalRows = totalRows /\ totalRows \in Nat
  BY <1>1, FormatAssumption, Counts DEF FooterNow
<1>3. /\ UNCHANGED <<totalRows, accepted>> /\ step' = "idle"
      /\ ~ closed /\ AllWritten /\ HeaderReads(file)
  BY DEF WriteFooter, Return, Committed, ClosedIsFinal, CleanIsCovered, HeaderFirst
<1>4. /\ Extends(file, file') /\ Len(file) \in Nat /\ Len(file') = Len(file) + n
      /\ \A k \in 1 .. Len(file') :
            \/ k \in 1 .. Len(file) /\ file'[k] = file[k]
            \/ k \notin 1 .. Len(file) /\ file'[k].kind = "footer" /\ file'[k].of = FooterNow
  BY <1>1, <1>2, AddedCells DEF EachRecordOnce
<1>5. /\ HeaderReads(file) => HeaderReads(file')
      /\ \A k \in 1 .. Len(file) : WholeFooter(k) => WholeFooter(k)' /\ file'[k] = file[k]
  BY <1>4, WholeKept
<1>6. HeaderFirst'
  BY <1>3, <1>5 DEF HeaderFirst
<1>7. ASSUME NEW k \in FooterCells'
      PROVE  \/ k \in FooterCells /\ file'[k] = file[k]
             \/ k \notin 1 .. Len(file) /\ file'[k].of.totalRows = totalRows
  BY <1>2, <1>4 DEF FooterCells
<1>8. TotalsGrow'
  <2>1. \A k \in FooterCells' : file'[k].of.totalRows <= totalRows
    BY <1>2, <1>7 DEF Committed, TotalsGrow
  <2>2. ASSUME NEW j \in FooterCells', NEW k \in FooterCells', j <= k
        PROVE  file'[j].of.totalRows <= file'[k].of.totalRows
    <3>1. CASE k \notin 1 .. Len(file) /\ file'[k].of.totalRows = totalRows
      BY <2>1, <3>1
    <3>2. CASE k \in FooterCells /\ file'[k] = file[k]
      <4>1. j \in 1 .. Len(file)
        BY <1>4, <2>2, <3>2 DEF FooterCells
      <4>2. j \in FooterCells /\ file'[j] = file[j]
        BY <1>7, <4>1
      <4> QED
        BY <2>2, <3>2, <4>2 DEF Committed, TotalsGrow
    <3> QED
      BY <1>7, <3>1, <3>2
  <2> QED
    BY <1>3, <2>1, <2>2 DEF TotalsGrow
<1>9. CASE n = FooterLen /\ dirty' = FALSE /\ closed' = (call = "close")
  <2>1. /\ Len(file') \in FooterCells' /\ WholeFooter(Len(file))'
        /\ file'[Len(file')].of = FooterNow
    BY <1>1, <1>3, <1>9, NewFooterWhole
  <2>2. Covered'
    BY <1>2, <1>3, <2>1 DEF Covered
  <2>3. CleanIsCovered'
    BY <1>3, <2>2 DEF CleanIsCovered, AllWritten
  <2>4. Len(file') > 0
    BY <1>4, <2>1 DEF FooterCells
  <2>5. ClosedIsFinal'
    BY <1>2, <1>3, <1>9, <2>1, <2>4 DEF ClosedIsFinal
  <2> QED
    BY <1>6, <1>8, <2>3, <2>5 DEF Committed
<1>10. CASE UNCHANGED <<dirty, closed>>
  <2>1. Covered => Covered'
    <3>1. \A k \in FooterCells : k \in FooterCells' /\ file'[k] = file[k]
      BY <1>4 DEF FooterCells, Extends
    <3> QED
      BY <1>3, <1>5, <3>1 DEF Covered, FooterCells
  <2>2. CleanIsCovered'
    BY <1>3, <1>10, <2>1 DEF Committed, CleanIsCovered, AllWritten
  <2> QED
    BY <1>3, <1>6, <1>8, <1>10, <2>2 DEF Committed, ClosedIsFinal
<1> QED
  BY <1>1, <1>9, <1>10

\* In every reachable state a clean writer has committed what it took, and a
\* closed one ends in a footer that says so.
THEOREM AlwaysCommitted == Spec => []Committed
<1>1. Init => Committed
  BY InitCommitted
<1>2. EachRecordOnce /\ Committed /\ [Next]_vars => Committed'
  BY QuietCommitted, FinishCommitted, FooterCommitted
<1> QED
  BY <1>1, <1>2, RecordsStoredOnce, PTL DEF Spec

(***************************************************************************)
(* What recovery finds.                                                    *)
(***************************************************************************)

\* The ends at which a footer of image img reads.
FootersOf(img) == {end \in 1 .. Len(img) : FooterAt(img, end)}

\* A footer that reads ends in the last cell of a footer.
LEMMA FooterCell ==
    ASSUME NEW img \in Seq(Cell), NEW end \in 1 .. Len(img), FooterAt(img, end)
    PROVE  img[end].kind = "footer" /\ img[end].part = FooterLen
<1>1. FooterLen \in Nat \ {0} /\ (end - FooterLen) + FooterLen = end /\ FooterLen \in 1 .. FooterLen
  BY FormatAssumption
<1> QED
  BY <1>1 DEF FooterAt, IsBlock

\* Recovery takes the last footer that reads, wherever the scan starts
\* (recover.go:30).
LEMMA LatestFooter ==
    ASSUME NEW img \in Seq(Cell), HeaderReads(img) \/ FootersOf(img) = {}
    PROVE  /\ FootersOf(img) = {} => ~ CanRecover(img) /\ RecoverableRows(img) = 0
           /\ FootersOf(img) # {} =>
                 /\ CanRecover(img)
                 /\ \E end \in FootersOf(img) :
                       /\ \A e \in FootersOf(img) : e <= end
                       /\ RecoverableRows(img) = img[end].of.totalRows
<1>1. Len(img) \in Nat /\ HeaderLen \in Nat \ {0} /\ FooterLen \in Nat \ {0}
  BY FormatAssumption
<1>2. FooterEnds(img) = FootersOf(img)
  <2>1. ASSUME NEW end \in FootersOf(img) PROVE end \in FooterEnds(img)
    <3>1. end \in 1 .. Len(img) /\ FooterAt(img, end)
      BY DEF FootersOf
    <3>2. HasMagic(img, end)
      BY <3>1, FooterCell DEF HasMagic
    <3>3. end \in (HeaderLen + FooterLen) .. Len(img)
      BY <1>1, <3>1 DEF FooterAt
    <3> QED
      BY <3>1, <3>2, <3>3 DEF FooterEnds, Candidates
  <2>2. ASSUME NEW end \in FooterEnds(img) PROVE end \in FootersOf(img)
    BY <1>1 DEF FooterEnds, Candidates, FootersOf
  <2> QED
    BY <2>1, <2>2
<1>3. FooterAt(img, Len(img)) => Len(img) \in FootersOf(img)
  <2>1. FooterAt(img, Len(img)) => Len(img) \in 1 .. Len(img)
    BY <1>1 DEF FooterAt
  <2> QED
    BY <2>1 DEF FootersOf
<1>4. CASE FootersOf(img) = {}
  BY <1>2, <1>3, <1>4 DEF CanRecover, RecoverableRows
<1>5. CASE FootersOf(img) # {}
  <2>1. CanRecover(img)
    BY <1>2, <1>5 DEF CanRecover
  <2>2. CASE FooterAt(img, Len(img))
    <3>1. Len(img) \in FootersOf(img) /\ \A e \in FootersOf(img) : e <= Len(img)
      BY <1>3, <2>2 DEF FootersOf
    <3> QED
      BY <1>5, <2>1, <2>2, <3>1 DEF RecoverableRows, RecoveredFooter
  <2>3. CASE ~ FooterAt(img, Len(img))
    <3> DEFINE end == Max(FootersOf(img))
    <3>1. FootersOf(img) \in SUBSET (0 .. Len(img))
      BY DEF FootersOf
    <3>2. end \in FootersOf(img) /\ \A e \in FootersOf(img) : e <= end
      BY <1>1, <1>5, <3>1, MaxOfNats
    <3>3. RecoveredFooter(img) = img[end].of
      BY <1>2, <2>3 DEF RecoveredFooter
    <3> HIDE DEF end
    <3> QED
      BY <1>5, <2>1, <3>2, <3>3 DEF RecoverableRows
  <2> QED
    BY <2>2, <2>3
<1> QED
  BY <1>4, <1>5

\* In a reachable file, readable footers are whole ones behind a header, and
\* they count in natural numbers.
LEMMA ReadableFooters ==
    ASSUME EachRecordOnce, Committed
    PROVE  /\ HeaderReads(file) \/ FootersOf(file) = {}
           /\ \A end \in FootersOf(file) :
                 end \in FooterCells /\ WholeFooter(end) /\ file[end].of.totalRows \in Nat
           /\ DirectoryFits => \A end \in FooterCells : WholeFooter(end) => end \in FootersOf(file)
<1>1. file \in Seq(Cell)
  BY DEF EachRecordOnce, TypeOK
<1>2. \A end \in FooterCells : Describes(file[end].of, segments, end)
  BY DEF FooterCells, EachRecordOnce, FootersDescribe
<1>3. \A end \in FootersOf(file) : end \in FooterCells
  BY <1>1, FooterCell DEF FootersOf, FooterCells
<1>4. HeaderReads(file) \/ FootersOf(file) = {}
  BY <1>3 DEF Committed, HeaderFirst
<1>5. ASSUME NEW end \in FootersOf(file)
      PROVE  end \in FooterCells /\ WholeFooter(end) /\ file[end].of.totalRows \in Nat
  <2>1. file[end].of \in Footer
    BY <1>2, <1>3 DEF Describes
  <2>2. file[end].of.totalRows \in Nat
    BY <2>1 DEF Footer
  <2> QED
    BY <1>3, <2>2 DEF FootersOf, FooterAt, WholeFooter
<1>6. ASSUME DirectoryFits, NEW end \in FooterCells, WholeFooter(end)
      PROVE  end \in FootersOf(file)
  <2>1. Len(file[end].of.segments) <= Len(segments) /\ file[end].of \in Footer
    BY <1>2 DEF Describes
  <2>2. Len(file[end].of.segments) \in Nat /\ Len(segments) \in Nat /\ MaxSegments \in Nat
    BY <2>1, Counts, FormatAssumption DEF Footer
  <2>3. Len(file[end].of.segments) <= MaxSegments
    BY <1>6, <2>1, <2>2 DEF DirectoryFits
  <2> QED
    BY <1>6, <2>3 DEF FootersOf, FooterAt, WholeFooter, FooterCells
<1> QED
  BY <1>4, <1>5, <1>6

\* Recovery gives back what the last readable footer says, and no more than
\* the directory holds.
LEMMA RecoverableBounds ==
    ASSUME EachRecordOnce, Committed
    PROVE  /\ RecoverableRows(file) \in Nat /\ RecoverableRows(file) <= totalRows
           /\ \A end \in FootersOf(file) :
                 file[end].of.totalRows <= RecoverableRows(file)
<1>1. file \in Seq(Cell) /\ totalRows \in Nat
  BY DEF EachRecordOnce, TypeOK
<1>2. CASE FootersOf(file) = {}
  BY <1>1, <1>2, ReadableFooters, LatestFooter
<1>3. CASE FootersOf(file) # {}
  <2>1. PICK end \in FootersOf(file) :
           /\ \A e \in FootersOf(file) : e <= end
           /\ RecoverableRows(file) = file[end].of.totalRows
    BY <1>1, <1>3, ReadableFooters, LatestFooter
  <2> QED
    BY <2>1, ReadableFooters DEF Committed, TotalsGrow
<1> QED
  BY <1>2, <1>3

\* Between calls, a writer that is not dirty has every record it took behind a
\* footer (writer.go:171: Checkpoint skips its work on such a writer), as long
\* as the directory is no longer than a reader accepts, which the writer does
\* not ensure.
THEOREM CleanIsCommitted == Spec => [](DirectoryFits => CleanMeansCommitted)
<1>1. ASSUME EachRecordOnce, Committed, DirectoryFits
      PROVE  CleanMeansCommitted
  <2>1. SUFFICES ASSUME ~ dirty PROVE RecoverableRows(file) = Len(accepted)
    BY DEF CleanMeansCommitted
  <2>2. totalRows = Len(accepted) /\ totalRows \in Nat
    BY <1>1, <2>1, Counts DEF Committed, CleanIsCovered, AllWritten
  <2>3. RecoverableRows(file) \in Nat /\ RecoverableRows(file) <= totalRows
    BY <1>1, RecoverableBounds
  <2>4. CASE totalRows = 0
    BY <2>2, <2>3, <2>4
  <2>5. ASSUME NEW k \in FooterCells, WholeFooter(k), file[k].of.totalRows = totalRows
        PROVE  totalRows <= RecoverableRows(file)
    BY <1>1, <2>5, ReadableFooters, RecoverableBounds
  <2> QED
    BY <1>1, <2>1, <2>2, <2>3, <2>4, <2>5 DEF Committed, CleanIsCovered, Covered
<1> QED
  BY <1>1, RecordsStoredOnce, AlwaysCommitted, PTL

\* Once Close has returned nil the file opens without recovery, with every
\* record, whatever is called afterwards (writer.go:181), under the same
\* premise on the directory.
THEOREM ClosedStaysOpenable == Spec => [](DirectoryFits => ClosedFileOpens)
<1>1. ASSUME EachRecordOnce, Committed, DirectoryFits
      PROVE  ClosedFileOpens
  <2> SUFFICES ASSUME closed
               PROVE  CanOpen(file) /\ file[Len(file)].of.totalRows = Len(accepted)
    BY DEF ClosedFileOpens
  <2>1. /\ Len(file) > 0 /\ WholeFooter(Len(file))
        /\ file[Len(file)].of.totalRows = totalRows /\ totalRows = Len(accepted)
    BY <1>1 DEF Committed, ClosedIsFinal, CleanIsCovered, AllWritten
  <2>2. Len(file) \in FooterCells
    <3>1. FooterLen \in Nat \ {0} /\ Len(file) \in Nat
      BY <1>1, FormatAssumption, Counts
    <3>2. (Len(file) - FooterLen) + FooterLen = Len(file) /\ FooterLen \in 1 .. FooterLen
      BY <3>1
    <3>3. file[Len(file)].kind = "footer"
      BY <2>1, <3>2 DEF WholeFooter, IsBlock
    <3> QED
      BY <2>1, <3>1, <3>3 DEF FooterCells
  <2>3. Len(file) \in FootersOf(file)
    BY <1>1, <2>1, <2>2, ReadableFooters
  <2> QED
    BY <1>1, <2>1, <2>3, ReadableFooters DEF CanOpen, FootersOf
<1> QED
  BY <1>1, RecordsStoredOnce, AlwaysCommitted, PTL

\* A readable footer stays readable, whatever is written after it.
LEMMA FootersStay ==
    ASSUME Extends(file, file'), Len(file) \in Nat
    PROVE  /\ \A end \in 1 .. Len(file) : FooterAt(file, end) <=> FooterAt(file', end)
           /\ \A end \in FootersOf(file) : end \in FootersOf(file') /\ file'[end] = file[end]
<1>1. Len(file) <= Len(file') /\ Len(file') \in Nat /\ \A k \in 1 .. Len(file) : file'[k] = file[k]
  BY DEF Extends
<1>2. HeaderLen \in Nat \ {0} /\ FooterLen \in Nat \ {0}
  BY FormatAssumption
<1>3. ASSUME NEW end \in 1 .. Len(file) PROVE FooterAt(file, end) <=> FooterAt(file', end)
  <2>1. SUFFICES ASSUME end >= HeaderLen + FooterLen
                 PROVE  IsBlock(file, end - FooterLen, FooterLen, "footer")
                           <=> IsBlock(file', end - FooterLen, FooterLen, "footer")
    BY <1>1 DEF FooterAt
  <2>2. \A p \in 1 .. FooterLen : file'[(end - FooterLen) + p] = file[(end - FooterLen) + p]
    <3>1. \A p \in 1 .. FooterLen : (end - FooterLen) + p \in 1 .. Len(file)
      BY <1>2, <2>1
    <3> QED
      BY <1>1, <3>1
  <2>3. 1 \in 1 .. FooterLen
    BY <1>2
  <2>4. (end - FooterLen) + FooterLen <= Len(file) /\ (end - FooterLen) + FooterLen <= Len(file')
    BY <1>1, <1>2
  <2> QED
    BY <2>2, <2>3, <2>4 DEF IsBlock
<1> QED
  BY <1>1, <1>3 DEF FootersOf

\* No step, and no failed or torn write, makes recovery give back fewer rows
\* than before (writer.go:168: the previous footer stays intact).
THEOREM RecoveryOnlyGrows == Spec => RecoveryNeverShrinks
<1>1. ASSUME EachRecordOnce, Committed, EachRecordOnce', Committed', [Next]_vars
      PROVE  [RecoverableRows(file) <= RecoverableRows(file')]_vars
  <2>1. Extends(file, file') /\ Len(file) \in Nat
    <3>1. CASE WriteFooter
      <4>1. PICK n \in 0 .. FooterLen : Grows("footer", FooterNow, n)
        BY <1>1, <3>1, FooterWrite
      <4>2. n \in Nat /\ TypeOK
        BY <1>1, FormatAssumption DEF EachRecordOnce
      <4> QED
        BY <4>1, <4>2, AddedCells
    <3> QED
      BY <1>1, <3>1, OtherSteps, Counts
  <2>2. RecoverableRows(file') \in Nat
        /\ \A end \in FootersOf(file') : file'[end].of.totalRows <= RecoverableRows(file')
    <3>1. (EachRecordOnce /\ Committed =>
              /\ RecoverableRows(file) \in Nat
              /\ \A end \in FootersOf(file) : file[end].of.totalRows <= RecoverableRows(file))'
      BY RecoverableBounds, PTL
    <3> QED
      BY <1>1, <3>1
  <2>3. CASE FootersOf(file) = {}
    <3>1. RecoverableRows(file) = 0
      BY <1>1, <2>3, ReadableFooters, LatestFooter DEF EachRecordOnce, TypeOK
    <3> QED
      BY <2>2, <3>1
  <2>4. CASE FootersOf(file) # {}
    <3>1. PICK end \in FootersOf(file) : RecoverableRows(file) = file[end].of.totalRows
      BY <1>1, <2>4, ReadableFooters, LatestFooter DEF EachRecordOnce, TypeOK
    <3>2. end \in FootersOf(file') /\ file'[end] = file[end]
      BY <2>1, FootersStay
    <3> QED
      BY <2>2, <3>1, <3>2
  <2> QED
    BY <2>3, <2>4
<1> QED
  BY <1>1, RecordsStoredOnce, AlwaysCommitted, PTL DEF Spec, RecoveryNeverShrinks

(***************************************************************************)
(* The writer implements the durable log, step by step.                    *)
(***************************************************************************)

\* What recovery reads back is what the abstract log keeps.
LEMMA SurvivorsKept ==
    ASSUME EachRecordOnce, FlushesBelowLimit
    PROVE  Survivors = SubSeq(accepted, 1, RecoverableRows(file))
<1>1. file \in Seq(Cell) /\ accepted \in Seq(Records) /\ Len(file) \in Nat
  BY Counts DEF EachRecordOnce, TypeOK
<1>2. Image(Len(file)) = file
  BY <1>1 DEF Image
<1>3. CASE CanRecover(file)
  <2>1. Len(file) \in 0 .. Len(file)
    BY <1>1
  <2>2. ReadRows(file, RecoveredFooter(file)) = SubSeq(accepted, 1, RecoveredFooter(file).totalRows)
    BY <1>2, <1>3, <2>1, PrefixRecovers
  <2>3. Survivors = ReadRows(file, RecoveredFooter(file))
    BY <1>3 DEF Survivors
  <2> QED
    BY <1>3, <2>2, <2>3 DEF RecoverableRows
<1>4. CASE ~ CanRecover(file)
  <2>1. SubSeq(accepted, 1, 0) = <<>>
    BY <1>1
  <2> QED
    BY <1>4, <2>1 DEF Survivors, RecoverableRows
<1> QED
  BY <1>3, <1>4

\* Without a new readable footer, recovery gives back the same rows.
LEMMA SameRecovery ==
    ASSUME EachRecordOnce, Committed, Extends(file, file'),
           \A end \in FootersOf(file') : end \in 1 .. Len(file)
    PROVE  RecoverableRows(file') = RecoverableRows(file)
<1>1. /\ file \in Seq(Cell) /\ file' \in Seq(Cell) /\ Len(file) \in Nat /\ Len(file') \in Nat
      /\ Len(file) <= Len(file')
  BY Counts DEF EachRecordOnce, TypeOK, Extends
<1>2. FootersOf(file') = FootersOf(file) /\ \A end \in FootersOf(file) : file'[end] = file[end]
  <2>1. \A end \in FootersOf(file') : end \in FootersOf(file)
    BY <1>1, FootersStay DEF FootersOf
  <2> QED
    BY <1>1, <2>1, FootersStay
<1>3. HeaderReads(file) \/ FootersOf(file) = {}
  BY ReadableFooters
<1>4. HeaderReads(file') \/ FootersOf(file') = {}
  BY <1>1, <1>2, <1>3, WholeKept
<1>5. CASE FootersOf(file) = {}
  BY <1>1, <1>2, <1>3, <1>4, <1>5, LatestFooter
<1>6. CASE FootersOf(file) # {}
  <2>1. PICK i \in FootersOf(file) :
           (\A e \in FootersOf(file) : e <= i) /\ RecoverableRows(file) = file[i].of.totalRows
    BY <1>1, <1>3, <1>6, LatestFooter
  <2>2. PICK j \in FootersOf(file') :
           (\A e \in FootersOf(file') : e <= j) /\ RecoverableRows(file') = file'[j].of.totalRows
    BY <1>1, <1>2, <1>4, <1>6, LatestFooter
  <2>3. i = j
    <3>1. i \in Nat /\ j \in Nat /\ i <= j /\ j <= i
      BY <1>2, <2>1, <2>2 DEF FootersOf
    <3> QED
      BY <3>1
  <2> QED
    BY <1>2, <2>1, <2>2, <2>3
<1> QED
  BY <1>5, <1>6

\* So it is with every step but writeFooter.
LEMMA OthersCommitNothing ==
    ASSUME EachRecordOnce, Committed, EachRecordOnce', [Next]_vars, ~ WriteFooter
    PROVE  RecoverableRows(file') = RecoverableRows(file)
<1>1. Extends(file, file') /\ FooterCells' = FooterCells
  BY OtherSteps
<1>2. ASSUME NEW end \in FootersOf(file') PROVE end \in 1 .. Len(file)
  <2>1. file' \in Seq(Cell) /\ end \in 1 .. Len(file') /\ FooterAt(file', end)
    BY <1>2 DEF FootersOf, EachRecordOnce, TypeOK
  <2>2. file'[end].kind = "footer"
    BY <2>1, FooterCell
  <2> QED
    BY <1>1, <2>1, <2>2 DEF FooterCells
<1> QED
  BY <1>1, <1>2, SameRecovery

\* A footer commits every record appended, a torn one commits nothing.
LEMMA FooterCommits ==
    ASSUME EachRecordOnce, Committed, EachRecordOnce', Committed', DirectoryFits, WriteFooter
    PROVE  RecoverableRows(file') \in {RecoverableRows(file), Len(accepted)}
<1>1. PICK n \in 0 .. FooterLen : Grows("footer", FooterNow, n)
  BY FooterWrite
<1>2. n \in Nat /\ TypeOK /\ FooterLen \in Nat
  BY <1>1, FormatAssumption DEF EachRecordOnce
<1>3. /\ Extends(file, file') /\ Len(file) \in Nat /\ Len(file') = Len(file) + n
      /\ \A k \in 1 .. Len(file') : k \in 1 .. Len(file) \/ file'[k].part = k - Len(file)
  BY <1>1, <1>2, AddedCells
<1>4. file' \in Seq(Cell)
  BY DEF EachRecordOnce, TypeOK
<1>5. CASE n = FooterLen
  <2>1. HeaderReads(file) /\ totalRows = Len(accepted) /\ totalRows \in Nat
    BY Counts DEF WriteFooter, Committed, HeaderFirst, CleanIsCovered, AllWritten
  <2>2. /\ Len(file') \in FooterCells' /\ WholeFooter(Len(file))'
        /\ file'[Len(file')].of = FooterNow
    BY <1>1, <1>5, <2>1, NewFooterWhole
  <2>3. DirectoryFits' /\ totalRows' = totalRows
    BY DEF DirectoryFits, WriteFooter
  <2>4. (EachRecordOnce /\ Committed =>
            /\ DirectoryFits =>
                  \A end \in FooterCells : WholeFooter(end) => end \in FootersOf(file)
            /\ RecoverableRows(file) \in Nat /\ RecoverableRows(file) <= totalRows
            /\ \A end \in FootersOf(file) : file[end].of.totalRows <= RecoverableRows(file))'
    BY ReadableFooters, RecoverableBounds, PTL
  <2>5. Len(file') \in FootersOf(file')
    BY <2>2, <2>3, <2>4
  <2>6. file'[Len(file')].of.totalRows = totalRows
    BY <2>2 DEF FooterNow
  <2>7. /\ RecoverableRows(file') \in Nat /\ RecoverableRows(file') <= totalRows
        /\ totalRows <= RecoverableRows(file')
    BY <2>3, <2>4, <2>5, <2>6
  <2> QED
    BY <2>1, <2>7
<1>6. CASE n # FooterLen
  <2>1. ASSUME NEW end \in FootersOf(file') PROVE end \in 1 .. Len(file)
    <3>1. end \in 1 .. Len(file') /\ file'[end].part = FooterLen
      BY <1>4, FooterCell DEF FootersOf
    <3> QED
      BY <1>1, <1>2, <1>3, <1>6, <3>1
  <2> QED
    BY <1>3, <2>1, SameRecovery
<1> QED
  BY <1>5, <1>6

\* Every run of the writer is a run of the durable log (DurableLog.tla): a crash
\* at any step loses the records since the last footer and nothing else, and a
\* footer commits every record appended before it.  The premise is what a reader
\* demands of a file and the writer does not ensure: segments and directory
\* within the limits (limits.go:17).
THEOREM WriterIsDurableLog ==
    Spec /\ [](FlushesBelowLimit /\ DirectoryFits) => ImplementsDurableLog
<1>1. Init => Log!Init
  <2> SUFFICES ASSUME Init PROVE Log!Init
    OBVIOUS
  <2>1. file = <<>> /\ accepted = <<>> /\ step = "new"
    BY DEF Init
  <2>2. ~ CanRecover(file)
    BY <2>1, FormatAssumption DEF CanRecover, HeaderReads, IsBlock
  <2> QED
    BY <2>1, <2>2 DEF Log!Init, RecoverableRows
<1>2. ASSUME EachRecordOnce, Committed, EachRecordOnce', Committed',
             FlushesBelowLimit, DirectoryFits, [Next]_vars
      PROVE  [Log!Next]_(Log!vars)
  <2>1. ASSUME NEW r \in Records, AppendRecord(r) PROVE Log!Add(r)
    <3>1. /\ step # "gone" /\ step' # "gone" /\ accepted' = Append(accepted, r)
          /\ UNCHANGED file
      BY <2>1 DEF AppendRecord, EnterFlush
    <3> QED
      BY <3>1 DEF Log!Add
  <2>2. CASE WriteFooter
    <3>1. step # "gone" /\ step' # "gone" /\ UNCHANGED accepted
      BY <2>2 DEF WriteFooter, Return
    <3>2. RecoverableRows(file') \in {RecoverableRows(file), Len(accepted)}
      BY <1>2, <2>2, FooterCommits
    <3>3. CASE RecoverableRows(file') = Len(accepted)
      BY <3>1, <3>3 DEF Log!Next, Log!Commit
    <3>4. CASE RecoverableRows(file') = RecoverableRows(file)
      BY <3>1, <3>4 DEF Log!vars
    <3> QED
      BY <3>2, <3>3, <3>4
  <2>3. CASE (NewWriter \/ Crash) /\ step' = "gone"
    <3>1. step # "gone" /\ step' = "gone" /\ UNCHANGED accepted /\ ~ WriteFooter
      BY <2>3 DEF NewWriter, Crash, WriteFooter, Return
    <3>2. RecoverableRows(file') = RecoverableRows(file)
      BY <1>2, <3>1, OthersCommitNothing
    <3>3. CASE Crash
      <4>1. Survivors' = Survivors
        BY <3>3 DEF Crash, Survivors
      <4>2. Survivors' = SubSeq(accepted, 1, RecoverableRows(file))
        BY <1>2, <4>1, SurvivorsKept
      <4> QED
        BY <3>1, <3>2, <4>2 DEF Log!Next, Log!Crash
    <3>4. CASE NewWriter
      <4>1. FooterCells' = {}
        <5>1. FooterCells = {}
          BY <1>2, <3>4 DEF NewWriter, Committed, HeaderFirst, FooterCells
        <5> QED
          BY <1>2, <3>1, <5>1, OtherSteps
      <4>2. file' \in Seq(Cell)
        BY <1>2 DEF EachRecordOnce, TypeOK
      <4>3. FootersOf(file') = {}
        BY <4>1, <4>2, FooterCell DEF FootersOf, FooterCells
      <4>4. ~ CanRecover(file') /\ RecoverableRows(file') = 0
        BY <4>2, <4>3, LatestFooter
      <4>5. Survivors' = <<>> /\ SubSeq(accepted, 1, 0) = <<>>
        BY <1>2, <4>4 DEF Survivors, EachRecordOnce, TypeOK
      <4> QED
        BY <3>1, <3>2, <4>4, <4>5 DEF Log!Next, Log!Crash
    <3> QED
      BY <2>3, <3>3, <3>4
  <2>4. CASE step # "gone" /\ step' # "gone" /\ UNCHANGED accepted /\ ~ WriteFooter
    <3>1. RecoverableRows(file') = RecoverableRows(file)
      BY <1>2, <2>4, OthersCommitNothing
    <3> QED
      BY <2>4, <3>1 DEF Log!vars
  <2>5. CASE NewWriter /\ step' # "gone"
    BY <2>4, <2>5 DEF NewWriter, WriteFooter
  <2>6. CASE Flush \/ Checkpoint \/ Close \/ WriteChunk \/ WriteIndex \/ FinishSegment
    <3>1. step # "gone" /\ step' # "gone" /\ UNCHANGED accepted /\ ~ WriteFooter
      BY <2>6 DEF Flush, Checkpoint, Close, FlushThenFooter, EnterFlush, WriteChunk,
         WriteIndex,
                  NextColumn, Return, FinishSegment, WriteFooter
    <3> QED
      BY <2>4, <3>1
  <2>7. CASE UNCHANGED vars
    BY <2>7 DEF vars, Log!vars, Survivors
  <2>8. Crash => step' = "gone"
    BY DEF Crash
  <2> QED
    BY <1>2, <2>1, <2>2, <2>3, <2>5, <2>6, <2>7, <2>8 DEF Next, Log!Next
<1> QED
  BY <1>1, <1>2, RecordsStoredOnce, AlwaysCommitted, PTL DEF Spec, ImplementsDurableLog,
     Log!Spec

(***************************************************************************)
(* What the directory tells of the rows: zone maps, index blobs and the    *)
(* time span.  Readers prune with all three, so that a wrong one loses rows*)
(* silently.                                                               *)
(***************************************************************************)

(***************************************************************************)
(* Column directory cd against the n records of recs that follow the first *)
(* `first` ones.                                                           *)
(***************************************************************************)
CellsIn(recs, c, first, n) == {recs[r][c] : r \in (first + 1) .. (first + n)}

ValuesIn(recs, c, first, n) == CellsIn(recs, c, first, n) \ {Null}

PresentIn(recs, c, first, n) == {r \in (first + 1) .. (first + n) : recs[r][c] # Null}

Summarises(recs, cd, c, first, n) ==
    /\ cd.nonNull = Cardinality(PresentIn(recs, c, first, n))
    /\ cd.hasNulls <=> Null \in CellsIn(recs, c, first, n)
    /\ ValuesIn(recs, c, first, n) # {} =>
          cd.min \in ValuesIn(recs, c, first, n) /\ cd.max \in ValuesIn(recs, c, first, n)
    /\ \A v \in ValuesIn(recs, c, first, n) : cd.min <= v /\ v <= cd.max

\* The index blob of an indexed column, wherever in img it lies.
Indexes(img, recs, cd, c, first, n) ==
    IF c \in Indexed
    THEN /\ IndexReads(img, cd)
         /\ IndexKeys(img, cd) = ValuesIn(recs, c, first, n)
    ELSE cd.indexLength = 0

\* Presence marks are only made for a null.
MarksMeanNull(b) == HasNulls(b) => \E i \in 1 .. Rows(b) : b.present[i] = 0

(***************************************************************************)
(* The inductive invariant: every entry of the directory, and every entry  *)
(* made so far of the segment in progress, tells the truth; and an index   *)
(* lies before the footer that leads to it.                                *)
(***************************************************************************)
EntriesTrue ==
    \A i \in 1 .. Len(segments) : \A c \in Cols :
        /\ Summarises(accepted, segments[i].columns[c], c, segments[i].first, segments[i].rows)
        /\ Indexes(file, accepted, segments[i].columns[c], c, segments[i].first, segments[i].rows)

ProgressTrue ==
    step \in {"chunk", "index", "finish"} =>
        /\ step = "index" => col \in Indexed
        /\ \A c \in 1 .. Len(seg.columns) :
              /\ Summarises(accepted, seg.columns[c], c, seg.first, seg.rows)
              /\ \/ step = "index" /\ c = col
                 \/ Indexes(file, accepted, seg.columns[c], c, seg.first, seg.rows)

IndexesBefore ==
    \A end \in 1 .. Len(file) : file[end].kind = "footer" =>
        \A i \in 1 .. Len(file[end].of.segments) : \A c \in Indexed :
            file[end].of.segments[i].columns[c].indexOffset + IndexLen <= end

DirectoryTrue ==
    /\ \A c \in Cols : MarksMeanNull(builders[c])
    /\ EntriesTrue
    /\ ProgressTrue
    /\ IndexesBefore

(***************************************************************************)
(* The time span of the first n records: no row has a time and both ends   *)
(* are 0, or they are the least and the greatest time.                     *)
(***************************************************************************)
TimesIn(recs, first, n) ==
    {AsInt64(recs[r][TsCol]) : r \in PresentIn(recs, TsCol, first, n)}

SpanIs(T, lo, hi) ==
    IF T = {} THEN lo = 0 /\ hi = 0
    ELSE lo \in T /\ hi \in T /\ \A t \in T : lo <= t /\ t <= hi

SpanTrue ==
    TsCol # 0 =>
        /\ SpanIs(TimesIn(accepted, 0, totalRows), span.min, span.max)
        /\ span.have <=> TimesIn(accepted, 0, totalRows) # {}
        /\ \A end \in 1 .. Len(file) : file[end].kind = "footer" =>
              SpanIs(TimesIn(accepted, 0, file[end].of.totalRows),
                     file[end].of.minTS, file[end].of.maxTS)

\* No record is from before the epoch.
AfterEpoch ==
    TsCol # 0 => \A rec \in Records : rec[TsCol] # Null => rec[TsCol] < HalfWord

(***************************************************************************)
(* What stays true when records and cells are added.                       *)
(***************************************************************************)

\* What an entry tells is about its own rows and its own blocks.
LEMMA EntryKept ==
    ASSUME NEW f, NEW g, Extends(f, g), NEW a, NEW b, NEW first \in Nat, NEW n \in Nat,
           \A r \in 1 .. (first + n) : b[r] = a[r],
           NEW cd \in ColumnDir, NEW c
    PROVE  /\ Summarises(a, cd, c, first, n) => Summarises(b, cd, c, first, n)
           /\ Indexes(f, a, cd, c, first, n) => Indexes(g, b, cd, c, first, n)
<1>1. \A r \in (first + 1) .. (first + n) : b[r] = a[r]
  OBVIOUS
<1>2. CellsIn(b, c, first, n) = CellsIn(a, c, first, n)
  BY <1>1 DEF CellsIn
<1>3. PresentIn(b, c, first, n) = PresentIn(a, c, first, n)
  BY <1>1 DEF PresentIn
<1>4. Summarises(a, cd, c, first, n) => Summarises(b, cd, c, first, n)
  BY <1>2, <1>3 DEF Summarises, ValuesIn
<1>5. ASSUME IndexReads(f, cd) PROVE IndexReads(g, cd) /\ IndexKeys(g, cd) = IndexKeys(f, cd)
  <2>1. cd.indexOffset \in Nat /\ IndexLen \in Nat \ {0}
    BY FormatAssumption DEF ColumnDir
  <2>2. IsBlock(g, cd.indexOffset, IndexLen, "index")
        /\ g[cd.indexOffset + 1] = f[cd.indexOffset + 1]
    BY <1>5, <2>1, BlockKept DEF IndexReads
  <2> QED
    BY <1>5, <2>2 DEF IndexReads, IndexKeys
<1> QED
  BY <1>2, <1>4, <1>5 DEF Indexes, ValuesIn

\* Only four fields of an entry are about the values.
LEMMA SameSummary ==
    ASSUME NEW d, NEW e, d.nonNull = e.nonNull, d.hasNulls = e.hasNulls,
           d.min = e.min, d.max = e.max,
           NEW recs, NEW c, NEW first, NEW n, Summarises(recs, d, c, first, n)
    PROVE  Summarises(recs, e, c, first, n)
  BY DEF Summarises

\* An entry of the directory, and of the segment in progress, is one.
LEMMA DirectoryTypes ==
    ASSUME EachRecordOnce
    PROVE  /\ \A i \in 1 .. Len(segments) :
                 /\ segments[i].first \in Nat /\ segments[i].rows \in Nat
                 /\ segments[i].first + segments[i].rows <= totalRows
                 /\ \A c \in Cols : segments[i].columns[c] \in ColumnDir
           /\ seg \in SegmentDir /\ seg.columns \in Seq(ColumnDir)
           /\ Len(seg.columns) \in Nat
           /\ \A c \in 1 .. Len(seg.columns) : seg.columns[c] \in ColumnDir
<1>1. ASSUME NEW i \in 1 .. Len(segments)
      PROVE  /\ segments[i].first \in Nat /\ segments[i].rows \in Nat
             /\ segments[i].first + segments[i].rows <= totalRows
             /\ \A c \in Cols : segments[i].columns[c] \in ColumnDir
  <2>1. segments[i] \in SegmentDir
    BY DEF EachRecordOnce, TypeOK
  <2>2. Len(segments[i].columns) = NCols \/ Cols = {}
    BY DEF EachRecordOnce, SegmentsStored
  <2>3. segments[i].columns \in Seq(ColumnDir)
    BY <2>1 DEF SegmentDir
  <2>4. \A c \in Cols : segments[i].columns[c] \in ColumnDir
    BY <2>2, <2>3 DEF Cols
  <2> QED
    BY <2>1, <2>4 DEF SegmentDir, EachRecordOnce, SegmentsTile
<1>2. seg \in SegmentDir /\ seg.columns \in Seq(ColumnDir)
  BY DEF EachRecordOnce, TypeOK, SegmentDir
<1> QED
  BY <1>1, <1>2

\* Every entry of the directory stays true while records and cells are added.
LEMMA EntriesKept ==
    ASSUME EachRecordOnce, EntriesTrue, Extends(file, file'),
           \A r \in 1 .. Len(accepted) : accepted'[r] = accepted[r],
           UNCHANGED segments
    PROVE  EntriesTrue'
<1> SUFFICES ASSUME NEW i \in 1 .. Len(segments), NEW c \in Cols
             PROVE  /\ Summarises(accepted', segments[i].columns[c], c,
                                  segments[i].first, segments[i].rows)
                    /\ Indexes(file', accepted', segments[i].columns[c], c,
                               segments[i].first, segments[i].rows)
  BY DEF EntriesTrue
<1>1. /\ segments[i].first \in Nat /\ segments[i].rows \in Nat
      /\ segments[i].first + segments[i].rows <= totalRows
      /\ segments[i].columns[c] \in ColumnDir
  BY DirectoryTypes
<1>2. \A r \in 1 .. (segments[i].first + segments[i].rows) : accepted'[r] = accepted[r]
  BY <1>1, Counts
<1>3. /\ Summarises(accepted, segments[i].columns[c], c, segments[i].first, segments[i].rows)
      /\ Indexes(file, accepted, segments[i].columns[c], c, segments[i].first, segments[i].rows)
  BY DEF EntriesTrue
<1> DEFINE cd == segments[i].columns[c]
           first == segments[i].first
           n == segments[i].rows
<1>4. /\ cd \in ColumnDir /\ first \in Nat /\ n \in Nat
      /\ \A r \in 1 .. (first + n) : accepted'[r] = accepted[r]
      /\ Summarises(accepted, cd, c, first, n) /\ Indexes(file, accepted, cd, c, first, n)
  BY <1>1, <1>2, <1>3
<1>5. SUFFICES Summarises(accepted', cd, c, first, n) /\ Indexes(file', accepted', cd, c, first, n)
  OBVIOUS
<1> HIDE DEF cd, first, n
<1> QED
  BY <1>4, EntryKept

\* A step that writes no footer leads to no index it did not lead to before.
LEMMA BeforeKept ==
    ASSUME EachRecordOnce, IndexesBefore, [Next]_vars, ~ WriteFooter
    PROVE  IndexesBefore'
<1>1. FooterCells' = FooterCells /\ \A k \in FooterCells : file'[k] = file[k]
  BY OtherSteps
<1> QED
  BY <1>1 DEF IndexesBefore, FooterCells

(***************************************************************************)
(* The statistics of a builder.                                            *)
(***************************************************************************)

\* A builder only keeps marks when one of them is of a null (builder.go:52).
LEMMA MarksKept ==
    ASSUME NEW b, Sound(b), MarksMeanNull(b), NEW v \in Word \cup {Null}
    PROVE  MarksMeanNull(AppendCell(b, v))
<1> SUFFICES ASSUME NEW a, a = AppendCell(b, v) PROVE MarksMeanNull(a)
  OBVIOUS
<1> DEFINE marks == IF HasNulls(b) THEN b.present ELSE [i \in 1 .. Rows(b) |-> 1]
<1>1. Rows(a) = Rows(b) + 1 /\ Rows(b) \in Nat
  BY AppendCellFacts, SoundFields
<1>2. marks \in Seq({0, 1}) /\ Len(marks) = Rows(b)
  <2>1. CASE HasNulls(b)
    BY <2>1, SoundFields
  <2>2. CASE ~ HasNulls(b)
    BY <1>1, <2>2
  <2> QED
    BY <2>1, <2>2
<1>3. CASE v = Null
  <2>1. a.present = Append(marks, 0)
    BY <1>3 DEF AppendCell, AppendNull
  <2>2. Append(marks, 0)[Rows(b) + 1] = 0
    <3> HIDE DEF marks
    <3> QED
      BY <1>2, AppendProperties
  <2>3. a.present[Rows(b) + 1] = 0
    BY <2>1, <2>2
  <2>4. Rows(b) + 1 \in 1 .. Rows(a)
    BY <1>1
  <2> QED
    BY <2>3, <2>4 DEF MarksMeanNull
<1>4. CASE v # Null /\ HasNulls(b)
  <2>1. a.present = Append(b.present, 1)
    BY <1>4 DEF AppendCell, AppendValue
  <2>2. PICK i \in 1 .. Rows(b) : b.present[i] = 0
    BY <1>4 DEF MarksMeanNull
  <2>3. Append(b.present, 1)[i] = b.present[i]
    BY <1>4, SoundFields, AppendProperties
  <2>4. a.present[i] = 0
    BY <2>1, <2>2, <2>3
  <2>5. i \in 1 .. Rows(a)
    BY <1>1
  <2> QED
    BY <2>4, <2>5 DEF MarksMeanNull
<1>5. CASE v # Null /\ ~ HasNulls(b)
  <2>1. a.present = <<>>
    BY <1>5 DEF AppendCell, AppendValue
  <2> QED
    BY <2>1 DEF MarksMeanNull, HasNulls
<1> QED
  BY <1>3, <1>4, <1>5

\* Present rows of a builder are the rows whose cell is no null.
LEMMA PresentCells ==
    ASSUME NEW b, Sound(b), NEW i \in 1 .. Rows(b)
    PROVE  /\ i \in PresentRows(b) <=> CellAt(b, i) # Null
           /\ i \in PresentRows(b) => CellAt(b, i) = b.vals[i]
<1>1. b.vals[i] # Null
  BY SoundFields, WordFacts
<1> QED
  BY <1>1 DEF PresentRows, CellAt

\* Stats (builder.go:93) tells of the rows the builder holds.
LEMMA StatsSummarise ==
    ASSUME NEW b, Sound(b), MarksMeanNull(b), NEW recs, NEW c, NEW first \in Nat,
           \A i \in 1 .. Rows(b) : CellAt(b, i) = recs[first + i][c]
    PROVE  /\ Summarises(recs, Stats(b), c, first, Rows(b))
           /\ PresentValues(b) = ValuesIn(recs, c, first, Rows(b))
<1> DEFINE n == Rows(b)
           R == PresentIn(recs, c, first, n)
<1>1. n \in Nat
  BY SoundFields
<1>2. \A i \in 1 .. n : first + i \in (first + 1) .. (first + n)
  BY <1>1
<1>3. \A r \in (first + 1) .. (first + n) : r - first \in 1 .. n /\ first + (r - first) = r
  BY <1>1
<1> HIDE DEF n
<1>4. \A i \in 1 .. n : i \in PresentRows(b) <=> first + i \in R
  BY <1>2, PresentCells DEF PresentIn, n
<1>5. PresentValues(b) = ValuesIn(recs, c, first, n)
  <2>1. ASSUME NEW v \in PresentValues(b) PROVE v \in ValuesIn(recs, c, first, n)
    <3>1. PICK i \in PresentRows(b) : v = b.vals[i]
      BY DEF PresentValues
    <3>2. i \in 1 .. n
      BY <3>1 DEF PresentRows, n
    <3>3. v = recs[first + i][c] /\ v # Null
      BY <3>1, <3>2, PresentCells DEF n
    <3> QED
      BY <1>2, <3>2, <3>3 DEF ValuesIn, CellsIn
  <2>2. ASSUME NEW v \in ValuesIn(recs, c, first, n) PROVE v \in PresentValues(b)
    <3>1. PICK r \in (first + 1) .. (first + n) : v = recs[r][c]
      BY DEF ValuesIn, CellsIn
    <3>2. v # Null
      BY DEF ValuesIn
    <3>3. r - first \in 1 .. n /\ v = CellAt(b, r - first)
      BY <1>3, <3>1 DEF n
    <3>4. r - first \in PresentRows(b) /\ v = b.vals[r - first]
      BY <3>2, <3>3, PresentCells DEF n
    <3> QED
      BY <3>4 DEF PresentValues
  <2> QED
    BY <2>1, <2>2
<1>6. Cardinality(PresentRows(b)) = Cardinality(R)
  <2> DEFINE f == [i \in PresentRows(b) |-> first + i]
  <2>1. PresentRows(b) \subseteq 1 .. n /\ R \subseteq (first + 1) .. (first + n)
    BY DEF PresentRows, PresentIn, n
  <2>2. IsFiniteSet(1 .. n) /\ IsFiniteSet(PresentRows(b))
    <3>1. IsFiniteSet(1 .. n)
      BY <1>1, FS_Interval
    <3> QED
      BY <2>1, <3>1, FS_Subset
  <2>3. f \in [PresentRows(b) -> R]
    BY <1>4, <2>1
  <2>4. ASSUME NEW i \in PresentRows(b), NEW j \in PresentRows(b), f[i] = f[j] PROVE i = j
    BY <1>1, <2>1, <2>4
  <2>5. ASSUME NEW r \in R PROVE \E i \in PresentRows(b) : f[i] = r
    <3>1. r - first \in 1 .. n /\ first + (r - first) = r
      BY <1>3, <2>1
    <3>2. r - first \in PresentRows(b)
      BY <1>4, <3>1
    <3> QED
      BY <3>1, <3>2
  <2> HIDE DEF f
  <2>6. f \in Bijection(PresentRows(b), R)
    BY <2>3, <2>4, <2>5 DEF Bijection, Injection, Surjection, IsInjective
  <2>7. ExistsBijection(PresentRows(b), R)
    BY <2>6 DEF ExistsBijection
  <2> QED
    BY <2>2, <2>7, FS_Bijection
<1>7. HasNulls(b) <=> Null \in CellsIn(recs, c, first, n)
  <2>1. ASSUME HasNulls(b) PROVE Null \in CellsIn(recs, c, first, n)
    <3>1. PICK i \in 1 .. n : b.present[i] = 0
      BY <2>1 DEF MarksMeanNull, n
    <3>2. CellAt(b, i) = Null
      BY <2>1, <3>1 DEF CellAt, Present
    <3> QED
      BY <1>2, <3>2 DEF CellsIn, n
  <2>2. ASSUME Null \in CellsIn(recs, c, first, n) PROVE HasNulls(b)
    <3>1. PICK r \in (first + 1) .. (first + n) : recs[r][c] = Null
      BY <2>2 DEF CellsIn
    <3>2. r - first \in 1 .. n /\ CellAt(b, r - first) = Null
      BY <1>3, <3>1 DEF n
    <3>3. r - first \notin PresentRows(b)
      BY <3>2, PresentCells DEF n
    <3> QED
      BY <3>2, <3>3 DEF PresentRows, Present, n
  <2> QED
    BY <2>1, <2>2
<1> DEFINE S == PresentValues(b)
<1>8. S # {} => /\ Min(S) \in S /\ Max(S) \in S
                /\ \A v \in S : Min(S) <= v /\ v <= Max(S)
  <2>1. 2 * HalfWord - 1 \in Nat
    BY ColumnAssumption
  <2>2. S \subseteq Word
    BY SoundFields DEF PresentValues, PresentRows
  <2>3. S \in SUBSET Nat /\ S \in SUBSET (0 .. 2 * HalfWord - 1)
    BY <2>2, WordFacts DEF Word
  <2> HIDE DEF S
  <2>4. ASSUME S # {}
        PROVE  /\ Min(S) \in S /\ Max(S) \in S
               /\ (\A v \in S : Min(S) <= v) /\ (\A v \in S : Max(S) >= v)
    BY <2>1, <2>3, <2>4, MinOfNats, MaxOfNats
  <2>5. ASSUME S # {}, NEW v \in S PROVE Max(S) >= v => v <= Max(S)
    BY <2>3, <2>4, <2>5
  <2> QED
    BY <2>4, <2>5
<1>9. /\ Stats(b).hasNulls = HasNulls(b)
      /\ Stats(b).nonNull = Cardinality(PresentRows(b))
      /\ S # {} => Stats(b).min = Min(S) /\ Stats(b).max = Max(S)
  BY DEF Stats
<1> HIDE DEF S
<1>10. Summarises(recs, Stats(b), c, first, n)
  <2>1. Stats(b).nonNull = Cardinality(PresentIn(recs, c, first, n))
    BY <1>6, <1>9
  <2>2. Stats(b).hasNulls <=> Null \in CellsIn(recs, c, first, n)
    BY <1>7, <1>9
  <2>3. S # {} => /\ Stats(b).min \in S /\ Stats(b).max \in S
                  /\ \A v \in S : Stats(b).min <= v /\ v <= Stats(b).max
    BY <1>8, <1>9
  <2>4. S = ValuesIn(recs, c, first, n)
    BY <1>5 DEF S
  <2> QED
    BY <2>1, <2>2, <2>3, <2>4 DEF Summarises
<1> QED
  BY <1>5, <1>10 DEF n

\* So it is with the builders of the writer and the rows not yet in a segment.
LEMMA BuffersSummarise ==
    ASSUME EachRecordOnce, DirectoryTrue, NEW c \in Cols
    PROVE  /\ Sound(builders[c])
           /\ Summarises(accepted, Stats(builders[c]), c, totalRows, Len(accepted) - totalRows)
           /\ PresentValues(builders[c])
                 = ValuesIn(accepted, c, totalRows, Len(accepted) - totalRows)
<1>1. Sound(builders[c]) /\ MarksMeanNull(builders[c]) /\ totalRows \in Nat
  BY DEF EachRecordOnce, TypeOK, DirectoryTrue
<1>2. /\ Rows(builders[c]) = Len(accepted) - totalRows
      /\ \A i \in 1 .. Rows(builders[c]) :
            CellAt(builders[c], i) = accepted[totalRows + i][c]
  BY DEF EachRecordOnce, BuffersHoldTail
<1> DEFINE b == builders[c]
<1>3. /\ Sound(b) /\ MarksMeanNull(b)
      /\ \A i \in 1 .. Rows(b) : CellAt(b, i) = accepted[totalRows + i][c]
  BY <1>1, <1>2
<1> HIDE DEF b
<1>4. /\ Summarises(accepted, Stats(b), c, totalRows, Rows(b))
      /\ PresentValues(b) = ValuesIn(accepted, c, totalRows, Rows(b))
  BY <1>1, <1>3, StatsSummarise
<1> QED
  BY <1>1, <1>2, <1>4 DEF b

(***************************************************************************)
(* The invariant, action by action.                                        *)
(***************************************************************************)

LEMMA InitDirectory == Init => DirectoryTrue
<1> SUFFICES ASSUME Init PROVE DirectoryTrue
  OBVIOUS
<1>1. /\ file = <<>> /\ segments = <<>> /\ step = "new"
      /\ \A c \in Cols : builders[c] = NewBuilder
  BY DEF Init, NoRows
<1>2. MarksMeanNull(NewBuilder)
  BY DEF MarksMeanNull, HasNulls, NewBuilder
<1> QED
  BY <1>1, <1>2 DEF DirectoryTrue, EntriesTrue, ProgressTrue, IndexesBefore

\* A step that leaves builders and directory alone, and is not in the middle
\* of a segment when it is done.
LEMMA QuietDirectory ==
    ASSUME EachRecordOnce, DirectoryTrue, [Next]_vars, ~ WriteFooter,
           UNCHANGED <<builders, segments, accepted>>,
           step' \in {"chunk", "index", "finish"} => step' = "chunk" /\ seg'.columns = <<>>
    PROVE  DirectoryTrue'
<1>1. Extends(file, file')
  BY OtherSteps
<1>2. EntriesTrue'
  BY <1>1, EntriesKept DEF DirectoryTrue
<1>3. IndexesBefore'
  BY BeforeKept DEF DirectoryTrue
<1>4. ProgressTrue'
  BY DEF ProgressTrue
<1> QED
  BY <1>2, <1>3, <1>4 DEF DirectoryTrue

\* Append adds a cell to every builder and touches nothing written.
LEMMA AppendDirectory ==
    ASSUME EachRecordOnce, DirectoryTrue, NEW r \in Records, AppendRecord(r)
    PROVE  DirectoryTrue'
<1>1. /\ \A k \in 1 .. Len(accepted) : accepted'[k] = accepted[k]
      /\ UNCHANGED <<file, segments>>
  BY AppendProperties DEF AppendRecord, EachRecordOnce, TypeOK
<1>2. EntriesTrue'
  <2>1. Extends(file, file')
    BY <1>1 DEF Extends, EachRecordOnce, TypeOK
  <2> QED
    BY <1>1, <2>1, EntriesKept DEF DirectoryTrue
<1>3. ASSUME NEW c \in Cols PROVE MarksMeanNull(builders'[c])
  <2>1. r[c] \in Word \cup {Null}
    BY WriterAssumption
  <2>2. builders'[c] = AppendCell(builders[c], r[c])
    BY DEF AppendRecord
  <2>3. Sound(builders[c]) /\ MarksMeanNull(builders[c])
    BY DEF EachRecordOnce, TypeOK, DirectoryTrue
  <2> QED
    BY <2>1, <2>2, <2>3, MarksKept
<1>4. ProgressTrue'
  <2>1. step' \in {"chunk", "index", "finish"} => step' = "chunk" /\ seg'.columns = <<>>
    BY DEF AppendRecord, EnterFlush, OpenSegment
  <2> QED
    BY <2>1 DEF ProgressTrue
<1>5. IndexesBefore'
  BY <1>1 DEF DirectoryTrue, IndexesBefore
<1> QED
  BY <1>2, <1>3, <1>4, <1>5 DEF DirectoryTrue

\* What WriteChunk makes of the segment in progress.
LEMMA ChunkOutcome ==
    ASSUME EachRecordOnce, WriteChunk
    PROVE  \/ Return
           \/ /\ Len(seg.columns) = col - 1 /\ Len(seg'.columns) = col
              /\ seg'.first = totalRows /\ seg'.rows = Len(accepted) - totalRows
              /\ \A c \in 1 .. Len(seg.columns) : seg'.columns[c] = seg.columns[c]
              /\ seg'.columns[col] = ColumnEntry(builders[col])
              /\ \/ step' = "index" /\ col' = col /\ col \in Indexed
                 \/ step' \in {"chunk", "finish"} /\ col \notin Indexed
<1> DEFINE e == ColumnEntry(builders[col])
           cs == Append(seg.columns, e)
<1>1. /\ seg.columns \in Seq(ColumnDir) /\ seg \in SegmentDir /\ col \in Nat
      /\ e \in ColumnDir
  BY DirectoryTypes, EntryTypes DEF EachRecordOnce, TypeOK, Cols
<1> HIDE DEF e
<1>2. /\ cs \in Seq(ColumnDir) /\ Len(cs) = Len(seg.columns) + 1
      /\ \A i \in 1 .. Len(seg.columns) : cs[i] = seg.columns[i]
      /\ cs[Len(seg.columns) + 1] = e
  BY <1>1, AppendProperties
<1> HIDE DEF cs
<1>3. /\ Len(seg.columns) = col - 1
      /\ seg.first = totalRows /\ seg.rows = Len(accepted) - totalRows
  BY DEF WriteChunk, EachRecordOnce, SegmentInProgress
<1>4. CASE /\ seg' = [seg EXCEPT !.columns = cs]
           /\ IF col \in Indexed THEN step' = "index" /\ UNCHANGED col ELSE NextColumn
  <2>1. seg'.first = seg.first /\ seg'.rows = seg.rows /\ seg'.columns = cs
    BY <1>1, <1>2, <1>4, SegmentUpdate
  <2>2. \/ step' = "index" /\ col' = col /\ col \in Indexed
        \/ step' \in {"chunk", "finish"} /\ col \notin Indexed
    BY <1>4 DEF NextColumn
  <2>3. Len(seg.columns) + 1 = col /\ Len(cs) = col
    BY <1>1, <1>2, <1>3
  <2> QED
    BY <1>2, <1>3, <2>1, <2>2, <2>3 DEF e
<1> QED
  BY <1>4 DEF WriteChunk, cs, e

\* WriteChunk's entry tells of the rows that are buffered.
LEMMA ChunkDirectory ==
    ASSUME EachRecordOnce, DirectoryTrue, WriteChunk
    PROVE  DirectoryTrue'
<1>1. [Next]_vars /\ ~ WriteFooter /\ UNCHANGED <<builders, segments, accepted, totalRows>>
  BY DEF Next, WriteChunk, WriteFooter, meta
<1>2. Extends(file, file')
  BY <1>1, OtherSteps
<1>3. CASE Return
  BY <1>1, <1>3, QuietDirectory DEF Return
<1>4. CASE /\ Len(seg.columns) = col - 1 /\ Len(seg'.columns) = col
           /\ seg'.first = totalRows /\ seg'.rows = Len(accepted) - totalRows
           /\ \A c \in 1 .. Len(seg.columns) : seg'.columns[c] = seg.columns[c]
           /\ seg'.columns[col] = ColumnEntry(builders[col])
           /\ \/ step' = "index" /\ col' = col /\ col \in Indexed
              \/ step' \in {"chunk", "finish"} /\ col \notin Indexed
  <2> DEFINE n == Len(accepted) - totalRows
  <2>1. n \in Nat /\ totalRows \in Nat /\ totalRows + n = Len(accepted)
    BY Counts
  <2>2. /\ step = "chunk" /\ col \in Cols /\ seg.first = totalRows /\ seg.rows = n
    BY DEF WriteChunk, EachRecordOnce, TypeOK, SegmentInProgress
  <2> HIDE DEF n
  <2>3. ASSUME NEW c \in 1 .. Len(seg.columns)
        PROVE  /\ Summarises(accepted, seg.columns[c], c, totalRows, n)
               /\ Indexes(file', accepted, seg.columns[c], c, totalRows, n)
    <3>1. /\ Summarises(accepted, seg.columns[c], c, totalRows, n)
          /\ Indexes(file, accepted, seg.columns[c], c, totalRows, n)
      BY <2>2 DEF DirectoryTrue, ProgressTrue
    <3>2. seg.columns[c] \in ColumnDir
      BY DirectoryTypes
    <3> QED
      BY <1>2, <2>1, <3>1, <3>2, EntryKept
  <2>4. Summarises(accepted, ColumnEntry(builders[col]), col, totalRows, n)
    <3>1. Summarises(accepted, Stats(builders[col]), col, totalRows, n)
      BY <2>2, BuffersSummarise DEF n
    <3> QED
      BY <3>1, SameSummary DEF ColumnEntry
  <2>5. col \notin Indexed =>
           Indexes(file', accepted, ColumnEntry(builders[col]), col, totalRows, n)
    BY DEF Indexes, ColumnEntry
  <2>6. ProgressTrue'
    <3> SUFFICES ASSUME NEW c \in 1 .. Len(seg'.columns)
                 PROVE  /\ Summarises(accepted, seg'.columns[c], c, totalRows, n)
                        /\ \/ step' = "index" /\ c = col'
                           \/ Indexes(file', accepted, seg'.columns[c], c, totalRows, n)
      BY <1>1, <1>4 DEF ProgressTrue, n
    <3>1. CASE c \in 1 .. Len(seg.columns)
      BY <1>4, <2>3, <3>1
    <3>2. CASE c \notin 1 .. Len(seg.columns)
      <4>1. c = col
        BY <1>4, <2>2, <3>2 DEF Cols
      <4> QED
        BY <1>4, <2>4, <2>5, <4>1
    <3> QED
      BY <3>1, <3>2
  <2>7. EntriesTrue'
    BY <1>1, <1>2, EntriesKept DEF DirectoryTrue
  <2>8. IndexesBefore'
    BY <1>1, BeforeKept DEF DirectoryTrue
  <2> QED
    BY <1>1, <2>6, <2>7, <2>8 DEF DirectoryTrue
<1> QED
  BY <1>3, <1>4, ChunkOutcome

\* What WriteIndex makes of the segment in progress, and of the file.
LEMMA IndexOutcome ==
    ASSUME EachRecordOnce, WriteIndex
    PROVE  \/ Return
           \/ /\ Grows("index", [keys |-> PresentValues(builders[col])], IndexLen)
              /\ Len(seg.columns) = col /\ Len(seg'.columns) = col
              /\ seg'.first = totalRows /\ seg'.rows = Len(accepted) - totalRows
              /\ \A c \in 1 .. Len(seg.columns) :
                    seg'.columns[c] = IF c = col THEN WithIndex(seg.columns[col])
                                      ELSE seg.columns[c]
              /\ step' \in {"chunk", "finish"}
<1> DEFINE k == [keys |-> PresentValues(builders[col])]
           cd == WithIndex(seg.columns[col])
           cs == [seg.columns EXCEPT ![col] = WithIndex(seg.columns[col])]
<1>1. step = "index" /\ col \in Cols /\ k \in Payload /\ IndexLen \in Nat
  BY PayloadTypes, FormatAssumption DEF WriteIndex, EachRecordOnce, TypeOK
<1>2. /\ seg.columns \in Seq(ColumnDir) /\ seg \in SegmentDir
      /\ Len(seg.columns) = col
      /\ seg.first = totalRows /\ seg.rows = Len(accepted) - totalRows
  BY <1>1, DirectoryTypes DEF EachRecordOnce, SegmentInProgress
<1>3. col \in 1 .. Len(seg.columns) /\ seg.columns[col] \in ColumnDir
  BY <1>1, <1>2 DEF Cols
<1>4. cd \in ColumnDir
  BY <1>3, EntryTypes, EmptyBuilder DEF EachRecordOnce
<1>5. cs = [seg.columns EXCEPT ![col] = cd]
  OBVIOUS
<1> HIDE DEF cd, cs
<1>6. /\ cs \in Seq(ColumnDir) /\ Len(cs) = Len(seg.columns)
      /\ \A c \in 1 .. Len(seg.columns) : cs[c] = IF c = col THEN cd ELSE seg.columns[c]
  BY <1>2, <1>3, <1>4, <1>5, ExceptSeq
<1>7. CASE Written(IndexBlock(builders[col])) /\ seg' = [seg EXCEPT !.columns = cs] /\ NextColumn
  <2>1. Grows("index", k, IndexLen)
    BY <1>1, <1>7, WrittenGrows DEF IndexBlock, EachRecordOnce
  <2>2. seg'.first = seg.first /\ seg'.rows = seg.rows /\ seg'.columns = cs
    BY <1>2, <1>6, <1>7, SegmentUpdate
  <2>3. step' \in {"chunk", "finish"}
    BY <1>7 DEF NextColumn
  <2> QED
    BY <1>2, <1>6, <2>1, <2>2, <2>3 DEF cd
<1> QED
  BY <1>7 DEF WriteIndex, cs

\* WriteIndex's blob answers for the rows that are buffered.
LEMMA IndexDirectory ==
    ASSUME EachRecordOnce, DirectoryTrue, WriteIndex
    PROVE  DirectoryTrue'
<1>1. [Next]_vars /\ ~ WriteFooter /\ UNCHANGED <<builders, segments, accepted, totalRows>>
  BY DEF Next, WriteIndex, WriteFooter, meta
<1>2. Extends(file, file')
  BY <1>1, OtherSteps
<1>3. CASE Return
  BY <1>1, <1>3, QuietDirectory DEF Return
<1>4. CASE /\ Grows("index", [keys |-> PresentValues(builders[col])], IndexLen)
           /\ Len(seg.columns) = col /\ Len(seg'.columns) = col
           /\ seg'.first = totalRows /\ seg'.rows = Len(accepted) - totalRows
           /\ \A c \in 1 .. Len(seg.columns) :
                 seg'.columns[c] = IF c = col THEN WithIndex(seg.columns[col])
                                   ELSE seg.columns[c]
           /\ step' \in {"chunk", "finish"}
  <2> DEFINE n == Len(accepted) - totalRows
             cd == WithIndex(seg.columns[col])
  <2>1. n \in Nat /\ totalRows \in Nat /\ totalRows + n = Len(accepted)
    BY Counts
  <2>2. /\ step = "index" /\ col \in Cols /\ seg.first = totalRows /\ seg.rows = n
    BY DEF WriteIndex, EachRecordOnce, TypeOK, SegmentInProgress
  <2>3. /\ seg.columns[col] \in ColumnDir /\ col \in Indexed
        /\ Summarises(accepted, seg.columns[col], col, totalRows, n)
    BY <1>4, <2>2, DirectoryTypes DEF DirectoryTrue, ProgressTrue, Cols
  <2>4. /\ cd.indexOffset = pos /\ cd.indexLength = IndexLen
        /\ Summarises(accepted, cd, col, totalRows, n)
    <3>1. /\ cd.indexOffset = pos /\ cd.indexLength = IndexLen
          /\ cd.nonNull = seg.columns[col].nonNull /\ cd.hasNulls = seg.columns[col].hasNulls
          /\ cd.min = seg.columns[col].min /\ cd.max = seg.columns[col].max
      BY <2>3 DEF WithIndex, ColumnDir
    <3> HIDE DEF cd, n
    <3> QED
      BY <2>3, <3>1, SameSummary
  <2> HIDE DEF cd
  <2>5. Indexes(file', accepted, cd, col, totalRows, n)
    <3>1. /\ pos = Len(file) /\ pos \in Nat /\ Len(file') = pos + IndexLen
          /\ IndexLen \in Nat \ {0} /\ 1 \in 1 .. IndexLen
      BY <1>4, FormatAssumption DEF Grows, EachRecordOnce, TypeOK
    <3>2. \A p \in 1 .. IndexLen :
             /\ file'[pos + p].kind = "index" /\ file'[pos + p].part = p
             /\ file'[pos + p].of = [keys |-> PresentValues(builders[col])]
      BY <1>4, <3>1 DEF Grows
    <3>3. IsBlock(file', pos, IndexLen, "index")
      BY <3>1, <3>2 DEF IsBlock
    <3>4. file'[pos + 1].of.keys = ValuesIn(accepted, col, totalRows, n)
      BY <2>2, <3>1, <3>2, BuffersSummarise DEF n
    <3> QED
      BY <2>3, <2>4, <3>3, <3>4 DEF Indexes, IndexReads, IndexKeys
  <2> HIDE DEF n
  <2>6. ASSUME NEW c \in 1 .. Len(seg.columns), c # col
        PROVE  /\ Summarises(accepted, seg.columns[c], c, totalRows, n)
               /\ Indexes(file', accepted, seg.columns[c], c, totalRows, n)
    <3>1. /\ Summarises(accepted, seg.columns[c], c, totalRows, n)
          /\ Indexes(file, accepted, seg.columns[c], c, totalRows, n)
      BY <2>2, <2>6 DEF DirectoryTrue, ProgressTrue
    <3>2. seg.columns[c] \in ColumnDir
      BY DirectoryTypes
    <3> QED
      BY <1>2, <2>1, <3>1, <3>2, EntryKept
  <2>7. ProgressTrue'
    <3> SUFFICES ASSUME NEW c \in 1 .. Len(seg'.columns)
                 PROVE  /\ Summarises(accepted, seg'.columns[c], c, totalRows, n)
                        /\ Indexes(file', accepted, seg'.columns[c], c, totalRows, n)
      BY <1>1, <1>4 DEF ProgressTrue, n
    <3>1. CASE c = col
      BY <1>4, <2>4, <2>5, <3>1 DEF cd
    <3>2. CASE c # col
      BY <1>4, <2>6, <3>2
    <3> QED
      BY <3>1, <3>2
  <2>8. EntriesTrue'
    BY <1>1, <1>2, EntriesKept DEF DirectoryTrue
  <2>9. IndexesBefore'
    BY <1>1, BeforeKept DEF DirectoryTrue
  <2> QED
    BY <1>1, <2>7, <2>8, <2>9 DEF DirectoryTrue
<1> QED
  BY <1>3, <1>4, IndexOutcome

\* What FinishSegment makes of the directory.
LEMMA FinishOutcome ==
    ASSUME EachRecordOnce, EachRecordOnce', FinishSegment
    PROVE  /\ UNCHANGED <<file, accepted>> /\ step' \in {"footer", "idle"}
           /\ \A c \in Cols : builders'[c] = NewBuilder
           /\ totalRows' = Len(accepted) /\ seg.rows = Len(accepted) - totalRows
           /\ seg.first = totalRows /\ Len(seg.columns) = NCols
           /\ Len(segments') = Len(segments) + 1 /\ Len(segments) \in Nat
           /\ \A i \in 1 .. Len(segments) : segments'[i] = segments[i]
           /\ segments'[Len(segments) + 1] = Finished
           /\ Finished.first = seg.first /\ Finished.rows = seg.rows
           /\ Finished.columns = seg.columns
           /\ HasTimes => /\ Finished.minTS = AsInt64(TimeStats.min)
                          /\ Finished.maxTS = AsInt64(TimeStats.max)
<1>1. UNCHANGED <<file, accepted>> /\ step' \in {"footer", "idle"} /\ step = "finish"
  BY DEF FinishSegment, Return
<1>2. \A c \in Cols : builders'[c] = NewBuilder
  BY EmptyBuilder DEF FinishSegment
<1>3. /\ seg \in SegmentDir /\ seg.first = totalRows /\ seg.rows = Len(accepted) - totalRows
      /\ Len(seg.columns) = NCols
  BY <1>1 DEF EachRecordOnce, TypeOK, SegmentInProgress
<1>4. totalRows' = Len(accepted)
  BY <1>3, Counts DEF FinishSegment
<1>5. /\ Finished.first = seg.first /\ Finished.rows = seg.rows
      /\ Finished.columns = seg.columns
      /\ HasTimes => /\ Finished.minTS = AsInt64(TimeStats.min)
                     /\ Finished.maxTS = AsInt64(TimeStats.max)
  BY <1>3 DEF Finished, SegmentDir
<1>6. segments' = Append(segments, Finished) /\ segments \in Seq(SegmentDir)
      /\ Len(segments) \in Nat /\ segments' \in Seq(SegmentDir)
  BY DEF FinishSegment, EachRecordOnce, TypeOK
<1>7. /\ Len(segments') = Len(segments) + 1
      /\ segments'[Len(segments) + 1] = Finished
      /\ \A i \in 1 .. Len(segments) : segments'[i] = segments[i]
  <2> DEFINE new == Finished
  <2>1. segments' = Append(segments, new)
    BY <1>6
  <2> HIDE DEF new
  <2>2. /\ Len(segments') = Len(segments) + 1
        /\ segments'[Len(segments) + 1] = new
        /\ \A i \in 1 .. Len(segments) : segments'[i] = segments[i]
    BY <1>6, <2>1
  <2> QED
    BY <2>2 DEF new
<1> QED
  BY <1>1, <1>2, <1>3, <1>4, <1>5, <1>6, <1>7

\* FinishSegment: the entries of the segment become entries of the directory.
LEMMA FinishDirectory ==
    ASSUME EachRecordOnce, EachRecordOnce', DirectoryTrue, FinishSegment
    PROVE  DirectoryTrue'
<1>1. /\ UNCHANGED <<file, accepted>> /\ step' \in {"footer", "idle"}
      /\ \A c \in Cols : builders'[c] = NewBuilder
      /\ Len(seg.columns) = NCols
      /\ Len(segments') = Len(segments) + 1 /\ Len(segments) \in Nat
      /\ \A i \in 1 .. Len(segments) : segments'[i] = segments[i]
      /\ segments'[Len(segments) + 1] = Finished
      /\ Finished.first = seg.first /\ Finished.rows = seg.rows
      /\ Finished.columns = seg.columns
  BY FinishOutcome
<1>2. MarksMeanNull(NewBuilder)
  BY DEF MarksMeanNull, HasNulls, NewBuilder
<1>3. ASSUME NEW i \in 1 .. Len(segments'), NEW c \in Cols
      PROVE  /\ Summarises(accepted, segments'[i].columns[c], c,
                           segments'[i].first, segments'[i].rows)
             /\ Indexes(file, accepted, segments'[i].columns[c], c,
                        segments'[i].first, segments'[i].rows)
  <2>1. CASE i \in 1 .. Len(segments)
    <3>1. segments'[i] = segments[i]
      BY <1>1, <2>1
    <3> QED
      BY <2>1, <3>1 DEF DirectoryTrue, EntriesTrue
  <2>2. CASE i \notin 1 .. Len(segments)
    <3>1. i = Len(segments) + 1
      BY <1>1, <2>2
    <3>2. segments'[i] = Finished
      BY <1>1, <3>1
    <3>3. c \in 1 .. Len(seg.columns) /\ step = "finish"
      BY <1>1 DEF Cols, FinishSegment
    <3>4. /\ Summarises(accepted, seg.columns[c], c, seg.first, seg.rows)
          /\ Indexes(file, accepted, seg.columns[c], c, seg.first, seg.rows)
      BY <3>3 DEF DirectoryTrue, ProgressTrue
    <3> QED
      BY <1>1, <3>2, <3>4
  <2> QED
    BY <2>1, <2>2
<1>4. EntriesTrue'
  BY <1>1, <1>3 DEF EntriesTrue
<1>5. ProgressTrue' /\ IndexesBefore'
  BY <1>1 DEF DirectoryTrue, ProgressTrue, IndexesBefore
<1> QED
  BY <1>1, <1>2, <1>4, <1>5 DEF DirectoryTrue

\* writeFooter: every index the directory leads to is already in the file.
LEMMA FooterDirectory ==
    ASSUME EachRecordOnce, DirectoryTrue, WriteFooter
    PROVE  DirectoryTrue'
<1>1. PICK n \in 0 .. FooterLen : Grows("footer", FooterNow, n)
  BY FooterWrite
<1>2. n \in Nat /\ TypeOK
  BY <1>1, FormatAssumption DEF EachRecordOnce
<1>3. /\ Extends(file, file') /\ Len(file) \in Nat /\ Len(file') = Len(file) + n
      /\ \A k \in 1 .. Len(file') :
            \/ k \in 1 .. Len(file) /\ file'[k] = file[k]
            \/ k \notin 1 .. Len(file) /\ file'[k].of = FooterNow
  BY <1>1, <1>2, AddedCells
<1>4. UNCHANGED <<builders, segments, accepted>> /\ step' = "idle"
  BY DEF WriteFooter, Return
<1>5. EntriesTrue'
  BY <1>3, <1>4, EntriesKept DEF DirectoryTrue
<1>6. ProgressTrue'
  BY <1>4 DEF ProgressTrue
<1>7. IndexesBefore'
  <2> SUFFICES ASSUME NEW end \in 1 .. Len(file'), file'[end].kind = "footer",
                      NEW i \in 1 .. Len(file'[end].of.segments), NEW c \in Indexed
               PROVE  file'[end].of.segments[i].columns[c].indexOffset + IndexLen <= end
    BY DEF IndexesBefore
  <2>1. CASE end \in 1 .. Len(file) /\ file'[end] = file[end]
    BY <2>1 DEF DirectoryTrue, IndexesBefore
  <2>2. CASE end \notin 1 .. Len(file) /\ file'[end].of = FooterNow
    <3>1. file'[end].of.segments = segments /\ Len(file) < end
      BY <1>3, <2>2 DEF FooterNow
    <3>2. c \in Cols /\ i \in 1 .. Len(segments)
      BY <3>1, FormatAssumption DEF Cols
    <3>3. segments[i].columns[c].indexOffset + IndexLen <= Len(file)
      BY <3>2 DEF DirectoryTrue, EntriesTrue, Indexes, IndexReads, IsBlock
    <3>4. segments[i].columns[c].indexOffset \in Nat /\ IndexLen \in Nat
      <4>1. segments[i].columns[c] \in ColumnDir
        BY <3>2, DirectoryTypes
      <4> QED
        BY <4>1, FormatAssumption DEF ColumnDir
    <3> QED
      BY <1>3, <3>1, <3>3, <3>4
  <2> QED
    BY <1>3, <2>1, <2>2
<1> QED
  BY <1>4, <1>5, <1>6, <1>7 DEF DirectoryTrue

\* The directory tells the truth in every reachable state.
THEOREM DirectoryAlwaysTrue == Spec => []DirectoryTrue
<1>1. Init => DirectoryTrue
  BY InitDirectory
<1>2. ASSUME EachRecordOnce, EachRecordOnce', DirectoryTrue, [Next]_vars
      PROVE  DirectoryTrue'
  <2>1. CASE NewWriter \/ Crash \/ UNCHANGED vars
    <3>1. CASE UNCHANGED vars
      BY <1>2, <3>1 DEF vars, meta, DirectoryTrue, EntriesTrue, ProgressTrue, IndexesBefore
    <3>2. CASE NewWriter \/ Crash
      <4>1. /\ ~ WriteFooter /\ UNCHANGED <<builders, segments, accepted>>
            /\ step' \in {"idle", "gone"}
        BY <3>2 DEF NewWriter, Crash, WriteFooter, Return, meta
      <4> QED
        BY <1>2, <4>1, QuietDirectory
    <3> QED
      BY <2>1, <3>1, <3>2
  <2>2. CASE Flush \/ Checkpoint \/ Close
    <3>1. /\ ~ WriteFooter /\ UNCHANGED <<builders, segments, accepted>>
          /\ step' \in {"chunk", "index", "finish"} => step' = "chunk" /\ seg'.columns = <<>>
      BY <2>2 DEF Flush, Checkpoint, Close, FlushThenFooter, EnterFlush, OpenSegment,
                  WriteFooter, meta
    <3> QED
      BY <1>2, <3>1, QuietDirectory
  <2> QED
    BY <1>2, <2>1, <2>2, AppendDirectory, ChunkDirectory, IndexDirectory, FinishDirectory,
       FooterDirectory DEF Next
<1> QED
  BY <1>1, <1>2, RecordsStoredOnce, PTL DEF Spec

\* What a footer that reads says of a segment is what the directory says, of
\* rows that were appended.
LEMMA FooterEntries ==
    ASSUME EachRecordOnce, NEW end \in Footers
    PROVE  /\ end \in 1 .. Len(file) /\ file[end].kind = "footer"
           /\ \A i \in 1 .. Len(file[end].of.segments) :
                 /\ i \in 1 .. Len(segments) /\ file[end].of.segments[i] = segments[i]
<1>1. file \in Seq(Cell) /\ end \in 1 .. Len(file) /\ FooterAt(file, end)
  BY DEF Footers, EachRecordOnce, TypeOK
<1>2. file[end].kind = "footer"
  BY <1>1, FooterCell
<1>3. /\ file[end].of \in Footer /\ Len(file[end].of.segments) <= Len(segments)
      /\ \A i \in 1 .. Len(file[end].of.segments) : file[end].of.segments[i] = segments[i]
  BY <1>1, <1>2 DEF EachRecordOnce, FootersDescribe, Describes
<1>4. Len(file[end].of.segments) \in Nat /\ Len(segments) \in Nat
  BY <1>3, Counts DEF Footer
<1> QED
  BY <1>1, <1>2, <1>3, <1>4

\* The zone maps of every segment of every footer a reader may find are exact:
\* min and max are values of the segment that bound all of them, the counts
\* tell of its nulls (builder.go:93, footer.go:23).
THEOREM ZoneMapsAreSound == Spec => []ZoneMapsSound
<1>1. ASSUME EachRecordOnce, DirectoryTrue
      PROVE  ZoneMapsSound
  <2> SUFFICES ASSUME NEW end \in Footers, NEW i \in 1 .. Len(file[end].of.segments),
                      NEW c \in Cols
               PROVE  LET s  == file[end].of.segments[i]
                          cd == s.columns[c]
                          V  == CellsOf(s, c) \ {Null}
                      IN  /\ cd.nonNull = Cardinality({r \in (s.first + 1) .. (s.first + s.rows) :
                                                          accepted[r][c] # Null})
                          /\ cd.hasNulls <=> Null \in CellsOf(s, c)
                          /\ V # {} => cd.min \in V /\ cd.max \in V
                          /\ \A v \in V : cd.min <= v /\ v <= cd.max
    BY DEF ZoneMapsSound
  <2> DEFINE s == file[end].of.segments[i]
  <2>1. Summarises(accepted, s.columns[c], c, s.first, s.rows)
    BY <1>1, FooterEntries DEF DirectoryTrue, EntriesTrue
  <2> HIDE DEF s
  <2>2. CellsOf(s, c) = CellsIn(accepted, c, s.first, s.rows)
    BY DEF CellsOf, CellsIn
  <2>3. /\ s.columns[c].nonNull
              = Cardinality({r \in (s.first + 1) .. (s.first + s.rows) : accepted[r][c] # Null})
        /\ s.columns[c].hasNulls <=> Null \in CellsOf(s, c)
        /\ CellsOf(s, c) \ {Null} # {} =>
              /\ s.columns[c].min \in CellsOf(s, c) \ {Null}
              /\ s.columns[c].max \in CellsOf(s, c) \ {Null}
        /\ \A v \in CellsOf(s, c) \ {Null} : s.columns[c].min <= v /\ v <= s.columns[c].max
    BY <2>1, <2>2 DEF Summarises, ValuesIn, PresentIn
  <2> QED
    BY <2>3 DEF s
<1> QED
  BY <1>1, RecordsStoredOnce, DirectoryAlwaysTrue, PTL

\* The index blob of every indexed column lies whole before the footer that
\* leads to it and answers for exactly the values of its segment; no other
\* column has one (writer.go:262).
THEOREM IndexesAlwaysCover == Spec => []IndexesCover
<1>1. ASSUME EachRecordOnce, DirectoryTrue
      PROVE  IndexesCover
  <2> SUFFICES ASSUME NEW end \in Footers, NEW i \in 1 .. Len(file[end].of.segments),
                      NEW c \in Cols
               PROVE  LET s  == file[end].of.segments[i]
                          cd == s.columns[c]
                      IN  IF c \in Indexed
                          THEN /\ IndexReads(Image(end), cd)
                               /\ IndexKeys(Image(end), cd) = CellsOf(s, c) \ {Null}
                          ELSE cd.indexLength = 0
    BY DEF IndexesCover
  <2> DEFINE s == file[end].of.segments[i]
             cd == s.columns[c]
  <2>1. /\ Indexes(file, accepted, cd, c, s.first, s.rows)
        /\ c \in Indexed => cd.indexOffset + IndexLen <= end
        /\ cd \in ColumnDir
    BY <1>1, FooterEntries, DirectoryTypes DEF DirectoryTrue, EntriesTrue, IndexesBefore
  <2>2. CellsOf(s, c) \ {Null} = ValuesIn(accepted, c, s.first, s.rows)
    BY DEF CellsOf, CellsIn, ValuesIn
  <2>3. end \in 0 .. Len(file) /\ Len(file) \in Nat /\ file \in Seq(Cell)
    BY <1>1, Counts, FooterEntries DEF EachRecordOnce, TypeOK
  <2>4. Len(Image(end)) = end /\ \A k \in 1 .. end : Image(end)[k] = file[k]
    BY <2>3, PrefixFacts
  <2> HIDE DEF s, cd
  <2>5. CASE c \in Indexed
    <3>1. /\ cd.indexOffset \in Nat /\ IndexLen \in Nat \ {0} /\ 1 \in 1 .. IndexLen
          /\ cd.indexOffset + IndexLen <= end
      BY <2>1, <2>5, FormatAssumption DEF ColumnDir
    <3>2. \A p \in 1 .. IndexLen : Image(end)[cd.indexOffset + p] = file[cd.indexOffset + p]
      <4>1. \A p \in 1 .. IndexLen : cd.indexOffset + p \in 1 .. end
        BY <2>3, <3>1
      <4> QED
        BY <2>4, <4>1
    <3>3. /\ cd.indexLength = IndexLen
          /\ IsBlock(file, cd.indexOffset, IndexLen, "index")
          /\ file[cd.indexOffset + 1].of.keys = ValuesIn(accepted, c, s.first, s.rows)
      BY <2>1, <2>5 DEF Indexes, IndexReads, IndexKeys
    <3>4. IsBlock(Image(end), cd.indexOffset, IndexLen, "index")
      BY <2>4, <3>1, <3>2, <3>3 DEF IsBlock
    <3>5. /\ IndexReads(Image(end), cd)
          /\ IndexKeys(Image(end), cd) = CellsOf(s, c) \ {Null}
      BY <2>2, <3>1, <3>2, <3>3, <3>4 DEF IndexReads, IndexKeys
    <3> QED
      BY <2>5, <3>5 DEF s, cd
  <2>6. CASE c \notin Indexed
    <3>1. cd.indexLength = 0
      BY <2>1, <2>6 DEF Indexes
    <3> QED
      BY <2>6, <3>1 DEF s, cd
  <2> QED
    BY <2>5, <2>6
<1> QED
  BY <1>1, RecordsStoredOnce, DirectoryAlwaysTrue, PTL

(***************************************************************************)
(* The time span, when no record is from before the epoch.                 *)
(***************************************************************************)

\* A least element is the minimum, a greatest one the maximum.
LEMMA Extrema ==
    ASSUME NEW S \in SUBSET Nat
    PROVE  /\ \A m \in S : (\A y \in S : m <= y) => m = Min(S)
           /\ \A m \in S : (\A y \in S : y <= m) => m = Max(S)
<1>1. ASSUME NEW m \in S, \A y \in S : m <= y PROVE m = Min(S)
  <2>1. Min(S) \in S /\ \A y \in S : Min(S) <= y
    BY <1>1, MinOfNats
  <2>2. m \in Nat /\ Min(S) \in Nat /\ m <= Min(S) /\ Min(S) <= m
    BY <1>1, <2>1
  <2> QED
    BY <2>2
<1>2. ASSUME NEW m \in S, \A y \in S : y <= m PROVE m = Max(S)
  <2>1. \E x \in S : \A y \in S : x >= y
    BY <1>2
  <2>2. Max(S) \in S /\ \A y \in S : Max(S) >= y
    BY <2>1 DEF Max
  <2>3. m \in Nat /\ Max(S) \in Nat /\ Max(S) <= m /\ Max(S) >= m
    BY <1>2, <2>2
  <2> QED
    BY <2>3
<1> QED
  BY <1>1, <1>2

\* After the epoch a time and its word are the same number (builder.go:93
\* compares words, writer.go:276 reads them as times).
LEMMA TimesAreValues ==
    ASSUME EachRecordOnce, AfterEpoch, TsCol # 0,
           NEW first \in Nat, NEW n \in Nat, first + n <= Len(accepted)
    PROVE  /\ TimesIn(accepted, first, n) = ValuesIn(accepted, TsCol, first, n)
           /\ TimesIn(accepted, first, n) \in SUBSET Nat
           /\ \A t \in ValuesIn(accepted, TsCol, first, n) : AsInt64(t) = t
           /\ PresentIn(accepted, TsCol, first, n) = {}
                 <=> TimesIn(accepted, first, n) = {}
<1> DEFINE R == PresentIn(accepted, TsCol, first, n)
<1>1. TsCol \in Cols /\ Len(accepted) \in Nat
  BY WriterAssumption, FormatAssumption, Counts DEF Cols
<1>2. ASSUME NEW r \in R
      PROVE  accepted[r][TsCol] \in Nat /\ AsInt64(accepted[r][TsCol]) = accepted[r][TsCol]
  <2>1. r \in 1 .. Len(accepted) /\ accepted[r][TsCol] # Null
    BY <1>1 DEF PresentIn
  <2>2. accepted[r] \in Records
    BY <2>1 DEF EachRecordOnce, TypeOK
  <2>3. accepted[r][TsCol] \in Word
    BY <1>1, <2>1, <2>2, WriterAssumption
  <2>4. accepted[r][TsCol] < HalfWord
    BY <2>1, <2>2 DEF AfterEpoch
  <2> QED
    BY <2>3, <2>4, WordFacts DEF AsInt64
<1>3. ValuesIn(accepted, TsCol, first, n) = {accepted[r][TsCol] : r \in R}
  BY DEF ValuesIn, CellsIn, PresentIn
<1> HIDE DEF R
<1>4. TimesIn(accepted, first, n) = {AsInt64(accepted[r][TsCol]) : r \in R}
  BY DEF TimesIn, R
<1>5. {AsInt64(accepted[r][TsCol]) : r \in R} = {accepted[r][TsCol] : r \in R}
  BY <1>2
<1>6. {accepted[r][TsCol] : r \in R} \in SUBSET Nat
  BY <1>2
<1>7. \A t \in {accepted[r][TsCol] : r \in R} : AsInt64(t) = t
  BY <1>2
<1>8. R = {} <=> {accepted[r][TsCol] : r \in R} = {}
  OBVIOUS
<1> QED
  BY <1>3, <1>4, <1>5, <1>6, <1>7, <1>8 DEF R

\* What a footer says of times is about rows that were appended before it.
LEMMA SpanKept ==
    ASSUME EachRecordOnce, Committed, SpanTrue,
           \A r \in 1 .. Len(accepted) : accepted'[r] = accepted[r],
           FooterCells' = FooterCells, \A k \in FooterCells : file'[k] = file[k],
           UNCHANGED <<span, totalRows>>
    PROVE  SpanTrue'
<1>1. totalRows \in Nat /\ totalRows <= Len(accepted) /\ Len(accepted) \in Nat
  BY Counts
<1>2. ASSUME NEW n \in Nat, n <= totalRows
      PROVE  TimesIn(accepted', 0, n) = TimesIn(accepted, 0, n)
  <2>1. \A r \in (0 + 1) .. (0 + n) : accepted'[r] = accepted[r]
    BY <1>1, <1>2
  <2>2. PresentIn(accepted', TsCol, 0, n) = PresentIn(accepted, TsCol, 0, n)
    BY <2>1 DEF PresentIn
  <2>3. \A r \in PresentIn(accepted, TsCol, 0, n) : accepted'[r] = accepted[r]
    BY <2>1 DEF PresentIn
  <2> QED
    BY <2>2, <2>3 DEF TimesIn
<1>3. ASSUME NEW k \in FooterCells
      PROVE  file[k].of.totalRows \in Nat /\ file[k].of.totalRows <= totalRows
  <2>1. file[k].of \in Footer
    BY DEF FooterCells, EachRecordOnce, FootersDescribe, Describes
  <2> QED
    BY <2>1 DEF Footer, Committed, TotalsGrow
<1>4. TimesIn(accepted', 0, totalRows) = TimesIn(accepted, 0, totalRows)
  BY <1>1, <1>2
<1>5. \A k \in FooterCells : TimesIn(accepted', 0, file[k].of.totalRows)
                                = TimesIn(accepted, 0, file[k].of.totalRows)
  BY <1>2, <1>3
<1>6. SpanTrue <=> (TsCol # 0 =>
         /\ SpanIs(TimesIn(accepted, 0, totalRows), span.min, span.max)
         /\ span.have <=> TimesIn(accepted, 0, totalRows) # {}
         /\ \A k \in FooterCells : SpanIs(TimesIn(accepted, 0, file[k].of.totalRows),
                                          file[k].of.minTS, file[k].of.maxTS))
  BY DEF SpanTrue, FooterCells
<1>7. SpanTrue' <=> (TsCol # 0 =>
         /\ SpanIs(TimesIn(accepted', 0, totalRows'), span'.min, span'.max)
         /\ span'.have <=> TimesIn(accepted', 0, totalRows') # {}
         /\ \A k \in FooterCells' : SpanIs(TimesIn(accepted', 0, file'[k].of.totalRows),
                                           file'[k].of.minTS, file'[k].of.maxTS))
  BY DEF SpanTrue, FooterCells
<1> QED
  BY <1>4, <1>5, <1>6, <1>7

\* FinishSegment widens the span to the times of the segment (writer.go:276).
LEMMA FinishSpan ==
    ASSUME EachRecordOnce, EachRecordOnce', DirectoryTrue, AfterEpoch, SpanTrue, FinishSegment
    PROVE  SpanTrue'
<1> SUFFICES ASSUME TsCol # 0 PROVE SpanTrue'
  BY DEF SpanTrue
<1> DEFINE n == Len(accepted) - totalRows
           T0 == TimesIn(accepted, 0, totalRows)
           T1 == TimesIn(accepted, totalRows, n)
           T  == TimesIn(accepted, 0, totalRows')
<1>1. /\ UNCHANGED <<file, accepted>> /\ totalRows' = Len(accepted)
      /\ HasTimes => /\ Finished.minTS = AsInt64(TimeStats.min)
                     /\ Finished.maxTS = AsInt64(TimeStats.max)
  BY FinishOutcome
<1>2. /\ totalRows \in Nat /\ n \in Nat /\ totalRows + n = Len(accepted)
      /\ Len(accepted) \in Nat /\ totalRows <= Len(accepted) /\ TsCol \in Cols
  BY Counts, WriterAssumption, FormatAssumption DEF Cols
<1>3. T = T0 \cup T1
  <2>1. PresentIn(accepted, TsCol, 0, totalRows')
           = PresentIn(accepted, TsCol, 0, totalRows) \cup PresentIn(accepted, TsCol, totalRows, n)
    <3>1. (0 + 1) .. (0 + totalRows')
             = ((0 + 1) .. (0 + totalRows)) \cup ((totalRows + 1) .. (totalRows + n))
      BY <1>1, <1>2
    <3> HIDE DEF n
    <3> QED
      BY <3>1 DEF PresentIn
  <2> HIDE DEF n
  <2> QED
    BY <2>1 DEF TimesIn
<1>4. T0 \in SUBSET Nat
  BY <1>2, TimesAreValues
<1> HIDE DEF n
<1>5. /\ T1 = ValuesIn(accepted, TsCol, totalRows, n) /\ T1 \in SUBSET Nat
      /\ \A t \in T1 : AsInt64(t) = t
      /\ PresentIn(accepted, TsCol, totalRows, n) = {} <=> T1 = {}
  <2>1. totalRows + n <= Len(accepted)
    BY <1>2
  <2>2. /\ TimesIn(accepted, totalRows, n) = ValuesIn(accepted, TsCol, totalRows, n)
        /\ TimesIn(accepted, totalRows, n) \in SUBSET Nat
        /\ \A t \in ValuesIn(accepted, TsCol, totalRows, n) : AsInt64(t) = t
        /\ PresentIn(accepted, TsCol, totalRows, n) = {}
              <=> TimesIn(accepted, totalRows, n) = {}
    BY <1>2, <2>1, TimesAreValues
  <2> QED
    BY <2>2
<1>6. Summarises(accepted, TimeStats, TsCol, totalRows, n)
  BY <1>2, BuffersSummarise DEF TimeStats, n
<1>7. HasTimes <=> T1 # {}
  <2> DEFINE R == PresentIn(accepted, TsCol, totalRows, n)
  <2>1. R \subseteq (totalRows + 1) .. (totalRows + n)
    BY DEF PresentIn
  <2>2. IsFiniteSet((totalRows + 1) .. (totalRows + n))
    BY <1>2, FS_Interval
  <2>3. TimeStats.nonNull = Cardinality(R)
    BY <1>6 DEF Summarises
  <2> HIDE DEF R
  <2>4. IsFiniteSet(R)
    BY <2>1, <2>2, FS_Subset
  <2>5. Cardinality(R) \in Nat /\ (Cardinality(R) = 0 <=> R = {})
    BY <2>4, FS_CardinalityType, FS_EmptySet
  <2> QED
    BY <1>5, <2>3, <2>5 DEF HasTimes, R
<1>8. T1 # {} => /\ Finished.minTS \in T1 /\ Finished.maxTS \in T1
                 /\ \A t \in T1 : Finished.minTS <= t /\ t <= Finished.maxTS
  BY <1>1, <1>5, <1>6, <1>7 DEF Summarises
<1>9. /\ SpanIs(T0, span.min, span.max)
      /\ span.have <=> T0 # {}
      /\ \A end \in 1 .. Len(file) : file[end].kind = "footer" =>
            SpanIs(TimesIn(accepted, 0, file[end].of.totalRows),
                   file[end].of.minTS, file[end].of.maxTS)
  BY DEF SpanTrue
<1>10. span' = IF HasTimes THEN Widen(Finished) ELSE span
  BY DEF FinishSegment
<1> HIDE DEF T, T0, T1
<1>11. CASE T1 = {}
  <2>1. T = T0 /\ span' = span
    BY <1>3, <1>7, <1>10, <1>11
  <2>2. SpanIs(T, span'.min, span'.max) /\ (span'.have <=> T # {})
    BY <1>9, <2>1
  <2> QED
    BY <1>1, <1>9, <2>2 DEF SpanTrue, T
<1>12. CASE T1 # {}
  <2> DEFINE lo == Finished.minTS
             hi == Finished.maxTS
  <2>1. /\ span'.min = IF ~ span.have \/ lo < span.min THEN lo ELSE span.min
        /\ span'.max = IF ~ span.have \/ hi > span.max THEN hi ELSE span.max
        /\ span'.have = TRUE
    BY <1>7, <1>10, <1>12 DEF Widen
  <2>2. lo \in Nat /\ hi \in Nat /\ T # {}
    BY <1>3, <1>5, <1>8, <1>12
  <2> HIDE DEF lo, hi
  <2>3. CASE ~ span.have
    <3>1. T = T1 /\ span'.min = lo /\ span'.max = hi
      BY <1>3, <1>9, <2>1, <2>3
    <3>2. SpanIs(T, span'.min, span'.max)
      BY <1>8, <1>12, <3>1 DEF SpanIs, lo, hi
    <3>3. span'.have <=> T # {}
      BY <2>1, <2>2
    <3> QED
      BY <1>1, <1>9, <3>2, <3>3 DEF SpanTrue, T
  <2>4. CASE span.have
    <3>1. T0 # {}
      BY <1>9, <2>4
    <3>2. /\ span.min \in T0 /\ span.max \in T0
          /\ \A t \in T0 : span.min <= t /\ t <= span.max
      BY <1>9, <3>1 DEF SpanIs
    <3>3. /\ lo \in T1 /\ hi \in T1
          /\ \A t \in T1 : lo <= t /\ t <= hi
      BY <1>8, <1>12 DEF lo, hi
    <3>4. span.min \in Nat /\ span.max \in Nat
      BY <1>4, <3>2
    <3>5. /\ span'.min \in {lo, span.min} /\ span'.min <= lo /\ span'.min <= span.min
          /\ span'.max \in {hi, span.max} /\ hi <= span'.max /\ span.max <= span'.max
      <4>1. /\ span'.min = IF lo < span.min THEN lo ELSE span.min
            /\ span'.max = IF hi > span.max THEN hi ELSE span.max
        BY <2>1, <2>4
      <4> QED
        BY <2>2, <3>4, <4>1
    <3>6. span'.min \in T /\ span'.max \in T
      BY <1>3, <3>2, <3>3, <3>5
    <3>7. ASSUME NEW t \in T PROVE span'.min <= t /\ t <= span'.max
      <4>1. t \in Nat /\ span'.min \in Nat /\ span'.max \in Nat
        BY <1>3, <1>4, <1>5, <2>2, <3>4, <3>5
      <4>2. CASE t \in T0
        BY <2>2, <3>2, <3>4, <3>5, <4>1, <4>2
      <4>3. CASE t \in T1
        BY <2>2, <3>3, <3>4, <3>5, <4>1, <4>3
      <4> QED
        BY <1>3, <4>2, <4>3
    <3>8. SpanIs(T, span'.min, span'.max)
      BY <2>2, <3>6, <3>7 DEF SpanIs
    <3>9. span'.have <=> T # {}
      BY <2>1, <2>2
    <3> QED
      BY <1>1, <1>9, <3>8, <3>9 DEF SpanTrue, T
  <2> QED
    BY <2>3, <2>4
<1> QED
  BY <1>11, <1>12

\* writeFooter copies the span and the number of rows it is about.
LEMMA FooterSpan ==
    ASSUME EachRecordOnce, SpanTrue, WriteFooter
    PROVE  SpanTrue'
<1>1. PICK n \in 0 .. FooterLen : Grows("footer", FooterNow, n)
  BY FooterWrite
<1>2. n \in Nat /\ TypeOK
  BY <1>1, FormatAssumption DEF EachRecordOnce
<1>3. \A k \in 1 .. Len(file') :
         \/ k \in 1 .. Len(file) /\ file'[k] = file[k]
         \/ k \notin 1 .. Len(file) /\ file'[k].of = FooterNow
  BY <1>1, <1>2, AddedCells
<1>4. UNCHANGED <<span, totalRows, accepted>>
  BY DEF WriteFooter
<1> QED
  BY <1>3, <1>4 DEF SpanTrue, FooterNow

\* The writer's span, and that of every footer, is exact in every reachable
\* state, when no record is from before the epoch.
THEOREM SpanAlwaysTrue ==
    ASSUME AfterEpoch
    PROVE  Spec => []SpanTrue
<1>1. Init => SpanTrue
  <2>1. PresentIn(<<>>, TsCol, 0, 0) = {}
    BY DEF PresentIn
  <2> QED
    BY <2>1 DEF Init, SpanTrue, SpanIs, TimesIn, NoSpan
<1>2. ASSUME EachRecordOnce, EachRecordOnce', Committed, DirectoryTrue, SpanTrue, [Next]_vars
      PROVE  SpanTrue'
  <2>1. CASE FinishSegment
    BY <1>2, <2>1, FinishSpan
  <2>2. CASE WriteFooter
    BY <1>2, <2>2, FooterSpan
  <2>3. CASE ~ FinishSegment /\ ~ WriteFooter
    <3>1. FooterCells' = FooterCells /\ \A k \in FooterCells : file'[k] = file[k]
      BY <1>2, <2>3, OtherSteps
    <3>2. UNCHANGED <<span, totalRows>>
      BY <1>2, <2>3 DEF Next, vars, meta, NewWriter, AppendRecord, Flush, Checkpoint, Close,
                        FlushThenFooter, WriteChunk, WriteIndex, Crash
    <3>3. \A r \in 1 .. Len(accepted) : accepted'[r] = accepted[r]
      <4>1. ASSUME NEW rec \in Records, accepted' = Append(accepted, rec)
            PROVE  \A r \in 1 .. Len(accepted) : accepted'[r] = accepted[r]
        BY <1>2, <4>1, AppendProperties DEF EachRecordOnce, TypeOK
      <4>2. UNCHANGED accepted \/ \E rec \in Records : accepted' = Append(accepted, rec)
        BY <1>2, <2>3 DEF Next, vars, meta, NewWriter, AppendRecord, Flush, Checkpoint,
           Close,
                          FlushThenFooter, WriteChunk, WriteIndex, Crash
      <4> QED
        BY <4>1, <4>2
    <3> QED
      BY <1>2, <3>1, <3>2, <3>3, SpanKept
  <2> QED
    BY <2>1, <2>2, <2>3
<1> QED
  BY <1>1, <1>2, RecordsStoredOnce, AlwaysCommitted, DirectoryAlwaysTrue, PTL DEF Spec

\* Every footer's time span is the exact minimum and maximum over the file's
\* rows (draft-ntcf-format-00.md:375), when no record is from before the epoch:
\* the statistics compare times as words, and a time before it makes them wrong.
THEOREM TimeSpanIsExact ==
    ASSUME AfterEpoch
    PROVE  Spec => []TimeSpanExact
<1>1. ASSUME EachRecordOnce, Committed, SpanTrue
      PROVE  TimeSpanExact
  <2> SUFFICES ASSUME TsCol # 0, NEW end \in Footers
               PROVE  LET f == file[end].of
                          T == TimesOf(f)
                      IN  IF T = {}
                          THEN f.minTS = 0 /\ f.maxTS = 0
                          ELSE f.minTS = Min(T) /\ f.maxTS = Max(T)
    BY DEF TimeSpanExact
  <2> DEFINE f == file[end].of
             T == TimesIn(accepted, 0, f.totalRows)
  <2>1. end \in 1 .. Len(file) /\ file[end].kind = "footer"
    BY <1>1, FooterEntries
  <2>2. SpanIs(T, f.minTS, f.maxTS)
    BY <1>1, <2>1 DEF SpanTrue
  <2>3. f.totalRows \in Nat /\ f.totalRows <= Len(accepted)
    <3>1. f \in Footer /\ f.totalRows <= totalRows
      BY <1>1, <2>1 DEF EachRecordOnce, FootersDescribe, Describes, Committed, TotalsGrow,
                        FooterCells
    <3> QED
      BY <1>1, <3>1, Counts DEF Footer
  <2> HIDE DEF f
  <2>4. T \in SUBSET Nat
    BY <1>1, <2>3, TimesAreValues
  <2>5. TimesOf(f) = T
    <3>1. {q \in 1 .. f.totalRows : accepted[q][TsCol] # Null}
             = PresentIn(accepted, TsCol, 0, f.totalRows)
      BY <2>3 DEF PresentIn
    <3> QED
      BY <3>1 DEF TimesOf, TimesIn
  <2> HIDE DEF T
  <2>6. IF T = {} THEN f.minTS = 0 /\ f.maxTS = 0 ELSE f.minTS = Min(T) /\ f.maxTS = Max(T)
    BY <2>2, <2>4, Extrema DEF SpanIs
  <2> QED
    BY <2>5, <2>6 DEF f
<1> QED
  BY <1>1, RecordsStoredOnce, AlwaysCommitted, SpanAlwaysTrue, PTL
=============================================================================
