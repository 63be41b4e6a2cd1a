# A verification of NTCF in TLA+

NTCF is a columnar container for telemetry: a streaming writer that
checkpoints, a reader with crash recovery, semantic codecs for columns,
per-segment indexes, a query language and an engine that prunes with those
indexes, and an ingestion pipeline that follows a growing log and decodes its
lines with an adapter per source. This directory holds TLA+ models of these
parts, the TLC configurations that check them on small instances, and theorems
about them that TLAPS checks for every value of the constants.

Paths below are relative to the repository (`writer.go` is
`pkg/ntcf/writer.go`, `exec.go` is `internal/query/exec.go`, and so on).
`PROJECT.json` maps every definition to the lines it models.

## The system

| component | state | operations | what makes it correct |
|---|---|---|---|
| streaming writer, `pkg/ntcf/writer.go` | builders, segment directory, time span, `pos`, `dirty`, `closed` | NewWriter, Append, Flush, Checkpoint, Close | each record is stored once and in order; a crash anywhere leaves the records of the last footer; a failed write loses nothing |
| column builder and vectors, `internal/column` | values, presence marks | Append, AppendNull, Reset, Stats, Encode, DecodeChunk | nulls stay with their rows, statistics bound the present values, a chunk reads back |
| container format, `internal/format` | none | header, footer, RecoverFooter | what is appended is what is read; recovery finds the latest footer that reads, and no look-alike |
| store reader, `internal/store` | none | Open, Recover, Column, Index | every column and index of every segment comes back as it was written, or is an error |
| encodings, `internal/encoding` | none | seven integer and three byte codecs, the choice of one | every codec inverts itself over all of uint64; a payload cut short is an error |
| entropy layer, `internal/compress` | none | zstd, lz4, none | inverted exactly, kept only when shorter |
| indexes, `internal/index` | none | Bloom filter, inverted index, histogram | never deny a value that is there |
| lexer and parser, `internal/query` | tokens, `pos` | Parse | exactly the documented grammar with its meaning; never past the last token |
| query engine, `internal/query` | decoded columns, result, counts of segments | count, top, rows, search | the answer is that of a row-by-row scan |
| ingestion, `internal/ingest` | scanner, deadline, statistics | Run, Tailer.Read | every whole line once; honest statistics; returns when cancelled |
| adapters, `internal/adapter` | none | Decode of a line | the record fits the schema; each field under its own column; times and counters keep their value |
| schema, `internal/schema` | none | Validate, descriptor | the descriptor reads back; what is not valid is refused |
| cursor, limits, varints, `internal/util` | place, first error | Read | the first error sticks, limits come before bytes |
| command line, `cmd/ntcf` | | ingest, pack, query, ... | a restarted ingest does not mix two runs in one file |

Interactions: `Run` (one goroutine, with a signal that cancels its context)
drives an adapter and a `Writer`. The writer drives builders, the codecs, the
entropy layer and the index builders, and emits blocks with one
`io.Writer.Write` each. A reader, perhaps in another process and while the
writer goes on, sees the file only. The query engine drives the reader segment
by segment. There are no locks; the hard part is what is left when a sequence of
writes stops in the middle, what happens after a call that failed, and the many
ways to one answer (zone map, Bloom filter, inverted index, scan) that have to
agree.

## The modules

| module | models | notes |
|---|---|---|
| `NtcfColumn` | a column builder: cells, presence marks, statistics | pure operators, shared by the others |
| `NtcfFormat` | the container as a reader sees it: blocks, footers, the backward scan | a file image is a sequence of cells that name their block and their place in it |
| `DurableLog` | what a checkpointing writer promises | abstract: Add, Commit, Crash |
| `NtcfWriter` | the writer and the file, one step per `io.Writer.Write` | implements `DurableLog` |
| `NtcfIngest` | Run, its scanner, the Tailer, source, clock, signal, crash, a second process | uses `DurableLog` as its writer |
| `NtcfAdapter` | Decode of the three adapters, their schemas, the conversions of `adapter.go` | a text is known by what can be read out of it |
| `NtcfLex` | the lexer, over classes of characters | |
| `NtcfParse` | the recursive descent, one step per look at a token | active calls are a stack; tokens come one at a time |
| `NtcfGrammar` | the grammar of `lex.go:8-21`, as a set of sentences with meanings | what `NtcfParse` is checked against |
| `NtcfIndex` | what the Bloom filter, inverted index and histogram of a column mean | the hash functions are a constant |
| `NtcfQuery` | Execute: count, top and rows over a file with damaged chunks; Search | composes `NtcfIndex` and `NtcfColumn` |
| `NtcfEncoding` | the codecs, bit packing, varints, the choice of a codec | bits of a byte and bytes of a word are constants |
| `NtcfCursor` | `util.Cursor`, and layouts as lists of fields | extends `NtcfEncoding` |
| `NtcfChunk` | a chunk in bytes: Encode, framing, entropy codec, DecodeChunk | extends `NtcfCursor` |
| `NtcfFile` | header, footer, schema descriptor, index blobs, segment layout, open, recover | extends `NtcfChunk` with `NtcfIndex` |
| `NtcfStore` | a column on its way to disk and back: builder, file, cut or changed byte, reader | composes all of the above with `NtcfColumn` |
| `MCNtcf*` | instances for TLC | |
| `NtcfColumnProofs` | lemmas about column builders, and about listing a set in an order | |
| `NtcfWriterProofs` | the writer's records and its recovery; checkpoints, Close and the refinement of `DurableLog`; zone maps, index blobs and time spans on disk | extends `NtcfWriter` and `NtcfColumnProofs` |
| `NtcfIngestProofs` | every safety invariant of the pipeline | |
| `NtcfParseProofs` | the parser stays inside its tokens | |
| `NtcfQueryProofs` | the answers of the query engine | extends `NtcfQuery` and `NtcfColumnProofs` |
| `NtcfCodecProofs` | every codec, the packer, the varints | extends `NtcfEncoding` and `NtcfColumnProofs` |
| `NtcfStoreProofs` | a column through every codec, and the chunk made of it | extends `NtcfStore` and `NtcfCodecProofs` |
| `NtcfAdapterProofs` | the five properties of the adapters | extends `NtcfAdapter` |

The container is modelled twice, on purpose. `NtcfFormat` takes it as blocks
that are whole or torn, which is what the writer's crash argument needs and what
can be proved about. `NtcfFile` lays the same structures out in bytes with the
lists of fields the code appends and the lists it reads, with checksums, limits
and the backward scan. What `NtcfFormat` assumes of a block is that it is read as
it was written and that a torn one is refused. `CutGivesBackFooters` checks the
second. `FileReadsBack` checks the first only in part, and does not discharge it:
it excuses what a reader's limits refuse. A chunk may be refused for its ratio,
its bytes, a string or a dictionary (column/chunk.go, limits.go), of which
`ChunkDecodes` of `NtcfFormat` keeps the limit on rows alone; a footer may be
refused for its size, its source type or a string in a zone map (footer.go:116,
:135, :176), of which `FooterAt` keeps none. The results about the writer are
therefore about files whose chunks and footers are within those limits. That the
writer does not always keep to them is under the disagreements (`chunk_ratio`,
`TableTooBig`, `BoundTooLong`).

Definitions introduced as "A slip" are plausible mistakes in the code. They are
used by no specification; `PROJECT.json` pairs each with the property that
fails when it takes the place of the real definition.

### Writer: how the model follows the code

`call` is the method that runs and `step` where it stands: `idle` between
calls, `init` in NewWriter, `chunk`, `index` and `finish` inside flushSegment,
`footer` in writeFooter, `gone` after a crash. `AppendRecord`, `Flush`,
`Checkpoint` and `Close` are the entries of the methods up to their first
write; `WriteChunk` and `WriteIndex` are the two writes per column,
`FinishSegment` the rest of flushSegment, `WriteFooter` the footer. Each write
either appends its whole block or fails after any number of its cells
(`WriteFails`); `pos` advances by what was taken, as `Writer.write` does with
the count it gets back. `Crash` may happen at every step.

A crash is taken to leave some prefix of the cells: `CommittedRowsIntact`
quantifies over all prefixes of the file, which covers a torn last block and a
tail that never reached the disk. That earlier bytes reach the disk before
later ones is an assumption; Checkpoint does not sync, and a file system that
reorders writes across a power failure is outside the model.

Checksums are idealised: a range passes exactly when it is one whole block.
Bytes of a value that look like the magic are modelled (`MagicVals`), so that
the backward scan meets false candidates; that a value contains a complete
footer with a matching checksum is excluded.

### Ingestion

The source is a stream of half lines, so that a reader may see the first half
of a line whose end has not been written, and a Tailer that starts at the end
may see the second half only. `input` is how the command reads: a pipe, a file,
or a growing file from its start or its end. `Scan`, `Read` and `Wait` are the
scanner and the Tailer; `Check`, `Decode`, `AppendRecord`, `Checkpoint` and
`Close` the loop of Run. The surroundings (producer, signal, clock, a failing
read or write, a crash, a second process) may act between any two of them.
`Restart` is the same command run again: `Created` is os.Create, which empties
the file a crash left behind. Decode errors other than "skip" do not occur: no
adapter of the repository returns one.

### Adapters

A JSON object is a record from keys to values, a log line a sequence of words,
spaces, quotes and brackets. What JSON, address and date parsing give is part of
the text itself; what the adapter does with it is modelled: the keys it tries,
in which order and with which of its conversions, the detour of a JSON number
over float64, the guess of an epoch's unit, and the places the tokens of a log
line end up in. The numbers of the code (64 bits, 53 bits of a mantissa, 1e11,
1e14, 1e17) are scaled down with their order kept. A float outside the range of
an integer converts to what the build gives. `over` has two values, of which Init
leaves open which it is: `least`, the pattern of the least int64, as on amd64, and
`greatest`, the greatest value of the type, as on arm64.

### Lexer and parser

`NtcfLex` lexes every text of up to five characters, one per class that the code
tells apart. In `NtcfParse` a token comes when the parser first looks at it, so
a query is only as long as the parser went on reading, and one run goes through
all queries a parser can tell apart. The stack holds what each active call has
left to do. The grammar is stated separately, as sets of phrases with meanings,
with no reference to a parser.

### Query

A table is cut into segments by the writer's rule and each column gets the
statistics and the index blob the writer would give it, so the file of
`NtcfQuery` is one that `NtcfWriter` makes: its properties `ZoneMapsSound` and
`IndexesCover` are the facts the query engine relies on, checked on the side
that produces them. One step handles one segment. A chunk may be damaged, in
which case decoding it fails and with it the query. Index blobs carry no
checksum in the format and are never damaged in the model.

The expected answer is stated on the table, with no reference to segments or
indexes: `Matches` is the meaning of a WHERE clause for one row.

### From values to bytes

A payload is a sequence of bytes and a codec a pair of functions. The code's 8
bits per byte and 8 bytes per word are constants, so that TLC can go through all
words and all places where a value crosses a byte or a word. `MCNtcfStore` has
two bytes of five bits to a word: 1024 words, varints of up to three bytes,
packed widths of 0 to 10 bits that straddle both bytes and words. Every operator
is stated for all sizes, and the loops of the code are recursive functions, so
that the proofs can be about all of them. A dictionary of strings has two bytes
at most in the instance (`MaxStringTable`), which some columns reach and some do
not. The entropy codec is a pair of functions, run lengths
in the instance, and its inverse; the digest of the instance changes with every
single byte.

A structure on disk is a list of fields, stated twice as in the code: once where
it is appended and once where it is read. `NtcfStore` builds a file as the
writer does, segment by segment with a checkpoint after each, then cuts it at
any byte or changes any one byte, and reads everything there is to read.

## What the runs check

| run | question | bounds |
|---|---|---|
| `writer` | is every footer, at every step, true of the records appended, and does the writer implement the durable log? | two columns, the second nullable and indexed; three records, segments of two; one failing write; crash anywhere |
| `writer_pre_epoch`, `writer_open` | disagreements, see below | |
| `ingest` | every kind of source: lines, statistics, cancellation, end of input, crash and restart | four lines: two records, a skipped one, an overlong one; one failing read or write; one restart; checkpoints on |
| `ingest_idle_pipe` | a disagreement | an idle pipe |
| `query` | is every answer that of a scan? | every table of up to three rows of a time and a nullable number (four for the inverted index) or of two nullable addresses; 15 predicates times count, top of two sizes and rows with two limits; searches by type and by name; colliding Bloom filters; undamaged, or with one damaged chunk |
| `query_pre_epoch` | a disagreement | times on both sides of 1970 |
| `parse` | does the parser take the documented grammar and nothing else, and does the lexer keep what it is given? | queries of up to 12 tokens with one unusual token, and of up to 20 with a long WHERE; texts of up to five characters |
| `adapter` | is a record what its line says? | per column every pair of its names with a value of each JSON type; all columns at once, each under every name; times and counters around every threshold; every line of an access log with eight varied fields |
| `store` | do codecs, chunks and files read back, and is damage noticed? | every word alone; three or four values around the ends of a byte, a word and the sign, with nulls; seven values of two; strings with an empty one, a prefix, the magic and one over the limit; files of up to two segments, cut at every byte or with two changes of each byte |
| `chunk_ratio`, `store_damage` | disagreements | |

Why the bounds are enough for what is asked: two segments, of which one is full
and one is not, are the least in which a later segment can disturb an earlier
one and a footer can describe fewer segments than there are; one failing write
reaches every retry, and because a footer, a chunk and an index blob each have
several places to fail in, every torn prefix occurs. Three records per segment
size of two give a flush triggered by Append, by Checkpoint and by Close. For the
safety of the writer, of ingestion and of query execution the bounds do not
matter: it is proved, and the runs show that what is proved is not void. A query
touches segments one by one, and two or three segments show every hand-over of
a LIMIT, a histogram or a tally from one to the next. The packer's state
repeats after a word, and seven values of up to ten bits go through several. A
crash, a restart and one fault give every pair of them an order. A parser that
confuses two nestings does so within two operators of each kind, which 20 tokens
hold. The fields of a JSON line are decoded independently of each other except
through shared keys, so two keys at a time are enough.

### Properties worth a word

- `CommittedRowsIntact`: for every prefix of the file at every step, what
  `store.Recover` makes of it decodes to the first records appended.
- `RecoveryNeverShrinks`: an action property; no step, and no torn write, makes
  recovery give back fewer rows.
- `CleanMeansCommitted`: Checkpoint's early return on a clean writer is right.
- `EachRecordOnce`: the inductive invariant, checked by TLC before it was
  proved.
- `ImplementsDurableLog`: `log` is mapped to the records appended and, after a
  crash, to those that recovery reads back; `durable` to what recovery would
  give back now.
- `TornLineDropped`: the Tailer ends the stream at cancellation and the scanner
  then hands out the half line in its buffer; the check of the context after
  `Scan` keeps it out of the file. After a read that failed nothing does, and
  the property excludes that case: the half line is decoded like a whole one.
- `EveryLineOnce`: also over a crash and a second process, and for a Tailer that
  starts in the middle of a line. `NilMeansComplete`: nil means that the whole
  input is behind a footer, or that Run was cancelled.
- `MeaningOfGrammar`, `RefusedOutsideGrammar`: accepted exactly the sentences of
  the grammar, each with its meaning; refused at the first token after which
  there is none.
- `NeverPastEnd`: `cur()` has no bound check; that the end token is never
  consumed is the whole of what keeps it in range.
- `RecordFitsSchema`: the list of columns and the list of values are two lists in
  step.
- `OneColumnPerName`: a value that a line gives under the names of a column is in
  that column, as the column's type has it, and in no other. The names are listed
  again in the property (`FlowNames`, `HoneypotNames`), so a name that is
  dropped, a field that is always null and a field taken from another one's name
  all break it. Which of several names wins is left open, as is what becomes of
  a value that the column cannot hold.
- `EpochUnitsAgree`: an instant from 1973 on is the same in any unit, up to what
  a float64 loses.
- `CutGivesBackFooters`: a file cut at any byte opens exactly where a footer
  ends, and recovers to the last whole one.
- `ProtectedDamageDetected`: no changed byte under a checksum goes unnoticed.
- `AnswerExact`, `PrunedHasNoMatch`, `OnlyNeededColumns`: the query engine
  against the row-by-row meaning.
- `PackedIsBitStream`: the accumulator of words is one stream of bits.
- `CutPayloadFails`: the reader of words pads with zeros, so only the length
  checks keep a short payload from decoding to wrong values.

### Fairness

Only `NtcfIngest` states liveness. Its fairness is weak fairness of Run's own
goroutine, which the Go scheduler gives, and of the clock reaching a deadline.
Nothing is assumed of the producer of the input, which may fall silent for
ever, of the signal, or of faults, crashes and restarts. `CancelReturns` says
that a cancelled Run returns from a file, followed or not; `EndReturns` that a
closed pipe, and every file that is not followed, ends it.

### Disagreements found

Each is a run that TLC must find violated; `PROJECT.json` quotes the lines.

- `writer_pre_epoch`: the footer's time span is wrong when a segment has times
  on both sides of 1970, because unsigned bounds are read back signed.
- `writer_open`: after a crash, unless the last byte written is a footer's, the
  file opens with `store.Recover` only, which nothing outside the tests calls.
- `ingest_idle_pipe`: cancellation does not reach Run while a pipe is idle.
- `query_pre_epoch`: range predicates compare times unsigned.
- `chunk_ratio`: a writer keeps a chunk that compresses further than a reader
  allows. A few thousand rows of a regular column are enough.
- `store_damage`: docs/Security.md:59 has corruption detected before data is
  interpreted, but a chunk's flags, row count and null bitmap and the whole of
  an index blob are under no checksum.

Met while modelling and visible in the models, but with no run of their own:

- Past `MaxSegments` segments the writer reports success for footers that no
  reader accepts (`FooterAt`; one checkpoint every five seconds gets there in
  about 60 days).
- A failed flush leaves its rows buffered and the next Append grows the segment,
  past the limit of a reader if the segment size is that limit
  (`FlushesBelowLimit`, the premise of `RecoveryIsExact`).
- `top()` answered from inverted indexes reports no segments as scanned or
  pruned (`TopFromIndex`), against docs/QueryEngine.md:93, and `<` and `>` never
  prune by the zone map (`EvalCmp`), against :11.
- A dictionary of more than `MaxStringTableBytes` is written when it is shorter
  than raw (bytes.go:32 asks for the number of entries only), and its chunk cannot
  be read, while raw could (`TableTooBig`).
- A value longer than `MaxBytesValue` is written, and its chunk cannot be read
  (`TakeBytes`); when it is the least or the greatest of its column the zone map
  has it, and then no footer of the file reads (`BoundTooLong`,
  footer.go:176).
- The checkpoint deadline is looked at after an Append only, so a source that
  falls silent leaves its last records uncommitted for as long as it is silent
  (`CheckpointNow`), against "periodically" in ingest.go:4.
- A restarted `ntcf ingest` empties the file that a crash left recoverable
  (`Created`), and one that follows from the end never sees the lines that came
  in between.
- Columns that the schemas call not nullable (schema.go:72) do get nulls from
  the adapters; nothing looks at the flag when a record is appended.
- In an access log a quote escaped by a backslash ends its field like any other
  (webaccess.go:122), and the fields after it are taken from the wrong tokens.
- A first column may not be called count or top: parse.go:132 and :140 take
  either name for an aggregate and insist on a parenthesis (`SelectLists` of
  `NtcfGrammar`). The grammar of lex.go:8-21 says `col` and reserves no name.
- A decoder of runs compares `len(out)+int(run)` with the rows it is asked for
  (ints.go:268, bytes.go:232). When the sum is half the words or more it is
  negative as an int and passes, and the loop appends the whole run before
  the check behind it refuses the result (`ReadRun`, `ReadRuns`). No encoder
  writes such a run and no cut payload has one, so the properties of the codecs
  hold; the memory the loop takes is not modelled.
- epochToNanos (adapter.go:128-140) multiplies seconds up to 1e11, in its own
  comment the year 5138, by 1e9: from 2262 on the product leaves int64.

## What is proved

All theorems hold for every value of the constants that satisfies the named
ASSUMEs: any number of columns, any words, any record set, any segment size, any
input, any statement, any number of faults. Each inductive invariant was checked
by TLC as an invariant of a run before it was proved.

### The writer

- `TypeCorrect` (`NtcfWriterProofs`): `Spec => []TypeOK`.
- `RecordsStoredOnce`: `Spec => []EachRecordOnce`. What is wanted, that recovery
  is exact, is not inductive: it speaks of footers already in the file, and
  keeping it needs to know that the directory from which the next footer is made
  points at the right chunks, that the chunks of the unfinished segment are
  right so far, and that the builders hold exactly what no segment holds.
  `EachRecordOnce` is the conjunction of these (`BuffersHoldTail`,
  `SegmentsTile`, `SegmentsStored`, `SegmentInProgress`, `FootersDescribe`)
  with the type invariant and `pos = Len(file)`. The proof has one lemma per
  step of the writer. What makes it go through is that a write, failed or not,
  only appends cells (`Grows`), so whatever a directory entry or a footer points
  at stays in its place (`HoldsKept`, `FootersKept`).
- `RecoveryIsExact`: `Spec => [](FlushesBelowLimit => CommittedRowsIntact)`. A
  prefix of the file agrees with it cell by cell (`PrefixFacts`), a footer that
  recovery picks describes a prefix of the directory (`RecoveredEnd`), and its
  segments tile its rows (`EveryRowCovered`), so each row reads back from its
  own chunk.
- `AlwaysCommitted`: a second invariant, `Committed`,
  on top of the first. The header is the first block (`HeaderFirst`), later
  footers tell of at least as many rows as earlier ones (`TotalsGrow`), a writer
  that is not dirty has all its rows in segments and a whole footer over all of
  them (`CleanIsCovered`), and after Close that footer ends the file
  (`ClosedIsFinal`). The four theorems that follow read off it.
- `RecoveryOnlyGrows`: `Spec => RecoveryNeverShrinks`, for every step with every
  torn write. A file that is extended keeps its footers, so the scan from the
  end stops no earlier than before, and by `TotalsGrow` with no fewer rows.
- `CleanIsCommitted`, `ClosedStaysOpenable`:
  `Spec => [](DirectoryFits => CleanMeansCommitted)` and the same of
  `ClosedFileOpens`. The scan from the end meets nothing readable behind the
  last footer.
- `WriterIsDurableLog`:
  `Spec /\ [](FlushesBelowLimit /\ DirectoryFits) => ImplementsDurableLog`. Under
  the mapping, a record appended is Add, a footer written whole is Commit (of
  everything the directory holds), the crash is Crash, and every other step, a
  torn write included, is a stutter.
- `DirectoryAlwaysTrue`: the statistics of a column come
  from its builder, which is emptied while the segment is being written, so the
  invariant follows them through flushSegment: the marks of a builder are its
  nulls (`MarksMeanNull`), the entries of the directory are true of the records
  they count (`EntriesTrue`), so are those of the columns already written of the
  segment in progress (`ProgressTrue`), and their blobs lie before its end
  (`IndexesBefore`). From it `ZoneMapsAreSound` and `IndexesAlwaysCover`.
- `SpanAlwaysTrue`, `TimeSpanIsExact`: the span of the file is the union of the
  spans of its segments.

Premises, each one that the code does not ensure, or a limit it is known to
break (see the disagreements):

- `FlushesBelowLimit`: no segment of the directory is larger than a reader
  accepts. After failed flushes with a segment size at the limit it may be.
- `DirectoryFits`: the directory has at most `MaxSegments` segments. Without it
  a footer is reported as written that no reader accepts.
- `AfterEpoch`: no time of a record is before 1970. The run `writer_pre_epoch`
  refutes the conclusion without it.

### Ingestion

`NtcfIngestProofs` proves every safety invariant that the run `ingest` checks:
`TypeCorrect`, `CountersAddUp`, `NilIsComplete`, `AtMostOneOverdue`, `NoTornLine`
and `EachLineOnce`. They share one invariant, `Standing`, which says where Run
stands: where the scanner is between two lines (`BetweenLines`), what the line
in hand is (`LineInHand`), what has been seen when the input is at its end
(`EndOfInput`), what each way out of the loop implies (`OutcomeFits`), and how
the counters relate to the log (`Counted`). On top of it `LogInv` says which
lines are in the log, `TornInv` that a torn line is past the check of the
context only after a failed read, and `DeadlineInv` that an overdue checkpoint
is the very next thing. The surroundings (producer, clock, signal, faults,
crash, restart) are steps like any other, so the theorems hold however they
interleave with the loop.

### The parser

`AlwaysInside` (`NtcfParseProofs`): the place is inside the tokens or right
behind them (`TokensFit`), only the last token can be the end (`EndIsLast`), it
is not consumed (`EndNotEaten`), and a statement is accepted only when nothing
but the end is left (`AcceptedWhole`). `NeverLooksPastEnd` is that `cur()`, which has no bound
check, needs none; `AcceptedIsWhole` that nothing behind a statement is ignored.
This is for every stream of tokens and every depth of nesting.

### Queries

- `EqualityIsScan` (`NtcfQueryProofs`): an equality that is resolved by zone
  map, Bloom filter and inverted index finds exactly the rows a scan finds, for
  every sound column, literal and family of hash functions. It rests on
  `ZoneMapBounds` (the statistics bound the present values),
  `BloomHasNoFalseNegative` and `LookupIsScan`.
- `LoopAlwaysFits`: where the loop over the segments stands, what it has
  decoded, and that what it calls pruned has no match. From it
  `PrunedNeverMatches` and `DecodesOnlyWhatIsNeeded`.
- `FoundAlwaysFits`: count, histogram and printed rows are those of the matching
  rows before the segment the loop is at (`CountFits`, `HistFits`, `RowsFit`),
  and of the whole table when it ends (`EndFits`), which for rows may be early.
- `TypeCorrect`, `AnswersAreExact`: what a statement answers is what its
  row-by-row meaning says, for count, top and rows, with any part of the file
  damaged.

The argument goes from a column to a segment (an expression finds the rows that
match it, by depth), from segments to the table (each holds its own rows, which
partition it), and from there to the loop. The builder of a column is a fold
over its rows, and the meaning of an expression a recursive function; that such
a function satisfies its equation is proved by minimal counterexample
(`FoldExists`, `TreeExists`), as the induction theorems of the library are out
of the provers' reach. A sorted answer is characterised by how many values come
before each (`InOrder`).

Premises, about what the engine is given:

- `ParsedExprs(depth)`: an expression is a finite tree, which has a depth; every
  comparison but IN has one literal; a number fits its word. That is what the
  parser hands over (parse.go:181-276), and literals are read with 64 bits.
- `RangesAfterEpoch`: no comparison `<` or `>` of times involves one from before
  1970. The run `query_pre_epoch` refutes the conclusion without it.
- `TextsDiffer`, for `AnswersAreExact` only: different words print as different
  texts, because equals in count are ordered by their text. In the code two
  values can share a text in a boolean column that was given a word other than 0
  and 1, and in an address column that was given a value of no address's length;
  their order among each other is then that of a Go map.

The assumption `Premises` of `MCNtcfQuery` has TLC confirm that the run `query`
satisfies all three, and that `query_pre_epoch` fails only the second.

### Codecs

`NtcfCodecProofs` proves, for bytes of any number of bits and words of any number
of bytes, what makes the encodings lossless:

- `IntCodecsExact`, `BytesCodecsExact`: for every codec and every column of fewer
  rows than half the words (a decoder of runs counts them in an int), the
  payload is a sequence of bytes, its decoder gives back the column, if no string
  is longer and no dictionary bigger than a reader takes, and it fails on every
  proper prefix of the payload, over those limits as well.
- `PackedBits`: the packed bytes are one stream of bits.

The argument is the same for all ten. `Stands(s, d, pos)` says that the bytes s
are in the payload d from pos on, and `StandsCut` that d ends within them; a
string over the limit is refused whether it stands or not (`Broken`). A
varint, a string, a run, a word or a block of packed bits that stands is read
back, with the place behind it (`UvarintStands`, `TakeStands`, `ReadRunStands`,
`ReadPackedStands`); one that is cut is not (`UvarintCut` and the others). Pieces
joined stand each where the ones before it end (`PiecesStand`), and when they are
cut one is cut and those before it stand (`PiecesCut`). So a decoder that reads
piece by piece follows the encoder, up to the end or up to the cut.

The packer is an argument about one number: n values of w bits code
v = v1 + v2 * 2^w + ... (`Codes`). Each step of the packer keeps the bytes flushed
and the accumulator together the code of the values so far (`PacksStep`), also
when a value crosses a word, so that at the end the bytes code that same number
(`PackedIs`), and the unpacker cuts its digits out again (`GetBitsIs`). Deltas,
and deltas of deltas, are undone because wrapping arithmetic forgets only
multiples of 2^64 and the signed reading of a word differs from it by one
(`SignedStep`, `UndoIs`). Dictionaries rest on `StringOrder`, the bytewise order
being strict and total, and on `NtcfColumnProofs`, which shows that `InOrder`
lists any finite set under such an order.

Iterations are functions of the number of steps, and all that is proved about
them goes through `Reaches`, `Iterates` and `SameIteration`, which take the place
of induction.

`NtcfStoreProofs` takes this to the state machine. `BuilderAlwaysRight` is the
invariant: the builder has the cells that were appended, words in place of nulls
included, and no more of them than its family allows. With it
`EveryCodecExactAlways` and `PackedIsBitStreamAlways` are
`Spec => []EveryCodecExact` and `Spec => []PackedIsBitStream`, without a premise:
the limits of a reader are in the properties themselves, since the writer does
not keep to them. `CutPayloadFailsAlways` is `Spec => []CutPayloadFails`, and
knows no limits: a chunk is made of a column with rows (`RowsStored`), its
payload is that of one of the codecs, whichever the chooser found shortest
(`ChosenInts`, `ChosenBytes`), the id in the chunk leads back to that codec
(`IntIdFound`, `BytesIdFound`), and its decoder refuses what is cut.

`ReadsBackOrRefusedAlways` is the whole chunk, header, bitmap, digest and both
layers of compression. The invariants are `BuilderAlwaysRight`, `RowsStored` and
`ChunkRight`, that a chunk is what Encode made of the builder and a vector what
DecodeChunk made of the chunk; the work is in `ChunkReadsBack`, about the two
functions. The cursor comes first: a field that stands in a buffer at the
cursor's place is read with the place behind it (`ReadStands`), and fields that
stand in a row are read in a row (`FieldsRead`, which is why the reader's loop is
a recursive function). Emitted fields stand where they were put, so that
`HeaderRead`, the bitmap and `DigestRead` take the header, the marks and the
digest from the chunk. The bitmap is the bit stream of the packer at width one,
which gives back every mark. The entropy layer gives back the payload
(`StoredIs`), and the codec the column. A chunk that does not read back is over
one of the limits that `Refused` and `TooLong` name, and no other check of
DecodeChunk can fail. The theorem has two premises, which are what the code takes
from outside it. `EntropyRight` is about the libraries: a digest is a word, and a
block expands to the bytes it was made of, or there is none and LZ4 stores the
bytes as they are. It is a condition on the constants `Squeeze`, `Expand` and
`XXH64`; TLC evaluates it on the instance's algorithms for short strings
(`EntropyRightHere`), and counts capped at a byte, which they use, satisfy it for
all. `PayloadFits` is about the machine: the length of a payload, a Go slice, is
written as an unsigned 64-bit number and fits one, since `len` is an int. In the
run no payload comes near the 1024 values of its words.

What is assumed of the constants is in `EncodingAssumption`, `CursorAssumption`,
`ChunkAssumption` and `StoreAssumption`:
a word is two halves and a whole number of bytes, its length in bits fits in a
byte (the width of packed values is written as one), a limit fits in a word, a
column has fewer rows than half the words, and so does a text have bytes. The
code's 8 bits, 8 bytes and limits satisfy them.

### The adapters

`NtcfAdapterProofs` proves the five properties of the run, for every size of
word, every set of lines and every text in them. A line is decoded in one step,
so each invariant is a fact about what `Decode` returns:

- `RecordFitsSchemaAlways`: the fields of each adapter are one by one of the
  types in its schema, and each conversion gives a value of its type.
- `OneColumnPerNameAlways`: of a field's keys the first one that gives anything is
  taken (`FirstKeyFound`, `Told`); the keys of a field are the names of its
  column, in both adapters (`FlowNamed`, `HoneypotNamed`); and a value the column
  can hold goes through its conversion unchanged (`StringHeld`, `UintHeld`,
  `ValueHeld`).
- `CountersExactAlways`, `EpochUnitsAgreeAlways`: rounding to a float64 rounds once
  (`FloatTwice`), is exact up to `FloatExact` (`FloatExactly`), monotone
  (`FloatGrows`), and never off by more than half the gap. The thresholds of the
  epoch units then tell the units apart.
- `WebLineReadBackAlways`: the tokens of a line are split off one by one
  (`SplitStep`), each field ends where the next begins, and the places Decode
  looks at are those of the fields.

Assumed of the constants are `AdapterAssumption` (the order of the thresholds, of
the exact range of a float64 and of a word: 1e11 * 1e6 < 2^63, 2^64 <= 1e20,
1e14 < 2^53, 2^54 < 2^64), `ThresholdAssumption` (the third threshold, 1e17, is a
float64 and printed as itself), `LinesAssumption` (what parsing of JSON and lines
hands over: texts whose numbers are not absurdly beyond a float64), and
`LogAssumption` (a line of a log that is marked as written from fields is what
the format makes of them, and no field has the mark it ends with). TLC evaluates
all four on the instance.

### Only model-checked

- Liveness under fairness (`CancelReturns`, `EndReturns`), which is out of reach
  of the prover.
- `MeaningOfGrammar` and `RefusedOutsideGrammar`: the grammar is a set of
  sentences built up by recursion over phrases, and the proof an induction over
  sentences with a stack.
- `AnyValueQuotable`, `TokensKept`: what the lexer computes, by recursion over a
  text. `SearchFindsAll`: it is stated of the literals of the instance; that
  the statement Search builds is answered exactly is `AnswersAreExact`.
- Files (`FileReadsBack`, `CutGivesBackFooters`, `ProtectedDamageDetected`), which
  are about directories of lists within lists, read by folds the provers cannot
  open, and a scan over bytes; and damage depends on what the digest tells apart,
  which no digest does for all bytes.

## What is not modelled

- Third-party code: the algorithms of zstd and lz4, xxhash and CRC32C, roaring
  bitmaps, JSON, address and date parsing. Each is a constant or a function with
  the contract the code relies on.
- Flags, printing and measuring of the command line. `ntcf pack` runs the same
  loop as `ntcf ingest` without a signal, a clock or a Tailer; that it joins
  several files with a newline in between is left out.
- Bytes the disk keeps in another order than they were written: a crash leaves a
  prefix, and Checkpoint's missing sync is outside the models.
- A forged file: damage is one changed byte or a cut.
- Pools of encoders, allocation, codec names, time zones of dates.
- Test data, benchmarks, examples.

## Plan

Done, in this order: the column builder and the container, the writer and its
abstract log, the proofs about the writer, ingestion, indexes and queries with
their first proof, encodings and chunks; then the restart of ingestion, the
lexer and the parser, the adapters, and the file in bytes with cuts and damage;
then the proofs about checkpoints, the refinement, the directory and its zone
maps, ingestion, the parser's place, and the answers of queries; then the codecs,
for every size of byte and word, the chunk with its header, and the adapters.

To come:

1. For search: that the OR it builds matches a row exactly when one of the
   resolved columns has the value.
2. For files: that the fields of a footer are read as they were appended, with
   the cursor lemmas of `NtcfStoreProofs`. Its lists of segments and columns are
   read by folds, which would have to become recursive functions first.
3. For `NtcfFormat`: the limits on the bytes of a chunk and of a footer, so that
   nothing about them is left to an assumption.
