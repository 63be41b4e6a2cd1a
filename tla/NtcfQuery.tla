------------------------------ MODULE NtcfQuery ------------------------------
(***************************************************************************)
(* The query engine of internal/query over a file that a writer closed:    *)
(* one statement, evaluated segment by segment with zone maps, Bloom       *)
(* filters and inverted indexes in front of the scan of a decoded column.  *)
(*                                                                         *)
(* A byte string, an address and a word are all a natural number here (see *)
(* NtcfColumn).  Names are column numbers; a number that is no column is a *)
(* name the schema does not have.                                          *)
(***************************************************************************)
EXTENDS NtcfIndex, SequencesExt

CONSTANTS
    Types,            \* the logical type of each column, in schema order
    Indexed,          \* the columns with an index blob
    SegmentRows,      \* rows of every segment but the last
    Tables,           \* the tables a file may hold, sequences of rows
    Exprs,            \* WHERE expressions, with every expression in them
    Stmts,            \* the statements to run
    Damages,          \* sets of <<segment, column>> whose chunk is damaged
    DefaultRowLimit,
    TextRank          \* the order of the texts that words are printed as

Cols == 1 .. Len(Types)

IntTypes == {"timestamp", "uint", "port", "bool"}

ASSUME QueryAssumption ==
    /\ \A c \in Cols : Types[c] \in IntTypes \cup {"ip", "enum", "string"}
    /\ Indexed \subseteq Cols
    /\ SegmentRows \in Nat \ {0}
    /\ \A t \in Tables : t \in Seq([Cols -> Word \cup {Null}])
    /\ \A e \in Exprs : e.op \in {"and", "or"} => e.l \in Exprs /\ e.r \in Exprs
    /\ \A st \in Stmts :
          /\ st.where \in Exprs
          /\ \/ st.kind = "count"
             \/ st.kind = "top" /\ st.n \in Nat
             \/ st.kind = "rows" /\ st.limit \in Nat
    /\ DefaultRowLimit \in Nat \ {0}
    /\ TextRank \in [Word -> Nat]

VARIABLES
    table,    \* the records that were written
    file,     \* the segments of the file
    damaged,  \* the chunks that no longer decode
    stmt,     \* the statement
    seg,      \* the segment the loop is at
    hist,     \* execTop: value -> rows so far
    rows,     \* Result.Rows
    count,    \* Result.Count
    pruned, scanned,  \* the segments tallied as either
    decoded,  \* history: the columns decoded, as <<segment, column>>
    phase     \* "new", "run", "done" or "failed"

vars == <<table, file, damaged, stmt, seg, hist, rows, count, pruned, scanned, decoded, phase>>
result == <<hist, rows, count, pruned, scanned>>

(***************************************************************************)
(* The file: what the writer makes of a table.                             *)
(***************************************************************************)
BuilderOf(recs, c) ==
    FoldLeft(LAMBDA b, r : AppendCell(b, r[c]), NewBuilder, recs)

ColumnOf(b, c) ==
    [data |-> b, stats |-> Stats(b),
     index |-> IF c \in Indexed THEN BuildColumn(b) ELSE NoIndex]

SegmentOf(recs) ==
    [rows |-> Len(recs), columns |-> [c \in Cols |-> ColumnOf(BuilderOf(recs, c), c)]]

Segments(t) ==
    [i \in 1 .. (Len(t) + SegmentRows - 1) \div SegmentRows |->
        SegmentOf(SubSeq(t, (i - 1) * SegmentRows + 1,
                         IF i * SegmentRows < Len(t) THEN i * SegmentRows ELSE Len(t)))]

(***************************************************************************)
(* Statements: count, top(col, n), or a projection with a limit.  An       *)
(* expression is a tree of And and Or over comparisons; All stands for a   *)
(* statement without WHERE.                                                *)
(***************************************************************************)
All == [op |-> "all"]
And(l, r) == [op |-> "and", l |-> l, r |-> r]
Or(l, r) == [op |-> "or", l |-> l, r |-> r]
Cmp(c, op, vals) == [op |-> op, col |-> c, vals |-> vals]

ExprColumns ==
    LET columns[e \in Exprs] ==
            IF e.op = "all" THEN {}
            ELSE IF e.op \in {"and", "or"} THEN columns[e.l] \cup columns[e.r]
            ELSE {e.col}
    IN  columns

Selected(st) ==
    IF st.kind = "count" THEN {} ELSE IF st.kind = "top" THEN {st.col} ELSE ToSet(st.cols)

Valid(st) == Selected(st) \cup ExprColumns[st.where] \subseteq Cols

(***************************************************************************)
(* Search turns a field into an OR of equalities: one for each column of a *)
(* type, or the column of that name.  A field without a column is an error *)
(* like an unknown name.                                                   *)
(***************************************************************************)
AllColumns == [c \in Cols |-> c]

\* A slip: only the first column of the type is looked at.
ResolveFirst(field) ==
    SelectSeq(AllColumns, LAMBDA c : IF field.by = "type"
                                     THEN /\ Types[c] = field.type
                                          /\ \A d \in 1 .. (c - 1) : Types[d] # field.type
                                     ELSE c = field.col)

ResolveSearchColumns(field) ==
    SelectSeq(AllColumns, LAMBDA c : IF field.by = "type" THEN Types[c] = field.type
                                                          ELSE c = field.col)

SearchExpr(field, l) ==
    LET cols == ResolveSearchColumns(field)
        equal(c) == Cmp(c, "=", <<l>>)
    IN  IF cols = <<>> THEN equal(0)
        ELSE FoldLeft(LAMBDA e, c : Or(e, equal(c)), equal(cols[1]), Tail(cols))

Search(field, l, limit) ==
    [kind |-> "rows", cols |-> AllColumns, where |-> SearchExpr(field, l), limit |-> limit]

(***************************************************************************)
(* A literal is what the parsers make of its text: the time, truth value,  *)
(* number, address and byte string it reads as, each a set of at most one. *)
(***************************************************************************)
NormInt(t, l) ==
    IF t = "timestamp" /\ l.time # {} THEN {x % (2 * HalfWord) : x \in l.time}
    ELSE IF t = "bool" /\ l.bool # {} THEN l.bool
    ELSE l.num

NormBytes(t, l) == IF t = "ip" THEN l.ip ELSE l.str

Norm(c, l) ==
    IF Types[c] \in IntTypes THEN NormInt(Types[c], l) ELSE NormBytes(Types[c], l)

(***************************************************************************)
(* Evaluation on one segment: the matching rows, and the columns that were *)
(* decoded for them.  A damaged chunk would decode to zeros if DecodeChunk *)
(* did not refuse it.                                                      *)
(***************************************************************************)
Nothing == [rows |-> {}, cols |-> {}]

ColumnData(s, c) ==
    IF <<s, c>> \in damaged
    THEN [vals |-> [i \in 1 .. file[s].rows |-> 0], present |-> <<>>]
    ELSE file[s].columns[c].data

Compare(op, a, b) ==
    \/ op = "=" /\ a = b
    \/ op = "!=" /\ a # b
    \/ op = "<" /\ a < b
    \/ op = ">" /\ a > b

Scan(s, c, op, V) ==
    LET d == ColumnData(s, c)
    IN  [rows |-> {i \in PresentRows(d) : \E v \in V : Compare(op, d.vals[i], v)},
         cols |-> {c}]

\* A slip: the bounds themselves count as outside.
ZoneExcludesEnds(st, v) == st.nonNull > 0 /\ (v <= st.min \/ v > st.max)

ZoneExcludes(st, v) == st.nonNull > 0 /\ (v < st.min \/ v > st.max)

EvalEquality(s, c, l) ==
    LET cd == file[s].columns[c]
        ix == cd.index
        V  == {v \in Norm(c, l) : /\ ~ ZoneExcludes(cd.stats, v)
                                  /\ ix.bloom => MayContain(ix.filter, v)}
    IN  IF V = {} THEN Nothing
        ELSE IF ix.inverted
             THEN [rows |-> UNION {Lookup(ix.postings, v) : v \in V}, cols |-> {}]
             ELSE Scan(s, c, "=", V)

EvalCmp(s, e) ==
    IF e.op = "in"
    THEN LET R == {EvalEquality(s, e.col, l) : l \in ToSet(e.vals)}
         IN  [rows |-> UNION {r.rows : r \in R}, cols |-> UNION {r.cols : r \in R}]
    ELSE IF e.op = "=" THEN EvalEquality(s, e.col, e.vals[1])
    ELSE Scan(s, e.col, e.op, Norm(e.col, e.vals[1]))

EvalSegment(s, where) ==
    LET eval[e \in Exprs] ==
            IF e.op = "all" THEN [rows |-> 1 .. file[s].rows, cols |-> {}]
            ELSE IF e.op = "and" THEN [rows |-> eval[e.l].rows \cap eval[e.r].rows,
                                       cols |-> eval[e.l].cols \cup eval[e.r].cols]
            ELSE IF e.op = "or" THEN [rows |-> eval[e.l].rows \cup eval[e.r].rows,
                                      cols |-> eval[e.l].cols \cup eval[e.r].cols]
            ELSE EvalCmp(s, e)
    IN  eval[where]

(***************************************************************************)
(* Output.  A null and an empty string both print as the empty text, for   *)
(* which Null stands.                                                      *)
(***************************************************************************)
FormatCell(c, v) ==
    IF v = Null THEN Null
    ELSE IF Types[c] = "bool" THEN (IF v # 0 THEN 1 ELSE 0)
    ELSE IF v = 0 /\ Types[c] \in {"enum", "string"} THEN Null
    ELSE v

Before(h, a, b) ==
    \/ h[a] > h[b]
    \/ h[a] = h[b] /\ TextRank[a] < TextRank[b]

TopItems(h, c, n) ==
    LET items == InOrder({v \in Word : h[v] > 0}, LAMBDA a, b : Before(h, a, b))
        m == IF n > Len(items) THEN Len(items) ELSE n
    IN  [i \in 1 .. m |-> <<FormatCell(c, items[i]), h[items[i]]>>]

(***************************************************************************)
(* Execute.                                                                *)
(***************************************************************************)
NoHist == [v \in Word |-> 0]

Init ==
    /\ table \in Tables
    /\ file = Segments(table)
    /\ damaged \in Damages
    /\ stmt \in Stmts
    /\ seg = 1
    /\ hist = NoHist /\ rows = <<>> /\ count = 0
    /\ pruned = {} /\ scanned = {} /\ decoded = {}
    /\ phase = "new"

\* A count without WHERE is answered from the footer.
FromFooter == stmt.kind = "count" /\ stmt.where = All

Execute ==
    /\ phase = "new"
    /\ \/ ~ Valid(stmt) /\ phase' = "failed" /\ UNCHANGED count
       \/ /\ Valid(stmt) /\ FromFooter
          /\ phase' = "done"
          /\ count' = Len(table)   \* the footer's TotalRows
       \/ Valid(stmt) /\ ~ FromFooter /\ phase' = "run" /\ UNCHANGED count
    /\ UNCHANGED <<table, file, damaged, stmt, seg, hist, rows, pruned, scanned, decoded>>

Limit == IF stmt.limit = 0 THEN DefaultRowLimit ELSE stmt.limit

AtSegment(kind) ==
    /\ phase = "run"
    /\ stmt.kind = kind
    /\ seg <= Len(file)

\* Reader.Column of these columns of the segment: an error ends the query.
Decode(cols) == decoded' = decoded \cup {<<seg, c>> : c \in cols}

Fails(cols) == \E c \in cols : <<seg, c>> \in damaged

Abort == phase' = "failed" /\ UNCHANGED <<result, seg>>

NextSegment == seg' = seg + 1 /\ UNCHANGED phase

\* A slip: a segment counts as pruned when no column was decoded for it.
TallyUndecoded(r) ==
    IF r.cols = {}
    THEN pruned' = pruned \cup {seg} /\ UNCHANGED scanned
    ELSE scanned' = scanned \cup {seg} /\ UNCHANGED pruned

Tally(r) ==
    IF r.rows = {} /\ r.cols = {}
    THEN pruned' = pruned \cup {seg} /\ UNCHANGED scanned
    ELSE scanned' = scanned \cup {seg} /\ UNCHANGED pruned

CountSegment ==
    /\ AtSegment("count")
    /\ LET r == EvalSegment(seg, stmt.where)
       IN  /\ Decode(r.cols)
           /\ IF Fails(r.cols)
              THEN Abort
              ELSE /\ count' = count + Cardinality(r.rows)
                   /\ Tally(r)
                   /\ NextSegment
                   /\ UNCHANGED <<hist, rows>>
    /\ UNCHANGED <<table, file, damaged, stmt>>

\* A slip: the output columns are decoded before it is known that any row matches.
DecodeAlways(r, cols) == r.cols \cup cols

WithOutput(r, cols) ==
    IF r.rows = {} \/ Fails(r.cols) THEN r.cols ELSE r.cols \cup cols

HasHistogram == stmt.where = All /\ file[seg].columns[stmt.col].index.inverted

TopFromIndex ==
    /\ AtSegment("top")
    /\ HasHistogram
    /\ LET h == Histogram(file[seg].columns[stmt.col].index.postings)
       IN  hist' = [v \in Word |-> hist[v] + (IF v \in DOMAIN h THEN h[v] ELSE 0)]
    /\ NextSegment
    /\ UNCHANGED <<table, file, damaged, stmt, rows, count, pruned, scanned, decoded>>

TopSegment ==
    /\ AtSegment("top")
    /\ ~ HasHistogram
    /\ LET r    == EvalSegment(seg, stmt.where)
           cols == WithOutput(r, {stmt.col})
           d    == ColumnData(seg, stmt.col)
       IN  /\ Decode(cols)
           /\ IF Fails(cols)
              THEN Abort
              ELSE /\ hist' = [v \in Word |-> hist[v] +
                                  Cardinality({i \in r.rows \cap PresentRows(d) : d.vals[i] = v})]
                   /\ Tally(r)
                   /\ NextSegment
                   /\ UNCHANGED <<rows, count>>
    /\ UNCHANGED <<table, file, damaged, stmt>>

\* A slip: the limit holds for each segment by itself.
RoomPerSegment == Limit

Room == Limit - Len(rows)

RowsSegment ==
    /\ AtSegment("rows")
    /\ Len(rows) < Limit
    /\ LET r     == EvalSegment(seg, stmt.where)
           cols  == WithOutput(r, ToSet(stmt.cols))
           found == InOrder(r.rows, <)
           taken == SubSeq(found, 1, IF Len(found) < Room THEN Len(found) ELSE Room)
           print(i) == [k \in DOMAIN stmt.cols |->
                           FormatCell(stmt.cols[k], CellAt(ColumnData(seg, stmt.cols[k]), i))]
       IN  /\ Decode(cols)
           /\ IF Fails(cols)
              THEN Abort
              ELSE /\ rows' = rows \o [k \in DOMAIN taken |-> print(taken[k])]
                   /\ Tally(r)
                   /\ NextSegment
                   /\ UNCHANGED <<hist, count>>
    /\ UNCHANGED <<table, file, damaged, stmt>>

Finish ==
    /\ phase = "run"
    /\ seg > Len(file) \/ (stmt.kind = "rows" /\ Len(rows) >= Limit)
    /\ phase' = "done"
    /\ rows' = IF stmt.kind = "top" THEN TopItems(hist, stmt.col, stmt.n) ELSE rows
    /\ UNCHANGED <<table, file, damaged, stmt, seg, hist, count, pruned, scanned, decoded>>

Next ==
    \/ Execute
    \/ CountSegment
    \/ TopFromIndex
    \/ TopSegment
    \/ RowsSegment
    \/ Finish

Spec == Init /\ [][Next]_vars

\* What the parsers hand over: trees that end, comparisons with their literals,
\* one of them unless it is IN, and numbers of 64 bits (parse.go:181-301,
\* exec.go:321-359).
ParsedExprs(depth) ==
    /\ depth \in [Exprs -> Nat]
    /\ \A e \in Exprs :
          \/ e.op = "all"
          \/ e.op \in {"and", "or"} /\ depth[e.l] < depth[e] /\ depth[e.r] < depth[e]
          \/ /\ e.op \in {"in", "=", "!=", "<", ">"}
             /\ e.op # "in" => DOMAIN e.vals = {1}
             /\ \A l \in ToSet(e.vals) :
                   l.time \subseteq Int /\ l.num \subseteq Word /\ l.bool \subseteq {0, 1}

\* Times are compared as unsigned words, which is right as long as none of those
\* compared is before 1970; the run of pre-epoch times shows what happens then.
RangesAfterEpoch ==
    \A e \in Exprs :
        e.op \in {"<", ">"} /\ e.col \in Cols /\ Types[e.col] = "timestamp" =>
            /\ \A v \in Norm(e.col, e.vals[1]) : v < HalfWord
            /\ \A t \in Tables : \A i \in 1 .. Len(t) :
                  t[i][e.col] # Null => t[i][e.col] < HalfWord

\* Different values print as different texts.
TextsDiffer == \A a, b \in Word : TextRank[a] = TextRank[b] => a = b

(***************************************************************************)
(* What a statement means, row by row on the table (docs/QueryEngine.md):  *)
(* a comparison with a null is false, and times compare as times.          *)
(***************************************************************************)
Holds(c, op, a, b) ==
    IF Types[c] = "timestamp" THEN Compare(op, AsInt64(a), AsInt64(b)) ELSE Compare(op, a, b)

Matches(row, where) ==
    LET match[e \in Exprs] ==
            IF e.op = "all" THEN TRUE
            ELSE IF e.op = "and" THEN match[e.l] /\ match[e.r]
            ELSE IF e.op = "or" THEN match[e.l] \/ match[e.r]
            ELSE /\ row[e.col] # Null
                 /\ \E l \in ToSet(e.vals) : \E v \in Norm(e.col, l) :
                       Holds(e.col, IF e.op = "in" THEN "=" ELSE e.op, row[e.col], v)
    IN  match[where]

MatchingRows == {i \in 1 .. Len(table) : Matches(table[i], stmt.where)}

Occurrences(v) == Cardinality({i \in MatchingRows : table[i][stmt.col] = v})

CountRight == count = Cardinality(MatchingRows)

\* The rows are the first matching ones, in the order they were written.
RowsRight ==
    LET place(i) == Cardinality({j \in MatchingRows : j <= i})
        n == IF Cardinality(MatchingRows) < Limit THEN Cardinality(MatchingRows) ELSE Limit
    IN  /\ Len(rows) = n
        /\ \A i \in MatchingRows : place(i) <= n =>
              rows[place(i)] = [k \in DOMAIN stmt.cols |->
                                   FormatCell(stmt.cols[k], table[i][stmt.cols[k]])]

\* The items are n different values, the most frequent first and by text among
\* equals, each with the number of its matching rows.
TopRight ==
    LET values == {v \in Word : Occurrences(v) > 0}
        better(a, b) == \/ Occurrences(a) > Occurrences(b)
                        \/ Occurrences(a) = Occurrences(b) /\ TextRank[a] < TextRank[b]
        place(v) == Cardinality({u \in values : better(u, v)}) + 1
        n == IF stmt.n < Cardinality(values) THEN stmt.n ELSE Cardinality(values)
    IN  /\ Len(rows) = n
        /\ \A v \in values : place(v) <= n =>
              rows[place(v)] = <<FormatCell(stmt.col, v), Occurrences(v)>>

TypeOK ==
    /\ seg \in 1 .. (Len(file) + 1)
    /\ hist \in [Word -> Nat]
    /\ count \in 0 .. Len(table)
    /\ stmt.kind = "rows" => Len(rows) <= Limit
    /\ pruned \subseteq 1 .. Len(file) /\ scanned \subseteq 1 .. Len(file)
    /\ decoded \subseteq (1 .. Len(file)) \X Cols
    /\ phase \in {"new", "run", "done", "failed"}

\* A query that answers gives the answer of the row-by-row meaning, whatever
\* was pruned, looked up or merged from indexes, and never one that a damaged
\* chunk took part in (QueryEngine.md:68-91, Security.md:57).
AnswerExact ==
    phase = "done" =>
        /\ stmt.kind = "count" => CountRight
        /\ stmt.kind = "top" => TopRight
        /\ stmt.kind = "rows" => RowsRight

SegmentOfRow(i) == (i - 1) \div SegmentRows + 1

HasMatch(s) == \E i \in 1 .. Len(table) : SegmentOfRow(i) = s /\ Matches(table[i], stmt.where)

\* A segment reported as pruned has no matching row, none of its columns was
\* decoded, and no segment is reported twice (exec.go:29-31, 567-575).
PrunedHasNoMatch ==
    /\ pruned \cap scanned = {}
    /\ \A s \in pruned : ~ HasMatch(s) /\ \A c \in Cols : <<s, c>> \notin decoded

\* Only the columns a predicate names are decoded, and the selected ones in
\* segments with a match: damage elsewhere does not fail a query
\* (Architecture.md:86).
OnlyNeededColumns ==
    \A d \in decoded :
        \/ d[2] \in ExprColumns[stmt.where]
        \/ d[2] \in Selected(stmt) /\ HasMatch(d[1])
=============================================================================
