----------------------------- MODULE NtcfColumn -----------------------------
(***************************************************************************)
(* Column vectors: the builder that accumulates one column of a segment    *)
(* (internal/column/builder.go), the statistics taken from it, and the     *)
(* cell a decoded vector answers with (internal/column/column.go).         *)
(*                                                                         *)
(* Integer and byte columns behave alike here: a value is a natural number *)
(* that stands for the 64-bit word, or for the byte string of that rank in *)
(* the bytewise order.  0 is the zero word or the empty string, which is   *)
(* also the placeholder the builder stores under a null.                   *)
(***************************************************************************)
EXTENDS Integers, Sequences, FiniteSets, FiniteSetsExt

CONSTANTS
    Null,       \* the null cell of a record
    HalfWord    \* half the number of words: 2^63 in the code

ASSUME ColumnAssumption ==
    /\ HalfWord \in Nat \ {0}
    /\ Null \notin Nat

Word == 0 .. (2 * HalfWord - 1)

\* int64(v): the signed reading of an unsigned word.
AsInt64(v) == IF v < HalfWord THEN v ELSE v - 2 * HalfWord

(***************************************************************************)
(* A builder is its value stream, one entry per row, and its presence      *)
(* marks, 1 for a value and 0 for a null; present = <<>> is Go's nil slice *)
(* ("no null so far").                                                     *)
(***************************************************************************)
Builder == [vals : Seq(Word), present : Seq({0, 1})]

\* No presence marks, or one for each row.
Sound(b) == b \in Builder /\ Len(b.present) \in {0, Len(b.vals)}

NewBuilder == [vals |-> <<>>, present |-> <<>>]

Rows(b) == Len(b.vals)

HasNulls(b) == b.present # <<>>

Present(b, i) == HasNulls(b) => b.present[i] = 1

AppendValue(b, v) ==
    [vals    |-> Append(b.vals, v),
     present |-> IF HasNulls(b) THEN Append(b.present, 1) ELSE <<>>]

\* The first null materialises the marks of every row before it.
AppendNull(b) ==
    LET marks == IF HasNulls(b) THEN b.present ELSE [i \in 1 .. Rows(b) |-> 1]
    IN  [vals |-> Append(b.vals, 0), present |-> Append(marks, 0)]

AppendCell(b, c) == IF c = Null THEN AppendNull(b) ELSE AppendValue(b, c)

\* A slip: the value stream is cut back but the presence marks survive.
ResetKeepsMarks(b) == [vals |-> <<>>, present |-> b.present]

Reset(b) == [vals |-> <<>>, present |-> <<>>]

\* The cell a reader sees at row i: Data.IsNull, else the stored value.
CellAt(b, i) == IF Present(b, i) THEN b.vals[i] ELSE Null

\* A slip: every row counts as present, placeholders included.
AllRows(b) == 1 .. Rows(b)

PresentRows(b) == {i \in 1 .. Rows(b) : Present(b, i)}

PresentValues(b) == {b.vals[i] : i \in PresentRows(b)}

(***************************************************************************)
(* Stats: min and max over the present values; both keep the zero value    *)
(* when there is none.                                                     *)
(***************************************************************************)
Stats(b) ==
    LET S == PresentValues(b)
    IN  [hasNulls |-> HasNulls(b),
         nonNull  |-> Cardinality(PresentRows(b)),
         min      |-> IF S = {} THEN 0 ELSE Min(S),
         max      |-> IF S = {} THEN 0 ELSE Max(S)]

\* The elements of S from the first to the last one, each found by how many
\* are before it: what sorting makes of a set of distinct elements.
InOrder(S, before(_, _)) ==
    [k \in 1 .. Cardinality(S) |->
        CHOOSE x \in S : Cardinality({y \in S : before(y, x)}) = k - 1]
=============================================================================
