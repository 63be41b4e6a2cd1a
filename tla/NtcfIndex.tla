------------------------------ MODULE NtcfIndex ------------------------------
(***************************************************************************)
(* The index blob of one column of one segment (internal/index): a Bloom   *)
(* filter, and an inverted index when the writer was asked for one and the *)
(* column does not have too many distinct values.                          *)
(***************************************************************************)
EXTENDS NtcfColumn

CONSTANTS
    BloomProbeCap,           \* distinct values counted before sizing by rows
    InvertedMaxCardinality,  \* distinct values an inverted index may have
    WithInverted,            \* WriterOptions.BuildInverted
    Probes(_, _)             \* the bits a filter made for n keys has for v

ASSUME IndexAssumption ==
    /\ BloomProbeCap \in Nat \ {0}
    /\ InvertedMaxCardinality \in Nat
    /\ WithInverted \in BOOLEAN

Distinct(b) == Cardinality(PresentValues(b))

(***************************************************************************)
(* Bloom.  The filter is sized by the distinct values, or by the rows once *)
(* it gave up counting, and never for fewer than one key.                  *)
(***************************************************************************)
BloomKeys(b) ==
    LET n == IF Distinct(b) >= BloomProbeCap THEN Rows(b) ELSE Distinct(b)
    IN  IF n < 1 THEN 1 ELSE n

BuildBloom(b) ==
    [n |-> BloomKeys(b), bits |-> UNION {Probes(BloomKeys(b), v) : v \in PresentValues(b)}]

MayContain(bl, v) == Probes(bl.n, v) \subseteq bl.bits

(***************************************************************************)
(* Inverted: from each distinct value to the rows that hold it.  Nulls are *)
(* in none of them.                                                        *)
(***************************************************************************)
HasInverted(b) == WithInverted /\ Distinct(b) <= InvertedMaxCardinality

BuildInverted(b) ==
    [v \in PresentValues(b) |-> {i \in PresentRows(b) : b.vals[i] = v}]

Lookup(iv, v) == IF v \in DOMAIN iv THEN iv[v] ELSE {}

Histogram(iv) == [v \in DOMAIN iv |-> Cardinality(iv[v])]

(***************************************************************************)
(* A ColumnIndex has a Bloom filter and perhaps an inverted index; that of *)
(* a column without a blob has neither.                                    *)
(***************************************************************************)
NoIndex == [bloom |-> FALSE, inverted |-> FALSE]

BuildColumn(b) ==
    [bloom |-> TRUE, filter |-> BuildBloom(b),
     inverted |-> HasInverted(b), postings |-> IF HasInverted(b) THEN BuildInverted(b) ELSE <<>>]
=============================================================================
