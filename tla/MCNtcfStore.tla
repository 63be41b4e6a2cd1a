---------------------------- MODULE MCNtcfStore ----------------------------
(* Small instances of columns, chunks and files: words of ten bits in two   *)
(* bytes of five.                                                           *)
EXTENDS NtcfStore

Family(k, cs, n, f) == [kind |-> k, cells |-> cs, rows |-> n, file |-> f]

\* Values around the places where a byte, a word or the sign ends.
Ends == {0, 1, 15, 16, 31, 32, 511, 512, 513, 1022, 1023}

\* Every word; pairs, triples and nulls of the ends; long columns of two
\* values; strings with nulls.  The last ones also go into files: one with
\* nulls and one of strings, among them the magic and one that is too long.
AllFamilies ==
    {Family("int", Word, 1, FALSE),
     Family("int", Ends, 3, FALSE),
     Family("int", {0, 1, 512, 1023, Null}, 4, FALSE),
     Family("int", {5, 538}, 7, FALSE),
     Family("bytes", {0, 1, 2, 3, 4, Null}, 4, FALSE),
     Family("bytes", {1, 5}, 6, FALSE),
     Family("int", {0, 700, Null}, 2, TRUE),
     Family("bytes", {1, 4, 5}, 2, TRUE)}

SomeTexts == << <<>>, <<0>>, <<0, 7>>, <<1>>, <<7, 0, 3, 9>>, <<14, 5>> >>

TheMagic == <<14, 5>>

\* An entropy algorithm: counts and bytes.
SqueezeRuns(s) ==
    FoldLeft(LAMBDA r, x : IF r # <<>> /\ Last(r) = x /\ r[Len(r) - 1] < 31
                           THEN [r EXCEPT ![Len(r) - 1] = @ + 1] ELSE r \o <<1, x>>, <<>>, s)

ExpandRuns(s) ==
    IF Len(s) % 2 = 1 \/ \E k \in DOMAIN s : k % 2 = 1 /\ s[k] = 0 THEN Failed
    ELSE [ok |-> TRUE,
          bytes |-> FlattenSeq([k \in 1 .. (Len(s) \div 2) |->
                                   [i \in 1 .. s[2 * k - 1] |-> s[2 * k]]])]

\* A digest in which one changed byte always shows: sixteen bytes at a time.
Term(s, i) == IF i <= Len(s) THEN (s[i] + 1) * (2 * i + 1) ELSE 0

Digest(s) ==
    (11 + Total([r \in 1 .. 32 |-> IF 16 * (r - 1) < Len(s)
                                   THEN Total([j \in 1 .. 16 |-> Term(s, 16 * (r - 1) + j)], 16)
                                   ELSE 0], 32)) % 1024

\* Both are what the proofs take of them, for the strings of up to three bytes.
ASSUME EntropyRightHere ==
    \A n \in 0 .. 3 : \A s \in [1 .. n -> {0, 1, 31}] : EntropyRightFor(s)

\* A long column of two values, among them the regular ones.
RegularFamilies == {Family("int", {1, 2}, 9, FALSE)}

\* One column for files.
FileFamilies == {Family("int", {9, Null}, 2, TRUE)}
=============================================================================
