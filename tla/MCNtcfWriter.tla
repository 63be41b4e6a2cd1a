---------------------------- MODULE MCNtcfWriter ----------------------------
(* Small instances of the writer: two columns, a timestamp that is never   *)
(* indexed and a nullable indexed one.                                     *)
EXTENDS NtcfWriter, TLC

\* Times at and after the epoch; 1 is a value, 0 the zero value itself.
RecordsAfterEpoch == {<<2, 1>>, <<1, Null>>, <<Null, 0>>}

\* 7 is the word of the time -1 when HalfWord is 4.
RecordsAroundEpoch == {<<1, 1>>, <<7, 1>>}

\* A null and a value whose bytes look like the magic.
RecordsWithNull == {<<2, 1>>, <<1, Null>>}

OnlyColumnTwo == {2}
=============================================================================
