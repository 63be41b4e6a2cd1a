---------------------------- MODULE MCNtcfParse ----------------------------
(* A query comes to the lexer character by character or, when it is longer, *)
(* to the parser token by token.                                            *)
EXTENDS NtcfGrammar, NtcfLex

SomeNames == Keywords \cup {"a"}

SomeAtoi == [s \in {"0", "2", "1.5"} |-> IF s = "0" THEN 0 ELSE IF s = "2" THEN 2 ELSE -1]

\* Every kind of query with one unusual token, and long WHERE expressions.
SomeBounds ==
    {[tokens |-> 12, odd |-> 1, star |-> FALSE], [tokens |-> 20, odd |-> 0, star |-> TRUE]}

MCInit == Init /\ LexInit

MCNext ==
    \/ toks = <<>> /\ Type /\ UNCHANGED vars
    \/ text = <<>> /\ Next /\ UNCHANGED text

MCSpec == MCInit /\ [][MCNext]_<<vars, text>>
=============================================================================
