------------------------------ MODULE NtcfLex ------------------------------
(***************************************************************************)
(* The lexer of internal/query/lex.go on texts over one character of each  *)
(* kind it tells apart.  A text grows character by character, and what the *)
(* lexer makes of it is a function of the text.                            *)
(***************************************************************************)
EXTENDS Naturals, Sequences, SequencesExt

CONSTANT MaxText   \* bound: characters of a text

ASSUME LexAssumption == MaxText \in Nat

VARIABLE text

Quote == "'"
Space == " "
IdentStart == {"a"}
Digit == {"1"}
IdentPart == IdentStart \cup Digit \cup {"."}
SinglePunct == {"=", "("}
Char == {Quote, Space, "!", ".", "?"} \cup IdentStart \cup Digit \cup SinglePunct

(***************************************************************************)
(* A token with its text; a lexed text is a sequence of tokens that ends   *)
(* in one tEOF, or an error.                                               *)
(***************************************************************************)
Lexeme(k, s) == [k |-> k, s |-> s]
EndOfText == Lexeme("eof", <<>>)

Error == [ok |-> FALSE, toks |-> <<>>]
Lexed(toks) == [ok |-> TRUE, toks |-> toks]

\* The first place from i on whose character is not in C.
RunEnd(t, i, C) ==
    CHOOSE j \in i .. Len(t) + 1 :
        /\ j <= Len(t) => t[j] \notin C
        /\ \A m \in i .. j - 1 : t[m] \in C

\* A slip: the character that ends a run is taken with it.
RunAndOne(k, t, i, C) ==
    [tok |-> Lexeme(k, SubSeq(t, i, RunEnd(t, i, C) - 1)),
     next |-> IF RunEnd(t, i, C) > Len(t) THEN Len(t) + 1 ELSE RunEnd(t, i, C) + 1]

Run(k, t, i, C) == [tok |-> Lexeme(k, SubSeq(t, i, RunEnd(t, i, C) - 1)), next |-> RunEnd(t, i, C)]

\* A slip: the second quote of a pair ends the literal.
PairEndsLiteral(t, i) == FALSE

\* Two quotes in a row inside a literal are one quote of its value.
EscapedQuote(t, i) == t[i] = Quote /\ i < Len(t) /\ t[i + 1] = Quote

\* The literal whose characters start at i: its value and where it ends.
Literal(t, start) ==
    LET body[i \in start .. Len(t) + 2] ==
            IF i > Len(t) THEN [ok |-> FALSE, s |-> <<>>, next |-> i]
            ELSE IF EscapedQuote(t, i)
                 THEN [body[i + 2] EXCEPT !.s = <<Quote>> \o @]
            ELSE IF t[i] = Quote THEN [ok |-> TRUE, s |-> <<>>, next |-> i + 1]
            ELSE [body[i + 1] EXCEPT !.s = <<t[i]>> \o @]
    IN  body[start]

NumberPart == Digit \cup {"."}

Lex(t) ==
    LET cons(tok, rest) == IF rest.ok THEN Lexed(<<tok>> \o rest.toks) ELSE Error
        lex[i \in 1 .. Len(t) + 1] ==
            IF i > Len(t) THEN Lexed(<<EndOfText>>)
            ELSE IF t[i] = Space THEN lex[i + 1]
            ELSE IF t[i] = Quote
                 THEN LET l == Literal(t, i + 1)
                      IN  IF l.ok THEN cons(Lexeme("str", l.s), lex[l.next]) ELSE Error
            ELSE IF t[i] = "!"
                 THEN IF i < Len(t) /\ t[i + 1] = "="
                      THEN cons(Lexeme("punct", <<"!", "=">>), lex[i + 2])
                      ELSE Error
            ELSE IF t[i] \in SinglePunct THEN cons(Lexeme("punct", <<t[i]>>), lex[i + 1])
            ELSE IF t[i] \in Digit
                 THEN LET r == Run("num", t, i, NumberPart) IN cons(r.tok, lex[r.next])
            ELSE IF t[i] \in IdentStart
                 THEN LET r == Run("ident", t, i, IdentPart) IN cons(r.tok, lex[r.next])
            ELSE Error
    IN  lex[1]

LexInit == text = <<>>

Type ==
    /\ Len(text) < MaxText
    /\ \E c \in Char : text' = Append(text, c)

(***************************************************************************)
(* Properties.                                                             *)
(***************************************************************************)

\* The literal that stands for a value: its quotes doubled, between quotes.
Quoted(v) ==
    <<Quote>> \o FoldLeft(LAMBDA s, c : s \o IF c = Quote THEN <<c, c>> ELSE <<c>>, <<>>, v) \o <<Quote>>

\* Every value can be written in a query, quotes, spaces and all, and is read
\* as that value and nothing else (lex.go:49, :63).
AnyValueQuotable == Lex(Quoted(text)) = Lexed(<<Lexeme("str", text), EndOfText>>)

Written(tok) == IF tok.k = "str" THEN Quoted(tok.s) ELSE tok.s

Spaced(toks) == FoldLeft(LAMBDA s, tok : s \o Written(tok) \o <<Space>>, <<>>, toks)

Unspaced(s) == SelectSeq(s, LAMBDA c : c # Space)

\* A text that lexes is what its tokens say: nothing in it but spaces is left
\* out, and the tokens, written with spaces between them, are read as the same
\* tokens, none cut in two or joined with its neighbour; the end of the text is
\* a token of its own, the last (lex.go:49-106).
TokensKept ==
    LET l == Lex(text)
    IN  l.ok =>
            /\ Unspaced(text) = Unspaced(Spaced(l.toks))
            /\ Lex(Spaced(l.toks)) = l
            /\ \A i \in DOMAIN l.toks : l.toks[i].k = "eof" <=> i = Len(l.toks)
=============================================================================
