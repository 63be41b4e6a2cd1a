-------------------------- MODULE NtcfParseProofs --------------------------
(***************************************************************************)
(* The parser never looks past the end of its tokens, and it accepts a     *)
(* statement only when it has read all of it, whatever the names, numbers, *)
(* strings and bounds.                                                     *)
(***************************************************************************)
EXTENDS NtcfGrammar, SequenceTheorems, TLAPS

(***************************************************************************)
(* The inductive invariant.  NeverPastEnd is about the last token only     *)
(* when all of them are consumed; what every step keeps is that none of    *)
(* the consumed tokens is the end of the text, and that the lexer has put  *)
(* nothing behind it.                                                      *)
(***************************************************************************)
TokensFit ==
    /\ toks \in Seq(Tokens)
    /\ pos \in 0 .. Len(toks)
    /\ phase \in {"parse", "done", "failed"}

\* Only the last token can be the end of the text.
EndIsLast == \A i \in 1 .. Len(toks) : toks[i] = EOF => i = Len(toks)

\* The parser has not consumed it.
EndNotEaten == phase = "parse" => \A i \in 1 .. pos : toks[i] # EOF

\* A statement is accepted with nothing left of the text but its end: there is
\* no trailing input that was silently ignored (parse.go:117-121).
AcceptedWhole ==
    phase = "done" => pos + 1 = Len(toks) /\ toks[pos + 1] = EOF

InsideTokens == TokensFit /\ EndIsLast /\ EndNotEaten /\ AcceptedWhole

(***************************************************************************)
(* What the parser's steps do to the tokens and its place in them: nothing *)
(* is consumed, or the current token, which is not the end of the text, or *)
(* the parse is over.                                                      *)
(***************************************************************************)
Peeks == UNCHANGED <<pos, phase>>
Takes == cur # EOF /\ pos' = pos + 1 /\ UNCHANGED phase
Gives == pos' \in {pos, pos + 1} /\ phase' = "failed"
Accepts == cur = EOF /\ UNCHANGED pos /\ phase' = "done"

Parses ==
    /\ phase = "parse"
    /\ pos < Len(toks)
    /\ UNCHANGED toks
    /\ Peeks \/ Takes \/ Gives \/ Accepts

\* A keyword, a punctuation, a number and a string are not the end of the text
\* (lex.go:26-33).
LEMMA TokenKind == \A k, s : Tok(k, s).k = k
  BY DEF Tok

LEMMA KindsDiffer ==
    /\ \A s : IsKeyword(s) => cur # EOF
    /\ \A s : IsPunct(s) => cur # EOF
    /\ \A n : IsNumber(n) => cur # EOF
    /\ IsLiteral => cur # EOF
    /\ \A k : cur.k = k /\ k # "eof" => cur # EOF
<1>1. EOF.k = "eof"
  BY TokenKind, Zenon DEF EOF
<1>2. \A s : Ident(s).k = "ident" /\ Punct(s).k = "punct"
  BY TokenKind DEF Ident, Punct
<1> QED  BY <1>1, <1>2 DEF IsKeyword, IsPunct, IsNumber, IsLiteral

\* Going on without the current token, or with it, and stopping.
LEMMA Consumption ==
    ASSUME pos \in Nat
    PROVE  /\ \A r : Go(0, r) => Peeks
           /\ \A r : Go(1, r) /\ cur # EOF => Takes
           /\ Stop(0) => Gives
           /\ Stop(1) => Gives
<1>1. \A r : Go(0, r) => Peeks
  BY DEF Go, Peeks
<1>2. \A r : Go(1, r) /\ cur # EOF => Takes
  BY DEF Go, Takes
<1>3. (Stop(0) => Gives) /\ (Stop(1) => Gives)
  BY DEF Stop, Gives
<1> QED  BY <1>1, <1>2, <1>3

\* A step is the lexer's next token, behind the others and behind none that is
\* the end of the text, or it parses (parse.go:63-276).
LEMMA ParserSteps ==
    ASSUME TokensFit, Next
    PROVE  Parses \/ \E t \in Tokens : ReadToken(t)
<1>1. pos \in Nat
  BY DEF TokensFit
<1>2. \A place : Looks(place) => phase = "parse" /\ pos < Len(toks) /\ UNCHANGED toks
  BY DEF Looks
<1> DEFINE Moves == Peeks \/ Takes \/ Gives \/ Accepts
<1>3. ASSUME Moves, NEW place, Looks(place) PROVE Parses
  BY <1>2, <1>3 DEF Parses
<1>4. CASE ExpectPunct
  BY <1>1, <1>3, <1>4, Consumption, KindsDiffer DEF ExpectPunct, Eat
<1>5. CASE Select
  BY <1>1, <1>3, <1>5, Consumption, KindsDiffer DEF Select, Eat
<1>6. CASE SelectList
  BY <1>1, <1>3, <1>6, Consumption, KindsDiffer DEF SelectList
<1>7. CASE TopColumn
  BY <1>1, <1>3, <1>7, Consumption, KindsDiffer DEF TopColumn, Next1
<1>8. CASE TopComma
  BY <1>1, <1>3, <1>8, Consumption, KindsDiffer DEF TopComma, Option
<1>9. CASE TopN
  BY <1>1, <1>3, <1>9, Consumption, KindsDiffer DEF TopN, Next1
<1>10. CASE Column
  BY <1>1, <1>3, <1>10, Consumption, KindsDiffer DEF Column, Next1
<1>11. CASE MoreColumns
  BY <1>1, <1>3, <1>11, Consumption, KindsDiffer DEF MoreColumns, Option
<1>12. CASE From
  BY <1>1, <1>3, <1>12, Consumption, KindsDiffer DEF From, Eat
<1>13. CASE Table
  BY <1>1, <1>3, <1>13, Consumption, KindsDiffer DEF Table, Next1
<1>14. CASE Where
  BY <1>1, <1>3, <1>14, Consumption, KindsDiffer DEF Where, Option
<1>15. CASE Limit
  BY <1>1, <1>3, <1>15, Consumption, KindsDiffer DEF Limit, Option
<1>16. CASE LimitN
  BY <1>1, <1>3, <1>16, Consumption, KindsDiffer DEF LimitN, Next1
<1>17. CASE End
  BY <1>1, <1>3, <1>17 DEF End, Accepts, Gives
<1>18. CASE Ands
  BY <1>1, <1>3, <1>18, Consumption, KindsDiffer DEF Ands, Chain, Option
<1>19. CASE Ors
  BY <1>1, <1>3, <1>19, Consumption, KindsDiffer DEF Ors, Chain, Option
<1>20. CASE Factor
  BY <1>1, <1>3, <1>20, Consumption, KindsDiffer DEF Factor, Next1
<1>21. CASE In
  BY <1>1, <1>3, <1>21, Consumption, KindsDiffer DEF In, Option
<1>22. CASE Comparator
  BY <1>1, <1>3, <1>22, Consumption, KindsDiffer DEF Comparator, Next1
<1>23. CASE Value
  BY <1>1, <1>3, <1>23, Consumption, KindsDiffer DEF Value, Next1
<1>24. CASE MoreValues
  BY <1>1, <1>3, <1>24, Consumption, KindsDiffer DEF MoreValues, Option
<1> QED
  BY <1>4, <1>5, <1>6, <1>7, <1>8, <1>9, <1>10, <1>11, <1>12, <1>13, <1>14,
     <1>15, <1>16, <1>17, <1>18, <1>19, <1>20, <1>21, <1>22, <1>23, <1>24
  DEF Next

(***************************************************************************)
(* InsideTokens is inductive.                                              *)
(***************************************************************************)
LEMMA InsideTokensInit == Init => InsideTokens
<1> SUFFICES ASSUME Init PROVE InsideTokens
  OBVIOUS
<1>1. toks = <<>> /\ pos = 0 /\ phase = "parse"
  BY DEF Init
<1>2. TokensFit
  <2>1. <<>> \in Seq(Tokens) /\ Len(<<>>) = 0
    OBVIOUS
  <2> QED  BY <1>1, <2>1 DEF TokensFit
<1>3. EndIsLast /\ EndNotEaten /\ AcceptedWhole
  BY <1>1 DEF EndIsLast, EndNotEaten, AcceptedWhole
<1> QED  BY <1>2, <1>3 DEF InsideTokens

LEMMA ReadKeepsInside ==
    ASSUME InsideTokens, NEW t \in Tokens, ReadToken(t)
    PROVE  InsideTokens'
<1> DEFINE n == Len(toks)
<1>1. /\ toks \in Seq(Tokens) /\ n \in Nat /\ pos = n /\ phase = "parse"
      /\ toks' = Append(toks, t) /\ UNCHANGED <<pos, phase>>
  BY DEF InsideTokens, TokensFit, ReadToken
<1>2. /\ toks' \in Seq(Tokens) /\ Len(toks') = n + 1
      /\ \A i \in 1 .. n : toks'[i] = toks[i]
  BY <1>1, AppendProperties
<1>3. \A i \in 1 .. n : toks[i] # EOF
  BY <1>1 DEF InsideTokens, EndNotEaten
<1> HIDE DEF n
<1>4. TokensFit'
  BY <1>1, <1>2 DEF TokensFit
<1>5. EndIsLast'
  <2> SUFFICES ASSUME NEW i \in 1 .. Len(toks'), toks'[i] = EOF PROVE i = Len(toks')
    BY DEF EndIsLast
  <2>1. i \in 1 .. n \/ i = n + 1
    BY <1>1, <1>2
  <2> QED  BY <1>2, <1>3, <2>1
<1>6. EndNotEaten' /\ AcceptedWhole'
  BY <1>1, <1>2, <1>3 DEF EndNotEaten, AcceptedWhole
<1> QED  BY <1>4, <1>5, <1>6 DEF InsideTokens

LEMMA ParsesKeepInside ==
    ASSUME InsideTokens, Parses
    PROVE  InsideTokens'
<1>1. /\ toks \in Seq(Tokens) /\ Len(toks) \in Nat /\ pos \in 0 .. Len(toks) /\ pos < Len(toks)
      /\ toks' = toks /\ phase = "parse"
  BY DEF InsideTokens, TokensFit, Parses
<1>2. EndIsLast' /\ \A i \in 1 .. pos : toks[i] # EOF
  BY <1>1 DEF InsideTokens, EndIsLast, EndNotEaten
<1>3. CASE Peeks
  BY <1>1, <1>2, <1>3 DEF Peeks, InsideTokens, TokensFit, EndNotEaten, AcceptedWhole
<1>4. CASE Takes
  <2>1. pos' = pos + 1 /\ phase' = "parse" /\ toks[pos + 1] # EOF
    BY <1>1, <1>4 DEF Takes, cur
  <2>2. TokensFit'
    BY <1>1, <2>1 DEF TokensFit
  <2>3. EndNotEaten'
    <3> SUFFICES ASSUME NEW i \in 1 .. pos + 1 PROVE toks[i] # EOF
      BY <1>1, <2>1 DEF EndNotEaten
    <3>1. i \in 1 .. pos \/ i = pos + 1
      BY <1>1
    <3> QED  BY <1>2, <2>1, <3>1
  <2> QED  BY <1>2, <2>1, <2>2, <2>3 DEF InsideTokens, AcceptedWhole
<1>5. CASE Gives
  BY <1>1, <1>2, <1>5 DEF Gives, InsideTokens, TokensFit, EndNotEaten, AcceptedWhole
<1>6. CASE Accepts
  <2>1. pos' = pos /\ phase' = "done" /\ toks[pos + 1] = EOF
    BY <1>6 DEF Accepts, cur
  <2>2. pos + 1 = Len(toks)
    BY <1>1, <2>1 DEF InsideTokens, EndIsLast
  <2> QED  BY <1>1, <1>2, <2>1, <2>2 DEF InsideTokens, TokensFit, EndNotEaten, AcceptedWhole
<1> QED  BY <1>3, <1>4, <1>5, <1>6 DEF Parses

\* The parser stays inside its tokens (parse.go:63-85).
THEOREM AlwaysInside == Spec => []InsideTokens
<1>1. InsideTokens /\ [Next]_vars => InsideTokens'
  <2> SUFFICES ASSUME InsideTokens, [Next]_vars PROVE InsideTokens'
    OBVIOUS
  <2>1. CASE Next
    BY <2>1, ParserSteps, ReadKeepsInside, ParsesKeepInside DEF InsideTokens
  <2>2. CASE UNCHANGED vars
    BY <2>2 DEF vars, InsideTokens, TokensFit, EndIsLast, EndNotEaten, AcceptedWhole
  <2> QED  BY <2>1, <2>2
<1> QED  BY <1>1, InsideTokensInit, PTL DEF Spec

\* No query, accepted, refused or unfinished, makes the parser look at a token
\* behind the end of the text: cur needs no check (parse.go:63-64).
THEOREM NeverLooksPastEnd == Spec => []NeverPastEnd
<1>1. InsideTokens => NeverPastEnd
  <2> SUFFICES ASSUME InsideTokens, phase = "parse", pos = Len(toks), toks # <<>>
               PROVE  Last(toks) # EOF
    BY DEF NeverPastEnd
  <2>1. toks \in Seq(Tokens) /\ \A i \in 1 .. Len(toks) : toks[i] # EOF
    BY DEF InsideTokens, TokensFit, EndNotEaten
  <2>2. Len(toks) \in 1 .. Len(toks)
    BY <2>1
  <2> QED  BY <2>1, <2>2 DEF Last
<1> QED  BY <1>1, AlwaysInside, PTL

\* A statement is accepted only with its whole text read: nothing behind it is
\* ignored (parse.go:117-121).
THEOREM AcceptedIsWhole == Spec => []AcceptedWhole
  BY AlwaysInside, PTL DEF InsideTokens
=============================================================================
