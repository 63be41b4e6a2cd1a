----------------------------- MODULE NtcfParse -----------------------------
(***************************************************************************)
(* The recursive-descent parser of internal/query/parse.go, one step per   *)
(* look at the current token.  The calls that are active, and what each of *)
(* them has left to do, are a stack; the tokens come one at a time, so the *)
(* inputs are all beginnings of queries that a parser can tell apart.      *)
(*                                                                         *)
(* Keywords are compared without their case and are identifiers like any   *)
(* other: only their place makes them keywords.                            *)
(***************************************************************************)
EXTENDS Integers, Sequences, SequencesExt

CONSTANTS
    Names,       \* the texts of identifiers, the keywords among them
    PlainName,   \* the one of them that is used freely
    Numbers,     \* the texts of numbers
    PlainNumber,
    Atoi,        \* strconv.Atoi of a number, -1 when it fails
    Strings,     \* the texts of string literals
    Bounds       \* bounds on the queries: see OddToken and ReadToken

Keywords == {"select", "from", "where", "limit", "and", "or", "in", "count", "top"}

Comparators == {"=", "!=", "<", ">"}

Puncts == Comparators \cup {"(", ")", ",", "*"}

ASSUME ParseAssumption ==
    /\ Keywords \cup {PlainName} \subseteq Names
    /\ PlainNumber \in Numbers
    /\ Atoi \in [Numbers -> Nat \cup {-1}]
    /\ \A b \in Bounds : b.tokens \in Nat /\ b.odd \in Nat /\ b.star \in BOOLEAN

Tok(k, s) == [k |-> k, s |-> s]
Ident(s) == Tok("ident", s)
Punct(s) == Tok("punct", s)
EOF == Tok("eof", "")

Tokens ==
    {Ident(s) : s \in Names} \cup {Punct(s) : s \in Puncts} \cup {EOF}
    \cup {Tok("num", s) : s \in Numbers} \cup {Tok("str", s) : s \in Strings}

VARIABLES
    bound,   \* bound: the one this query is under
    toks,    \* the tokens, as far as the parser has looked
    pos,     \* parser.pos, the tokens consumed
    odd,     \* bound: unusual tokens so far
    todo,    \* what the active calls have left to do, the innermost first
    cmp,     \* parseCmp: the comparison being read
    ret,     \* the expression returned last
    st,      \* the Stmt
    phase    \* "parse", "done" or "failed"

vars == <<bound, toks, pos, odd, todo, cmp, ret, st, phase>>

(***************************************************************************)
(* Expressions and statements.                                             *)
(***************************************************************************)
NoExpr == [op |-> "none"]
And(l, r) == [op |-> "and", l |-> l, r |-> r]
Or(l, r) == [op |-> "or", l |-> l, r |-> r]
Cmp(c, op, vals) == [op |-> op, col |-> c, vals |-> vals]

NoAgg == [func |-> "none", col |-> "", n |-> 0]
Count == [func |-> "count", col |-> "*", n |-> 0]
Top(c, n) == [func |-> "top", col |-> c, n |-> n]

DefaultTop == 10

Stmt(agg, star, proj, where, limit) ==
    [aggregate |-> agg, star |-> star, projection |-> proj, where |-> where, limit |-> limit]

(***************************************************************************)
(* An item of the stack: a place in the parser, for a loop over AND or OR  *)
(* the left operand it holds, and for an eatPunct the text it wants.       *)
(***************************************************************************)
At(a) == [at |-> a, left |-> NoExpr, s |-> ""]
Expect(s) == [at |-> "expect", left |-> NoExpr, s |-> s]
Loop(kw, left) == [at |-> kw, left |-> left, s |-> ""]

Expression == <<At("factor"), Loop("and", NoExpr), Loop("or", NoExpr)>>

Statement ==
    <<At("select"), At("list"), At("from"), At("table"), At("where"), At("limit"), At("end")>>

Init ==
    /\ bound \in Bounds
    /\ toks = <<>> /\ pos = 0 /\ odd = 0
    /\ todo = Statement
    /\ cmp = NoExpr /\ ret = NoExpr
    /\ st = Stmt(NoAgg, FALSE, <<>>, NoExpr, 0)
    /\ phase = "parse"

(***************************************************************************)
(* The lexer hands out a next token until the end of the text.  A query    *)
(* has at most bound.tokens tokens and bound.odd unusual ones: keywords    *)
(* for names, and other literals and comparators than the plain ones.      *)
(***************************************************************************)
Place == Head(todo).at

NameDue == Place \in {"list", "column", "topcol", "table", "factor"}

OddToken(t) ==
    \/ t.k = "ident" /\ t.s # PlainName /\ NameDue /\ ~ (Place = "list" /\ t.s \in {"count", "top"})
    \/ t.k = "punct" /\ t.s \in Comparators \ {"="}
    \/ t.k = "num" /\ t.s # PlainNumber
    \/ t.k = "str"

ReadToken(t) ==
    /\ phase = "parse"
    /\ pos = Len(toks)
    /\ toks # <<>> => Last(toks) # EOF
    /\ t # EOF => Len(toks) + 1 < bound.tokens
    /\ bound.star /\ Place = "list" => t = Punct("*")
    /\ toks' = Append(toks, t)
    /\ odd' = IF OddToken(t) THEN odd + 1 ELSE odd
    /\ odd' <= bound.odd
    /\ UNCHANGED <<bound, pos, todo, cmp, ret, st, phase>>

(***************************************************************************)
(* Looking at the current token.  next() consumes it before it is looked   *)
(* at, eatKeyword and eatPunct only when it is the one they want.          *)
(***************************************************************************)
cur == toks[pos + 1]

Looks(place) ==
    /\ phase = "parse"
    /\ pos < Len(toks)
    /\ Place = place
    /\ UNCHANGED <<bound, toks, odd>>

IsKeyword(kw) == cur = Ident(kw)
IsPunct(s) == cur = Punct(s)

\* A slip: the least number allowed is refused.
IsNumberAbove(least) == cur.k = "num" /\ Atoi[cur.s] > least

IsNumber(least) == cur.k = "num" /\ Atoi[cur.s] >= least

Go(n, rest) ==
    /\ pos' = pos + n
    /\ todo' = rest \o Tail(todo)
    /\ UNCHANGED phase

Stop(n) ==
    /\ pos' = pos + n
    /\ phase' = "failed"
    /\ UNCHANGED todo

Eat(ok, rest) == IF ok THEN Go(1, rest) ELSE Stop(0)

\* A slip: the token is taken whatever it is.
NextAny(ok, rest) == Go(1, rest)

Next1(ok, rest) == IF ok THEN Go(1, rest) ELSE Stop(1)

Option(ok, then, else) == IF ok THEN Go(1, then) ELSE Go(0, else)

(***************************************************************************)
(* parseStmt and parseSelectList.                                          *)
(***************************************************************************)
ExpectPunct ==
    /\ Looks("expect")
    /\ Eat(IsPunct(Head(todo).s), <<>>)
    /\ UNCHANGED <<cmp, ret, st>>

Select ==
    /\ Looks("select")
    /\ Eat(IsKeyword("select"), <<>>)
    /\ UNCHANGED <<cmp, ret, st>>

SelectList ==
    /\ Looks("list")
    /\ \/ /\ IsPunct("*")
          /\ Go(1, <<>>)
          /\ st' = [st EXCEPT !.star = TRUE]
       \/ /\ IsKeyword("count")
          /\ Go(1, <<Expect("("), Expect("*"), Expect(")")>>)
          /\ st' = [st EXCEPT !.aggregate = Count]
       \/ /\ IsKeyword("top")
          /\ Go(1, <<Expect("("), At("topcol")>>)
          /\ UNCHANGED st
       \/ /\ ~ (IsPunct("*") \/ IsKeyword("count") \/ IsKeyword("top"))
          /\ Go(0, <<At("column")>>)
          /\ UNCHANGED st
    /\ UNCHANGED <<cmp, ret>>

TopColumn ==
    /\ Looks("topcol")
    /\ Next1(cur.k = "ident", <<At("topcomma")>>)
    /\ st' = [st EXCEPT !.aggregate = Top(cur.s, DefaultTop)]
    /\ UNCHANGED <<cmp, ret>>

TopComma ==
    /\ Looks("topcomma")
    /\ Option(IsPunct(","), <<At("topn")>>, <<Expect(")")>>)
    /\ UNCHANGED <<cmp, ret, st>>

TopN ==
    /\ Looks("topn")
    /\ Next1(IsNumber(1), <<Expect(")")>>)
    /\ st' = IF IsNumber(1) THEN [st EXCEPT !.aggregate.n = Atoi[cur.s]] ELSE st
    /\ UNCHANGED <<cmp, ret>>

Column ==
    /\ Looks("column")
    /\ Next1(cur.k = "ident", <<At("columns")>>)
    /\ st' = [st EXCEPT !.projection = Append(@, cur.s)]
    /\ UNCHANGED <<cmp, ret>>

MoreColumns ==
    /\ Looks("columns")
    /\ Option(IsPunct(","), <<At("column")>>, <<>>)
    /\ UNCHANGED <<cmp, ret, st>>

From ==
    /\ Looks("from")
    /\ Eat(IsKeyword("from"), <<>>)
    /\ UNCHANGED <<cmp, ret, st>>

Table ==
    /\ Looks("table")
    /\ Next1(cur.k = "ident", <<>>)
    /\ UNCHANGED <<cmp, ret, st>>

Where ==
    /\ Looks("where")
    /\ Option(IsKeyword("where"), Expression, <<>>)
    /\ UNCHANGED <<cmp, ret, st>>

Limit ==
    /\ Looks("limit")
    /\ Option(IsKeyword("limit"), <<At("limitn")>>, <<>>)
    /\ st' = [st EXCEPT !.where = ret]
    /\ UNCHANGED <<cmp, ret>>

LimitN ==
    /\ Looks("limitn")
    /\ Next1(IsNumber(0), <<>>)
    /\ st' = IF IsNumber(0) THEN [st EXCEPT !.limit = Atoi[cur.s]] ELSE st
    /\ UNCHANGED <<cmp, ret>>

End ==
    /\ Looks("end")
    /\ phase' = IF cur = EOF THEN "done" ELSE "failed"
    /\ UNCHANGED <<pos, todo, cmp, ret, st>>

(***************************************************************************)
(* parseOr, parseAnd, parseFactor and parseCmp.                            *)
(***************************************************************************)
Joined(kw, left) ==
    IF left = NoExpr THEN ret
    ELSE IF kw = "and" THEN And(left, ret) ELSE Or(left, ret)

\* The operand of the loop has returned: go on after another keyword.
Chain(kw, operand) ==
    /\ Looks(kw)
    /\ LET left == Joined(kw, Head(todo).left)
       IN  /\ Option(IsKeyword(kw), operand \o <<Loop(kw, left)>>, <<>>)
           /\ ret' = left
    /\ UNCHANGED <<cmp, st>>

\* A slip: the right operand of AND is read by parseOr.
AndsTakeOr == Chain("and", Expression)

Ands == Chain("and", <<At("factor")>>)
Ors == Chain("or", <<At("factor"), Loop("and", NoExpr)>>)

Factor ==
    /\ Looks("factor")
    /\ IF IsPunct("(")
       THEN Go(1, Expression \o <<Expect(")")>>) /\ UNCHANGED cmp
       ELSE Next1(cur.k = "ident", <<At("in")>>) /\ cmp' = Cmp(cur.s, "in", <<>>)
    /\ UNCHANGED <<ret, st>>

In ==
    /\ Looks("in")
    /\ Option(IsKeyword("in"), <<Expect("("), At("value")>>, <<At("op")>>)
    /\ UNCHANGED <<cmp, ret, st>>

Comparator ==
    /\ Looks("op")
    /\ Next1(cur.k = "punct" /\ cur.s \in Comparators, <<At("value")>>)
    /\ cmp' = [cmp EXCEPT !.op = cur.s]
    /\ UNCHANGED <<ret, st>>

IsLiteral == cur.k \in {"num", "str"}

Value ==
    /\ Looks("value")
    /\ Next1(IsLiteral, IF cmp.op = "in" THEN <<At("values")>> ELSE <<>>)
    /\ cmp' = [cmp EXCEPT !.vals = Append(@, cur.s)]
    /\ ret' = cmp'
    /\ UNCHANGED st

MoreValues ==
    /\ Looks("values")
    /\ Option(IsPunct(","), <<At("value")>>, <<Expect(")")>>)
    /\ UNCHANGED <<cmp, ret, st>>

Next ==
    \/ \E t \in Tokens : ReadToken(t)
    \/ ExpectPunct
    \/ Select
    \/ SelectList
    \/ TopColumn
    \/ TopComma
    \/ TopN
    \/ Column
    \/ MoreColumns
    \/ From
    \/ Table
    \/ Where
    \/ Limit
    \/ LimitN
    \/ End
    \/ Ands
    \/ Ors
    \/ Factor
    \/ In
    \/ Comparator
    \/ Value
    \/ MoreValues

Spec == Init /\ [][Next]_vars
=============================================================================
