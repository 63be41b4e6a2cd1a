---------------------------- MODULE NtcfGrammar ----------------------------
(***************************************************************************)
(* The query language as its grammar defines it (lex.go:8-21), sentence by *)
(* sentence with their meanings, and what the parser owes to it.           *)
(*                                                                         *)
(* A phrase has its tokens t, its meaning e, and the number o of tokens in *)
(* it that NtcfParse counts as odd.                                        *)
(***************************************************************************)
EXTENDS NtcfParse

Phrase(t, e, o) == [t |-> t, e |-> e, o |-> o]

Sized(S, n) == {p \in S : Len(p.t) = n}

\* <or> := <and> (OR <and>)*, and so on: what kw joins, the left operand first.
JoinedBy(kw, L, R, b) ==
    UNION {{Phrase(p.t \o <<Ident(kw)>> \o q.t,
                   IF kw = "and" THEN And(p.e, q.e) ELSE Or(p.e, q.e), p.o + q.o)
            : q \in {r \in R : r.o + p.o <= b.odd}} : p \in L}

\* col
NamePhrases ==
    {Phrase(<<Ident(s)>>, s, IF s = PlainName THEN 0 ELSE 1) : s \in Names}

\* value := 'quoted-string' | number
ValuePhrases ==
    {Phrase(<<Tok("num", s)>>, s, IF s = PlainNumber THEN 0 ELSE 1) : s \in Numbers}
    \cup {Phrase(<<Tok("str", s)>>, s, 1) : s \in Strings}

ComparatorPhrases == {Phrase(<<Punct(s)>>, s, IF s = "=" THEN 0 ELSE 1) : s \in Comparators}

\* x (',' x)*, as many as a query has room for; the first is one of first.
CommaLists(b, first, S) ==
    LET longer(L) == {Phrase(p.t \o <<Punct(",")>> \o x.t, Append(p.e, x.e), p.o + x.o)
                      : p \in L, x \in S}
        start == {Phrase(x.t, <<x.e>>, x.o) : x \in first}
        grow(all, n) == all \cup {p \in longer(Sized(all, 2 * n - 3)) : p.o <= b.odd}
    IN  FoldLeft(grow, start, [i \in 1 .. b.tokens \div 2 |-> i + 1])

\* <cmp> := col op value | col IN '(' value (',' value)* ')'
Comparisons(b) ==
    {p \in {Phrase(c.t \o op.t \o v.t, Cmp(c.e, op.e, <<v.e>>), c.o + op.o + v.o)
            : c \in NamePhrases, op \in ComparatorPhrases, v \in ValuePhrases}
           \cup
           {Phrase(c.t \o <<Ident("in"), Punct("(")>> \o l.t \o <<Punct(")")>>,
                   Cmp(c.e, "in", l.e), c.o + l.o)
            : c \in NamePhrases, l \in CommaLists(b, ValuePhrases, ValuePhrases)}
     : p.o <= b.odd}

\* The factors, ands and ors of n tokens, from the table of the shorter ones.
PhrasesOfLength(b, table, n) ==
    LET cmps == Sized(Comparisons(b), n)
        factors ==
            IF n <= 2 THEN cmps
            ELSE cmps \cup {Phrase(<<Punct("(")>> \o p.t \o <<Punct(")")>>, p.e, p.o)
                            : p \in table[n - 2].ors}
        splits == 1 .. n - 2
        ands == factors \cup
            UNION {JoinedBy("and", table[i].ands, table[n - 1 - i].factors, b) : i \in splits}
        ors == ands \cup
            UNION {JoinedBy("or", table[i].ors, table[n - 1 - i].ands, b) : i \in splits}
    IN  [factors |-> factors, ands |-> ands, ors |-> ors]

Expressions(b) ==
    LET table == FoldLeft(LAMBDA tab, n : Append(tab, PhrasesOfLength(b, tab, n)),
                          <<>>, [n \in 1 .. b.tokens |-> n])
    IN  UNION {table[n].ors : n \in DOMAIN table}

\* count(*) | top(col [, N]) | * | col [, col ...]
\* A first column may not be called count or top.
Selection(agg, star, proj) == [aggregate |-> agg, star |-> star, projection |-> proj]

SelectLists(b) ==
    LET open(kw) == <<Ident(kw), Punct("(")>>
        star == {Phrase(<<Punct("*")>>, Selection(NoAgg, TRUE, <<>>), 0)}
        count == {Phrase(open("count") \o <<Punct("*"), Punct(")")>>, Selection(Count, FALSE, <<>>), 0)}
        top ==
            {Phrase(open("top") \o c.t \o <<Punct(")")>>,
                    Selection(Top(c.e, DefaultTop), FALSE, <<>>), c.o) : c \in NamePhrases}
            \cup
            {Phrase(open("top") \o c.t \o <<Punct(","), Tok("num", s), Punct(")")>>,
                    Selection(Top(c.e, Atoi[s]), FALSE, <<>>), c.o + (IF s = PlainNumber THEN 0 ELSE 1))
             : c \in NamePhrases, s \in {x \in Numbers : Atoi[x] >= 1}}
        first == {c \in NamePhrases : c.e \notin {"count", "top"}}
        columns == {Phrase(p.t, Selection(NoAgg, FALSE, p.e), p.o)
                    : p \in CommaLists(b, first, NamePhrases)}
    IN  {p \in IF b.star THEN star ELSE star \cup count \cup top \cup columns : p.o <= b.odd}

WhereClauses(b) ==
    {Phrase(<<>>, NoExpr, 0)}
    \cup {Phrase(<<Ident("where")>> \o p.t, p.e, p.o) : p \in Expressions(b)}

LimitClauses ==
    {Phrase(<<>>, 0, 0)}
    \cup {Phrase(<<Ident("limit"), Tok("num", s)>>, Atoi[s], IF s = PlainNumber THEN 0 ELSE 1)
          : s \in {x \in Numbers : Atoi[x] >= 0}}

Sentences(b) ==
    LET fits(p) == p.o <= b.odd /\ Len(p.t) <= b.tokens
        heads == {p \in {Phrase(<<Ident("select")>> \o s.t \o <<Ident("from")>> \o f.t, s.e, s.o + f.o)
                         : s \in SelectLists(b), f \in NamePhrases} : fits(p)}
        tails == {p \in {Phrase(w.t \o l.t \o <<EOF>>, [where |-> w.e, limit |-> l.e], w.o + l.o)
                         : w \in WhereClauses(b), l \in LimitClauses} : fits(p)}
    IN  UNION {{Phrase(h.t \o p.t,
                       Stmt(h.e.aggregate, h.e.star, h.e.projection, p.e.where, p.e.limit), h.o + p.o)
                : p \in {q \in tails : q.o + h.o <= b.odd /\ Len(q.t) + Len(h.t) <= b.tokens}}
               : h \in heads}

\* The sentences under each bound with what they mean, and their beginnings.
Language == [b \in Bounds |-> {[t |-> p.t, e |-> p.e] : p \in Sentences(b)}]

Beginnings ==
    [b \in Bounds |-> UNION {{SubSeq(p.t, 1, n) : n \in 0 .. Len(p.t)} : p \in Language[b]}]

(***************************************************************************)
(* Properties.                                                             *)
(***************************************************************************)
\* No look at a token after the end of the text was consumed: the parser has
\* no check of its own before toks[pos] (parse.go:63-64, "must never panic" in
\* parse_test.go:63).
NeverPastEnd == phase = "parse" /\ pos = Len(toks) /\ toks # <<>> => Last(toks) # EOF

\* A query that is accepted is a sentence of the grammar, and the statement is
\* its meaning: AND before OR, the columns, values and limit that it names, and
\* one of aggregate, star and projection (lex.go:8-21, parse.go:39).
MeaningOfGrammar == phase = "done" => [t |-> toks, e |-> st] \in Language[bound]

\* A query is refused only at a token after which no sentence of the grammar
\* could go on (lex.go:8-21).
RefusedOutsideGrammar == phase = "failed" => toks \notin Beginnings[bound]
=============================================================================
