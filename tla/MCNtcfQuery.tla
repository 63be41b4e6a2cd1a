---------------------------- MODULE MCNtcfQuery ----------------------------
(* Small instances of the query engine.  Words are 0..15, and 10 sorts      *)
(* before 2 as text.                                                        *)
EXTENDS NtcfQuery, TLC

\* A number of the query text; as a timestamp it may be negative.
Number(n) ==
    [time |-> {n}, num |-> IF n < 0 THEN {} ELSE {n},
     bool |-> {n} \cap {0, 1}, ip |-> {}, str |-> {12}]

\* A text that is no number: a string of rank r and perhaps an address.
Quoted(r, addr) == [time |-> {}, num |-> {}, bool |-> {}, ip |-> addr, str |-> {r}]

\* Small filters share bits: 2 and 6 collide, 10 and 1 do not.
ModProbes(n, v) == {v % 4, (v + n) % 4}

ByText == [v \in Word |-> IF v >= 10 THEN v - 9 ELSE 10 + v]

UpTo(R, n) == UNION {[1 .. k -> R] : k \in 0 .. n}

\* A time, a nullable number, and two addresses that may be missing.
RecordTypes == <<"timestamp", "uint", "ip", "ip">>

\* Tables that differ in their times and numbers, and in their addresses.
Events(T, N) == {<<t, n, Null, 1>> : t \in T, n \in N}
Flows(A, B) == {<<1, 2, a, b>> : a \in A, b \in B}

EventTables == UpTo(Events({1, 2}, {Null, 2, 10}), 3) \cup [1 .. 4 -> Events({1}, {2, 10})]
FlowTables == UpTo(Flows({Null, 1, 2}, {0, 2}), 3)
AllTables == EventTables \cup FlowTables
PreEpochTables == UpTo(Events({1, 15}, {2}), 3)

IndexedColumns == {2, 3, 4}

Equal(c, n) == Cmp(c, "=", <<Number(n)>>)

Leaves ==
    {Equal(2, 2), Equal(2, 6), Equal(2, 10), Equal(1, 2), Equal(2, -1),
     Cmp(1, "<", <<Number(2)>>), Cmp(1, ">", <<Number(1)>>),
     Cmp(2, "!=", <<Number(2)>>), Cmp(2, "!=", <<Quoted(7, {})>>),
     Cmp(2, "in", <<Number(2), Number(10)>>), Equal(0, 2)}

EventExprs ==
    {All} \cup Leaves \cup
    {And(Equal(2, 2), Equal(1, 2)), Or(Equal(2, 10), Equal(1, 2)),
     And(Equal(2, 6), Cmp(1, ">", <<Number(1)>>))}

Queries(W) ==
    {[kind |-> "count", where |-> w] : w \in W}
    \cup {[kind |-> "top", col |-> 2, n |-> n, where |-> w] : n \in {1, 3}, w \in W}
    \cup {[kind |-> "rows", cols |-> <<2>>, limit |-> l, where |-> w] : l \in {0, 1}, w \in W}

EventStmts == Queries(EventExprs)

RangeExprs == {Cmp(1, "<", <<Number(2)>>), Cmp(1, ">", <<Number(2)>>)}
RangeStmts == Queries(RangeExprs)

ByType == [by |-> "type", type |-> "ip"]
ByName(c) == [by |-> "name", col |-> c]

Searched == {Quoted(9, {1}), Quoted(9, {2}), Quoted(9, {6}), Quoted(8, {})}
Fields == {ByType, ByName(2), ByName(3), ByName(5)}
SearchStmts == {Search(f, l, n) : f \in Fields, l \in Searched, n \in {0, 2}}
SearchExprs ==
    {Cmp(c, "=", <<l>>) : c \in {0} \cup Cols, l \in Searched}
    \cup {Or(Cmp(3, "=", <<l>>), Cmp(4, "=", <<l>>)) : l \in Searched}

AllExprs == EventExprs \cup SearchExprs
AllStmts == EventStmts \cup SearchStmts

Depth ==
    LET depth[e \in Exprs] ==
            IF e.op \in {"and", "or"}
            THEN 1 + (IF depth[e.l] > depth[e.r] THEN depth[e.l] ELSE depth[e.r])
            ELSE 0
    IN  depth

ASSUME Premises ==
    /\ ParsedExprs(Depth)
    /\ TextsDiffer
    /\ RangesAfterEpoch <=> Tables # PreEpochTables

\* Search by address finds every row with it in any address column, in order
\* (search.go:8-18).
SearchFindsAll ==
    phase = "done" =>
        \A l \in Searched : stmt.where = SearchExpr(ByType, l) =>
            LET hits == SelectSeq([i \in 1 .. Len(table) |-> i],
                            LAMBDA i : \E c \in {3, 4} : table[i][c] \in l.ip)
                n == IF Len(hits) < Limit THEN Len(hits) ELSE Limit
            IN  rows = [i \in 1 .. n |-> table[hits[i]]]

NoDamage == {{}}
SomeDamage == {{}, {<<1, 1>>}, {<<2, 2>>}}
=============================================================================
