--------------------------- MODULE MCNtcfAdapter ---------------------------
(* JSON lines about one column at a time, under one or two of its names, or *)
(* about all of them, and access logs with each field taken from what it may *)
(* look like.                                                                *)
EXTENDS NtcfAdapter

SomeUpperCase ==
    [s \in {"", "us", "US", "v4", "mapped", "true", "none"} |->
        CASE s = "us" -> "US" [] s = "true" -> "TRUE" [] OTHER -> s]

String(t) == JSON("string", t)
Number(h) == JSON("number", Decimal(h))

\* Six seconds: an instant between the two ends of the range.
Now == String(Time(6 * Kilo * Kilo * Kilo))

Values ==
    {String(t) : t \in {Word(""), Word("us"), Decimal(44), Decimal(-2), Decimal(3),
                        Address("v4", 1), Address("mapped", 1), Time(400)}}
    \cup {Number(h) : h \in {44, 0, -2, 3}}
    \cup {JSON("bool", Word("true")), JSON("null", NoText), JSON("other", NoText)}

Words == -20 .. Pow2[Width] + 8

\* The times and the counters a line may have, as texts and as numbers.
Timestamps ==
    {String(Decimal(2 * n)) : n \in Words} \cup {Number(2 * n) : n \in Words}
    \cup {String(Time(n)) : n \in {-64, 0, 400, 600}} \cup {Number(13), String(Decimal(13))}

Counters == {String(Decimal(2 * n)) : n \in Words} \cup {Number(2 * n) : n \in Words}

Object(m) == [form |-> "object", m |-> m]

With(m) == Object([k \in DOMAIN m \cup {"timestamp"} |-> IF k \in DOMAIN m THEN m[k] ELSE Now])

\* At most two of the names K, each with a value of V.
About(K, V) ==
    LET some == {L \in SUBSET K : Cardinality(L) \in {1, 2}}
    IN  {With(m) : m \in UNION {[L -> V] : L \in some}}

\* Every column at once, each with a value of its own, all under the names they
\* have in the schema but one.
Sound(column, i) ==
    IF column.type = "ip" THEN String(Address("v4", i))
    ELSE IF column.type = "timestamp" THEN Now
    ELSE IF column.name = "country" THEN String(Word("us"))
    ELSE Number(2 * i)

Whole(names, schema) ==
    LET under(i, k) == [j \in DOMAIN schema |-> IF i = j THEN k ELSE schema[j].name]
        full(given) ==
            Object([n \in {given[j] : j \in DOMAIN given} |->
                       LET i == CHOOSE j \in DOMAIN given : given[j] = n
                       IN  Sound(schema[i], i)])
    IN  UNION {{full(under(i, k)) : k \in names[schema[i].name]} : i \in DOMAIN schema}

Lone(key, V) == {With([k \in {key} |-> v]) : v \in V}

JSONLines(names, schema) ==
    UNION {About(names[column], Values) : column \in DOMAIN names \ {"timestamp"}}
    \cup {Object([k \in {name} |-> v]) : name \in names.timestamp, v \in Values}
    \cup Lone("timestamp", Timestamps)
    \cup Whole(names, schema)
    \cup {[form |-> f, m |-> [k \in {"timestamp"} |-> Now]] : f \in {"blank", "not JSON"}}

(* The fields of an access log. *)
Good(t) == <<t, Space, Word("zone")>>
Atom(s) == <<Word(s)>>

LogFields ==
    [format : {"common", "combined", "longer"},
     host : {<<Address("v4", 1)>>, Atom("name")},
     time : {Good(Time(400)), Good(Word("date")), <<Time(400)>>},
     request : {Atom("GET") \o <<Space>> \o Atom("/p") \o <<Space>> \o Atom("HTTP"),
                Atom("GET") \o <<Space>> \o Atom("/p"), Atom("GET"), <<>>},
     status : {<<Decimal(400)>>, <<Dash>>},
     bytes : {<<Decimal(44)>>, <<Dash>>, Atom("x")},
     referer : {<<>>, <<Dash>>, Atom("url")},
     agent : {<<>>, <<Dash>>, Atom("a") \o <<Space>> \o Atom("b"), <<Open>> \o Atom("a")}]

OtherLines == {<<>>, <<Hash>>, <<Hash, Space, Word("x")>>, <<Word("x")>>, <<Quote, Word("x")>>}

SomeLog == CHOOSE f \in LogFields : TRUE

WebLines ==
    {[s |-> Written(f), of |-> f] : f \in LogFields}
    \cup {[s |-> s, of |-> [SomeLog EXCEPT !.format = "none"]] : s \in OtherLines}

SomeLines == [s \in Sources |->
    CASE s = "generic-flow" -> JSONLines(FlowNames, FlowSchema) \cup Lone("bytes", Counters)
      [] s = "honeypot" -> JSONLines(HoneypotNames, HoneypotSchema)
      [] s = "web-access" -> WebLines]
=============================================================================
