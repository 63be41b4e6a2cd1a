---------------------------- MODULE NtcfAdapter ----------------------------
(***************************************************************************)
(* The source adapters of internal/adapter: a line of telemetry becomes a  *)
(* record of its source's schema, or is skipped.                           *)
(*                                                                         *)
(* A text is known by what can be read out of it: a decimal number, an     *)
(* address, a time, or only its spelling.  Numbers are counted in halves,  *)
(* so that one with a fraction can occur, and words have Width bits: the   *)
(* epoch thresholds and the 53 bits of a float64 are scaled down with them *)
(* and keep their order.                                                   *)
(***************************************************************************)
EXTENDS Integers, Sequences, SequencesExt, FiniteSetsExt

CONSTANTS
    Width,        \* bits of a word (64 in the code)
    Kilo,         \* from a unit of time to the next smaller (1000)
    MaxSeconds,   \* an epoch below it is in seconds (1e11)
    FloatExact,   \* a float64 holds every integer up to this one (2^53)
    UpperCase,    \* the spellings with their letters in upper case
    Lines         \* the lines that can come from each source

Pow2[n \in Nat] == IF n = 0 THEN 1 ELSE 2 * Pow2[n - 1]

Sources == {"generic-flow", "honeypot", "web-access"}

\* As in the code, a float64 holds the second threshold (1e14 < 2^53) and less
\* than every word (2^54 < 2^64), and nanoseconds from the third on fit in a word
\* and only some of them do (1e17 < 2^63 and 2^64 < 1e20).
ASSUME AdapterAssumption ==
    /\ Width \in Nat \ {0} /\ Kilo \in Nat \ {0} /\ MaxSeconds \in Nat
    /\ MaxSeconds * Kilo * Kilo < Pow2[Width - 1]
    /\ Pow2[Width] <= MaxSeconds * Kilo * Kilo * Kilo
    /\ FloatExact \in Nat \ {0} /\ FloatExact % 4 = 0 /\ MaxSeconds * Kilo <= FloatExact
    /\ 2 * FloatExact < Pow2[Width]
    /\ DOMAIN Lines = Sources

VARIABLES
    over,      \* what this build makes of a float outside the range of an integer
    src,       \* the adapter
    line,      \* the line
    result     \* the record, or why there is none

vars == <<over, src, line, result>>

(***************************************************************************)
(* Texts, words and values.                                                *)
(***************************************************************************)
Text(k, s, n) == [k |-> k, s |-> s, n |-> n]
Nothing == ""
Word(s) == Text("word", s, 0)
Decimal(h) == Text("dec", Nothing, h)
Address(s, a) == Text("ip", s, a)
Time(nanos) == Text("time", Nothing, nanos)
NoText == Word("none")

\* The texts of a line.  None is a number that is more than Width doublings
\* beyond what a float64 holds exactly.
Sizes == {n \in Int : -(FloatExact * Pow2[Width]) < n /\ n < FloatExact * Pow2[Width]}

Texts == [k : {"word", "dec", "ip", "time"}, s : STRING, n : Sizes]

ASSUME LinesAssumption ==
    /\ \A s \in {"generic-flow", "honeypot"} : \A l \in Lines[s] :
          l.form = "object" => \A k \in DOMAIN l.m : l.m[k].t \in Texts
    /\ \A l \in Lines["web-access"] : l.s \in Seq(Texts)

ToWord(n) == n % Pow2[Width]
MaxInt == Pow2[Width - 1] - 1
InInt(n) == -MaxInt - 1 <= n /\ n <= MaxInt

\* row.Value; Bytes are the texts they consist of.
NullVal == [null |-> TRUE, int |-> 0, bytes |-> <<>>]
IntVal(n) == [null |-> FALSE, int |-> n, bytes |-> <<>>]
BytesVal(s) == [null |-> FALSE, int |-> 0, bytes |-> s]

ErrSkip == [skip |-> TRUE, rec |-> <<>>]
Record(r) == [skip |-> FALSE, rec |-> r]

\* util.NormalizeIP: the 16 bytes of an address, however it is spelled.
IsIP(t) == t.k = "ip"
NormalizeIP(t) == Text("ip16", Nothing, t.n)

\* Letters alone change: numbers, addresses and times keep what they say.
upperCountry(t) == [t EXCEPT !.s = UpperCase[@]]

(***************************************************************************)
(* A number of a JSON text becomes a float64, rounded to a multiple of     *)
(* what it has bits for, and is written with the fewest digits that are    *)
(* read as the same float.                                                 *)
(***************************************************************************)
Gap(h) ==
    LET size == IF h < 0 THEN -h ELSE h
    IN  Min({Pow2[j] : j \in {i \in 0 .. Width + 1 : size < FloatExact * Pow2[i]}})

Float(h) ==
    LET g == Gap(h)
        q == h \div g
        r == h % g
    IN  IF 2 * r < g \/ (2 * r = g /\ q % 2 = 0) THEN q * g ELSE (q + 1) * g

Zeros(n) == Cardinality({d \in {10, 100, 1000} : n % d = 0})

\* strconv.FormatFloat(f, 'f', -1, 64)
FormatFloat(f) ==
    LET same == {n \in (f \div 2) - Gap(f) .. (f \div 2) + Gap(f) : Float(2 * n) = f}
        roundest == {n \in same : \A m \in same : Zeros(m) <= Zeros(n)}
    IN  IF f % 2 = 1 THEN Decimal(f)
        ELSE IF f \div 2 \in roundest THEN Decimal(f)
        ELSE Decimal(2 * (CHOOSE n \in roundest : TRUE))

\* The third threshold is a float64, and is written as itself (1e17).
ASSUME ThresholdAssumption ==
    LET t == 2 * (MaxSeconds * Kilo * Kilo)
    IN  Float(t) = t /\ FormatFloat(t) = Decimal(t)

Truncated(h) == IF h < 0 THEN -((-h) \div 2) ELSE h \div 2

FloatToInt(f) ==
    LET n == Truncated(f)
    IN  IF InInt(n) THEN n ELSE IF over = "least" THEN -MaxInt - 1 ELSE MaxInt

FloatToUint(f) ==
    LET n == Truncated(f)
    IN  IF n < Pow2[Width] THEN n
        ELSE IF over = "least" THEN Pow2[Width - 1] ELSE Pow2[Width] - 1

\* strconv.ParseUint and ParseInt of a decimal text.
IsUint(t) == t.k = "dec" /\ t.n % 2 = 0 /\ 0 <= t.n /\ t.n < 2 * Pow2[Width]
IsInt(t) == t.k = "dec" /\ t.n % 2 = 0 /\ InInt(t.n \div 2)

(***************************************************************************)
(* A decoded JSON object is a function from its keys to values.            *)
(***************************************************************************)
JSON(kind, t) == [kind |-> kind, t |-> t]

Textual == {"string", "number", "bool"}

TextOf(v) == IF v.kind = "number" THEN FormatFloat(Float(v.t.n)) ELSE v.t

\* A slip: only the name that comes first is tried.
FirstKeyOnly(keys, S) == IF keys[1] \in S THEN keys[1] ELSE Nothing

\* The first of the keys that is one of S.
FirstKey(keys, S) ==
    LET has == {i \in DOMAIN keys : keys[i] \in S}
    IN  IF has = {} THEN Nothing ELSE keys[Min(has)]

StringKey(m, keys) == FirstKey(keys, {k \in DOMAIN m : m[k].kind \in Textual})

HasString(m, keys) == StringKey(m, keys) # Nothing
asString(m, keys) == IF HasString(m, keys) THEN TextOf(m[StringKey(m, keys)]) ELSE NoText

\* A number ends the search, a negative one without a result; a text that is
\* no number does not.
UintKey(m, keys) ==
    FirstKey(keys, {k \in DOMAIN m : m[k].kind = "number" \/ (m[k].kind = "string" /\ IsUint(m[k].t))})

HasUint(m, keys) ==
    LET k == UintKey(m, keys)
    IN  k # Nothing /\ (m[k].kind = "number" => Float(m[k].t.n) >= 0)

asUint(m, keys) ==
    LET v == m[UintKey(m, keys)]
    IN  IF v.kind = "number" THEN FloatToUint(Float(v.t.n)) ELSE v.t.n \div 2

\* A slip: the thresholds are one too high.
EpochToNanosAtMost(n) ==
    ToWord(IF n <= MaxSeconds THEN n * Kilo * Kilo * Kilo
           ELSE IF n <= MaxSeconds * Kilo THEN n * Kilo * Kilo
           ELSE IF n <= MaxSeconds * Kilo * Kilo THEN n * Kilo
           ELSE n)

epochToNanos(n) ==
    ToWord(IF n < MaxSeconds THEN n * Kilo * Kilo * Kilo
           ELSE IF n < MaxSeconds * Kilo THEN n * Kilo * Kilo
           ELSE IF n < MaxSeconds * Kilo * Kilo THEN n * Kilo
           ELSE n)

IsTime(t) == t.k \in {"time", "dec"}

parseTimeNanos(t) ==
    IF t.k = "time" THEN ToWord(t.n)
    ELSE IF IsInt(t) THEN epochToNanos(t.n \div 2)
    ELSE epochToNanos(FloatToInt(Float(t.n)))

ipValue(m, keys) ==
    IF IsIP(asString(m, keys)) THEN BytesVal(<<NormalizeIP(asString(m, keys))>>) ELSE NullVal

strValue(m, keys) == IF HasString(m, keys) THEN BytesVal(<<asString(m, keys)>>) ELSE NullVal

countryValue(m, keys) ==
    IF HasString(m, keys) THEN BytesVal(<<upperCountry(asString(m, keys))>>) ELSE NullVal

\* A slip: a text is converted like a number, through a float64.
UintThroughFloat(m, keys) ==
    IF HasUint(m, keys) THEN IntVal(FloatToUint(Float(m[UintKey(m, keys)].t.n))) ELSE NullVal

uintValue(m, keys) == IF HasUint(m, keys) THEN IntVal(asUint(m, keys)) ELSE NullVal

(***************************************************************************)
(* The schemas, and for the adapters of JSON lines where each value of the *)
(* record is looked for.                                                   *)
(***************************************************************************)
Column(name, type, flags) ==
    [name |-> name, type |-> type, indexed |-> "i" \in flags, nullable |-> "n" \in flags]

IntTypes == {"timestamp", "uint", "port"}

FlowSchema ==
    <<Column("timestamp", "timestamp", {}),
      Column("srcip", "ip", {"i"}),
      Column("dstip", "ip", {"i"}),
      Column("srcport", "port", {}),
      Column("dstport", "port", {"i"}),
      Column("protocol", "enum", {"i"}),
      Column("asn", "uint", {"i"}),
      Column("country", "enum", {"i", "n"}),
      Column("eventtype", "enum", {"i"}),
      Column("bytes", "uint", {}),
      Column("packets", "uint", {})>>

Field(get, keys) == [get |-> get, keys |-> keys]

\* A slip: the keys of the source's address are taken for the destination too.
FlowFieldsShared ==
    <<Field("time", <<"timestamp", "ts", "@timestamp">>),
      Field("ip", <<"srcip", "src_ip", "saddr">>),
      Field("ip", <<"dstip", "dst_ip", "src_ip">>),
      Field("uint", <<"srcport", "src_port", "sport">>),
      Field("uint", <<"dstport", "dst_port", "dport">>),
      Field("str", <<"protocol", "proto">>),
      Field("uint", <<"asn", "src_asn">>),
      Field("country", <<"country", "geoip_country", "src_country">>),
      Field("str", <<"eventtype", "event_type", "event">>),
      Field("uint", <<"bytes", "in_bytes", "orig_bytes">>),
      Field("uint", <<"packets", "in_pkts">>)>>

FlowFields ==
    <<Field("time", <<"timestamp", "ts", "@timestamp">>),
      Field("ip", <<"srcip", "src_ip", "saddr">>),
      Field("ip", <<"dstip", "dst_ip", "daddr">>),
      Field("uint", <<"srcport", "src_port", "sport">>),
      Field("uint", <<"dstport", "dst_port", "dport">>),
      Field("str", <<"protocol", "proto">>),
      Field("uint", <<"asn", "src_asn">>),
      Field("country", <<"country", "geoip_country", "src_country">>),
      Field("str", <<"eventtype", "event_type", "event">>),
      Field("uint", <<"bytes", "in_bytes", "orig_bytes">>),
      Field("uint", <<"packets", "in_pkts">>)>>

HoneypotSchema ==
    <<Column("timestamp", "timestamp", {}),
      Column("srcip", "ip", {"i"}),
      Column("srcport", "port", {}),
      Column("dstport", "port", {"i"}),
      Column("protocol", "enum", {"i"}),
      Column("eventtype", "enum", {"i"}),
      Column("username", "string", {"i", "n"}),
      Column("password", "string", {"n"}),
      Column("country", "enum", {"i", "n"}),
      Column("asn", "uint", {"i"})>>

\* A slip: the last two values are in the order of generic-flow.
HoneypotFieldsSwapped ==
    <<Field("time", <<"timestamp", "ts", "@timestamp", "eventtime">>),
      Field("ip", <<"srcip", "src_ip", "peerIP", "src_host">>),
      Field("uint", <<"srcport", "src_port", "peerPort">>),
      Field("uint", <<"dstport", "dst_port", "hostPort">>),
      Field("str", <<"protocol", "proto", "service">>),
      Field("str", <<"eventtype", "event_type", "event">>),
      Field("str", <<"username", "user">>),
      Field("str", <<"password", "pass">>),
      Field("uint", <<"asn", "src_asn">>),
      Field("country", <<"country", "geoip_country">>)>>

HoneypotFields ==
    <<Field("time", <<"timestamp", "ts", "@timestamp", "eventtime">>),
      Field("ip", <<"srcip", "src_ip", "peerIP", "src_host">>),
      Field("uint", <<"srcport", "src_port", "peerPort">>),
      Field("uint", <<"dstport", "dst_port", "hostPort">>),
      Field("str", <<"protocol", "proto", "service">>),
      Field("str", <<"eventtype", "event_type", "event">>),
      Field("str", <<"username", "user">>),
      Field("str", <<"password", "pass">>),
      Field("country", <<"country", "geoip_country">>),
      Field("uint", <<"asn", "src_asn">>)>>

Value(f, m) ==
    IF f.get = "time" THEN IntVal(parseTimeNanos(asString(m, f.keys)))
    ELSE IF f.get = "ip" THEN ipValue(m, f.keys)
    ELSE IF f.get = "uint" THEN uintValue(m, f.keys)
    ELSE IF f.get = "str" THEN strValue(m, f.keys)
    ELSE countryValue(m, f.keys)

\* Decode of generic-flow and honeypot; a line that is no JSON object, a blank
\* one and one without a time are skipped.
DecodeJSON(fields, l) ==
    IF l.form = "object" /\ IsTime(asString(l.m, fields[1].keys))
    THEN Record([i \in DOMAIN fields |-> Value(fields[i], l.m)])
    ELSE ErrSkip

(***************************************************************************)
(* Access logs.  A line is a sequence of spaces, quotes, brackets and      *)
(* atoms, which stand for text without any of those.                       *)
(***************************************************************************)
WebSchema ==
    <<Column("timestamp", "timestamp", {}),
      Column("srcip", "ip", {"i"}),
      Column("method", "enum", {"i"}),
      Column("path", "string", {"i"}),
      Column("status", "uint", {"i"}),
      Column("bytes", "uint", {}),
      Column("referer", "string", {"n"}),
      Column("useragent", "string", {"i", "n"})>>

Space == Word("space")
Quote == Word("quote")
Open == Word("[")
Close == Word("]")
Dash == Word("-")
Hash == Word("#")

\* The first place from i on that holds c, or the one after the end.
PlaceOf(s, i, c) == Min({j \in i .. Len(s) : s[j] = c} \cup {Len(s) + 1})

\* A slip: a bracket opens no span.
QuoteOnly(c) == IF c = Quote THEN Quote ELSE Space

\* What ends the span or the word that starts with c.
Closing(c) == IF c = Quote THEN Quote ELSE IF c = Open THEN Close ELSE Space

splitCLF(s) ==
    LET split[i \in 1 .. Len(s) + 1] ==
            IF i > Len(s) THEN <<>>
            ELSE IF s[i] = Space THEN split[i + 1]
            ELSE LET end == Closing(s[i])
                     start == IF end = Space THEN i ELSE i + 1
                     stop == PlaceOf(s, start, end)
                     next == IF end = Space \/ stop > Len(s) THEN stop ELSE stop + 1
                 IN  <<SubSeq(s, start, stop - 1)>> \o split[next]
    IN  split[1]

\* strings.SplitN(request, " ", 3), the first two parts.
Method(req) == SubSeq(req, 1, PlaceOf(req, 1, Space) - 1)
Path(req) ==
    LET i == PlaceOf(req, 1, Space)
    IN  SubSeq(req, i + 1, PlaceOf(req, i + 1, Space) - 1)

IsUintField(t) == Len(t) = 1 /\ IsUint(t[1])

\* clfTime: a date, a space and a zone.
IsClfTime(t) == Len(t) = 3 /\ t[1].k = "time" /\ t[2] = Space /\ t[3] = Word("zone")

OptionalValue(t) == IF t = <<>> \/ t = <<Dash>> THEN NullVal ELSE BytesVal(t)

DecodeWeb(s) ==
    LET tok == splitCLF(s)
        extra(i) == IF Len(tok) >= 9 THEN OptionalValue(tok[i]) ELSE NullVal
    IN  IF \/ s = <<>> \/ s[1] = Hash
           \/ Len(tok) < 7
           \/ ~ IsClfTime(tok[4])
           \/ PlaceOf(tok[5], 1, Space) > Len(tok[5])
        THEN ErrSkip
        ELSE Record(
            <<IntVal(ToWord(tok[4][1].n)),
              IF Len(tok[1]) = 1 /\ IsIP(tok[1][1]) THEN BytesVal(<<NormalizeIP(tok[1][1])>>) ELSE NullVal,
              BytesVal(Method(tok[5])),
              BytesVal(Path(tok[5])),
              IF IsUintField(tok[6]) THEN IntVal(tok[6][1].n \div 2) ELSE NullVal,
              IF IsUintField(tok[7]) THEN IntVal(tok[7][1].n \div 2) ELSE IntVal(0),
              extra(8),
              extra(9)>>)

\* A line in the Common Log Format, in the Combined one or in one with a field
\* more behind it, from fields that have none of the marks they end with.
Marked(a, t, b) == <<a>> \o t \o <<b>>

Before(t, rest) == t \o (<<Space>> \o rest)

Ending(f) ==
    LET agent == Marked(Quote, f.agent, Quote)
        referer == Marked(Quote, f.referer, Quote)
    IN  IF f.format = "common" THEN f.bytes
        ELSE Before(f.bytes, Before(referer, IF f.format = "combined" THEN agent ELSE Before(agent, referer)))

Written(f) ==
    Before(f.host, Before(<<Dash>>, Before(<<Dash>>, Before(Marked(Open, f.time, Close),
        Before(Marked(Quote, f.request, Quote), Before(f.status, Ending(f)))))))

IsBare(t) == Len(t) > 0 /\ t[1] \notin {Quote, Open} /\ \A i \in 1 .. Len(t) : t[i] # Space

IsRequest(t) ==
    IF Len(t) < 3 THEN \A i \in 1 .. Len(t) : t[i] # Space
    ELSE t[1] # Space /\ t[2] = Space /\ t[3] # Space /\ (Len(t) = 3 \/ t[4] = Space)

IsLog(f) ==
    /\ f.format \in {"common", "combined", "longer"}
    /\ \A t \in {f.host, f.time, f.request, f.status, f.bytes, f.referer, f.agent} : t \in Seq(Texts)
    /\ Len(f.host) = 1 /\ f.host[1] # Hash
    /\ IsBare(f.host) /\ IsBare(f.status) /\ IsBare(f.bytes) /\ IsRequest(f.request)
    /\ \A i \in 1 .. Len(f.time) : f.time[i] # Close
    /\ \A t \in {f.request, f.referer, f.agent} : \A i \in 1 .. Len(t) : t[i] # Quote

ASSUME LogAssumption ==
    \A l \in Lines["web-access"] : l.of.format # "none" => IsLog(l.of) /\ l.s = Written(l.of)

(***************************************************************************)
(* A line comes and is decoded.                                            *)
(***************************************************************************)
Schema == [s \in Sources |->
    IF s = "generic-flow" THEN FlowSchema
    ELSE IF s = "honeypot" THEN HoneypotSchema
    ELSE WebSchema]

Fields == [s \in Sources \ {"web-access"} |->
    IF s = "generic-flow" THEN FlowFields ELSE HoneypotFields]

NotDecoded == [skip |-> FALSE, rec |-> <<>>]

Init ==
    /\ over \in {"least", "greatest"}
    /\ src \in Sources
    /\ line \in Lines[src]
    /\ result = NotDecoded

Decode ==
    /\ result = NotDecoded
    /\ result' = IF src = "web-access" THEN DecodeWeb(line.s) ELSE DecodeJSON(Fields[src], line)
    /\ UNCHANGED <<over, src, line>>

Next == Decode

Spec == Init /\ [][Next]_vars

(***************************************************************************)
(* Properties.                                                             *)
(***************************************************************************)
Decoded == result.rec

\* A record has a value for every column of the source's schema, each in the
\* domain of its column, an address in its 16-byte form, and a time that is
\* never null: one value more or less and the writer refuses the record
\* (adapter.go:32-35; genericflow.go:59 and :23 are two lists in step).
RecordFitsSchema ==
    Decoded # <<>> =>
        /\ Len(Decoded) = Len(Schema[src])
        /\ ~ Decoded[1].null
        /\ \A i \in DOMAIN Decoded :
              LET v == Decoded[i]
                  type == Schema[src][i].type
              IN  /\ v.int \in 0 .. Pow2[Width] - 1
                  /\ v.null \/ type \notin IntTypes => v.int = 0
                  /\ v.null \/ type \in IntTypes => v.bytes = <<>>
                  /\ type = "ip" /\ ~ v.null => v.bytes[1].k = "ip16"

\* The names under which a line can give the value of a column.
FlowNames ==
    [timestamp |-> {"timestamp", "ts", "@timestamp"},
     srcip |-> {"srcip", "src_ip", "saddr"},
     dstip |-> {"dstip", "dst_ip", "daddr"},
     srcport |-> {"srcport", "src_port", "sport"},
     dstport |-> {"dstport", "dst_port", "dport"},
     protocol |-> {"protocol", "proto"},
     asn |-> {"asn", "src_asn"},
     country |-> {"country", "geoip_country", "src_country"},
     eventtype |-> {"eventtype", "event_type", "event"},
     bytes |-> {"bytes", "in_bytes", "orig_bytes"},
     packets |-> {"packets", "in_pkts"}]

HoneypotNames ==
    [timestamp |-> {"timestamp", "ts", "@timestamp", "eventtime"},
     srcip |-> {"srcip", "src_ip", "peerIP", "src_host"},
     srcport |-> {"srcport", "src_port", "peerPort"},
     dstport |-> {"dstport", "dst_port", "hostPort"},
     protocol |-> {"protocol", "proto", "service"},
     eventtype |-> {"eventtype", "event_type", "event"},
     username |-> {"username", "user"},
     password |-> {"password", "pass"},
     country |-> {"country", "geoip_country"},
     asn |-> {"asn", "src_asn"}]

Names == [s \in Sources \ {"web-access"} |->
    IF s = "generic-flow" THEN FlowNames ELSE HoneypotNames]

\* Under which of its names an object gives a column anything.
Given(column, m) == {k \in DOMAIN m \cap Names[src][column.name] : m[k].kind \in Textual}

\* A whole number that a float64 holds.
IsCount(v) == v.kind = "number" /\ v.t.n % 2 = 0 /\ 0 <= v.t.n /\ v.t.n <= 2 * FloatExact

CanHold(column, v) ==
    IF column.type = "timestamp" THEN v.kind = "string" /\ v.t.k = "time"
    ELSE IF column.type \in IntTypes THEN IsCount(v) \/ (v.kind = "string" /\ IsUint(v.t))
    ELSE IF column.type = "ip" THEN v.kind = "string" /\ IsIP(v.t)
    ELSE IsCount(v) \/ v.kind \in {"string", "bool"}

\* What a column has of a value that it can hold.
Held(column, v) ==
    LET t == IF v.kind = "number" THEN Decimal(v.t.n) ELSE v.t
    IN  IF column.type = "timestamp" THEN IntVal(ToWord(t.n))
        ELSE IF column.type \in IntTypes THEN IntVal(t.n \div 2)
        ELSE IF column.type = "ip" THEN BytesVal(<<NormalizeIP(t)>>)
        ELSE IF column.name = "country" THEN BytesVal(<<upperCountry(t)>>)
        ELSE BytesVal(<<t>>)

\* What a line gives under the names of a column is in that column, and nothing
\* else is: a column has a value only when one of its own names gives one, and
\* when what its names give can be held, it has the value of one of them.  A
\* line that gives a time so is not skipped (genericflow.go:46-71,
\* honeypot.go:45-70).
OneColumnPerName ==
    (src # "web-access" /\ result # NotDecoded /\ line.form = "object") =>
        \A i \in DOMAIN Schema[src] :
            LET column == Schema[src][i]
                given == Given(column, line.m)
            IN  /\ given = {} => Decoded = <<>> \/ Decoded[i].null
                /\ (given # {} /\ \A k \in given : CanHold(column, line.m[k])) =>
                       IF Decoded = <<>> THEN i # 1
                       ELSE \E k \in given : Decoded[i] = Held(column, line.m[k])

\* The unit of an epoch is guessed, and the guess is right: a time between the
\* first threshold and the end of 63 bits of nanoseconds (1973 to 2262) is the
\* same instant in seconds, in each smaller unit, and as a text, up to what a
\* JSON number loses as a float64 (adapter.go:107-109).
Units == {1, Kilo, Kilo * Kilo, Kilo * Kilo * Kilo}

FirstInstant == MaxSeconds * Kilo * Kilo

EpochUnitsAgree ==
    (src # "web-access" /\ DOMAIN line.m = {"timestamp"} /\ Decoded # <<>>) =>
        LET v == line.m["timestamp"]
            near(a, b, d) == 2 * (a - b) <= d /\ 2 * (b - a) <= d
        IN  \A u \in Units :
                LET instant == (v.t.n \div 2) * u
                IN  (/\ v.kind \in {"string", "number"} /\ v.t.k = "dec" /\ v.t.n % 2 = 0
                     /\ FirstInstant <= instant /\ instant <= MaxInt - Gap(v.t.n)) =>
                        IF v.kind = "string" \/ v.t.n <= 2 * FloatExact
                        THEN Decoded[1].int = instant
                        ELSE near(Decoded[1].int, instant, Gap(Float(v.t.n)) * u)

\* A counter given as a text is stored to the last digit, up to the greatest
\* word; given as a JSON number it is exact as long as a float64 is, and off
\* by half the gap between two of them beyond (adapter.go:85).
CountersExact ==
    src = "generic-flow" /\ DOMAIN line.m = {"timestamp", "bytes"} =>
        LET v == line.m["bytes"]
            got == Decoded[10].int
            sent == v.t.n \div 2
        IN  (Decoded # <<>> /\ v.t.k = "dec" /\ v.t.n % 2 = 0 /\ sent \in 0 .. Pow2[Width] - 1) =>
                /\ v.kind = "string" => got = sent
                /\ v.kind = "number" /\ sent <= FloatExact => got = sent
                /\ v.kind = "number" /\ Float(v.t.n) < 2 * Pow2[Width] =>
                       4 * (got - sent) <= Gap(v.t.n) /\ 4 * (sent - got) <= Gap(v.t.n)

\* A line written in the Common or the Combined format gives the record of its
\* fields, wherever they have spaces or brackets: the address and the status
\* that can be read, a size of 0 when there is none, referer and user agent
\* only in a Combined line and only when given; it is skipped when its time or
\* its request cannot be read (webaccess.go:15-18, :43-106).
WebLineReadBack ==
    (src = "web-access" /\ result # NotDecoded /\ line.of.format # "none") =>
        LET f == line.of
            number(t, else) == IF Len(t) = 1 /\ IsUint(t[1]) THEN IntVal(t[1].n \div 2) ELSE else
            given(t) == IF t \in {<<>>, <<Dash>>} \/ f.format = "common" THEN NullVal ELSE BytesVal(t)
        IN  result =
                IF ~ IsClfTime(f.time) \/ Len(f.request) < 3 THEN ErrSkip
                ELSE Record(
                    <<IntVal(ToWord(f.time[1].n)),
                      IF IsIP(f.host[1]) THEN BytesVal(<<NormalizeIP(f.host[1])>>) ELSE NullVal,
                      BytesVal(<<f.request[1]>>), BytesVal(<<f.request[3]>>),
                      number(f.status, NullVal), number(f.bytes, IntVal(0)),
                      given(f.referer), given(f.agent)>>)
=============================================================================
