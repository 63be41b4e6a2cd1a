----------------------------- MODULE NtcfCursor -----------------------------
(***************************************************************************)
(* util.Cursor (internal/util/cursor.go), the reader every structure of a  *)
(* file is taken apart with, and the layouts those structures are put      *)
(* together with.                                                          *)
(*                                                                         *)
(* A cursor is a buffer, the place in it, whether every read so far was    *)
(* inside the buffer (the error sticks), and what those reads gave.  A     *)
(* structure is a list of fields; the code states each list twice, once    *)
(* where it appends and once where it reads, and so do the models.         *)
(***************************************************************************)
EXTENDS NtcfEncoding

CONSTANTS
    ShortBytes,   \* bytes of a uint16: 2
    HalfBytes,    \* bytes of a uint32: 4
    Magic,        \* 'NTCF'
    MaxName,      \* the limit on names: 4096
    MaxBlob       \* util.MaxChunkStored

ASSUME CursorAssumption ==
    /\ {ShortBytes, HalfBytes} \subseteq Nat /\ 0 < ShortBytes
    /\ ShortBytes <= HalfBytes /\ HalfBytes <= WordBytes
    /\ Magic \in Seq(Byte) /\ Magic # <<>>
    /\ {MaxName, MaxBlob} \subseteq Nat

\* Fields of a fixed width, and the limits of the counted ones.
Width == [u8 |-> 1, u16 |-> ShortBytes, u32 |-> HalfBytes, u64 |-> WordBytes]

Limit == [name |-> MaxName, value |-> MaxBytesValue, blob |-> MaxBlob]

(***************************************************************************)
(* Appending.                                                              *)
(***************************************************************************)
AppendField(field, v) ==
    IF field \in DOMAIN Width THEN LittleEndian(v, Width[field])
    ELSE IF field \in DOMAIN Limit THEN AppendBytes(v)
    ELSE IF field = "uvarint" THEN AppendUvarint(v)
    ELSE v

\* items pairs fields with values; a field "raw" goes out as it is.
Emit(items) == FlattenSeq([i \in DOMAIN items |-> AppendField(items[i][1], items[i][2])])

(***************************************************************************)
(* Reading.                                                                *)
(***************************************************************************)
Over(buf, pos, out) == [buf |-> buf, pos |-> pos, ok |-> TRUE, out |-> out]

NewCursor(buf) == Over(buf, 0, <<>>)

Fail(c) == [c EXCEPT !.ok = FALSE]

Have(c, n) == c.pos + n <= Len(c.buf)

\* A read inside the buffer, by a cursor that has not failed.
Got(c, v, pos) == Over(c.buf, pos, Append(c.out, v))

Fixed(c, k) == IF Have(c, k) THEN Got(c, ReadLE(c.buf, c.pos, k), c.pos + k) ELSE Fail(c)

Bytes(c, n) ==
    IF c.ok /\ Have(c, n) THEN Got(c, SubSeq(c.buf, c.pos + 1, c.pos + n), c.pos + n) ELSE Fail(c)

OrFail(c, r, F(_)) == IF r.ok THEN F(r) ELSE Fail(c)

ReadUvarint(c) == OrFail(c, Uvarint(c.buf, c.pos), LAMBDA r : Got(c, r.val, r.pos))

\* A length, a check of it and so many bytes.
Counted(c, limit) ==
    OrFail(c, Uvarint(c.buf, c.pos), LAMBDA len :
        IF len.val > limit THEN Fail(c) ELSE Bytes(Over(c.buf, len.pos, c.out), len.val))

ExpectMagic(c) ==
    OrFail(c, Bytes(c, Len(Magic)), LAMBDA g : IF Last(g.out) = Magic THEN g ELSE Fail(g))

Read(c, field) ==
    IF field \in DOMAIN Width THEN Fixed(c, Width[field])
    ELSE IF field \in DOMAIN Limit THEN Counted(c, Limit[field])
    ELSE IF field = "uvarint" THEN ReadUvarint(c)
    ELSE ExpectMagic(c)

\* A batch of reads: after the first that fails none of them reads.
ReadOn(d, field) == IF d.ok THEN Read(d, field) ELSE d

Reads(c, fields) ==
    LET r[k \in 0 .. Len(fields)] == IF k = 0 THEN c ELSE ReadOn(r[k - 1], fields[k])
    IN  r[Len(fields)]

\* A list of batches.
ReadsEach(c, batches) == FoldLeft(LAMBDA d, fs : IF d.ok THEN Reads(d, fs) ELSE d, c, batches)

\* n entries of the same fields.
Times(n, fields) == [i \in 1 .. n |-> fields]

\* Entry i of the entries of k fields that begin after the first `skip` reads.
Entry(c, skip, k, i) == SubSeq(c.out, skip + k * (i - 1) + 1, skip + k * i)

(***************************************************************************)
(* Flag bytes: bit j stands for the j-th of a list of conditions.          *)
(***************************************************************************)
FlagBits(conds) == Total([j \in DOMAIN conds |-> IF conds[j] THEN Pow2[j - 1] ELSE 0], Len(conds))

HasFlag(flags, j) == (flags \div Pow2[j - 1]) % 2 = 1
=============================================================================
