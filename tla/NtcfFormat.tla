----------------------------- MODULE NtcfFormat -----------------------------
(***************************************************************************)
(* The container as a reader sees it (internal/format, internal/store).    *)
(*                                                                         *)
(* A file image is a sequence of cells.  Every block the writer emits with *)
(* one io.Writer.Write (header, column chunk, index blob, footer) is a run *)
(* of cells that name the block they belong to and their place in it, so   *)
(* that a torn block is a proper prefix of that run.  A checksum accepts a *)
(* range exactly when it is one whole run.                                 *)
(***************************************************************************)
EXTENDS NtcfColumn

CONSTANTS
    NCols,                                     \* columns of the schema
    Indexed,                                   \* columns with an index blob
    HeaderLen, ChunkLen, IndexLen, FooterLen,  \* cells of each block
    MaxSegmentRows,                            \* util.MaxSegmentRows
    MaxSegments,                               \* util.MaxSegments
    MagicVals                                  \* values whose bytes end in 'NTCF'

ASSUME FormatAssumption ==
    /\ NCols \in Nat \ {0}
    /\ Indexed \subseteq 1 .. NCols
    /\ HeaderLen \in Nat \ {0}
    /\ ChunkLen \in Nat \ {0}
    /\ IndexLen \in Nat \ {0}
    /\ FooterLen \in Nat \ {0, 1}
    /\ MaxSegmentRows \in Nat
    /\ MaxSegments \in Nat

Cols == 1 .. NCols

(***************************************************************************)
(* The footer's directory.  A segment carries one auxiliary field, `first`:*)
(* the rows of the segments before it, which readers get by adding Rows.   *)
(***************************************************************************)
ColumnDir ==
    [chunkOffset : Nat, chunkLength : Nat, indexOffset : Nat, indexLength : Nat,
     hasNulls : BOOLEAN, nonNull : Nat, min : Word, max : Word]

SegmentDir ==
    [offset : Nat, length : Nat, first : Nat, rows : Nat,
     minTS : Int, maxTS : Int, columns : Seq(ColumnDir)]

Footer == [segments : Seq(SegmentDir), totalRows : Nat, minTS : Int, maxTS : Int]

(***************************************************************************)
(* Blocks.  An index blob answers for the distinct present values of its   *)
(* column, whether as a Bloom filter or as an inverted index.              *)
(***************************************************************************)
Payload == [magic : {TRUE}] \cup Builder \cup [keys : SUBSET Word] \cup Footer

Cell == [kind : {"header", "chunk", "index", "footer"}, of : Payload, part : Nat]

Block(kind, of, len) ==
    [p \in 1 .. len |-> [kind |-> kind, of |-> of, part |-> p]]

HeaderBlock == Block("header", [magic |-> TRUE], HeaderLen)

ChunkBlock(b) == Block("chunk", b, ChunkLen)

IndexBlock(b) == Block("index", [keys |-> PresentValues(b)], IndexLen)

FooterBlock(f) == Block("footer", f, FooterLen)

\* The range of img that starts at offset off is one whole block of this kind.
IsBlock(img, off, len, kind) ==
    /\ off + len <= Len(img)
    /\ \A p \in 1 .. len :
          /\ img[off + p].kind = kind
          /\ img[off + p].part = p
          /\ img[off + p].of = img[off + 1].of

(***************************************************************************)
(* Footers.  FooterAt: ReadFooter accepts img[1..end], that is, it finds   *)
(* the magic, a body of the declared length with a matching CRC, and no    *)
(* more segments than the limit.  The cells after `end` play no part.      *)
(***************************************************************************)
FooterAt(img, end) ==
    /\ end >= HeaderLen + FooterLen
    /\ IsBlock(img, end - FooterLen, FooterLen, "footer")
    /\ Len(img[end].of.segments) <= MaxSegments

HeaderReads(img) == IsBlock(img, 0, HeaderLen, "header")

\* store.New, the only way in from pkg/ntcf: a footer at the very end.
CanOpen(img) == HeaderReads(img) /\ FooterAt(img, Len(img))

(***************************************************************************)
(* The backward scan of RecoverFooter tries every end that carries the     *)
(* magic: a footer's last cell, or a chunk whose last value looks like it. *)
(***************************************************************************)
HasMagic(img, end) ==
    LET c == img[end]
    IN  \/ c.kind = "footer" /\ c.part = FooterLen
        \/ /\ c.kind = "chunk" /\ c.part = ChunkLen
           /\ c.of.vals[Rows(c.of)] \in MagicVals

Candidates(img) == {end \in (HeaderLen + FooterLen) .. Len(img) : HasMagic(img, end)}

\* A slip: the scan gives up at the first magic it meets.
FooterEndsLatestMagic(img) ==
    {end \in Candidates(img) : end = Max(Candidates(img)) /\ FooterAt(img, end)}

FooterEnds(img) == {end \in Candidates(img) : FooterAt(img, end)}

\* store.Recover: the final footer if it reads, else the latest one that does.
CanRecover(img) ==
    HeaderReads(img) /\ (FooterAt(img, Len(img)) \/ FooterEnds(img) # {})

RecoveredFooter(img) ==
    IF FooterAt(img, Len(img)) THEN img[Len(img)].of ELSE img[Max(FooterEnds(img))].of

(***************************************************************************)
(* Reader.Column and Reader.Index of one column directory cd.              *)
(***************************************************************************)
ChunkDecodes(img, cd) ==
    /\ cd.chunkLength = ChunkLen
    /\ IsBlock(img, cd.chunkOffset, ChunkLen, "chunk")
    /\ Rows(img[cd.chunkOffset + 1].of) <= MaxSegmentRows

DecodeChunk(img, cd) == img[cd.chunkOffset + 1].of

IndexReads(img, cd) ==
    /\ cd.indexLength = IndexLen
    /\ IsBlock(img, cd.indexOffset, IndexLen, "index")

IndexKeys(img, cd) == img[cd.indexOffset + 1].of.keys

(***************************************************************************)
(* The rows a footer f of image img gives back.  Row r belongs to the      *)
(* segment i whose rows cover it; `first` is the number of rows before it. *)
(***************************************************************************)
Decodable(img, f) ==
    \A i \in 1 .. Len(f.segments), c \in Cols :
        ChunkDecodes(img, f.segments[i].columns[c])

SegmentOfRow(f, r) ==
    CHOOSE i \in 1 .. Len(f.segments) :
        r \in (f.segments[i].first + 1) .. (f.segments[i].first + f.segments[i].rows)

ReadRow(img, f, r) ==
    LET s == f.segments[SegmentOfRow(f, r)]
    IN  [c \in Cols |-> CellAt(DecodeChunk(img, s.columns[c]), r - s.first)]

ReadRows(img, f) == [r \in 1 .. f.totalRows |-> ReadRow(img, f, r)]
=============================================================================
