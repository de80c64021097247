---------------------------- MODULE PagedFormat ----------------------------
(***************************************************************************)
(* The byte encodings of a nebari tree file (src/nebari/src/tree/mod.rs):  *)
(* the file magic, the page headers PagedWriter::new aligns to a page      *)
(* boundary, the chunks of write_chunk and their reading by read_chunk.    *)
(* Files are sequences of byte values (0 to 255), offsets are 0-based and *)
(* f[o + 1] is the byte at offset o.  CRC32 is abstracted to a checksum   *)
(* of the payload that any truncation changes.                             *)
(***************************************************************************)
EXTENDS Naturals, Sequences, SequencesExt

CONSTANT PageSize     \* PAGE_SIZE (256 in the code, scaled down)

Magic == <<78, 98, 114>>                 \* "Nbr"
FileMagic == <<78, 98, 114, 105>>        \* "Nbri"
HeaderKinds == {2, 3}                    \* PageHeader::try_from
RootHeader == 3                          \* UnversionedTreeRoot::HEADER

\* a read that fails (short read, bad checksum)
Failed == [kind |-> "error"]

Be32(n) == <<(n \div 16777216) % 256, (n \div 65536) % 256, (n \div 256) % 256, n % 256>>
ReadBe32(s) == ((s[1] * 256 + s[2]) * 256 + s[3]) * 256 + s[4]
Checksum(payload) == Be32((FoldLeft(+, 0, payload) + Len(payload)) % 251)

(***************************************************************************)
(* PagedWriter::write_chunk: length, checksum, contents.                   *)
(***************************************************************************)
Chunk(payload) == Be32(Len(payload)) \o Checksum(payload) \o payload

\* PagedWriter::new without a header: the "Nbri" magic when at offset 0.
DataBlock(at, payload) == (IF at = 0 THEN FileMagic ELSE <<>>) \o Chunk(payload)

\* PagedWriter::new with a header: PAGE_SIZE - at % PAGE_SIZE bytes of
\* padding filled with the header byte, of which the last three are then
\* replaced by "Nbr", and the header byte.
PaddingShort(at) == [i \in 1..(PageSize - (at % PageSize) - 1) |-> RootHeader]
Padding(at) == [i \in 1..(PageSize - (at % PageSize)) |-> RootHeader]
HeaderBytes(at, header) == Padding(at) \o Magic \o <<header>>

(***************************************************************************)
(* read_chunk with CRC validation: short reads and checksum mismatches    *)
(* fail.  Offsets are 0-based, f[o + 1] is the byte at offset o.           *)
(***************************************************************************)
ReadChunk(f, at) ==
    IF at + 8 > Len(f) THEN Failed
    ELSE LET n == ReadBe32(SubSeq(f, at + 1, at + 4))
             payload == SubSeq(f, at + 9, at + 8 + n)
         IN IF at + 8 + n > Len(f) THEN Failed
            ELSE IF SubSeq(f, at + 5, at + 8) # Checksum(payload) THEN Failed
            ELSE [kind |-> "chunk", data |-> payload]

====
