---------------------------- MODULE PagedWriter ----------------------------
(***************************************************************************)
(* PagedWriter (src/nebari/src/tree/mod.rs): the writer every tree write   *)
(* goes through.  It buffers writes in a WRITE_BUFFER_SIZE array and      *)
(* appends the buffer to the file when it fills, passes a write larger    *)
(* than the buffer straight to the file after flushing what is buffered,  *)
(* reports chunk positions as position + offset, and flushes on finish.    *)
(*                                                                         *)
(* The writer is the record [file, position, buf]: the bytes of the file, *)
(* PagedWriter::position, and buffered_write[0..offset].  The bytes a     *)
(* caller writes are tagged with the number of its call.                   *)
(***************************************************************************)
EXTENDS PagedFormat, FiniteSetsExt

CONSTANTS
    BufferSize,   \* WRITE_BUFFER_SIZE (8 KiB in the code, scaled down)
    StartLens,    \* lengths of the file the writer is opened on
    Lens,         \* lengths of the data of one write
    MaxCalls      \* bound on writes and chunks after PagedWriter::new

NoHeader == 0     \* PagedWriter::new(None, ..)

VARIABLES
    w,        \* the writer
    stream,   \* the file's bytes followed by every byte passed to write
    chunks,   \* chunks written: the position write_chunk returned, the data
    pc,       \* "new", "open" or "finished"
    calls

vars == <<w, stream, chunks, pc, calls>>

(***************************************************************************)
(* The writer's operations on a writer value.                              *)
(***************************************************************************)
\* PagedWriter::current_position
CurrentPositionUnbuffered(wr) == wr.position
CurrentPosition(wr) == wr.position + Len(wr.buf)

\* PagedWriter::commit: append buffered_write[0..offset], advance, reset.
Commit(wr) == [file |-> wr.file \o wr.buf, position |-> wr.position + Len(wr.buf), buf |-> <<>>]

\* PagedWriter::commit_if_needed
CommitIfNeeded(wr) == IF Len(wr.buf) > 0 THEN Commit(wr) ELSE wr

\* The copy loop of PagedWriter::write: fill the buffer with what fits,
\* commit it when it is full, and go on with the rest.
RECURSIVE Buffer(_, _)
Buffer(wr, data) ==
    IF data = <<>> THEN wr
    ELSE LET n == Min({BufferSize - Len(wr.buf), Len(data)})
             filled == [wr EXCEPT !.buf = @ \o SubSeq(data, 1, n)]
         IN Buffer(IF Len(filled.buf) = BufferSize THEN Commit(filled) ELSE filled,
                   SubSeq(data, n + 1, Len(data)))

\* PagedWriter::write: data larger than the buffer goes to the file
\* directly, after the buffered bytes.
WriteUnflushed(wr, data) ==
    IF Len(data) > BufferSize
    THEN [wr EXCEPT !.file = @ \o data, !.position = @ + Len(data)]
    ELSE Buffer(wr, data)
Write(wr, data) ==
    IF Len(data) > BufferSize
    THEN LET c == CommitIfNeeded(wr)
         IN [c EXCEPT !.file = @ \o data, !.position = @ + Len(data)]
    ELSE Buffer(wr, data)

\* The bytes PagedWriter::new writes: the aligned page header, then the
\* magic when the writer is still at offset 0.
NewHeader(wr, h) == IF h # NoHeader THEN HeaderBytes(wr.position, h) ELSE <<>>
NewMagic(wr) == IF CurrentPosition(wr) = 0 THEN FileMagic ELSE <<>>

Data(n) == [i \in 1..n |-> 100 + calls]

-----------------------------------------------------------------------------
\* The tree file as opened for append, at current_position = its length.
Init ==
    /\ \E n \in StartLens :
          /\ w = [file |-> [i \in 1..n |-> 7], position |-> n, buf |-> <<>>]
          /\ stream = w.file
    /\ chunks = {}
    /\ pc = "new"
    /\ calls = 0

\* PagedWriter::new, without a header (a data block) or with the root header.
New(h) ==
    /\ pc = "new"
    /\ LET w1 == Write(w, NewHeader(w, h))
           w2 == Write(w1, NewMagic(w1))
       IN /\ w' = w2
          /\ stream' = stream \o NewHeader(w, h) \o NewMagic(w1)
    /\ pc' = "open"
    /\ UNCHANGED <<chunks, calls>>

\* PagedWriter::write, as node serialization calls it.
WriteData(n) ==
    /\ pc = "open" /\ calls < MaxCalls
    /\ w' = Write(w, Data(n))
    /\ stream' = stream \o Data(n)
    /\ calls' = calls + 1
    /\ UNCHANGED <<chunks, pc>>

\* PagedWriter::write_chunk: the length and checksum as big-endian u32s and
\* the contents, in three writes; returns the position before them.
WriteChunk(n) ==
    /\ pc = "open" /\ calls < MaxCalls
    /\ LET d == Data(n)
       IN /\ w' = Write(Write(Write(w, Be32(n)), Checksum(d)), d)
          /\ stream' = stream \o Chunk(d)
          /\ chunks' = chunks \cup {[at |-> CurrentPosition(w), data |-> d]}
    /\ calls' = calls + 1
    /\ UNCHANGED pc

\* PagedWriter::finish: flush, and hand back the file and the position.
Finish ==
    /\ pc = "open"
    /\ w' = CommitIfNeeded(w)
    /\ pc' = "finished"
    /\ UNCHANGED <<stream, chunks, calls>>

Next ==
    \/ \E h \in {NoHeader, RootHeader} : New(h)
    \/ \E n \in Lens : WriteData(n) \/ WriteChunk(n)
    \/ Finish

Spec == Init /\ [][Next]_vars

-----------------------------------------------------------------------------
TypeOK ==
    /\ w.file \in Seq(0..255) /\ w.buf \in Seq(0..255)
    /\ Len(w.buf) < BufferSize
    /\ pc \in {"new", "open", "finished"}

\* The file followed by the buffer always holds every byte passed to
\* write, once and in order: the buffer's commits on filling and the
\* flush before a write larger than the buffer keep the writes in order.
StreamWritten == w.file \o w.buf = stream

\* After finish, the position handed back is the end of the file and
\* every chunk reads back, checksum verified, from the position
\* write_chunk returned, also when it was returned while bytes were
\* still buffered.
ChunksReadBack ==
    pc = "finished" =>
        /\ w.position = Len(w.file)
        /\ \A c \in chunks : ReadChunk(w.file, c.at) = [kind |-> "chunk", data |-> c.data]

====
