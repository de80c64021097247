--------------------------- MODULE RootDiscovery ---------------------------
(***************************************************************************)
(* The paged file format of one nebari tree file and the root discovery   *)
(* that recovers it (src/nebari/src/tree/mod.rs): PagedWriter appends     *)
(* chunks and aligns every root header to a page boundary, save_tree       *)
(* fsyncs, the transaction log records ids, and initialize_state scans     *)
(* back page by page for the last root it can accept.  A crash keeps the  *)
(* fsynced bytes and any prefix of the rest.                               *)
(*                                                                         *)
(* The encodings are those of PagedFormat; the root payload is          *)
(* abstracted to the transaction id and a tag byte.                        *)
(***************************************************************************)
EXTENDS PagedFormat

CONSTANTS
    NodeLens,     \* sizes of the node chunks a modification appends
    MaxTxnId,     \* bound on transaction ids
    MaxCrashes,   \* bound on crashes
    TornWrites,   \* a crash may keep any prefix of the unsynced bytes
    Preloaded,    \* the file starts with one root saved outside a transaction
    WriteMayFail  \* a write_all may fail after writing part of its bytes

\* The root payload is the transaction id followed by a tag byte.  A root
\* chunk cut short by a failed write is followed by the next write's chunk
\* length, whose first byte is 0: ending the payload with a non-zero tag
\* keeps the two from forming the original payload by coincidence.
RootTag == 82
Default == [kind |-> "default"]

\* An offset below zero wraps around in u64; any wrapped offset lies beyond
\* the end of every file the model builds.
Wrapped == 2^30
U64Sub(a, b) == IF a >= b THEN a - b ELSE Wrapped

VARIABLES
    file,     \* the bytes of the tree file
    synced,   \* length of the prefix a crash cannot lose
    pos,      \* ActiveState::current_position
    logged,   \* transaction ids the log recorded as committed
    nextTxn,  \* next transaction id
    txn,      \* the open transaction's id (0: none)
    dirty,    \* the open transaction modified the tree
    phase,    \* "idle", "open", "saved", or "failed" (the file cannot be opened)
    roots,    \* history: roots written and still in the file, oldest first
    crashes,
    writeFailed \* some write_all failed part-way (at most one does)

vars == <<file, synced, pos, logged, nextTxn, txn, dirty, phase, roots, crashes, writeFailed>>

\* PagedWriter::new with the root's header, then the root chunk written by
\* save_tree.
HeaderBlock(at, t) == HeaderBytes(at, RootHeader) \o Chunk(<<t, RootTag>>)
HeaderAt(at) == at + Len(Padding(at))

\* Root::deserialize
IsRoot(c) == Len(c.data) = 2 /\ c.data[2] = RootTag

AcceptedUnchecked(t) == TRUE
Accepted(t) == t = 0 \/ t \in logged

(***************************************************************************)
(* The scan loop of TreeFile::initialize_state from page offset p.         *)
(***************************************************************************)
RECURSIVE Scan(_, _)
Scan(f, p) ==
    IF p + 4 > Len(f) THEN Failed
    ELSE IF SubSeq(f, p + 1, p + 3) = Magic /\ f[p + 4] \in HeaderKinds
    THEN IF f[p + 4] # RootHeader THEN Failed
         ELSE LET c == ReadChunk(f, p + 4) IN
              IF c = Failed \/ ~IsRoot(c) THEN Failed
              ELSE IF ~Accepted(c.data[1])
                   THEN IF p = 0 THEN [Default EXCEPT !.kind = "unpublished"]
                        ELSE Scan(f, p - PageSize)
              ELSE [kind |-> "root", txn |-> c.data[1], at |-> p]
    ELSE IF p = 0 THEN Default ELSE Scan(f, p - PageSize)

\* initialize_state: an empty file has the default root; otherwise the scan
\* starts at the last page with room for a page header.
Discover(f) ==
    IF Len(f) = 0 THEN Default
    ELSE LET last == Len(f) - (Len(f) % PageSize)
         IN Scan(f, IF Len(f) - last < 4 THEN U64Sub(last, PageSize) ELSE last)

\* initialize_state leaves current_position at 0 on its early return and
\* sets it to the file length otherwise.
OpenPositionPage(f) == Len(f) - (Len(f) % PageSize)
OpenPosition(f) == IF Discover(f).kind = "unpublished" THEN 0 ELSE Len(f)

-----------------------------------------------------------------------------
CONSTANT MaxLen   \* bound on the file length

Zeros(n) == [i \in 1..n |-> 0]

\* save_tree: the data block (only the magic when the file is empty; the
\* nodes were written by the modifications), then the aligned header block.
SaveBytes(at, t) ==
    LET d == IF at = 0 THEN FileMagic ELSE <<>> IN d \o HeaderBlock(at + Len(d), t)
SavedRoot(at, t) ==
    LET d == IF at = 0 THEN FileMagic ELSE <<>>
    IN [txn |-> t, at |-> HeaderAt(at + Len(d)), end |-> at + Len(SaveBytes(at, t))]

\* The file is opened for append: bytes a PagedWriter computed from
\* current_position land at the end of the file, so a root saved while
\* current_position lags the file sits that much further on.
Placed(r) == [r EXCEPT !.at = @ + Len(file) - pos, !.end = @ + Len(file) - pos]

\* A database created earlier: one node and one root saved outside a
\* transaction (TreeFile::set with Sync persistence on an empty file).
PreloadData == DataBlock(0, Zeros(CHOOSE n \in NodeLens : TRUE))
PreloadFile == PreloadData \o SaveBytes(Len(PreloadData), 0)

Init ==
    /\ file = IF Preloaded THEN PreloadFile ELSE <<>>
    /\ synced = Len(file)
    /\ pos = Len(file)
    /\ logged = {}
    /\ nextTxn = 1
    /\ txn = 0
    /\ dirty = FALSE
    /\ phase = "idle"
    /\ roots = IF Preloaded THEN <<SavedRoot(Len(PreloadData), 0)>> ELSE <<>>
    /\ crashes = 0
    /\ writeFailed = FALSE

\* Roots::transaction on this tree.
Begin ==
    /\ phase = "idle"
    /\ nextTxn <= MaxTxnId
    /\ txn' = nextTxn
    /\ nextTxn' = nextTxn + 1
    /\ phase' = "open"
    /\ dirty' = FALSE
    /\ UNCHANGED <<file, synced, pos, logged, roots, crashes, writeFailed>>

\* TreeModifier in a transaction: the new node is appended as a chunk through
\* a PagedWriter at current_position; no root, no sync.
WriteNode(n) ==
    /\ phase = "open"
    /\ Len(file) + Len(DataBlock(pos, Zeros(n))) <= MaxLen
    /\ file' = file \o DataBlock(pos, Zeros(n))
    /\ pos' = pos + Len(DataBlock(pos, Zeros(n)))
    /\ dirty' = TRUE
    /\ UNCHANGED <<synced, logged, nextTxn, txn, phase, roots, crashes, writeFailed>>

\* TreeWriter: the root of a dirty tree is appended by save_tree with the
\* transaction id; the fsync that ends save_tree is Synchronize.
SaveRoot ==
    /\ phase = "open"
    /\ dirty
    /\ Len(file) + Len(SaveBytes(pos, txn)) <= MaxLen
    /\ file' = file \o SaveBytes(pos, txn)
    /\ pos' = pos + Len(SaveBytes(pos, txn))
    /\ roots' = Append(roots, Placed(SavedRoot(pos, txn)))
    /\ phase' = "saving"
    /\ UNCHANGED <<synced, logged, nextTxn, txn, dirty, crashes, writeFailed>>

\* The log records the transaction (a clean tree wrote nothing).
LogCommit ==
    /\ \/ phase = "saved"
       \/ phase = "open" /\ ~dirty
    /\ logged' = logged \cup {txn}
    /\ txn' = 0
    /\ phase' = "idle"
    /\ UNCHANGED <<file, synced, pos, nextTxn, dirty, roots, crashes, writeFailed>>

\* TreeModifier with Sync or Flush persistence outside a transaction: the
\* node and a root with no transaction id are written through one
\* PagedWriter; with Sync (should_synchronize) the fsync is Synchronize,
\* with Flush the set returns without one.
SaveSync(n, sync) ==
    /\ phase = "idle"
    /\ LET d == DataBlock(pos, Zeros(n))
           bytes == d \o SaveBytes(pos + Len(d), 0)
       IN /\ Len(file) + Len(bytes) <= MaxLen
          /\ file' = file \o bytes
          /\ pos' = pos + Len(bytes)
          /\ roots' = Append(roots, Placed(SavedRoot(pos + Len(d), 0)))
    /\ phase' = IF sync THEN "syncing" ELSE "idle"
    /\ UNCHANGED <<synced, logged, nextTxn, txn, dirty, crashes, writeFailed>>

\* file.synchronize() at the end of save_tree.
Synchronize ==
    /\ phase \in {"saving", "syncing"}
    /\ synced' = Len(file)
    /\ phase' = IF phase = "saving" THEN "saved" ELSE "idle"
    /\ UNCHANGED <<file, pos, logged, nextTxn, txn, dirty, roots, crashes, writeFailed>>

(***************************************************************************)
(* An I/O error in one of the writes above: write_all fails after writing *)
(* k of the bytes (a data block and its root header are flushed by two   *)
(* finish calls, each one write_all).  current_position moves only past a *)
(* finished data block (save_tree sets it from finish); TreeModifier and  *)
(* TreeWriter return the error, and the transaction is dropped: its id is *)
(* never logged.  file.synchronize() may fail too, after every byte was   *)
(* written.  The state stays initialized, so nothing re-reads the file   *)
(* length.                                                                 *)
(***************************************************************************)
FailedWrite(bytes, dataLen) ==
    /\ ~writeFailed
    /\ \E k \in 0..(Len(bytes) - 1) :
          /\ Len(file) + k <= MaxLen
          /\ file' = file \o SubSeq(bytes, 1, k)
          /\ pos' = IF k >= dataLen /\ dataLen < Len(bytes) THEN pos + dataLen ELSE pos
    /\ phase' = "idle"
    /\ txn' = 0
    /\ dirty' = FALSE
    /\ writeFailed' = TRUE
    /\ UNCHANGED <<synced, logged, nextTxn, roots, crashes>>

WriteFails ==
    /\ WriteMayFail
    /\ \/ /\ phase = "open"
          /\ \E n \in NodeLens : LET d == DataBlock(pos, Zeros(n)) IN FailedWrite(d, Len(d))
       \/ /\ phase = "open" /\ dirty
          /\ LET d == IF pos = 0 THEN FileMagic ELSE <<>>
             IN FailedWrite(SaveBytes(pos, txn), Len(d))
       \/ /\ phase = "idle"
          /\ \E n \in NodeLens :
                LET d == DataBlock(pos, Zeros(n)) IN FailedWrite(d \o SaveBytes(pos + Len(d), 0), Len(d))
       \/ /\ phase \in {"saving", "syncing"}
          /\ phase' = "idle"
          /\ txn' = 0
          /\ dirty' = FALSE
          /\ UNCHANGED <<file, synced, pos, logged, nextTxn, roots, crashes, writeFailed>>

(***************************************************************************)
(* A crash keeps the synced prefix and, with torn writes, any prefix of   *)
(* the rest (otherwise all or none of it).  The tree is then opened:       *)
(* initialize_state sets current_position to the file length, except on  *)
(* its early return for a rejected root at offset 0.                       *)
(***************************************************************************)
Crash ==
    /\ crashes < MaxCrashes
    /\ phase # "failed"
    /\ crashes' = crashes + 1
    /\ \E n \in IF TornWrites THEN synced..Len(file) ELSE {synced, Len(file)} :
          LET f == SubSeq(file, 1, n) IN
          /\ file' = f
          /\ synced' = n
          /\ roots' = SelectSeq(roots, LAMBDA r : r.end <= n)
          /\ phase' = IF Discover(f) = Failed THEN "failed" ELSE "idle"
          /\ pos' = OpenPosition(f)
    /\ txn' = 0
    /\ dirty' = FALSE
    /\ UNCHANGED <<logged, nextTxn, writeFailed>>

Next ==
    \/ Begin
    \/ \E n \in NodeLens : WriteNode(n) \/ \E sync \in BOOLEAN : SaveSync(n, sync)
    \/ SaveRoot
    \/ Synchronize
    \/ LogCommit
    \/ WriteFails
    \/ Crash

Spec == Init /\ [][Next]_vars

-----------------------------------------------------------------------------
TypeOK ==
    /\ file \in Seq(0..255)
    /\ synced \in 0..Len(file)
    /\ pos \in Nat
    /\ logged \subseteq 1..MaxTxnId
    /\ txn \in 0..MaxTxnId
    /\ phase \in {"idle", "open", "saving", "saved", "syncing", "failed"}
    /\ \A i \in 1..Len(roots) : roots[i].end <= Len(file)

\* The root discovery should find: the last root written that is still in
\* the file and was saved outside a transaction or by a logged one.
Expected ==
    LET live == SelectSeq(roots, LAMBDA r : r.txn = 0 \/ r.txn \in logged)
    IN IF live = <<>> THEN Default
       ELSE [kind |-> "root", txn |-> Last(live).txn, at |-> Last(live).at]

\* Whatever a crash leaves of the file, initialize_state never accepts a
\* root other than the last committed one: it may fail, but it never
\* resurrects an uncommitted root nor falls back to an older one.
DiscoveryNeverWrong == Discover(file) \in {Failed, Expected}

\* Every write of PagedWriter starts at current_position: as long as the
\* file can be opened and no write_all has failed part-way, current_position
\* is the end of the file, across crashes and reopening, so no write
\* overwrites or leaves a gap.
WritesAtEnd == phase # "failed" /\ ~writeFailed => pos = Len(file)

\* DiscoveryNeverWrong, for every file no failed write_all touched.
DiscoveryAfterCleanWrites == ~writeFailed => DiscoveryNeverWrong

\* Whatever crashes and failed writes leave in the file, a root that
\* initialize_state accepts is one save_tree wrote, at the position it was
\* written, under id 0 or an id the log recorded: stranded bytes, torn
\* chunks and misaligned headers never pass for a committed root.
DiscoveryOnlyWritten ==
    LET d == Discover(file)
    IN d.kind = "root" =>
         /\ \E i \in 1..Len(roots) : roots[i].at = d.at /\ roots[i].txn = d.txn
         /\ d.txn = 0 \/ d.txn \in logged

\* Opening the file after any crash succeeds (spec.md 4.3: a partially
\* flushed root fails its CRC or is skipped by continuing backwards).
OpenSucceeds == Discover(file) # Failed

====
