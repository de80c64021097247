# TLA+ models of nebari

These TLA+ modules model the append-only B-tree engine of nebari
(`src/nebari/src/roots.rs` and `src/nebari/src/tree/mod.rs`). The model checker
TLC checks them with the `.cfg` files in this directory.

## The system

| Part | Source | What it does |
|---|---|---|
| Transaction coordinator | `roots.rs` `Roots::transaction`, `ExecutingTransaction` | Takes the tree-name locks and a transaction id from the transaction manager. Opens each tree for writing. On `commit` it writes every tree, records the id in the log, publishes, then drops the locks. `Drop` rolls back. |
| Commit thread pool | `roots.rs` `ThreadPool` | Commits one tree on the caller's thread. Sends several trees to a channel served by up to `maximum_threads` threads. Returns at the first error. |
| Tree state | `tree/mod.rs` `initialize_state`, `State<Root>` (not in `src/`) | Each tree name has one state, shared by every handle. It holds a published root (what readers see), an active root (what the transaction writing the tree sees), and the id of the file it belongs to. On first use the state discovers the last root in the file whose transaction the log recorded. |
| Transactional writes | `TreeModifier`, `TreeWriter`, `save_tree` | A write changes only the active root. A tree commit appends the root and fsyncs. |
| Compaction | `Tree::compact`, `TreeCompactor`, `TreeFile::compact`, `TreeCompactionFinisher` | Takes the tree-name lock, copies the live data to a new file, swaps the file in, then publishes the state under its new file id. |
| Reads | `Tree::get`, `open_for_read`, `TreeGetter`, `catch_compaction_and_retry`, `Tree::count` | `get` opens a handle and reads the published root. If the file was compacted since, it retries. `count` reads the active root. |
| Paged file format | `PagedWriter`, `write_chunk`, `read_chunk`, the scan loop of `initialize_state` | Buffers writes in an 8 KiB array. Appends chunks (length, CRC, bytes). Pads every root header to a page boundary. On open, scans back page by page from the end for the last root the log accepts. |
| Scans and reduce | `TreeFile::reduce`, `ReduceState`, `first_key`/`first`/`last_key`/`last`, `get_range*`, `get_multiple*`, `KeyRange`, `TreeScanner`, `TreeGetter` | Walk the B-tree forwards or backwards. A node evaluator and a key evaluator answer ReadData, Skip or Stop. `reduce` folds the reduced indexes of whole nodes and of single keys. |
| Tree handles and deletion | `Roots::tree`, `Tree::set`/`get`, `Roots::delete_tree` | A `Tree` keeps the `State` it got from the `tree_states` map. `set` takes the state from the map again. `delete_tree` deletes the file and removes the map entry. |
| Not modelled | `check_name`, `tree_names` | See the last section. |

Writers interact through the tree-name locks and each tree's state mutex.
Readers never lock. They compare their handle's file id with the state's. A
crash keeps the files and the log and loses everything in memory.

## Modules

- **`TxnStore.tla`** is the abstract specification of what the coordinator
  promises (spec.md 4.8, 5, 8.11). Each tree has committed contents. A
  transaction owns its trees, sees its own writes, and installs all of them in
  one step or none of them. A crash aborts every open transaction.
- **`Roots.tla`** is the concrete model. Each action stands for one handler or
  step of the code, and `PROJECT.json` "map" gives its lines.
  - Data is one value per key: `Keys -> Vals ∪ {NoValue}`. A root is its data
    plus the transaction id it was last written under.
  - A tree file is the sequence of roots appended to it. Root discovery
    (`Discover`) is the last root whose id is 0 or logged, found with
    `SelectLastInSeq`.
  - Variables: the durable `logged`, `file` and `fid`; the per-tree state
    `init`, `pub`, `act` and `sfid`; the tree-name `lock`; the worker and reader
    threads `wk` and `rd`, each with a program counter; the pool's queued
    `jobs` and `threads`.
  - Worker actions: `Begin`, `Set`/`RemoveKey`/`CompareAndSwap` (through
    `Modify`), `Rollback`, `CommitInline`, `CommitDispatch`, `PoolCommit` (a
    pool thread), `CommitCollected`/`CommitFailed`, `LogCommit`, `Publish`
    (once per tree), `CommitDone`.
  - Compaction actions: `CompactOpen`, `CompactSave`, `CompactSwap`,
    `CompactFinish`.
  - Reader actions: `ReadOpen`, `ReadGet`, `ReadRetry`, `Count`.
  - `Crash` ends the process.
  - Failure paths of the code are disjuncts, switched on by
    `TreeCommitMayFail` and `LogCommitMayFail`. A failed tree write may or may
    not have reached the disk.
  - The refinement mapping to `TxnStore`:
    - A tree's committed contents are the discovered root while its state is
      uninitialized. Between the log commit and the publish they are the
      active root. Otherwise they are the published root.
    - A transaction owns its trees from `new_transaction` until its log commit
      or its failure.
- **`PagedFormat.tla`** holds the byte encodings, with no variables.
  - `Chunk` is what `write_chunk` appends. `HeaderBytes` is what
    `PagedWriter::new` writes for a header: padding filled with the header
    byte, then `"Nbr"` plus the header byte at the page boundary.
  - `ReadChunk` is `read_chunk` with CRC validation. CRC32 is a checksum that
    any truncation changes.
- **`PagedWriter.tla`** models the writer as a record `[file, position, buf]`.
  - `Buffer` (RECURSIVE) is the copy loop of `write`. `Write` adds the direct
    path for data larger than the buffer. `Commit`, `CommitIfNeeded` and
    `CurrentPosition` are the methods of the same names.
  - Actions: `New` (with or without the root header, and the magic at offset
    0), `WriteData` (node serialization), `WriteChunk`, `Finish`.
  - `stream` and `chunks` are history variables. `stream` holds every byte
    passed to `write`, and `chunks` holds each position `write_chunk` returned.
- **`RootDiscovery.tla`** models one tree file as a sequence of bytes, in
  the encodings of `PagedFormat`.
  - `DataBlock` and `HeaderBlock` give the bytes a save appends: the
    `"Nbri"` magic at offset 0, the aligned header, and the root chunk. The
    root chunk holds the transaction id and then a non-zero tag byte. The
    tag comes last so that a root cut short by a failed write cannot be
    completed by the zero length byte of the next chunk, which in the code
    is a coincidence the CRC32 rules out.
  - `Scan` (RECURSIVE) and `Discover` follow `initialize_state` branch by
    branch, including the unsigned underflow for 1–3-byte files (`U64Sub`)
    and the early return for a rejected root at offset 0.
  - Actions: `Begin`, `WriteNode` (a transactional modification), `SaveRoot`
    (`TreeWriter`/`save_tree`), `Synchronize` (the fsync at the end of
    `save_tree`), `LogCommit`, `SaveSync` (a non-transactional write with
    Sync or Flush persistence; Flush returns without the fsync), and `Crash`. A crash keeps the fsynced prefix and any
    longer prefix when `TornWrites` is on, then reopens the file.
  - `WriteFails` (enabled by `WriteMayFail`) is a `write_all` of
    `PagedWriter::commit` that fails after writing some prefix of its bytes,
    during a modification, during a save, or while the fsync is pending.
    The file is opened for append, so the prefix stays at the end of the
    file, while `current_position` keeps its old value (`FailedWrite`). The
    transaction or the set returns the error. `Placed` puts a later save's
    root where the append really lands it. `writeFailed` records that a
    write failed; the model allows one failed write per behaviour.
  - `roots` is a history variable: the roots written and still in the file.
    It is only read by the properties.
- **`TreeScan.tla`** models one read of one tree (`op`): `reduce`,
  `first_key`, `first`, `last_key`, `last`, `get_range`,
  `get_range_indexes`, `get`, `get_multiple`, `scan_sequences`
  forwards or backwards, or `get_multiple_by_sequence`.
  - The tree is every B-tree of up to `KeySlots` keys and depth three with at
    most `Order` entries per node (`Trees`, RECURSIVE `Splits`). Keys are
    single bytes. The reducer counts keys: `Rereduce` adds counts (the
    reducer of the tree root is not in `src/` and is modelled from spec.md).
  - The B-tree code is not in `src/`. The node shapes and the traversal
    (`Visited`, `NextEntry`, `Frame`, `Pop`) come from spec.md 3 and 4.5.
  - The evaluators come from the code:
    - `NodeEval` is `reduce`'s node evaluator, with `StartIsAfterMax`,
      `StartIsLowest` and `EndIncluded`. `KeyEval` is its key evaluator.
    - `NodeRead` always descends. `KeyTake` is the key evaluator of
      `first_key`/`last_key`. `KeyRead` is that of `first`/`last`, with its
      `key_requested` flag.
    - `KeyCollect` is the evaluators of `get_range` (ReadData, the
      `key_reader` pushes) and `get_range_indexes` (the evaluator pushes,
      Skip); `get_range_with_indexes` behaves like `get_range`.
    - `get` (with `get_index` and `get_with_index`, `GetterOps`) and
      `get_multiple` pass a `KeyRange` (`want`, built by `KeyRangeNew`
      from the sorted `request`, a single key for `get`, advanced by
      `KeyRangeNext`). The descent (`MultiDescend`, `MultiKey`, `LeafDone`) is that of spec.md 4.5: a
      child is entered while the current key is at most its max key, and a
      leaf consumes keys up to its last key.
  - `ReduceToDepth`, `PushReduced`, `PushIndex` and `DepthFinish` are
    `ReduceState` and `DepthState`.
  - `scan_sequences` reads a by-sequence index whose keys are the eight
    big-endian bytes of each `SequenceId` (`StoredKey`, `ToBeBytes`). The
    slots stand for ids 0, 1, 255, 256, 65535 and 65536, so that pairs of
    ids straddle a byte carry. The caller's numeric range goes through
    `U64Range::new` and `borrow_as_bytes` (`BoundBytes`, `BorrowAsBytes`,
    `ScanRange`), and the scan compares bytes lexicographically
    (`LexLess`). `SeqKeyCollect` is the wrapping key evaluator: `read_u64`
    (`ReadU64`) and a caller's evaluator that reads every id.
  - `get_multiple_by_sequence` (`MultiOps`) passes `TreeSequenceGetter`'s
    keys, the caller's sequences in the caller's order turned into bytes
    (`SequenceKeys`), to the same `KeyRange` descent as `get_multiple`,
    and decodes each key found (`Decoded`). The request is every
    permutation of every subset of the slots, since the method takes any
    iterator.
- **`TreeHandles.tla`** models one tree name.
  - Variables: the `tree_states` map entry, the `State` objects, the file
    (whether it exists, its id and its last committed value), and per
    handle: the state the `Tree` keeps and its program counter.
  - Actions: `OpenTree` (`Roots::tree`), `SetBegin`/`SetCommit`
    (`Tree::set`), `DeleteTree`, `GetStart`, `GetAttempt` (one pass of
    `catch_compaction_and_retry` with the file-id check).
  - `MCTreeHandles.tla` adds symmetry over the handles.
- **`MCRoots.tla`** extends `Roots` for TLC. It adds the symmetry set. The
  `.cfg` files give the constants as model values and small numbers.

## Runs

| Run | cfg | Checks | Shows |
|---|---|---|---|
| coordinator | `MCRoots.cfg` | `TypeOK`, `RecoveryMatchesCommitted`, `TxnStoreRefinement` | 2 workers, 2 trees, inline and pooled commits, rollbacks, two compactions racing the transactions (the second on a handle the first made stale) and a crash. The coordinator implements `TxnStore`, and the files plus the log always recover the committed contents. |
| roots_liveness | `MCRootsLive.cfg` | `CommitTerminates`, `ReadTerminates` | With tree-commit and log failures, a crash and two compactions, every commit returns and every `Tree::get` retry loop ends. |
| failed_commit_recovery | `MCRootsFailRecovery.cfg` | `RecoveryMatchesCommitted` (violated) | A failed tree commit leaves its writes in the active state. A later commit saves that root under the failed transaction's id, and a restart skips it, so published data is lost. |
| root_discovery | `MCRootDiscovery.cfg` | `WritesAtEnd`, `DiscoveryAfterCleanWrites`, `DiscoveryOnlyWritten` | Page size 16, three transactions, non-transactional saves, a crash with torn writes and a failed `write_all`. A root the scan accepts is always one `save_tree` wrote, at its position, under a logged id. With no failed write, discovery never returns an uncommitted or older root and `current_position` always ends the file. |
| torn_root | `MCRootDiscoveryTorn.cfg` | `OpenSucceeds` (violated) | A crash keeps a root's page header but not its whole chunk. `read_chunk` fails and the error ends `initialize_state`, so the tree cannot be opened. |
| failed_write_shifts_root | `MCRootDiscoveryWriteFail.cfg` | `DiscoveryNeverWrong` (violated) | The first write of a new file fails after one byte. A later non-transactional set (Flush persistence in the trace, the same file with Sync; no restart is needed) computes its header from `current_position` 0, but the append puts it at offset 17, off the page boundary, and the page scan the next open runs never finds that saved root. |
| paged_writer | `MCPagedWriter.cfg` | `StreamWritten`, `ChunksReadBack` | Writes and chunks that fit, exactly fill, or overflow the buffer, on new and existing files, with and without a header. The file keeps every write in order, and every chunk reads back from the position `write_chunk` returned. |
| tree_scan | `MCTreeScan.cfg` | `ReduceMatchesCount`, `FirstLastAreEnds`, `GetRangeIsSortedRange`, `GetMultipleIsPresentKeys`, `ScanSequencesIsIdRange`, `GetBySequenceIsPresentIds` | Every tree of up to five keys. `reduce` counts exactly the keys in every range the repository's test shapes allow (a start bound, or `..`) that some key matches; the empty match is finding 6. The four first/last operations return the smallest or largest key. `get_range` and `get_range_indexes` return each key of every range once, `get_range_indexes` in ascending order. `get` and `get_multiple` return each requested key the tree holds exactly once, for every key and every sorted request. `scan_sequences`, forwards and backwards, returns exactly the ids its numeric range contains, in order (`ScanSequencesIsIdRange`). `get_multiple_by_sequence` maps only requested ids the index holds, for every order of the request, and all of them when the request ascends (`GetBySequenceIsPresentIds`); get_by_sequence_unsorted shows the other orders. |
| reduce_unbounded_start | `MCTreeScanUnboundedStart.cfg` | `ReduceMatchesCount` (violated) | `reduce(..=0)` on leaves {0, 1} and {2} returns 2 though one key matches: the whole first leaf is counted, key 1 past the end included. |
| get_by_sequence_unsorted | `MCTreeScanUnsortedSequences.cfg` | `GetBySequenceFindsAll` (violated) | The index holds sequence 0 and the caller asks for 255 then 0: the forwards `KeyRange` moves past the leaf looking for 255 and never looks 0 up, so nothing is returned. |
| tree_handles | `MCTreeHandles.cfg` | `MapStateMatchesFile` | Two handles, sets, gets, two deletions and re-creations. The state `tree_states` hands to new transactions always belongs to the current file and holds its last commit. |
| handle_get_livelock | `MCTreeHandlesLivelock.cfg` | `GetTerminates` (violated) | Once the tree is deleted and re-created, a get through a `Tree` opened before the deletion retries `TreeCompacted` forever. |

### Bounds

- RootDiscovery uses `PAGE_SIZE` 16 instead of 256. Only the position of
  headers relative to page boundaries matters, and a page of 16 bytes still
  holds a root header (4 bytes) and a root chunk (10 bytes). One node size
  is enough, because each save starts at a different offset in the page.
  `MaxLen` 80 allows five pages, enough for two or three saves before a
  crash. root_discovery allows one crash and one failed write (2.4 million
  states, about 1.5 minutes); two crashes together with failures take
  longer than five minutes. One crash still reaches a reopen followed by
  further saves, which every state's scan then checks.
- PagedWriter scales `PAGE_SIZE` to 4 and `WRITE_BUFFER_SIZE` to 8. A page
  header (up to `PAGE_SIZE` + 4 bytes) still fits the buffer, as 260 bytes
  fit 8 KiB in the code. Write lengths 1, 3, 8 and 9 cover a write that fits,
  one that exactly fills the buffer, and one that overflows it.
- TreeScan enumerates every tree of up to five keys (from 0..4) with up to
  three entries per node and depth three, and every range with bounds in
  0..5. This covers ranges that start and end inside, between and outside
  the keys, and whole-node shortcuts at both levels. `get_multiple` takes
  every subset of 0..4 as its request, so keys are found, missed, and
  passed over in leaves and whole subtrees. The sequence reads use the ids
  0, 1, 255, 256, 65535 and 65536 for the slots. `get_multiple_by_sequence`
  takes every ordering of every subset (326 requests). The run has about
  1.1 million states and takes under half a minute.
- TreeHandles uses two handles, three states, three file ids and two
  deletions. That is enough for a handle to outlive one re-creation while
  another handle writes the new file.
- Every Roots run uses one key and one value. That is enough to tell written data
  from absent data, which is all the properties compare.
- Transaction ids are capped by `MaxTxnId` (2 or 3). That allows two
  transactions plus a compaction, which also takes an id.
- One crash is allowed where recovery matters.
- Two trees give multi-tree commits on the pool; two compactions give a
  compaction on a handle the first one made stale.
- The coordinator run has no readers and no failures so that it finishes in
  about a minute (264,000 states); with a reader it takes about eight. A
  reader's only state change is `open_for_read`'s `initialize_state`, the
  same step `Begin` and the compactor take on their trees, so the refinement
  sees no step a reader adds. The failure paths and a reader, racing two
  compactions, run in roots_liveness (about two minutes).
- Trees, workers and readers are model values, and the safety runs use
  symmetry over them.
- When the ids run out every thread is idle. That is the quiescent database,
  so runs with no reader to keep a step enabled say `CHECK_DEADLOCK FALSE`.
  Threads that never finish are caught by the liveness properties, not by
  deadlock detection.

### Fairness

The fairness is weak fairness on the steps a running, unblocked thread takes
next:

- a pool thread processing a queued commit;
- the caller collecting results, logging, publishing and dropping the locks;
- the compaction swap and finish;
- a reader's get and its retry.

In TreeHandles the same reasoning gives weak fairness to `GetAttempt` (the
retry loop runs on the caller's thread) and to `SetCommit` (a started
`set` finishes).

The OS scheduler justifies this. Starting a transaction, writing, committing,
rolling back, compacting and reading are the caller's choices and carry no
fairness. Neither do crashes.

## Findings

See `PROJECT.json` "findings".

1. `commit` empties the transaction's tree list before committing. A failure
   then rolls nothing back, contrary to spec.md 5. The next transaction sees
   the aborted writes, so `TxnStoreRefinement` fails too. A later commit
   saves the leftover root under the unlogged id, and a restart loses data
   that readers were shown.
2. `count` reads the active state, so it counts uncommitted writes and
   counts 0 before the state is initialized. No run checks this any more:
   the `Count` action remains in `Roots`, but the run was given up for
   `failed_write_shifts_root`.
3. A root header whose chunk a crash cut short makes the file impossible to
   open. spec.md 4.3 and invariant 10 say such a root is skipped. A file of
   1–3 bytes underflows `block_start`; the result is an error, never a wrong
   root.
4. `reduce`'s node evaluator tests the end bound the wrong way round
   (`tree/mod.rs:792`). `lowest_key` is never updated, so `start_is_lowest` is
   true for every range without a start bound. `reduce(..=e)` then counts
   whole nodes whose keys lie past `e`. The repository's test only uses
   ranges with a start bound or `..`, where the result is right.
5. `delete_tree` removes the map entry while `Tree` handles keep their
   `State`. After the tree is re-created, a get through an old handle
   retries `TreeCompacted` forever. If the handle first initializes its
   orphaned state from the new file, it instead keeps returning that value
   while `set` commits through the map's state. No run checks this second
   consequence separately.
6. `DepthState::finish` returns `None` when a range matches no key of a
   non-empty tree. The doc comment of `reduce` (`tree/mod.rs:754-755`) and
   spec.md 4.6 say it returns `rereduce` of an empty slice (`Rereduce(<<>>)`,
   0 for the count reducer). A property stating that is violated at once
   (keys {0}, range `0..0`, result `None`); `ReduceMatchesCount` speaks only
   of ranges some key matches. Every run is taken by another question, so
   this divergence is recorded here only.
7. When a `write_all` fails part-way, the error is returned but
   `current_position` is only ever set from a successful `finish`
   (`tree/mod.rs:1411`). The file is opened for append, so the bytes stay,
   and every later chunk position and header alignment is computed from the
   stale position. A later committed root lands off its page boundary and
   the scan never sees it: a restart loses that commit. spec.md 7 calls
   stranded bytes harmless.

8. `get_multiple_by_sequence` accepts any iterator of sequences, and its
   doc comment says only that a sequence that is not found is left out.
   The by-sequence lookup walks a forwards-only `KeyRange`
   (`tree/mod.rs:1672`), so a smaller id passed after a larger one is
   silently missing: with the index holding sequence 0, the request
   `[255, 0]` returns nothing (get_by_sequence_unsorted, property
   `GetBySequenceFindsAll`). `GetBySequenceIsPresentIds` in tree_scan shows
   what does hold: only present ids for every order, all of them for
   ascending requests.

9. `ThreadPool::new(0)` is accepted, and `commit_trees` with two or more
   trees then sends its `ThreadCommit`s, spawns no thread (the desired
   count is `min(trees, 0)`) and blocks on the completion channel
   forever (`roots.rs:1582`). roots_liveness uses `MaxThreads` 2; the same
   cfg with `MaxThreads` 0 violates `CommitTerminates` in 7 states. The
   default pool has one thread per CPU, so only an explicit zero reaches
   this.

## Further work

1. Versioned trees: the by-sequence entries written by a modification,
   against spec.md invariant 8 (the index is outside `src/` and would be
   modelled from the spec).

## Not modelled

- In `PagedWriter`: a failing `write_all` (it is modelled in
  `RootDiscovery`, where its consequences show), encryption (`vault`) and the
  `ValueTooLarge` check of chunks of 4 GiB or more.
- In `TreeScan`: caller-supplied evaluators of `scan`, and backward scans
  with bounded ranges (the code makes none). `get_multiple` gets only
  sorted keys, as its doc comment requires; with unsorted keys `KeyRange`,
  which only moves forwards, passes over a key below one already consumed
  and the result silently misses it. The order of `get_range`'s
  `key_reader` calls is left open by `scan`'s doc comment and decided in
  the B-tree leaf code, which is not in `src/`; the model collects in scan
  order and `GetRangeIsSortedRange` checks only the set for `get_range`.
- In `TreeHandles`: the other tree names and the transaction log. `SetCommit`
  also stands for `replace`, `modify`, `remove` and `compare_and_swap`,
  which take the same path as `set` and commit a value or its removal
  (`Written`). `GetAttempt` also stands for the reads that take the same
  path as `get` (`first`, `last`, `scan`, `reduce`).
- `check_name` and `tree_names`: string and directory handling.
- In `RootDiscovery`: encryption and the chunk cache. The node contents are zero bytes, because discovery
  only reads root pages.
- In `Roots`: chunk encoding, CRCs, encryption (vault), the chunk cache, node split and
  merge, and versioned sequence indexes. They are data-level detail, or their
  code is outside `src/`. The model keeps what they decide: which root is
  found, and what data it holds.
- The transaction log and the file manager. Only their contracts appear:
  - a logged id is durable, and a failed log write records nothing;
  - `replace_with` swaps the file atomically and gives it a new id.
