------------------------------- MODULE Roots -------------------------------
(***************************************************************************)
(* The multi-tree transaction coordinator of nebari (src/nebari/src/       *)
(* roots.rs) together with the per-tree state machine it drives            *)
(* (src/nebari/src/tree/mod.rs): opening a tree and discovering its last   *)
(* committed root, transactional modification of the active state,         *)
(* committing each tree (inline or on the commit thread pool), recording   *)
(* the transaction in the log, publishing, rollback, compaction, readers   *)
(* and process crashes.                                                    *)
(*                                                                         *)
(* Data is abstracted to one value per key; a tree root is its contents    *)
(* plus the transaction id it was last written under (0: written outside  *)
(* a transaction).  A tree file is the sequence of roots appended to it.   *)
(***************************************************************************)
EXTENDS Naturals, FiniteSets, Sequences, SequencesExt

CONSTANTS
    Trees, Keys, Vals,   \* tree names, keys and values (model values)
    Workers,             \* threads using transactions or compacting
    Readers,             \* threads calling Tree::get
    NoValue,             \* an absent key
    NoOwner,             \* a free tree-name lock
    NoTree,              \* an idle reader's tree
    MaxTxnId,            \* bound on transaction ids handed out by the log
    MaxCrashes,          \* bound on process crashes
    MaxCompactions,      \* bound on compactions started
    MaxThreads,          \* ThreadPool::maximum_threads
    TreeCommitMayFail,   \* TreeWriter may fail with an I/O error
    LogCommitMayFail     \* the transaction log write may fail

Data == [Keys -> Vals \cup {NoValue}]
TxnIds == 0..MaxTxnId
Root == [data : Data, txn : TxnIds]
ActiveRoot == [data : Data, txn : TxnIds, dirty : BOOLEAN]
EmptyData == [k \in Keys |-> NoValue]
EmptyRoot == [data |-> EmptyData, txn |-> 0]

VARIABLES
    logged,      \* ids the transaction log records as committed (durable)
    nextTxn,     \* the next id the transaction manager hands out
    file,        \* file[t]: roots appended to tree t's file (durable)
    fid,         \* fid[t]: id the file manager gives the file at t's path
    init,        \* init[t]: State<Root>::initialized()
    pub,         \* pub[t]: the published (read) state's root
    act,         \* act[t]: the active (write) state's root
    sfid,        \* sfid[t]: ActiveState::file_id (0: none yet)
    lock,        \* lock[t]: holder of the tree-name lock, or NoOwner
    wk,          \* wk[w]: a worker thread's program counter and locals
    jobs,        \* ThreadCommit messages waiting in the pool's channel
    threads,     \* ThreadPool::thread_count
    rd,          \* rd[r]: a reader thread's program counter and locals
    crashes,     \* crashes so far
    compactions  \* compactions started so far

vars == <<logged, nextTxn, file, fid, init, pub, act, sfid, lock, wk, jobs,
          threads, rd, crashes, compactions>>

Results == {"none", "ok", "err"}
NoResults == [t \in Trees |-> "none"]
IdleWorker == [pc |-> "idle", txn |-> 0, trees |-> {}, h |-> [t \in Trees |-> 0],
               res |-> NoResults]
IdleReader == [pc |-> "idle", t |-> NoTree, h |-> 0, cnt |-> 0]

RootOf(a) == [data |-> a.data, txn |-> a.txn]
Activate(r) == [data |-> r.data, txn |-> r.txn, dirty |-> FALSE]

(***************************************************************************)
(* Root discovery (TreeFile::initialize_state): the last root of the file  *)
(* whose transaction id is 0 or recorded by the log; the default root when *)
(* there is none.                                                          *)
(***************************************************************************)
\* Mutant: the transaction-log check of the scan dropped.
AcceptedUnchecked(r) == TRUE

Accepted(r) == r.txn = 0 \/ r.txn \in logged
Discover(f) ==
    LET i == SelectLastInSeq(f, Accepted) IN IF i = 0 THEN EmptyRoot ELSE f[i]

\* The state mutex of t is held by a compaction between its save and finish.
MutexHeld(t) ==
    \E w \in Workers : wk[w].pc \in {"compactSwap", "compactFinish"} /\ t \in wk[w].trees

(***************************************************************************)
(* TreeFile::write/read call initialize_state on every tree in S: an       *)
(* uninitialized state gets the file id and the discovered root, and is    *)
(* published.                                                              *)
(***************************************************************************)
Opened(S, t) == t \in S /\ ~init[t]
InitializeStates(S) ==
    /\ init' = [t \in Trees |-> init[t] \/ t \in S]
    /\ pub' = [t \in Trees |-> IF Opened(S, t) THEN Discover(file[t]) ELSE pub[t]]
    /\ act' = [t \in Trees |-> IF Opened(S, t) THEN Activate(Discover(file[t]))
                                               ELSE act[t]]
    /\ sfid' = [t \in Trees |-> IF Opened(S, t) THEN fid[t] ELSE sfid[t]]

\* The file ids of the handles opened on the trees of S.
Handles(S) == [t \in Trees |-> IF t \in S THEN fid[t] ELSE 0]

Release(w) == lock' = [t \in Trees |-> IF lock[t] = w THEN NoOwner ELSE lock[t]]

Init ==
    /\ logged = {}
    /\ nextTxn = 1
    /\ file = [t \in Trees |-> <<>>]
    /\ fid = [t \in Trees |-> 1]
    /\ init = [t \in Trees |-> FALSE]
    /\ pub = [t \in Trees |-> EmptyRoot]
    /\ act = [t \in Trees |-> Activate(EmptyRoot)]
    /\ sfid = [t \in Trees |-> 0]
    /\ lock = [t \in Trees |-> NoOwner]
    /\ wk = [w \in Workers |-> IdleWorker]
    /\ jobs = {}
    /\ threads = 0
    /\ rd = [r \in Readers |-> IdleReader]
    /\ crashes = 0
    /\ compactions = 0

(***************************************************************************)
(* Roots::transaction: new_transaction blocks until every tree-name lock   *)
(* of S is free, takes them and a fresh id; then each tree is opened for   *)
(* writing, initializing its state.                                        *)
(***************************************************************************)
Begin(w, S) ==
    /\ wk[w].pc = "idle"
    /\ S # {}
    /\ \A t \in S : lock[t] = NoOwner
    /\ nextTxn <= MaxTxnId
    /\ nextTxn' = nextTxn + 1
    /\ lock' = [t \in Trees |-> IF t \in S THEN w ELSE lock[t]]
    /\ InitializeStates(S)
    /\ wk' = [wk EXCEPT ![w] = [IdleWorker EXCEPT !.pc = "open", !.txn = nextTxn,
                                                 !.trees = S, !.h = Handles(S)]]
    /\ UNCHANGED <<logged, file, fid, jobs, threads, rd, crashes, compactions>>

(***************************************************************************)
(* TreeModifier with a transactional persistence mode: the modification    *)
(* is applied to the active root only, tagged with the transaction id.    *)
(* A handle opened on a file that has since been compacted fails with     *)
(* TreeCompacted and changes nothing.                                      *)
(***************************************************************************)
Modify(w, t, k, v) ==
    /\ wk[w].pc = "open"
    /\ t \in wk[w].trees
    /\ ~MutexHeld(t)
    /\ sfid[t] = wk[w].h[t]
    /\ act' = [act EXCEPT ![t] = [data |-> [@.data EXCEPT ![k] = v],
                                  txn |-> wk[w].txn, dirty |-> TRUE]]
    /\ UNCHANGED <<logged, nextTxn, file, fid, init, pub, sfid, lock, wk, jobs,
                   threads, rd, crashes, compactions>>

\* TransactionTree::set
Set(w, t, k, v) == Modify(w, t, k, v)

\* TransactionTree::remove
RemoveKey(w, t, k) == Modify(w, t, k, NoValue)

\* TransactionTree::compare_and_swap: a mismatch is a Conflict and a Skip.
CompareAndSwap(w, t, k, old, new) ==
    /\ act[t].data[k] = old
    /\ Modify(w, t, k, new)

(***************************************************************************)
(* ExecutingTransaction dropped without commit: rollback_tree_states       *)
(* resets every tree's active state to its published state, then the      *)
(* tree-name locks are released.                                           *)
(***************************************************************************)
\* Mutant: the locks are released without resetting the active states.
RollbackKeepActive(w) ==
    /\ wk[w].pc = "open"
    /\ Release(w)
    /\ wk' = [wk EXCEPT ![w] = IdleWorker]
    /\ UNCHANGED <<logged, nextTxn, file, fid, init, pub, act, sfid, jobs, threads,
                   rd, crashes, compactions>>

Rollback(w) ==
    /\ wk[w].pc = "open"
    /\ \A t \in wk[w].trees : ~MutexHeld(t)
    /\ act' = [t \in Trees |-> IF t \in wk[w].trees THEN Activate(pub[t]) ELSE act[t]]
    /\ Release(w)
    /\ wk' = [wk EXCEPT ![w] = IdleWorker]
    /\ UNCHANGED <<logged, nextTxn, file, fid, init, pub, sfid, jobs, threads, rd,
                   crashes, compactions>>

(***************************************************************************)
(* TreeFile::commit = TreeWriter: with the state mutex held, a handle on a *)
(* compacted file fails with TreeCompacted; a dirty root is saved         *)
(* (save_tree appends the root and synchronizes).  When writing or        *)
(* syncing fails the root may or may not have reached the disk and the    *)
(* active state is left as it was.                                         *)
(***************************************************************************)
TreeWriterOk(t, h) ==
    /\ ~MutexHeld(t)
    /\ sfid[t] = h
    /\ IF act[t].dirty
         THEN /\ file' = [file EXCEPT ![t] = Append(@, RootOf(act[t]))]
              /\ act' = [act EXCEPT ![t].dirty = FALSE]
         ELSE UNCHANGED <<file, act>>

TreeWriterErr(t, h) ==
    /\ ~MutexHeld(t)
    /\ \/ /\ sfid[t] # h
          /\ UNCHANGED file
       \/ /\ TreeCommitMayFail
          /\ sfid[t] = h
          /\ act[t].dirty
          /\ \E durable \in BOOLEAN :
                file' = IF durable THEN [file EXCEPT ![t] = Append(@, RootOf(act[t]))]
                                   ELSE file
    /\ UNCHANGED act

\* An error from commit_trees or the log returns early: commit's trees were
\* already taken, so the Drop rollback resets nothing; the locks are freed.
Fail(w) ==
    /\ Release(w)
    /\ wk' = [wk EXCEPT ![w] = IdleWorker]

(***************************************************************************)
(* ExecutingTransaction::commit -> ThreadPool::commit_trees with one tree: *)
(* the tree is committed on the caller's thread.                           *)
(***************************************************************************)
CommitInline(w) ==
    /\ wk[w].pc = "open"
    /\ Cardinality(wk[w].trees) = 1
    /\ \E t \in wk[w].trees :
          \/ /\ TreeWriterOk(t, wk[w].h[t])
             /\ wk' = [wk EXCEPT ![w].pc = "logging"]
             /\ UNCHANGED lock
          \/ /\ TreeWriterErr(t, wk[w].h[t])
             /\ Fail(w)
    /\ UNCHANGED <<logged, nextTxn, fid, init, pub, sfid, jobs, threads, rd,
                   crashes, compactions>>

(***************************************************************************)
(* commit_trees with several trees: one ThreadCommit per tree is sent to   *)
(* the pool's channel, then threads are spawned until thread_count reaches *)
(* min(tree count, maximum_threads).                                       *)
(***************************************************************************)
\* Mutants: the cap by maximum_threads dropped; the cap taken from the
\* current thread count instead.
DesiredThreadsUncapped(w) == Cardinality(wk[w].trees)
DesiredThreadsCurrent(w) ==
    IF Cardinality(wk[w].trees) < threads THEN Cardinality(wk[w].trees) ELSE threads

DesiredThreads(w) ==
    IF Cardinality(wk[w].trees) < MaxThreads THEN Cardinality(wk[w].trees)
                                             ELSE MaxThreads
CommitDispatch(w) ==
    /\ wk[w].pc = "open"
    /\ Cardinality(wk[w].trees) > 1
    /\ jobs' = jobs \cup {[w |-> w, txn |-> wk[w].txn, t |-> t, h |-> wk[w].h[t]] :
                            t \in wk[w].trees}
    /\ threads' = IF threads >= DesiredThreads(w) THEN threads ELSE DesiredThreads(w)
    /\ wk' = [wk EXCEPT ![w].pc = "committing", ![w].res = NoResults]
    /\ UNCHANGED <<logged, nextTxn, file, fid, init, pub, act, sfid, lock, rd,
                   crashes, compactions>>

(***************************************************************************)
(* transaction_commit_thread: a pool thread receives a ThreadCommit,       *)
(* commits the tree and sends the result; a caller that stopped waiting   *)
(* has dropped the receiver and the result is lost.                        *)
(***************************************************************************)
Report(j, r) ==
    wk' = IF wk[j.w].pc = "committing" /\ wk[j.w].txn = j.txn
            THEN [wk EXCEPT ![j.w].res[j.t] = r]
            ELSE wk
PoolCommit(j) ==
    /\ threads > 0
    /\ jobs' = jobs \ {j}
    /\ \/ TreeWriterOk(j.t, j.h) /\ Report(j, "ok")
       \/ TreeWriterErr(j.t, j.h) /\ Report(j, "err")
    /\ UNCHANGED <<logged, nextTxn, fid, init, pub, sfid, lock, threads, rd,
                   crashes, compactions>>

\* commit_trees receives the results: all succeeded, or `??` returns the
\* first error.
CommitCollected(w) ==
    /\ wk[w].pc = "committing"
    /\ \A t \in wk[w].trees : wk[w].res[t] = "ok"
    /\ wk' = [wk EXCEPT ![w].pc = "logging", ![w].res = NoResults]
    /\ UNCHANGED <<logged, nextTxn, file, fid, init, pub, act, sfid, lock, jobs,
                   threads, rd, crashes, compactions>>
CommitFailed(w) ==
    /\ wk[w].pc = "committing"
    /\ \E t \in wk[w].trees : wk[w].res[t] = "err"
    /\ Fail(w)
    /\ UNCHANGED <<logged, nextTxn, file, fid, init, pub, act, sfid, jobs,
                   threads, rd, crashes, compactions>>

\* ManagedTransaction::commit: the transaction is recorded in the log.
LogCommit(w) ==
    /\ wk[w].pc = "logging"
    /\ \/ /\ logged' = logged \cup {wk[w].txn}
          /\ wk' = [wk EXCEPT ![w].pc = "publishing"]
          /\ UNCHANGED lock
       \/ /\ LogCommitMayFail
          /\ Fail(w)
          /\ UNCHANGED logged
    /\ UNCHANGED <<nextTxn, file, fid, init, pub, act, sfid, jobs, threads, rd,
                   crashes, compactions>>

\* commit publishes each tree's active state, one tree at a time ...
Publish(w, t) ==
    /\ wk[w].pc = "publishing"
    /\ t \in wk[w].trees
    /\ ~MutexHeld(t)
    /\ pub' = [pub EXCEPT ![t] = RootOf(act[t])]
    /\ wk' = [wk EXCEPT ![w].trees = @ \ {t}]
    /\ UNCHANGED <<logged, nextTxn, file, fid, init, act, sfid, lock, jobs, threads,
                   rd, crashes, compactions>>

\* ... and then drops the tree-name locks.
CommitDone(w) ==
    /\ wk[w].pc = "publishing"
    /\ wk[w].trees = {}
    /\ Release(w)
    /\ wk' = [wk EXCEPT ![w] = IdleWorker]
    /\ UNCHANGED <<logged, nextTxn, file, fid, init, pub, act, sfid, jobs, threads,
                   rd, crashes, compactions>>

(***************************************************************************)
(* The process stops: files and the log survive, every in-memory state,   *)
(* lock, queued commit and thread is gone.  Roots::open starts over with   *)
(* uninitialized tree states.                                              *)
(***************************************************************************)
Crash ==
    /\ crashes < MaxCrashes
    /\ crashes' = crashes + 1
    /\ init' = [t \in Trees |-> FALSE]
    /\ pub' = [t \in Trees |-> EmptyRoot]
    /\ act' = [t \in Trees |-> Activate(EmptyRoot)]
    /\ sfid' = [t \in Trees |-> 0]
    /\ lock' = [t \in Trees |-> NoOwner]
    /\ wk' = [w \in Workers |-> IdleWorker]
    /\ jobs' = {}
    /\ threads' = 0
    /\ rd' = [r \in Readers |-> IdleReader]
    /\ UNCHANGED <<logged, nextTxn, file, fid, compactions>>

(***************************************************************************)
(* Tree::compact: the tree is opened for reading (initializing its state) *)
(* and TreeFile::compact runs TreeCompactor on that handle.                *)
(***************************************************************************)
CompactOpen(w, t) ==
    /\ wk[w].pc = "idle"
    /\ compactions < MaxCompactions
    /\ compactions' = compactions + 1
    /\ InitializeStates({t})
    /\ wk' = [wk EXCEPT ![w] = [IdleWorker EXCEPT !.pc = "compactLock", !.trees = {t},
                                                 !.h = Handles({t})]]
    /\ UNCHANGED <<logged, nextTxn, file, fid, lock, jobs, threads, rd, crashes>>

(***************************************************************************)
(* TreeCompactor::execute: new_transaction takes the tree-name lock and an *)
(* id; the live chunks of the read state are copied through the opened     *)
(* handle, then the state mutex is taken and the write state is saved into *)
(* the .compacting file.  A handle on a file another compaction has        *)
(* already replaced reads chunks of the wrong file and fails; the lock is  *)
(* dropped with the transaction.                                           *)
(***************************************************************************)
\* Mutant: the compaction runs without the tree-name lock (as TreeFile::compact
\* does when it is given no TransactableCompaction).
CompactSaveUnlocked(w) ==
    /\ wk[w].pc = "compactLock"
    /\ \E t \in wk[w].trees :
          /\ \/ /\ sfid[t] = wk[w].h[t]
                /\ act' = [act EXCEPT ![t].dirty = FALSE]
                /\ wk' = [wk EXCEPT ![w].pc = "compactSwap"]
             \/ /\ sfid[t] # wk[w].h[t]
                /\ wk' = [wk EXCEPT ![w] = IdleWorker]
                /\ UNCHANGED act
    /\ UNCHANGED <<logged, nextTxn, file, fid, init, pub, sfid, lock, jobs, threads,
                   rd, crashes, compactions>>

CompactSave(w) ==
    /\ wk[w].pc = "compactLock"
    /\ \E t \in wk[w].trees :
          /\ lock[t] = NoOwner
          /\ nextTxn <= MaxTxnId
          /\ nextTxn' = nextTxn + 1
          /\ \/ /\ sfid[t] = wk[w].h[t]
                /\ lock' = [lock EXCEPT ![t] = w]
                /\ act' = [act EXCEPT ![t].dirty = FALSE]
                /\ wk' = [wk EXCEPT ![w].pc = "compactSwap"]
             \/ /\ sfid[t] # wk[w].h[t]
                /\ wk' = [wk EXCEPT ![w] = IdleWorker]
                /\ UNCHANGED <<lock, act>>
    /\ UNCHANGED <<logged, file, fid, init, pub, sfid, jobs, threads, rd, crashes,
                   compactions>>

\* File::replace_with: the compacted file atomically takes the tree's path and
\* gets a new file id; the file holds the one root save_tree wrote.
CompactSwap(w) ==
    /\ wk[w].pc = "compactSwap"
    /\ \E t \in wk[w].trees :
          /\ file' = [file EXCEPT ![t] = <<RootOf(act[t])>>]
          /\ fid' = [fid EXCEPT ![t] = @ + 1]
    /\ wk' = [wk EXCEPT ![w].pc = "compactFinish"]
    /\ UNCHANGED <<logged, nextTxn, init, pub, act, sfid, lock, jobs, threads, rd,
                   crashes, compactions>>

\* TreeCompactionFinisher::finish: the write state takes the new file id and
\* is published; the state mutex and the tree-name lock are dropped.
CompactFinish(w) ==
    /\ wk[w].pc = "compactFinish"
    /\ \E t \in wk[w].trees :
          /\ sfid' = [sfid EXCEPT ![t] = fid[t]]
          /\ pub' = [pub EXCEPT ![t] = RootOf(act[t])]
    /\ Release(w)
    /\ wk' = [wk EXCEPT ![w] = IdleWorker]
    /\ UNCHANGED <<logged, nextTxn, file, fid, init, act, jobs, threads, rd, crashes,
                   compactions>>

(***************************************************************************)
(* Tree::get = catch_compaction_and_retry(open_for_read; TreeGetter):     *)
(* the handle is opened (initializing the state), then the read state is   *)
(* used unless its file id differs from the handle's (TreeCompacted), in   *)
(* which case the file is opened again.                                    *)
(***************************************************************************)
ReaderIdle(r) == rd[r].pc \in {"idle", "counted"}

ReadOpen(r, t) ==
    /\ ReaderIdle(r)
    /\ InitializeStates({t})
    /\ rd' = [rd EXCEPT ![r] = [IdleReader EXCEPT !.pc = "get", !.t = t, !.h = fid[t]]]
    /\ UNCHANGED <<logged, nextTxn, file, fid, lock, wk, jobs, threads, crashes,
                   compactions>>

ReadGet(r) ==
    /\ rd[r].pc = "get"
    /\ rd' = [rd EXCEPT ![r] = IF sfid[rd[r].t] = rd[r].h THEN IdleReader
                                                        ELSE [@ EXCEPT !.pc = "retry"]]
    /\ UNCHANGED <<logged, nextTxn, file, fid, init, pub, act, sfid, lock, wk, jobs,
                   threads, crashes, compactions>>

\* Mutant: the retry reuses the handle of the compacted file.
ReadRetryStale(r) ==
    /\ rd[r].pc = "retry"
    /\ InitializeStates({rd[r].t})
    /\ rd' = [rd EXCEPT ![r].pc = "get"]
    /\ UNCHANGED <<logged, nextTxn, file, fid, lock, wk, jobs, threads, crashes,
                   compactions>>

ReadRetry(r) ==
    /\ rd[r].pc = "retry"
    /\ InitializeStates({rd[r].t})
    /\ rd' = [rd EXCEPT ![r].pc = "get", ![r].h = fid[rd[r].t]]
    /\ UNCHANGED <<logged, nextTxn, file, fid, lock, wk, jobs, threads, crashes,
                   compactions>>

\* Tree::count: the number of present keys of the active state's root,
\* read under the state mutex without initializing the state.
Size(d) == Cardinality({k \in Keys : d[k] # NoValue})
Count(r, t) ==
    /\ ReaderIdle(r)
    /\ ~MutexHeld(t)
    /\ rd' = [rd EXCEPT ![r] = [IdleReader EXCEPT !.pc = "counted", !.t = t,
                                                 !.cnt = Size(act[t].data)]]
    /\ UNCHANGED <<logged, nextTxn, file, fid, init, pub, act, sfid, lock, wk, jobs,
                   threads, crashes, compactions>>

-----------------------------------------------------------------------------
Next ==
    \/ \E w \in Workers :
          \/ \E S \in SUBSET Trees : Begin(w, S)
          \/ \E t \in Trees, k \in Keys :
                \/ \E v \in Vals : Set(w, t, k, v)
                \/ RemoveKey(w, t, k)
                \/ \E old, new \in Vals \cup {NoValue} :
                      CompareAndSwap(w, t, k, old, new)
          \/ Rollback(w)
          \/ CommitInline(w)
          \/ CommitDispatch(w)
          \/ CommitCollected(w)
          \/ CommitFailed(w)
          \/ LogCommit(w)
          \/ \E t \in Trees : Publish(w, t)
          \/ CommitDone(w)
          \/ \E t \in Trees : CompactOpen(w, t)
          \/ CompactSave(w)
          \/ CompactSwap(w)
          \/ CompactFinish(w)
    \/ \E j \in jobs : PoolCommit(j)
    \/ \E r \in Readers :
          \/ \E t \in Trees : ReadOpen(r, t) \/ Count(r, t)
          \/ ReadGet(r)
          \/ ReadRetry(r)
    \/ Crash

(***************************************************************************)
(* Fairness: a thread that is running and not blocked eventually takes its *)
(* next step (the OS scheduler).  Starting a transaction, a write, a      *)
(* commit, a rollback, a compaction or a read is the caller's choice and  *)
(* carries no fairness; nor do crashes.                                    *)
(***************************************************************************)
Fairness ==
    /\ WF_vars(\E j \in jobs : PoolCommit(j))
    /\ \A w \in Workers :
          /\ WF_vars(CommitCollected(w))
          /\ WF_vars(CommitFailed(w))
          /\ WF_vars(LogCommit(w))
          /\ WF_vars(\E t \in Trees : Publish(w, t))
          /\ WF_vars(CommitDone(w))
          /\ WF_vars(CompactSwap(w))
          /\ WF_vars(CompactFinish(w))
    /\ \A r \in Readers : WF_vars(ReadGet(r)) /\ WF_vars(ReadRetry(r))

Spec == Init /\ [][Next]_vars /\ Fairness

-----------------------------------------------------------------------------
Job == [w : Workers, txn : 1..MaxTxnId, t : Trees, h : Nat]
Pcs == {"idle", "open", "committing", "logging", "publishing",
        "compactLock", "compactSwap", "compactFinish"}

TypeOK ==
    /\ logged \subseteq 1..MaxTxnId
    /\ nextTxn \in 1..MaxTxnId + 1
    /\ file \in [Trees -> Seq(Root)]
    /\ fid \in [Trees -> Nat]
    /\ init \in [Trees -> BOOLEAN]
    /\ pub \in [Trees -> Root]
    /\ act \in [Trees -> ActiveRoot]
    /\ sfid \in [Trees -> Nat]
    /\ lock \in [Trees -> Workers \cup {NoOwner}]
    /\ \A w \in Workers :
          /\ wk[w].pc \in Pcs
          /\ wk[w].txn \in TxnIds
          /\ wk[w].trees \subseteq Trees
          /\ wk[w].h \in [Trees -> Nat]
          /\ wk[w].res \in [Trees -> Results]
    /\ jobs \subseteq Job
    /\ threads \in 0..MaxThreads
    /\ \A r \in Readers :
          /\ rd[r].pc \in {"idle", "counted", "get", "retry"}
          /\ rd[r].t \in Trees \cup {NoTree}
          /\ rd[r].h \in Nat
          /\ rd[r].cnt \in 0..Cardinality(Keys)

(***************************************************************************)
(* Refinement mapping onto TxnStore.  A tree's committed contents are what *)
(* root discovery would find while its state is not initialized, the      *)
(* active state between the log commit and its publication, and the       *)
(* published state otherwise.  A transaction owns its trees from          *)
(* new_transaction until the log commit or its failure.                   *)
(***************************************************************************)
PendingPublish(t) ==
    \E w \in Workers : wk[w].pc = "publishing" /\ t \in wk[w].trees
StoreMap ==
    [t \in Trees |-> IF ~init[t] THEN Discover(file[t]).data
                     ELSE IF PendingPublish(t) THEN act[t].data
                     ELSE pub[t].data]
OwnerMap ==
    [t \in Trees |-> IF lock[t] # NoOwner
                        /\ wk[lock[t]].pc \in {"open", "committing", "logging"}
                     THEN lock[t] ELSE NoOwner]
ViewMap ==
    [w \in Workers |-> [t \in Trees |-> IF OwnerMap[t] = w THEN act[t].data
                                                            ELSE StoreMap[t]]]

Abstract == INSTANCE TxnStore WITH store <- StoreMap, owner <- OwnerMap,
                                   view <- ViewMap

\* The coordinator implements TxnStore: transactions on disjoint trees are
\* isolated, see their own writes, and commit all of their trees or none,
\* through every interleaving of commits, pool threads, rollbacks,
\* compactions, readers and crashes.
TxnStoreRefinement == Abstract!Spec

\* After a crash, root discovery (initialize_state scanning back for a root
\* whose transaction the log recorded) would find exactly the committed
\* contents of every tree: what is on disk and in the log agrees with what
\* readers are (or are about to be) shown.
RecoveryMatchesCommitted ==
    \A t \in Trees : Discover(file[t]).data = StoreMap[t]

\* Every commit that has started returns: the pool's threads process the
\* queued trees, and the caller gets its results, logs and publishes.
CommitTerminates ==
    \A w \in Workers :
        wk[w].pc \in {"committing", "logging", "publishing"} ~> wk[w].pc = "idle"

\* Tree::get returns: the TreeCompacted retry loop of
\* catch_compaction_and_retry ends once compactions stop.
ReadTerminates ==
    \A r \in Readers : rd[r].pc \in {"get", "retry"} ~> rd[r].pc = "idle"

====
