------------------------------ MODULE TreeScan ------------------------------
(***************************************************************************)
(* The reads of TreeFile (src/nebari/src/tree/mod.rs) that walk a tree:    *)
(* reduce, first_key, first, last_key, last and get_range through          *)
(* TreeScanner, and get and get_multiple through TreeGetter and KeyRange. *)
(*                                                                         *)
(* reduce's node evaluator pushes the reduced index of every node it takes *)
(* as fully inside the range and descends into the others, its key        *)
(* evaluator pushes the index of every key inside the range, and its       *)
(* ReduceState folds a stack of per-depth accumulators.                    *)
(*                                                                         *)
(* Keys are single bytes, written as their value; the empty byte string   *)
(* (ReduceState's lowest_key) is -1, below every byte.  The reducer is the *)
(* alive-key count of the tree roots: a key's index counts 1, reduce counts *)
(* indexes and rereduce sums.  The B-tree node code is not in src/: the    *)
(* shapes and the traversal order are those of spec.md 3 and 4.5.          *)
(***************************************************************************)
EXTENDS Integers, Sequences, SequencesExt, FiniteSets

CONSTANTS
    KeySlots,          \* keys are 0..KeySlots-1; bounds range over 0..KeySlots
    Order,             \* maximum number of entries of a node
    TestedRangesOnly   \* only the range shapes the repository's test uses

VARIABLES
    keys,    \* the keys stored in the tree
    root,    \* the tree's root node
    range,   \* the range passed to the scan
    stack,   \* the traversal: frames [node, i, depth], innermost last
    depths,  \* ReduceState::depths
    op,      \* the read: reduce, first_key, ..., get_range, get_multiple
    want,    \* KeyRange of get_multiple: the current key and the remaining ones
    request, \* the keys passed to get (one) or get_multiple
    found,   \* the keys get_range and get_multiple returned, in order
    requested, \* key_requested of first and last
    pc,      \* "scan", "stopped" (a Stop evaluation), "done"
    result   \* reduce's Option<ReducedIndex>, first/last's key; None is NoResult

vars == <<keys, root, range, stack, depths, op, want, request, found, requested, pc, result>>

NoResult == -1
LowestKey == -1          \* ReduceState::lowest_key, ArcBytes::default()

(***************************************************************************)
(* Trees, spec.md 3: interior entries carry the child's max key and its   *)
(* reduced index; leaves sit at one depth; nodes have at most Order        *)
(* entries, and interior nodes at least two.                              *)
(***************************************************************************)
Leaf(ks) == [keys |-> ks, children |-> <<>>]

RECURSIVE KeysOf(_)
KeysOf(n) ==
    IF n.children = <<>> THEN n.keys
    ELSE FlattenSeq([i \in DOMAIN n.children |-> KeysOf(n.children[i].node)])

Interior(nodes) ==
    [keys |-> <<>>,
     children |-> [i \in DOMAIN nodes |->
                     [max |-> Last(KeysOf(nodes[i])),
                      count |-> Len(KeysOf(nodes[i])),
                      node |-> nodes[i]]]]

\* The ways to cut s into consecutive pieces of 1..Order elements.
RECURSIVE Splits(_)
Splits(s) ==
    IF s = <<>> THEN {<<>>}
    ELSE UNION {{<<SubSeq(s, 1, i)>> \o rest : rest \in Splits(SubSeq(s, i + 1, Len(s)))} :
                    i \in 1..(IF Len(s) < Order THEN Len(s) ELSE Order)}

Fanout(p) == Len(p) >= 2

Trees(s) ==
    (IF Len(s) <= Order THEN {Leaf(s)} ELSE {})
    \cup {Interior([i \in DOMAIN p |-> Leaf(p[i])]) : p \in {q \in Splits(s) : Fanout(q)}}
    \cup {Interior([i \in DOMAIN g |-> Interior([j \in DOMAIN g[i] |-> Leaf(g[i][j])])]) :
            g \in {h \in UNION {Splits(p) : p \in Splits(s)} :
                      Fanout(h) /\ \A i \in DOMAIN h : Fanout(h[i])}}

Bound == {[kind |-> "unbounded", key |-> 0]}
         \cup [kind : {"included", "excluded"}, key : 0..KeySlots]

AllRanges == [start : Bound, end : Bound]

\* The shapes the reduce test of tree/mod.rs calls: a bounded start, or ..
TestedRanges ==
    {r \in AllRanges : r.start.kind # "unbounded" \/ r.end.kind = "unbounded"}

(***************************************************************************)
(* The by-sequence index of a versioned tree is keyed by the SequenceId's *)
(* eight big-endian bytes.  The ids of slots 0..KeySlots are 0, 1, 255,    *)
(* 256, 65535, 65536: each pair straddles a byte carry.  The ids stay      *)
(* below 2^31, so the four high bytes are zero and read_u64 reads the low  *)
(* four.                                                                   *)
(***************************************************************************)
SeqScanOps == {"scan_sequences", "scan_sequences_back"}
SeqOps == SeqScanOps \cup {"get_multiple_by_sequence"}
SeqId(j) == IF j % 2 = 0 THEN 256^(j \div 2) - 1 ELSE 256^(j \div 2)
ToLeBytes(n) == [i \in 1..8 |-> IF i > 4 THEN 0 ELSE (n \div 256^(i - 1)) % 256]
ToBeBytes(n) == [i \in 1..8 |-> IF i <= 4 THEN 0 ELSE (n \div 256^(8 - i)) % 256]
ReadU64(b) == FoldLeft(LAMBDA acc, x : acc * 256 + x, 0, SubSeq(b, 5, 8))

\* U64Range::new and borrow_as_bytes: each bound keeps its kind, and the id
\* it names becomes the id's bytes.
BoundBytes(b) == IF b.kind = "unbounded" THEN b ELSE [b EXCEPT !.key = ToBeBytes(SeqId(b.key))]
BorrowAsBytes(r) == [start |-> BoundBytes(r.start), end |-> BoundBytes(r.end)]

\* Byte keys compare lexicographically ([u8] as Ord); the other reads
\* compare single-byte keys.
LexLess(a, b) == \E i \in DOMAIN a : a[i] < b[i] /\ \A j \in 1..(i - 1) : a[j] = b[j]

(***************************************************************************)
(* RangeBounds::contains.                                                  *)
(***************************************************************************)
KeyLess(a, b) == IF op \in SeqOps THEN LexLess(a, b) ELSE a < b
AfterStart(r, k) ==
    CASE r.start.kind = "unbounded" -> TRUE
      [] r.start.kind = "included"  -> ~KeyLess(k, r.start.key)
      [] r.start.kind = "excluded"  -> KeyLess(r.start.key, k)
BeforeEnd(r, k) ==
    CASE r.end.kind = "unbounded" -> TRUE
      [] r.end.kind = "included"  -> ~KeyLess(r.end.key, k)
      [] r.end.kind = "excluded"  -> KeyLess(k, r.end.key)
RangeContains(r, k) == AfterStart(r, k) /\ BeforeEnd(r, k)

(***************************************************************************)
(* The traversal of a scan (spec.md 4.5).  Forwards, an interior node      *)
(* visits its children in order from the first whose keys can reach the    *)
(* start, up to the first whose max key reaches the end.  A leaf offers   *)
(* the key evaluator every key the range contains (the doc comment of     *)
(* TreeFile::scan).  Backwards, both orders are reversed and an interior   *)
(* node visits every child.                                                *)
(***************************************************************************)
Visited(n, i, r) ==
    /\ AfterStart(r, n.children[i].max)
    /\ \/ i = 1
       \/ BeforeEnd(r, n.children[i - 1].max)
       \/ ~AfterStart(r, n.children[i - 1].max)

Entries(n) == IF n.children = <<>> THEN Len(n.keys) ELSE Len(n.children)

\* The first entry from i on, in the scan's direction, that is visited.
NextEntry(n, i, r, fwd) ==
    LET from == IF fwd THEN i..Entries(n) ELSE 1..i
        next == IF n.children = <<>> THEN {j \in from : RangeContains(r, n.keys[j])}
                ELSE IF fwd THEN {j \in from : Visited(n, j, r)}
                ELSE from
    IN IF next = {} THEN (IF fwd THEN Entries(n) + 1 ELSE 0)
       ELSE IF fwd THEN Min(next) ELSE Max(next)

Frame(n, d, r, fwd) ==
    [node |-> n, i |-> NextEntry(n, IF fwd THEN 1 ELSE Entries(n), r, fwd), depth |-> d]

Exhausted(f) == f.i < 1 \/ f.i > Entries(f.node)

(***************************************************************************)
(* ReduceState and DepthState.                                             *)
(***************************************************************************)
EmptyDepth == [reduced |-> <<>>, indexes |-> <<>>]

\* The count reducer of the tree's index: reduce counts the indexes it is
\* given, rereduce adds the counts.
Rereduce(rs) == FoldLeft(+, 0, rs)

\* DepthState::finish: reduce the raw indexes into one more reduced value,
\* then rereduce the reduced values, or None when there are none.
DepthFinish(ds) ==
    LET red == IF ds.indexes # <<>> THEN Append(ds.reduced, Len(ds.indexes))
               ELSE ds.reduced
    IN IF red = <<>> THEN NoResult ELSE Rereduce(red)

\* reduce_to_depth: pop and finish every accumulator deeper than depth into
\* its parent's reduced values.
RECURSIVE ReduceToDepth(_, _)
ReduceToDepth(ds, d) ==
    IF Len(ds) <= d + 1 THEN ds
    ELSE LET top == DepthFinish(ds[Len(ds)])
             rest == Front(ds)
         IN ReduceToDepth(IF top = NoResult THEN rest
                          ELSE [rest EXCEPT ![Len(rest)].reduced = Append(@, top)], d)

PushReduced(ds, d, x) ==
    LET grown == IF Len(ds) < d + 1 THEN ds \o [i \in 1..(d + 1 - Len(ds)) |-> EmptyDepth]
                 ELSE ds
    IN [grown EXCEPT ![d + 1].reduced = Append(@, x)]

PushIndex(ds, x) == [ds EXCEPT ![Len(ds)].indexes = Append(@, x)]

ReduceFinish(ds) == DepthFinish(ReduceToDepth(ds, 0)[1])

(***************************************************************************)
(* The node evaluator of reduce: the range against the entry's max key    *)
(* and against ReduceState::lowest_key, which nothing ever updates.        *)
(***************************************************************************)
StartIsAfterMaxInclusive(r, max) ==
    CASE r.start.kind = "unbounded" -> FALSE
      [] r.start.kind = "excluded"  -> r.start.key >= max
      [] r.start.kind = "included"  -> r.start.key >= max
StartIsAfterMax(r, max) ==
    CASE r.start.kind = "unbounded" -> FALSE
      [] r.start.kind = "excluded"  -> r.start.key >= max
      [] r.start.kind = "included"  -> r.start.key > max
StartIsLowest(r) ==
    CASE r.start.kind = "unbounded" -> TRUE
      [] r.start.kind = "excluded"  -> r.start.key < LowestKey
      [] r.start.kind = "included"  -> r.start.key <= LowestKey
EndIncluded(r, max) ==
    CASE r.end.kind = "included"  -> r.end.key <= max
      [] r.end.kind = "excluded"  -> r.end.key < max
      [] r.end.kind = "unbounded" -> TRUE

(***************************************************************************)
(* first_key, first, last_key and last (tree/mod.rs): scans over (..)      *)
(* whose node evaluator always answers ReadData.  The key evaluator of     *)
(* first and last answers ReadData for the first key and sets             *)
(* key_requested, then Stop.                                               *)
(***************************************************************************)
Ops == {"reduce", "first_key", "first", "last_key", "last",
        "get_range", "get_range_indexes", "get", "get_multiple"} \cup SeqOps
RangeOps == {"get_range", "get_range_indexes"}
\* get, get_index and get_with_index pass KeyRange::new(once(key)) to the
\* TreeGetter that get_multiple uses.
GetterOps == {"get", "get_multiple"}
\* get_multiple_by_sequence passes TreeSequenceGetter's keys, the caller's
\* sequences in the caller's order, each as to_be_bytes, to the
\* by-sequence index's get_multiple.
MultiOps == GetterOps \cup {"get_multiple_by_sequence"}
ForwardsReversedRange(o) == o \notin {"last_key", "last", "scan_sequences_back", "get_range_indexes"}
Forwards(o) == o \notin {"last_key", "last", "scan_sequences_back"}
Unbounded == [kind |-> "unbounded", key |-> 0]
FullRange == [start |-> Unbounded, end |-> Unbounded]

KeyRequestedUnset(flag) == flag
KeyRequested(flag) == TRUE

(***************************************************************************)
(* KeyRange over the keys passed to get_multiple, a sequence: the current *)
(* key is its head.                                                        *)
(***************************************************************************)
KeyRangeNewDup(ks) == IF ks = <<>> THEN ks ELSE <<Head(ks)>> \o ks
KeyRangeNew(ks) == ks
KeyRangeNext(kr) == Tail(kr)

-----------------------------------------------------------------------------
\* TreeSequenceGetter: the keys are the sequences' bytes, and a key found
\* is handed to the evaluators as SequenceId::try_from(key).
SequenceKeys(seqs) == [i \in DOMAIN seqs |-> ToBeBytes(SeqId(seqs[i]))]
Decoded(k) == IF op \in SeqOps THEN ReadU64(k) ELSE k

\* The keys the tree stores: the by-sequence index stores the id's bytes.
StoredKey(k) == IF op \in SeqOps THEN ToBeBytes(SeqId(k)) ELSE k

\* The range the scanner compares keys with: scan_sequences passes
\* U64Range::new(range).borrow_as_bytes().
ScanRange == IF op \in SeqOps THEN BorrowAsBytes(range) ELSE range

Init ==
    /\ keys \in SUBSET (0..(KeySlots - 1))
    /\ op \in Ops
    /\ root \in Trees(SetToSortSeq({StoredKey(k) : k \in keys}, KeyLess))
    /\ range \in CASE op = "reduce" -> IF TestedRangesOnly THEN TestedRanges ELSE AllRanges
                  [] op \in RangeOps \cup SeqScanOps -> AllRanges
                  [] OTHER -> {FullRange}
    /\ request \in CASE op = "get_multiple" -> SUBSET (0..(KeySlots - 1))
                    [] op = "get_multiple_by_sequence" -> SetToAllKPermutations(0..(KeySlots - 1))
                    [] op = "get" -> {{k} : k \in 0..(KeySlots - 1)}
                    [] OTHER -> {{}}
    /\ want = IF op = "get_multiple_by_sequence" THEN KeyRangeNew(SequenceKeys(request))
              ELSE KeyRangeNew(SetToSortSeq(request, <))
    /\ found = <<>>
    /\ stack = <<Frame(root, 0, ScanRange, Forwards(op))>>
    /\ depths = <<EmptyDepth>>
    /\ requested = FALSE
    /\ pc = "scan"
    /\ result = NoResult

Top == stack[Len(stack)]

\* What the caller passed; no step changes it.
Input == <<keys, root, op, range, request>>

Advance ==
    [stack EXCEPT ![Len(stack)].i =
        IF Forwards(op) THEN NextEntry(Top.node, Top.i + 1, ScanRange, TRUE)
        ELSE NextEntry(Top.node, Top.i - 1, ScanRange, FALSE)]

\* The next entry of an interior node, or the next key of a leaf.
AtInterior == pc = "scan" /\ stack # <<>> /\ ~Exhausted(Top) /\ Top.node.children # <<>>
AtLeaf == pc = "scan" /\ stack # <<>> /\ ~Exhausted(Top) /\ Top.node.children = <<>>
Key == Top.node.keys[Top.i]

\* The node evaluator of reduce on the next entry of an interior node:
\* reduce to the node's depth, then Stop, Skip with the entry's reduced
\* index pushed, or ReadData into the child.
NodeEval ==
    /\ op = "reduce" /\ AtInterior
    /\ LET e == Top.node.children[Top.i]
           ds == ReduceToDepth(depths, Top.depth)
       IN CASE StartIsAfterMax(range, e.max) ->
                 /\ pc' = "stopped"
                 /\ depths' = ds
                 /\ UNCHANGED stack
            [] EndIncluded(range, e.max) /\ StartIsLowest(range) ->
                 /\ depths' = PushReduced(ds, Top.depth, e.count)
                 /\ stack' = Advance
                 /\ UNCHANGED pc
            [] OTHER ->
                 /\ depths' = ds
                 /\ stack' = Append(Advance, Frame(e.node, Top.depth + 1, range, TRUE))
                 /\ UNCHANGED pc
    /\ UNCHANGED <<Input, want, found, requested, result>>

\* The node evaluator of first_key, first, last_key, last and get_range:
\* ReadData.
NodeRead ==
    /\ op \notin {"reduce"} \cup MultiOps /\ AtInterior
    /\ stack' = Append(Advance, Frame(Top.node.children[Top.i].node, Top.depth + 1,
                                      ScanRange, Forwards(op)))
    /\ UNCHANGED <<Input, depths, want, found, requested, pc, result>>

\* The key evaluator of reduce: push the key's index when the range
\* contains the key; always Skip (reduce never reads values).
KeyEval ==
    /\ op = "reduce" /\ AtLeaf
    /\ depths' = IF RangeContains(range, Key) THEN PushIndex(depths, 1) ELSE depths
    /\ stack' = Advance
    /\ UNCHANGED <<Input, want, found, requested, pc, result>>

\* The key evaluator of first_key and last_key: keep the key, Stop.
KeyTake ==
    /\ op \in {"first_key", "last_key"} /\ AtLeaf
    /\ result' = Key
    /\ pc' = "stopped"
    /\ UNCHANGED <<Input, stack, depths, want, found, requested>>

\* The key evaluator of first and last: Stop once a key was requested,
\* else ReadData, whose key_reader keeps the key and its value.
KeyRead ==
    /\ op \in {"first", "last"} /\ AtLeaf
    /\ \/ /\ requested
          /\ pc' = "stopped"
          /\ UNCHANGED <<stack, requested, result>>
       \/ /\ ~requested
          /\ requested' = KeyRequested(requested)
          /\ result' = Key
          /\ stack' = Advance
          /\ UNCHANGED pc
    /\ UNCHANGED <<Input, depths, want, found>>

\* get_range: the key evaluator answers ReadData and the key_reader
\* pushes the key and value; get_range_indexes: the key evaluator pushes
\* the key and index and answers Skip.
KeyCollect ==
    /\ op \in RangeOps /\ AtLeaf
    /\ found' = Append(found, Key)
    /\ stack' = Advance
    /\ UNCHANGED <<Input, depths, want, requested, pc, result>>

\* scan_sequences: the wrapping key evaluator turns the key into its
\* SequenceId (read_u64) and hands it to the caller's, here one that
\* answers ReadData and records the id.
SeqKeyCollect ==
    /\ op \in SeqScanOps /\ AtLeaf
    /\ found' = Append(found, ReadU64(Key))
    /\ stack' = Advance
    /\ UNCHANGED <<Input, depths, want, requested, pc, result>>

\* get and get_multiple through an interior node: descend into the next child
\* when the current key of the KeyRange can lie in it.
MultiDescend ==
    /\ op \in MultiOps /\ AtInterior
    /\ LET e == Top.node.children[Top.i]
       IN stack' = IF want # <<>> /\ ~KeyLess(e.max, Head(want))
                   THEN Append(Advance, Frame(e.node, Top.depth + 1, FullRange, TRUE))
                   ELSE Advance
    /\ UNCHANGED <<Input, depths, want, found, requested, pc, result>>

\* get and get_multiple in a leaf: while the current key is at most the leaf's
\* last key, read it when the leaf holds it (the key evaluator answers
\* ReadData, the key_reader pushes it) and take the next key.
LeafDone(n) == IF want = <<>> \/ n.keys = <<>> THEN TRUE ELSE KeyLess(Last(n.keys), Head(want))
MultiKey ==
    /\ op \in MultiOps /\ AtLeaf
    /\ ~LeafDone(Top.node)
    /\ found' = IF Head(want) \in ToSet(Top.node.keys) THEN Append(found, Decoded(Head(want))) ELSE found
    /\ want' = KeyRangeNext(want)
    /\ UNCHANGED <<Input, stack, depths, requested, pc, result>>

\* A node whose visited entries are exhausted returns to its parent; in
\* get_multiple, a leaf returns once the current key lies beyond it.
Pop ==
    /\ pc = "scan"
    /\ stack # <<>>
    /\ \/ Exhausted(Top)
       \/ op \in MultiOps /\ Top.node.children = <<>> /\ LeafDone(Top.node)
    /\ stack' = Front(stack)
    /\ UNCHANGED <<Input, depths, want, found, requested, pc, result>>

\* The scan returned; reduce ends with ReduceState::finish.
Finish ==
    /\ \/ pc = "scan" /\ stack = <<>>
       \/ pc = "stopped"
    /\ result' = IF op = "reduce" THEN ReduceFinish(depths) ELSE result
    /\ pc' = "done"
    /\ UNCHANGED <<Input, stack, depths, want, found, requested>>

Next ==
    \/ NodeEval \/ NodeRead \/ MultiDescend
    \/ KeyEval \/ KeyTake \/ KeyRead \/ KeyCollect \/ SeqKeyCollect \/ MultiKey
    \/ Pop \/ Finish

Spec == Init /\ [][Next]_vars

-----------------------------------------------------------------------------
TypeOK ==
    /\ keys \subseteq 0..(KeySlots - 1)
    /\ op \in Ops
    /\ range \in AllRanges
    /\ requested \in BOOLEAN
    /\ pc \in {"scan", "stopped", "done"}
    /\ result \in {NoResult} \cup Nat
    /\ found \in Seq(Nat)

\* The keys of the tree inside the range: the reference for reduce.
InRange == {k \in keys : RangeContains(range, k)}

\* When some key of the tree lies in the range, reduce returns the number
\* of such keys: the node evaluator's Stop, Skip and ReadData decisions and
\* the depth stack of ReduceState neither lose nor double-count a key.
ReduceMatchesCount ==
    op = "reduce" /\ pc = "done" /\ InRange # {} =>
        result = Cardinality(InRange)

\* first_key and first return the smallest key of the tree, last_key and
\* last the largest, and None only for an empty tree: the scan direction
\* and the Stop of the key evaluators (key_requested in first and last)
\* end the scan at exactly the first key met.
FirstLastAreEnds ==
    op \in {"first_key", "first", "last_key", "last"} /\ pc = "done" =>
        result = IF keys = {} THEN NoResult
                 ELSE IF Forwards(op) THEN Min(keys) ELSE Max(keys)

\* get_range and get_range_indexes return every key of the tree the range
\* contains, once, and no other (spec.md invariant 6): the leaf's range
\* filter and the interior nodes' skipped children lose and add nothing.
\* get_range_indexes pushes in its key evaluator, so its results follow
\* the scan and are ascending; get_range pushes in the key_reader, whose
\* order scan's doc comment leaves open, so only its set is checked.
GetRangeIsSortedRange ==
    op \in RangeOps /\ pc = "done" =>
        /\ ToSet(found) = InRange
        /\ Len(found) = Cardinality(InRange)
        /\ op = "get_range_indexes" => found = SetToSortSeq(InRange, <)

\* get_multiple returns each requested key the tree holds exactly once and
\* no other, and get returns its key exactly when the tree holds it (spec.md invariant 5, for keys sorted as its doc comment
\* requires): KeyRange's current and next keys against the descent.
GetMultipleIsPresentKeys ==
    op \in GetterOps /\ pc = "done" =>
        /\ ToSet(found) = request \cap keys
        /\ Len(found) = Cardinality(ToSet(found))

\* The ids of the tree's keys that the caller's range of SequenceIds
\* contains, compared as numbers: the reference for scan_sequences.
IdAfterStart(r, id) ==
    CASE r.start.kind = "unbounded" -> TRUE
      [] r.start.kind = "included"  -> SeqId(r.start.key) <= id
      [] r.start.kind = "excluded"  -> SeqId(r.start.key) < id
IdBeforeEnd(r, id) ==
    CASE r.end.kind = "unbounded" -> TRUE
      [] r.end.kind = "included"  -> id <= SeqId(r.end.key)
      [] r.end.kind = "excluded"  -> id < SeqId(r.end.key)
IdsInRange == {id \in {SeqId(k) : k \in keys} : IdAfterStart(range, id) /\ IdBeforeEnd(range, id)}

\* scan_sequences returns exactly the sequence ids of the index that the
\* numeric range contains, ascending forwards and descending backwards:
\* U64Range's bytes order ids as the numbers do across byte carries, so
\* the byte-level scan neither prunes a matching id nor keeps another.
ScanSequencesIsIdRange ==
    op \in SeqScanOps /\ pc = "done" =>
        found = IF Forwards(op) THEN SetToSortSeq(IdsInRange, <)
                ELSE Reverse(SetToSortSeq(IdsInRange, <))

\* The caller's sequences as SequenceIds, in the caller's order, and those
\* of them the index holds.
RequestIds == [i \in DOMAIN request |-> SeqId(request[i])]
AskedIds == ToSet(RequestIds) \cap {SeqId(k) : k \in keys}

\* get_multiple_by_sequence, for the caller's sequences in any order, maps
\* only sequences the index holds and the caller asked for; when they
\* ascend, it maps every one the index holds.  The KeyRange built from the
\* big-endian keys is walked forwards against the descent, and read_u64
\* decodes each key the leaf holds.  The result is a HashMap, so only the
\* set of sequences is compared.
GetBySequenceIsPresentIds ==
    op = "get_multiple_by_sequence" /\ pc = "done" =>
        /\ ToSet(found) \subseteq AskedIds
        /\ IsSorted(request, <) => ToSet(found) = AskedIds

\* get_multiple_by_sequence returns every sequence the caller asked for
\* that the index holds, whatever their order: its doc comment promises
\* the values of the sequences and leaves out only missing ones, and it
\* takes any iterator without asking for sorted sequences.
GetBySequenceFindsAll ==
    op = "get_multiple_by_sequence" /\ pc = "done" => ToSet(found) = AskedIds

====
