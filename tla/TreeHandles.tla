----------------------------- MODULE TreeHandles -----------------------------
(***************************************************************************)
(* Tree handles, the roots' map of tree states, and delete_tree           *)
(* (src/nebari/src/roots.rs) for one tree name.                            *)
(*                                                                         *)
(* Roots::tree hands out a Tree that keeps the State it got from the       *)
(* tree_states map; Tree::set runs a transaction that takes the state from *)
(* the map again; Tree::get reads through the Tree's own state and retries *)
(* while the state's file id differs from the file's; delete_tree deletes *)
(* the file and removes the map entry, under the map's mutex only.         *)
(*                                                                         *)
(* A state is a record: initialized, the file id it belongs to, and the   *)
(* published value of one key.  A file id is a fresh number on every file *)
(* creation (spec.md 9: a unique tag per file).                            *)
(***************************************************************************)
EXTENDS Naturals

CONSTANTS
    Handles,     \* Tree values in use (clones of one Tree share nothing else)
    Vals,        \* values written to the tree's key
    NoValue,     \* the key is absent
    MaxStates,   \* bound on tree states created
    MaxFiles,    \* bound on file ids
    MaxDeletes   \* bound on delete_tree calls

VARIABLES
    entry,      \* the tree_states map entry for the name: a state, or 0
    st,         \* st[s]: the State objects created so far
    nextState,
    file,       \* the file at the tree's path
    nextFid,
    hs,         \* hs[h]: the State a Tree handle keeps (0: not opened)
    pc,         \* pc[h]: "idle", "setting" or "getting"
    wst,        \* wst[h]: the state and file id of h's open transaction
    result,     \* result[h]: the value the last get returned
    deletes

vars == <<entry, st, nextState, file, nextFid, hs, pc, wst, result, deletes>>

States == 1..MaxStates
NoWrite == [s |-> 0, fid |-> 0]

\* AnyTreeRoot::default_state: an uninitialized state.
DefaultState == [init |-> FALSE, fid |-> 0, pub |-> NoValue]

Init ==
    /\ entry = 0
    /\ st = [s \in States |-> DefaultState]
    /\ nextState = 1
    /\ file = [exists |-> FALSE, fid |-> 0, data |-> NoValue]
    /\ nextFid = 1
    /\ hs = [h \in Handles |-> 0]
    /\ pc = [h \in Handles |-> "idle"]
    /\ wst = [h \in Handles |-> NoWrite]
    /\ result = [h \in Handles |-> NoValue]
    /\ deletes = 0

(***************************************************************************)
(* Helpers for the steps that open the file or the state.                  *)
(***************************************************************************)
\* file_manager.append on a missing path creates an empty file.
Created == [exists |-> TRUE, fid |-> nextFid, data |-> NoValue]
CanCreate == file.exists \/ nextFid <= MaxFiles
FileAfterAppend == IF file.exists THEN file ELSE Created
FidAfterAppend == IF file.exists THEN nextFid ELSE nextFid + 1

\* Roots::tree_states: the map entry, or a default state inserted for it.
CanGetState == entry # 0 \/ nextState <= MaxStates
StateOf == IF entry # 0 THEN entry ELSE nextState
NextStateAfter == IF entry # 0 THEN nextState ELSE nextState + 1

\* initialize_state: a no-op on an initialized state, else discovery of
\* the file's last committed value under the file's id.
Initialized(s, f) == IF s.init THEN s ELSE [init |-> TRUE, fid |-> f.fid, pub |-> f.data]

\* What a single-key write commits: Tree::set and replace a value,
\* Tree::remove the key; modify and compare_and_swap commit either, all
\* through begin_transaction and commit.
Written == Vals \cup {NoValue}

-----------------------------------------------------------------------------
\* Roots::tree: the file is created if missing, the Tree keeps the state.
OpenTree(h) ==
    /\ pc[h] = "idle"
    /\ CanCreate /\ CanGetState
    /\ file' = FileAfterAppend
    /\ nextFid' = FidAfterAppend
    /\ entry' = StateOf
    /\ nextState' = NextStateAfter
    /\ hs' = [hs EXCEPT ![h] = StateOf]
    /\ UNCHANGED <<st, pc, wst, result, deletes>>

\* Tree::set, begin_transaction: Roots::transaction takes the state from
\* the map (not the Tree's), and TreeFile::write opens the file for append
\* and initializes the state from it.
SetBegin(h) ==
    /\ pc[h] = "idle"
    /\ CanCreate /\ CanGetState
    /\ file' = FileAfterAppend
    /\ nextFid' = FidAfterAppend
    /\ entry' = StateOf
    /\ nextState' = NextStateAfter
    /\ st' = [st EXCEPT ![StateOf] = Initialized(@, FileAfterAppend)]
    /\ wst' = [wst EXCEPT ![h] = [s |-> StateOf, fid |-> FileAfterAppend.fid]]
    /\ pc' = [pc EXCEPT ![h] = "setting"]
    /\ UNCHANGED <<hs, result, deletes>>

\* Tree::set (or another single-key write), the write and the commit: the root is appended to the file
\* the transaction opened (lost with it if that file was deleted since)
\* and published in the transaction's state.
SetCommit(h, v) ==
    /\ pc[h] = "setting"
    /\ file' = IF file.exists /\ file.fid = wst[h].fid THEN [file EXCEPT !.data = v] ELSE file
    /\ st' = [st EXCEPT ![wst[h].s].pub = v]
    /\ pc' = [pc EXCEPT ![h] = "idle"]
    /\ wst' = [wst EXCEPT ![h] = NoWrite]
    /\ UNCHANGED <<entry, nextState, nextFid, hs, result, deletes>>

DeleteTreeKeepEntry ==
    /\ deletes < MaxDeletes
    /\ deletes' = deletes + 1
    /\ file' = [file EXCEPT !.exists = FALSE]
    /\ UNCHANGED <<entry, st, nextState, nextFid, hs, pc, wst, result>>

\* Roots::delete_tree: under the tree_states mutex only, the file is
\* deleted and the map entry removed.
DeleteTree ==
    /\ deletes < MaxDeletes
    /\ deletes' = deletes + 1
    /\ file' = [file EXCEPT !.exists = FALSE]
    /\ entry' = 0
    /\ UNCHANGED <<st, nextState, nextFid, hs, pc, wst, result>>

\* Tree::get is called on an opened Tree.
GetStart(h) ==
    /\ pc[h] = "idle"
    /\ hs[h] # 0
    /\ pc' = [pc EXCEPT ![h] = "getting"]
    /\ UNCHANGED <<entry, st, nextState, file, nextFid, hs, wst, result, deletes>>

\* One pass of the closure in catch_compaction_and_retry: open_for_read
\* with the Tree's state (a missing file is a None), initialize_state, and
\* TreeGetter's file id check, whose TreeCompacted error loops.
GetCheckedFileId(s, f) == s.fid = f.fid
GetAttempt(h) ==
    /\ pc[h] = "getting"
    /\ IF ~file.exists
       THEN /\ result' = [result EXCEPT ![h] = NoValue]
            /\ pc' = [pc EXCEPT ![h] = "idle"]
            /\ UNCHANGED st
       ELSE LET s == Initialized(st[hs[h]], file) IN
            /\ st' = [st EXCEPT ![hs[h]] = s]
            /\ IF GetCheckedFileId(s, file)
               THEN /\ result' = [result EXCEPT ![h] = s.pub]
                    /\ pc' = [pc EXCEPT ![h] = "idle"]
               ELSE UNCHANGED <<result, pc>>
    /\ UNCHANGED <<entry, nextState, file, nextFid, hs, wst, deletes>>

Next ==
    \/ \E h \in Handles :
          \/ OpenTree(h) \/ SetBegin(h) \/ GetStart(h) \/ GetAttempt(h)
          \/ \E v \in Written : SetCommit(h, v)
    \/ DeleteTree

\* The retry loop and a started set run on their own thread.
Fairness ==
    \A h \in Handles : WF_vars(GetAttempt(h)) /\ WF_vars(\E v \in Written : SetCommit(h, v))

Spec == Init /\ [][Next]_vars /\ Fairness

-----------------------------------------------------------------------------
TypeOK ==
    /\ entry \in {0} \cup States
    /\ hs \in [Handles -> {0} \cup States]
    /\ pc \in [Handles -> {"idle", "setting", "getting"}]
    /\ result \in [Handles -> Vals \cup {NoValue}]

\* The state the map hands to new transactions always belongs to the file
\* at the path and holds its last commit: across delete_tree and the
\* re-creation of the tree, tree_states never serves a state of a deleted
\* file.
MapStateMatchesFile ==
    entry # 0 /\ st[entry].init /\ file.exists =>
        st[entry].fid = file.fid /\ st[entry].pub = file.data

\* Every Tree::get returns: catch_compaction_and_retry retries a
\* TreeCompacted error only until the reopened file matches the state.
GetTerminates == \A h \in Handles : pc[h] = "getting" ~> pc[h] = "idle"

====
