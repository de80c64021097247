----------------------------- MODULE TxnStore -----------------------------
(***************************************************************************)
(* What the multi-tree transaction coordinator of nebari promises         *)
(* (spec.md 4.8, 5, 8.11): every tree holds one committed contents; a     *)
(* transaction locks a set of trees exclusively, sees the committed       *)
(* contents of its trees plus its own writes, and either installs all of  *)
(* its writes on all of its trees in one step or none of them.  A crash   *)
(* aborts every transaction that has not committed and loses nothing that *)
(* has.                                                                   *)
(***************************************************************************)
CONSTANTS Trees, Keys, Vals, Workers, NoValue, NoOwner

Data == [Keys -> Vals \cup {NoValue}]

VARIABLES
    store,  \* store[t]: the committed contents of tree t
    owner,  \* owner[t]: the transaction (worker) holding tree t, or NoOwner
    view    \* view[w][t]: what w's transaction sees of tree t (the committed
            \* contents when w does not hold t)

vars == <<store, owner, view>>

EmptyData == [k \in Keys |-> NoValue]

Held(w) == {t \in Trees : owner[t] = w}

\* A worker sees its own writes on the trees it holds, the store elsewhere.
Views(st, own, vw) ==
    [w \in Workers |-> [t \in Trees |-> IF own[t] = w THEN vw[w][t] ELSE st[t]]]

Init ==
    /\ store = [t \in Trees |-> EmptyData]
    /\ owner = [t \in Trees |-> NoOwner]
    /\ view = [w \in Workers |-> [t \in Trees |-> EmptyData]]

\* A transaction begins on a set of free trees, seeing their contents.
Begin(w, S) ==
    /\ Held(w) = {}
    /\ \A t \in S : owner[t] = NoOwner
    /\ owner' = [t \in Trees |-> IF t \in S THEN w ELSE owner[t]]
    /\ view' = Views(store, owner', view)
    /\ UNCHANGED store

\* A write inside the transaction is seen by the transaction only.
Write(w, t, k, v) ==
    /\ owner[t] = w
    /\ view' = [view EXCEPT ![w][t][k] = v]
    /\ UNCHANGED <<store, owner>>

\* Commit installs the transaction's view of every tree it holds at once.
Commit(w) ==
    /\ Held(w) # {}
    /\ store' = [t \in Trees |-> IF owner[t] = w THEN view[w][t] ELSE store[t]]
    /\ owner' = [t \in Trees |-> IF owner[t] = w THEN NoOwner ELSE owner[t]]
    /\ view' = Views(store', owner', view)

\* Rollback (or a failed commit) installs nothing.
Abort(w) ==
    /\ Held(w) # {}
    /\ owner' = [t \in Trees |-> IF owner[t] = w THEN NoOwner ELSE owner[t]]
    /\ view' = Views(store, owner', view)
    /\ UNCHANGED store

\* A crash aborts every open transaction.
Crash ==
    /\ owner' = [t \in Trees |-> NoOwner]
    /\ view' = Views(store, owner', view)
    /\ UNCHANGED store

Next ==
    \/ \E w \in Workers, S \in SUBSET Trees : Begin(w, S)
    \/ \E w \in Workers, t \in Trees, k \in Keys, v \in Vals \cup {NoValue} :
          Write(w, t, k, v)
    \/ \E w \in Workers : Commit(w) \/ Abort(w)
    \/ Crash

Spec == Init /\ [][Next]_vars

=============================================================================
