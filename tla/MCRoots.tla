------------------------------ MODULE MCRoots ------------------------------
(***************************************************************************)
(* Model-checking instance of Roots.  Trees, keys, values, workers and    *)
(* readers are model values given in the .cfg files; the bounds below are *)
(* chosen so that a multi-tree commit on the pool, a compaction racing a  *)
(* reader and a transaction, and a crash at every step all happen.        *)
(***************************************************************************)
EXTENDS Roots

\* Trees, workers and readers are interchangeable (safety runs only).
MCSymmetry == Permutations(Trees) \cup Permutations(Workers) \cup Permutations(Readers)

====
