--------------------------- MODULE MCTreeHandles ---------------------------
EXTENDS TreeHandles, TLC

\* Tree handles are interchangeable.
HandleSymmetry == Permutations(Handles)
============================================================================
