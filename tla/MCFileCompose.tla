--------------------------- MODULE MCFileCompose ---------------------------
(***************************************************************************)
(* A small instance of FileCompose for TLC: a split, the merge of its parts*)
(* back into its source, and the split again.                              *)
(***************************************************************************)
EXTENDS FileCompose

CONSTANTS split, merge, recovery, source, left, right

ReadsOf ==
    [c \in Calls |-> CASE c = split -> <<source>>
                       [] c = merge -> <<left, right>>
                       [] c = recovery -> <<>>]
WritesOf ==
    [c \in Calls |-> CASE c = split -> <<left, right>>
                       [] c = merge -> <<source>>
                       [] c = recovery -> <<>>]
=============================================================================
