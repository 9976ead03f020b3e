---------------------------- MODULE MCToolServer ----------------------------
(***************************************************************************)
(* A small instance of ToolServer for TLC: an approval outlives a          *)
(* confirmation, and each store has room for one handle.                   *)
(***************************************************************************)
EXTENDS ToolServer, TLC

TtlOf == [t \in Tools |-> IF t = "approve" THEN 2 ELSE 1]
RecordsOf == [t \in Tools |-> 1]
\* Of entries that are oldest first LiveAt leaves what the filter of the code leaves.
ASSUME LiveAtFilters ==
    \A n \in 0..3 : \A s \in [1..n -> 0..3], w \in 1..2, t \in 0..4 :
        (\A i \in 1..n : \A j \in i..n : s[i] <= s[j])
            => LiveAt(s, w, t) = SelectSeq(s, LAMBDA e : e + w > t)

Symmetry == Permutations(Clients) \cup Permutations(Args)
=============================================================================
