-------------------------- MODULE MCFileMutations --------------------------
(***************************************************************************)
(* Small instances of FileMutations, with CodePatches over it, for TLC.    *)
(***************************************************************************)
EXTENDS CodePatches, TLC

CONSTANTS p, q, s1, s2, s3, ann, bob

Call(kind, path, from) ==
    [kind |-> kind, path |-> path, from |-> from, client |-> ann, overwrite |-> TRUE]

\* Every tool, the content given in the call.
Every == {Call("write", p, "inline"), Call("append", p, "inline"),
          Call("transform", p, "inline"), Call("delete", p, "none"),
          Call("restore", p, "trash"), Call("restore", "noted", "trash"),
          [Call("restore", p, "trash") EXCEPT !.overwrite = FALSE],
          Call("move", q, p), Call("move", p, q), Call("copy", q, p), Call("copy", p, q)}

\* Two at once, one of which may take its content from a stage.
Pairs == [stages |-> {s1}, present |-> {p}, most |-> 2, faults |-> 1, crashes |-> 1,
          deleted |-> {p, q}, patches |-> {},
          requests |-> Every \cup {Call("transform", p, "stage")}]

\* Three at once.
Trios == [stages |-> {}, present |-> {p}, most |-> 3, faults |-> 1, crashes |-> 1,
          deleted |-> {q}, patches |-> {},
          requests |-> Every]

\* No operation: two clients fill their stages to the limits.
Quotas == [stages |-> {s1, s2, s3}, present |-> {}, requests |-> {},
           most |-> 0, faults |-> 0, crashes |-> 0, deleted |-> {p}, patches |-> {}]

\* Patches and rollbacks of one file, while another tool writes it; and two of them,
\* where it may also be deleted, with a restart.
Patches == [stages |-> {}, present |-> {p}, most |-> 3, faults |-> 1, crashes |-> 0,
            deleted |-> {q}, patches |-> {p}, requests |-> {Call("write", p, "inline")}]
Restarts == [Patches EXCEPT !.most = 2, !.crashes = 1,
                            !.requests = @ \cup {Call("delete", p, "none")}]

ScenariosOf == [pairs |-> Pairs, trios |-> Trios, quotas |-> Quotas,
                patches |-> Patches, restarts |-> Restarts]
Symmetry == Permutations(Ops)
=============================================================================
