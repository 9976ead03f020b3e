---------------------------- MODULE MCAuthServer ----------------------------
(***************************************************************************)
(* Small instances of AuthServer for TLC: servers one after another, or at *)
(* the same time, for a client that is identified by a document and not    *)
(* pruned; and servers one after another with clients that register.       *)
(***************************************************************************)
EXTENDS AuthServer, TLC

CONSTANTS c1, c2, document

Alone == [overlap |-> FALSE, load |-> FALSE,
          issues |-> 4, requests |-> 2, expired |-> 2, failures |-> 1]
Together == [overlap |-> TRUE, load |-> TRUE,
             issues |-> 3, requests |-> 1, expired |-> 1, failures |-> 1]
Pruned == [overlap |-> FALSE, load |-> FALSE,
           issues |-> 2, requests |-> 2, expired |-> 1, failures |-> 1]

ScenariosOf == {Alone, Together, Pruned}
RegistriesOf ==
    [s \in ScenariosOf |->
        [clients |-> IF s = Pruned THEN {c1, c2} ELSE {},
         documents |-> {document}, prune |-> s = Pruned]]

Symmetry ==
    Permutations(Instances) \cup Permutations(Requests) \cup Permutations(Clients)
=============================================================================
