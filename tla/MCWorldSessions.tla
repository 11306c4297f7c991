--------------------------- MODULE MCWorldSessions ---------------------------
(* Account acc1 logs in twice in the larger instance, whose two sessions    *)
(* are interchangeable, acc2 once, and acc3 once, past the queue.           *)
EXTENDS WorldSessions
CONSTANTS s1, s2, s3, s4, acc1, acc2, acc3

AccountsOfAll == (s1 :> acc1) @@ (s2 :> acc1) @@ (s3 :> acc2) @@ (s4 :> acc3)
AccountsOfTwo == [s \in {s1, s3} |-> AccountsOfAll[s]]
Symmetry == Permutations({s1, s2})
=============================================================================
