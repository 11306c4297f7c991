------------------------ MODULE MCDatabaseWorkerPool ------------------------
(***************************************************************************)
(* Operations of every kind: transactions of two statements with and       *)
(* without a promise, an empty one, a direct one, and single statements.   *)
(***************************************************************************)
EXTENDS DatabaseWorkerPool

Op(tx, direct, promise, size) ==
  [tx |-> tx, direct |-> direct, promise |-> promise, size |-> size]

Mixed == {Op(TRUE, FALSE, TRUE, 2), Op(TRUE, FALSE, FALSE, 2), Op(TRUE, FALSE, TRUE, 0),
          Op(TRUE, TRUE, FALSE, 2), Op(FALSE, FALSE, FALSE, 1)}

Queued == {Op(TRUE, FALSE, TRUE, 2), Op(FALSE, FALSE, FALSE, 1), Op(TRUE, TRUE, FALSE, 2)}
=============================================================================
