------------------------------- MODULE AkyAux -------------------------------
(***************************************************************************)
(* The helpers of src/src/aky_aux.c: the two trees in which the wrappers   *)
(* remember requests, keyed by the address of the MPI_Request ("%p"), and  *)
(* the translation of a communicator's rank to MPI_COMM_WORLD.             *)
(* A tree is a function from the addresses it holds to their marks.        *)
(***************************************************************************)
EXTENDS Integers, Sequences

CONSTANT Comms   \* communicator -> the sequence of its members' world ranks

NoTree == [a \in {} |-> 0]

\* tsearch: a node with this key already in the tree stays as it is.
aky_insert(tree, req, mark) ==
  [a \in DOMAIN tree \cup {req} |-> IF a \in DOMAIN tree THEN tree[a] ELSE mark]

\* tdelete.
aky_remove(tree, req) == [a \in DOMAIN tree \ {req} |-> tree[a]]

\* 0 means absent, so that the mark 0 is answered as -1.
aky_check(tree, req) ==
  IF req \notin DOMAIN tree THEN 0
  ELSE IF tree[req] = 0 THEN -1 ELSE tree[req]

\* Every irecv is inserted with mark 1; an isend with the sender's send_mark.
aky_insert_irecv(tree, req) == aky_insert(tree, req, 1)

\* PMPI_Group_translate_ranks from the group of comm to that of MPI_COMM_WORLD.
\* A rank that is no member (MPI_PROC_NULL, MPI_ANY_SOURCE) is left as it is.
AKY_translate_rank(comm, rank) ==
  IF rank + 1 \in DOMAIN Comms[comm] THEN Comms[comm][rank + 1] ELSE rank
=============================================================================
