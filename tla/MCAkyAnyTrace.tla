---------------------------- MODULE MCAkyAnyTrace ----------------------------
(***************************************************************************)
(* Two ranks, files that hold point-to-point, scatter and gather events in *)
(* any number up to MaxLinks links, a table with fewer slots than names.   *)
(***************************************************************************)
EXTENDS AkyAnyTrace

CONSTANT MaxLinks

E(type, r, op, v) ==
  [type |-> type, id1 |-> r, op |-> op, v |-> v, size |-> 0, mark |-> -1,
   about |-> <<"none", 0, 0>>]

MCEvents ==
  {E(t, r, "none", 1 - r) : t \in {"AKY_PTP_SEND", "AKY_PTP_RECV", "AKY_NT1_SEND", "AKY_1TN_RECV"},
                            r \in Procs}
  \cup {E(t, r, "none", 2) : t \in {"AKY_1TN_SEND", "AKY_NT1_RECV"}, r \in Procs}
  \cup {E(t, r, op, 0) : t \in {"IN", "OUT"}, r \in Procs,
                         op \in {"MPI_Any", "MPI_Finalize"}}
  \cup {E("MPI_INIT", r, "MPI_Init", 0) : r \in Procs}

Bounded == Len(links) <= MaxLinks
=============================================================================
