----------------------------- MODULE MCAkypuera -----------------------------
(***************************************************************************)
(* Applications for the composed model.  Each definition gives every rank  *)
(* the calls it may make, in any order and number up to MaxCalls.          *)
(***************************************************************************)
EXTENDS Akypuera, TLC

\* The ranks, and MPI_ANY_SOURCE in a status that no message filled in.
MCIds == Ranks \cup {AnySource}

World == "world"
\* MPI_COMM_WORLD, and the communicator with the same processes in reverse order.
MCComms == "world" :> [i \in 1..N |-> i - 1] @@ "reverse" :> [i \in 1..N |-> N - i]

On(comm, op, peer, tag, req, size) ==
  [op |-> op, comm |-> comm, peer |-> peer, tag |-> tag, req |-> req, size |-> size]
CallOf(op, peer, tag, req) == On(World, op, peer, tag, req, 4)

\* Rank 0 sends in every tracked way; rank 1 receives in every tracked way, two
\* receives at a time, and answers.
PtpCalls ==
  0 :> {CallOf("MPI_Send", 1, 0, 0), CallOf("MPI_Isend", 1, 0, 1),
        CallOf("MPI_Wait", 0, 0, 1), CallOf("MPI_Recv", AnySource, 0, 0)}
  @@ 1 :> {CallOf("MPI_Recv", 0, 0, 0), CallOf("MPI_Irecv", 0, 0, 1),
           CallOf("MPI_Irecv", AnySource, 0, 2), CallOf("MPI_Wait", 0, 0, 1),
           CallOf("MPI_Waitall", 0, 0, 0), CallOf("MPI_Waitany", 0, 0, 0),
           CallOf("MPI_Bsend", 0, 0, 0)}

\* Every rooted collective, from two roots, and one without links.
CollectiveCalls ==
  [r \in Ranks |->
     {CallOf("MPI_Bcast", 0, 0, 0), CallOf("MPI_Gather", 0, 0, 0),
      CallOf("MPI_Scatter", 1, 0, 0), CallOf("MPI_Reduce", 1, 0, 0),
      CallOf("MPI_Barrier", 0, 0, 0)}]

\* Calls whose messages or requests the wrappers do not follow.
UntracedCalls ==
  0 :> {CallOf("MPI_Sendrecv", 1, 0, 0), CallOf("MPI_Issend", 1, 0, 1),
        CallOf("MPI_Test", 0, 0, 1), CallOf("MPI_Waitsome", 0, 0, 1),
        CallOf("MPI_Comm_rank", 0, 0, 0)}
  @@ 1 :> {CallOf("MPI_Sendrecv", 0, 0, 0), CallOf("MPI_Recv", 0, 0, 0),
           CallOf("MPI_Irecv", 0, 0, 1), CallOf("MPI_Test", 0, 0, 1),
           CallOf("MPI_Wait", 0, 0, 1), CallOf("MPI_Waitsome", 0, 0, 1)}

\* One message over the reversed communicator, to a receive that is waited for.
ReversedCalls ==
  0 :> {On("reverse", "MPI_Send", 0, 0, 0, 4)}
  @@ 1 :> {On("reverse", "MPI_Irecv", 1, 0, 1, 4), On("reverse", "MPI_Wait", 0, 0, 1, 0)}

\* Both ranks send and receive, one message at a time: rank 0 with MPI_Recv from
\* any source, rank 1 with an irecv of one request that it completes in two ways.
OrderedCalls ==
  0 :> {CallOf("MPI_Send", 1, 0, 0), CallOf("MPI_Isend", 1, 0, 1),
        CallOf("MPI_Recv", AnySource, 3, 0), CallOf("MPI_Waitall", 0, 0, 1)}
  @@ 1 :> {CallOf("MPI_Irecv", AnySource, 0, 2), CallOf("MPI_Wait", 0, 0, 2),
           CallOf("MPI_Waitany", 0, 0, 0), CallOf("MPI_Bsend", 0, 3, 0)}

\* Two messages from one rank, taken by two requests.
TwoRequestsCalls ==
  0 :> {CallOf("MPI_Send", 1, 0, 0)}
  @@ 1 :> {CallOf("MPI_Irecv", 0, 0, 1), CallOf("MPI_Irecv", 0, 0, 2),
           CallOf("MPI_Wait", 0, 0, 1), CallOf("MPI_Wait", 0, 0, 2)}

\* The message of examples/smpi_bug: 100000 integers.
LargeCalls ==
  0 :> {On(World, "MPI_Send", 1, 0, 0, 400000)} @@ 1 :> {CallOf("MPI_Recv", 0, 0, 0)}
=============================================================================
