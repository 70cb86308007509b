------------------------------ MODULE AkyTracer ------------------------------
(***************************************************************************)
(* libaky: the MPI wrappers of src/src/aky.c, run by every process of the  *)
(* application.  A wrapper records events into the file of its rank        *)
(* with rst_event, calls the PMPI function, and records again.  The model    *)
(* splits each wrapper where another process can run: one step up to the  *)
(* PMPI call and its start, one step from its return on.                   *)
(*                                                                         *)
(* `trace' is the merge of the files by time: an event is appended when it *)
(* is recorded.  The application may make any sequence of the calls it is  *)
(* given, at most MaxCalls per rank, as long as MPI allows them.           *)
(***************************************************************************)
EXTENDS Mpi

CONSTANTS
  Calls,      \* the calls that each rank of the application may make
  MaxCalls,   \* bound on the calls a rank makes
  MaxLag      \* bound on the recorded events that are not converted yet

VARIABLES
  pc,          \* where each rank is: start, app, call (in PMPI), end
  call,        \* the call each rank is in
  ncalls,      \* how many calls each rank has made
  send_mark,   \* the static counter of aky.c, in every process
  irecv_root,  \* aky_irecv_root of every process
  isend_root,  \* aky_isend_root of every process
  trace        \* events recorded and not converted, oldest first

tracerVars == <<pc, call, ncalls, send_mark, irecv_root, isend_root, trace, mpiVars>>

-----------------------------------------------------------------------------
\* Sends that have no request, and nonblocking sends whose request the wrapper
\* does not remember.  All record the same events.
BlockingSends == {"MPI_Send", "MPI_Bsend", "MPI_Rsend", "MPI_Ssend"}
ForgottenSends == {"MPI_Ibsend", "MPI_Irsend", "MPI_Issend"}
SendOps == BlockingSends \cup ForgottenSends \cup {"MPI_Isend"}

\* Wrappers that complete requests and record nothing but their own states.
TestOps == {"MPI_Test", "MPI_Testall", "MPI_Testany", "MPI_Testsome", "MPI_Waitsome"}
\* Wrappers that send and receive a message and record nothing of it.
SendrecvOps == {"MPI_Sendrecv", "MPI_Sendrecv_replace"}

\* Rooted collectives, with the link events that their wrappers record.
DownOps == {"MPI_Bcast", "MPI_Scatter"}
UpOps == {"MPI_Gather", "MPI_Reduce"}
SendEventOf(op) ==
  CASE op = "MPI_Bcast" -> "AKY_1TA_SEND" [] op = "MPI_Scatter" -> "AKY_1TN_SEND"
    [] op = "MPI_Gather" -> "AKY_NT1_SEND" [] op = "MPI_Reduce" -> "AKY_AT1_SEND"
RecvEventOf(op) ==
  CASE op = "MPI_Bcast" -> "AKY_1TA_RECV" [] op = "MPI_Scatter" -> "AKY_1TN_RECV"
    [] op = "MPI_Gather" -> "AKY_NT1_RECV" [] op = "MPI_Reduce" -> "AKY_AT1_RECV"

\* Every other wrapper is IN, PMPI, OUT; by their place in aky.c:
PlainCollectives == {"MPI_Allgather", "MPI_Allgatherv", "MPI_Allreduce",
  "MPI_Alltoall", "MPI_Alltoallv", "MPI_Barrier"}
PlainReductions == {"MPI_Gatherv", "MPI_Op_create", "MPI_Op_free", "MPI_Reduce_scatter"}
PlainComms == {"MPI_Scatterv", "MPI_Comm_delete_attr", "MPI_Comm_get_attr",
  "MPI_Comm_set_attr", "MPI_Comm_compare", "MPI_Comm_create", "MPI_Comm_dup",
  "MPI_Comm_free", "MPI_Comm_group", "MPI_Comm_rank", "MPI_Comm_remote_group",
  "MPI_Comm_remote_size", "MPI_Comm_size"}
PlainGroups == {"MPI_Comm_split", "MPI_Comm_test_inter", "MPI_Group_compare",
  "MPI_Group_difference", "MPI_Group_excl", "MPI_Group_free", "MPI_Group_incl",
  "MPI_Group_intersection", "MPI_Group_rank", "MPI_Group_range_excl",
  "MPI_Group_range_incl", "MPI_Group_size", "MPI_Group_translate_ranks"}
PlainEnvironment == {"MPI_Group_union", "MPI_Intercomm_create", "MPI_Intercomm_merge",
  "MPI_Comm_create_keyval", "MPI_Comm_free_keyval", "MPI_Abort", "MPI_Error_class",
  "MPI_Comm_create_errhandler", "MPI_Errhandler_free", "MPI_Comm_get_errhandler",
  "MPI_Error_string", "MPI_Comm_set_errhandler"}
PlainQueries == {"MPI_Initialized", "MPI_Get_address"}
PlainBuffers == {"MPI_Bsend_init", "MPI_Buffer_attach", "MPI_Buffer_detach",
  "MPI_Cancel", "MPI_Request_free", "MPI_Recv_init", "MPI_Send_init",
  "MPI_Get_elements", "MPI_Get_count"}
PlainPacks == {"MPI_Pack", "MPI_Pack_size", "MPI_Probe"}
PlainStarts == {"MPI_Ssend_init", "MPI_Start", "MPI_Startall"}
PlainOthers == {"MPI_Rsend_init", "MPI_Scan", "MPI_Iprobe", "MPI_Test_cancelled"}
PlainTypes == {"MPI_Type_commit", "MPI_Type_contiguous", "MPI_Type_get_extent",
  "MPI_Type_free", "MPI_Type_create_hindexed", "MPI_Type_create_hvector",
  "MPI_Type_indexed", "MPI_Type_size", "MPI_Type_create_struct", "MPI_Type_vector",
  "MPI_Unpack"}
PlainTopology == {"MPI_Cart_coords", "MPI_Cart_create", "MPI_Cart_get", "MPI_Cart_map",
  "MPI_Cart_rank", "MPI_Cart_shift", "MPI_Cart_sub", "MPI_Cartdim_get",
  "MPI_Dims_create", "MPI_Graph_create", "MPI_Graph_get"}
PlainGraphs == {"MPI_Graph_map", "MPI_Graph_neighbors", "MPI_Graph_neighbors_count",
  "MPI_Graphdims_get", "MPI_Topo_test", "MPI_Wtime"}

PlainOps == PlainCollectives \cup PlainReductions \cup PlainComms \cup PlainGroups
  \cup PlainEnvironment \cup PlainQueries \cup PlainBuffers \cup PlainPacks
  \cup PlainStarts \cup PlainOthers \cup PlainTypes \cup PlainTopology \cup PlainGraphs

\* The plain calls that all members of the communicator must have joined.
SyncOps == PlainCollectives \cup {"MPI_Gatherv", "MPI_Scatterv", "MPI_Reduce_scatter"}

\* Calls that take the address of an MPI_Request.
RequestOps == {"MPI_Irecv", "MPI_Isend", "MPI_Wait"} \cup ForgottenSends \cup TestOps

\* Calls on communicators that the caller is in, to and from their ranks.
ASSUME TracerAssumption ==
  /\ {MaxCalls, MaxLag} \subseteq Nat
  /\ \A r \in Ranks : \A c \in Calls[r] :
       /\ c.comm \in DOMAIN Comms /\ r \in Members(c.comm)
       /\ c.op \in RequestOps => c.req \in Reqs
       /\ c.op \in SendOps \cup SendrecvOps \cup DownOps \cup UpOps =>
            AKY_translate_rank(c.comm, c.peer) \in Ranks

-----------------------------------------------------------------------------
NoMark == -1
NoCall == [op |-> "none"]

\* One record of an rst file: v, size and mark are v_uint32[0], v_uint32[1] and
\* v_uint64[0] where the event has them; `about' (not in the file) says which
\* message or collective call it is about.
Event(type, r, op, v, size, mark, about) ==
  [type |-> type, id1 |-> r, op |-> op, v |-> v, size |-> size, mark |-> mark,
   about |-> about]

In(r, op, mark) == Event("IN", r, op, 0, 0, mark, NoMsg)
Out(r, op) == Event("OUT", r, op, 0, 0, NoMark, NoMsg)
SendEvent(type, r, v, size, mark, about) == Event(type, r, "none", v, size, mark, about)
RecvEvent(type, r, v, about) == Event(type, r, "none", v, 0, NoMark, about)

Record(events) == trace' = trace \o events

TracerInit ==
  /\ MpiInit
  /\ pc = [r \in Ranks |-> "start"]
  /\ call = [r \in Ranks |-> NoCall]
  /\ ncalls = [r \in Ranks |-> 0]
  /\ send_mark = [r \in Ranks |-> 0]
  /\ irecv_root = [r \in Ranks |-> NoTree]
  /\ isend_root = [r \in Ranks |-> NoTree]
  /\ trace = <<>>

\* The application calls a wrapper: which one, and the events up to PMPI.
Enter(r, c, events) ==
  /\ pc[r] = "app"
  /\ c \in Calls[r]
  /\ ncalls[r] < MaxCalls
  /\ Len(trace) < MaxLag
  /\ pc' = [pc EXCEPT ![r] = "call"]
  /\ call' = [call EXCEPT ![r] = c]
  /\ ncalls' = [ncalls EXCEPT ![r] = @ + 1]
  /\ Record(events)

\* PMPI has returned and the wrapper returns: the events from there on.
Leave(r, events) ==
  /\ pc[r] = "call"
  /\ Len(trace) < MaxLag
  /\ pc' = [pc EXCEPT ![r] = "app"]
  /\ call' = [call EXCEPT ![r] = NoCall]
  /\ Record(events)
  /\ UNCHANGED ncalls

-----------------------------------------------------------------------------
\* MPI_Init: PMPI_Init first, then the file is opened and its first event written.
InitCall(r) ==
  /\ pc[r] = "start"
  /\ Len(trace) < MaxLag
  /\ pc' = [pc EXCEPT ![r] = "app"]
  /\ Record(<<Event("MPI_INIT", r, "MPI_Init", 0, 0, NoMark, NoMsg)>>)
  /\ UNCHANGED <<call, ncalls, send_mark, irecv_root, isend_root, mpiVars>>

\* MPI_Finalize: a legal application has completed its requests, and has made
\* every collective call that another member made.
EnterFinalize(r) ==
  /\ pc[r] = "app"
  /\ Len(trace) < MaxLag
  /\ \A a \in Reqs : request[r][a].st = "null"
  /\ \A c \in DOMAIN Comms : r \in Members(c) => ccount[r][c] = Len(clog[c])
  /\ pc' = [pc EXCEPT ![r] = "call"]
  /\ call' = [call EXCEPT ![r] = [op |-> "MPI_Finalize"]]
  /\ Record(<<In(r, "MPI_Finalize", NoMark)>>)
  /\ UNCHANGED <<ncalls, send_mark, irecv_root, isend_root, mpiVars>>

\* PMPI_Finalize returns; the last event, and rst_finalize closes the file.
LeaveFinalize(r) ==
  /\ pc[r] = "call" /\ call[r].op = "MPI_Finalize"
  /\ Len(trace) < MaxLag
  /\ pc' = [pc EXCEPT ![r] = "end"]
  /\ call' = [call EXCEPT ![r] = NoCall]
  /\ Record(<<Out(r, "MPI_Finalize")>>)
  /\ UNCHANGED <<ncalls, send_mark, irecv_root, isend_root, mpiVars>>

-----------------------------------------------------------------------------
\* Every send wrapper: IN and AKY_PTP_SEND carry send_mark, then PMPI starts the
\* message.  A legal application sends from a request variable that is free.
EnterSend(r, c) ==
  /\ c.op \in SendOps
  /\ Enter(r, c, <<In(r, c.op, send_mark[r]),
                   SendEvent("AKY_PTP_SEND", r, AKY_translate_rank(c.comm, c.peer),
                             c.size, send_mark[r], NextMsg(r))>>)
  /\ Transmit(r, c.comm, c.peer, c.tag)
  /\ IF c.op \in BlockingSends THEN UNCHANGED request
     ELSE /\ request[r][c.req].st = "null"
          /\ request' = [request EXCEPT ![r][c.req] =
                           [st |-> IF c.op = "MPI_Isend" THEN "isend" ELSE "send",
                            src |-> AnySource, msg |-> NextMsg(r),
                            mark |-> send_mark[r]]]
  /\ UNCHANGED <<send_mark, irecv_root, isend_root, posted, clog, ccount>>

\* Mutant of LeaveSend: the mark is moved on twice.
LeaveSendTwice(r) ==
  /\ call[r].op \in SendOps
  /\ Leave(r, <<Out(r, call[r].op)>>)
  /\ isend_root' = IF call[r].op = "MPI_Isend"
                   THEN [isend_root EXCEPT ![r] = aky_insert(@, call[r].req, send_mark[r])]
                   ELSE isend_root
  /\ send_mark' = [send_mark EXCEPT ![r] = @ + 2]
  /\ UNCHANGED <<irecv_root, mpiVars>>

\* ... OUT; MPI_Isend remembers its request with the mark; the mark is used up.
LeaveSend(r) ==
  /\ call[r].op \in SendOps
  /\ Leave(r, <<Out(r, call[r].op)>>)
  /\ isend_root' = IF call[r].op = "MPI_Isend"
                   THEN [isend_root EXCEPT ![r] = aky_insert(@, call[r].req, send_mark[r])]
                   ELSE isend_root
  /\ send_mark' = [send_mark EXCEPT ![r] = @ + 1]
  /\ UNCHANGED <<irecv_root, mpiVars>>

\* MPI_Recv.
EnterRecv(r, c) ==
  /\ c.op = "MPI_Recv"
  /\ Enter(r, c, <<In(r, c.op, NoMark)>>)
  /\ Post(r, Blocking, c.comm, c.peer, c.tag)
  /\ UNCHANGED <<send_mark, irecv_root, isend_root, nsent, net, clog, ccount>>

\* Mutant of LeaveRecv: AKY_PTP_RECV is not recorded.
LeaveRecvUnrecorded(r) ==
  /\ call[r].op = "MPI_Recv"
  /\ request[r][Blocking].st = "arrived"
  /\ Leave(r, <<Out(r, "MPI_Recv")>>)
  /\ request' = [request EXCEPT ![r][Blocking] = Null]
  /\ UNCHANGED <<send_mark, irecv_root, isend_root, nsent, net, posted, clog, ccount>>

LeaveRecv(r) ==
  LET q == request[r][Blocking]
  IN /\ call[r].op = "MPI_Recv"
     /\ q.st = "arrived"
     /\ Leave(r, <<RecvEvent("AKY_PTP_RECV", r, AKY_translate_rank(call[r].comm, q.src),
                             q.msg),
                   Out(r, "MPI_Recv")>>)
     /\ request' = [request EXCEPT ![r][Blocking] = Null]
     /\ UNCHANGED <<send_mark, irecv_root, isend_root, nsent, net, posted, clog, ccount>>

\* MPI_Irecv: the request is remembered once PMPI_Irecv has returned.
EnterIrecv(r, c) ==
  /\ c.op = "MPI_Irecv"
  /\ request[r][c.req].st = "null"
  /\ Enter(r, c, <<In(r, c.op, NoMark)>>)
  /\ Post(r, c.req, c.comm, c.peer, c.tag)
  /\ UNCHANGED <<send_mark, irecv_root, isend_root, nsent, net, clog, ccount>>

\* Mutant of LeaveIrecv: the request is not remembered.
LeaveIrecvForgotten(r) ==
  /\ call[r].op = "MPI_Irecv"
  /\ Leave(r, <<Out(r, "MPI_Irecv")>>)
  /\ UNCHANGED <<irecv_root, send_mark, isend_root, mpiVars>>

LeaveIrecv(r) ==
  /\ call[r].op = "MPI_Irecv"
  /\ Leave(r, <<Out(r, "MPI_Irecv")>>)
  /\ irecv_root' = [irecv_root EXCEPT ![r] = aky_insert_irecv(@, call[r].req)]
  /\ UNCHANGED <<send_mark, isend_root, mpiVars>>

\* MPI_Sendrecv and MPI_Sendrecv_replace: their message is not traced.
EnterSendrecv(r, c) ==
  /\ c.op \in SendrecvOps
  /\ Enter(r, c, <<In(r, c.op, NoMark)>>)
  /\ Transmit(r, c.comm, c.peer, c.tag)
  /\ Post(r, Blocking, c.comm, c.peer, c.tag)
  /\ UNCHANGED <<send_mark, irecv_root, isend_root, clog, ccount>>

LeaveSendrecv(r) ==
  /\ call[r].op \in SendrecvOps
  /\ request[r][Blocking].st = "arrived"
  /\ Leave(r, <<Out(r, call[r].op)>>)
  /\ request' = [request EXCEPT ![r][Blocking] = Null]
  /\ UNCHANGED <<send_mark, irecv_root, isend_root, nsent, net, posted, clog, ccount>>
-----------------------------------------------------------------------------
\* Mutant of EnterWait: the isend is not forgotten.
EnterWaitKept(r, c) ==
  LET isend == aky_check(isend_root[r], c.req)
  IN /\ c.op = "MPI_Wait"
     /\ Enter(r, c, <<In(r, c.op, IF isend = 0 THEN NoMark
                                  ELSE IF isend = -1 THEN 0 ELSE isend)>>)
     /\ UNCHANGED <<isend_root, send_mark, irecv_root, mpiVars>>

\* Mutant of EnterWait: the answer of aky_check is recorded as it is.
EnterWaitRaw(r, c) ==
  LET isend == aky_check(isend_root[r], c.req)
  IN /\ c.op = "MPI_Wait"
     /\ Enter(r, c, <<In(r, c.op, IF isend = 0 THEN NoMark ELSE isend)>>)
     /\ isend_root' = IF isend = 0 THEN isend_root
                      ELSE [isend_root EXCEPT ![r] = aky_remove(@, c.req)]
     /\ UNCHANGED <<send_mark, irecv_root, mpiVars>>

\* MPI_Wait looks the request up among the isends, forgets it there, and puts its
\* mark on the WAIT_IN event.
EnterWait(r, c) ==
  LET isend == aky_check(isend_root[r], c.req)
  IN /\ c.op = "MPI_Wait"
     /\ Enter(r, c, <<In(r, c.op, IF isend = 0 THEN NoMark
                                  ELSE IF isend = -1 THEN 0 ELSE isend)>>)
     /\ isend_root' = IF isend = 0 THEN isend_root
                      ELSE [isend_root EXCEPT ![r] = aky_remove(@, c.req)]
     /\ UNCHANGED <<send_mark, irecv_root, mpiVars>>

\* The requests among `done' that the wrapper finds in aky_irecv_root, in the order
\* in which it looks: that of their addresses.
TrackedOrders(r, done) ==
  LET tracked == {a \in done : aky_check(irecv_root[r], a) # 0}
  IN {order \in [1..Cardinality(tracked) -> tracked] :
        \A i, j \in DOMAIN order : i < j => order[i] < order[j]}

\* The events that end them: one AKY_PTP_RECV each, with the source as the status
\* has it, which is a rank of the receive's communicator.
EndedReceives(r, order, sources) ==
  [i \in DOMAIN order |->
     RecvEvent("AKY_PTP_RECV", r, sources[order[i]], request[r][order[i]].msg)]

\* The status that PMPI returns for each request.
Statuses(r) ==
  {s \in [Reqs -> Ranks \cup {AnySource}] :
     \A a \in Reqs : s[a] \in StatusSources(request[r][a])}

\* Mutant of FinishRequests: the irecvs are recorded and not forgotten.
FinishRequestsKept(r, done) ==
  /\ \A a \in done : Complete(request[r][a])
  /\ \E s \in Statuses(r), order \in TrackedOrders(r, done) :
       Leave(r, EndedReceives(r, order, s) \o <<Out(r, call[r].op)>>)
  /\ request' = [request EXCEPT ![r] =
                   [a \in DOMAIN @ |-> IF a \in done THEN Null ELSE @[a]]]
  /\ UNCHANGED <<irecv_root, send_mark, isend_root, nsent, net, posted, clog, ccount>>

\* PMPI completes the requests `done', and the wrapper records and forgets the
\* irecvs among them.
FinishRequests(r, done) ==
  /\ \A a \in done : Complete(request[r][a])
  /\ \E s \in Statuses(r), order \in TrackedOrders(r, done) :
       Leave(r, EndedReceives(r, order, s) \o <<Out(r, call[r].op)>>)
  /\ irecv_root' = [irecv_root EXCEPT ![r] = [a \in DOMAIN @ \ done |-> @[a]]]
  /\ request' = [request EXCEPT ![r] =
                   [a \in DOMAIN @ |-> IF a \in done THEN Null ELSE @[a]]]
  /\ UNCHANGED <<send_mark, isend_root, nsent, net, posted, clog, ccount>>

LeaveWait(r) ==
  /\ call[r].op = "MPI_Wait"
  /\ FinishRequests(r, {call[r].req})

\* MPI_Waitall and MPI_Waitany take an array of requests; neither looks at the
\* isends.  Which requests are in it matters when they are complete.
EnterWaitArray(r, c) ==
  /\ c.op \in {"MPI_Waitall", "MPI_Waitany"}
  /\ c.op = "MPI_Waitany" => \E a \in Reqs : request[r][a].st # "null"
  /\ Enter(r, c, <<In(r, c.op, NoMark)>>)
  /\ UNCHANGED <<send_mark, irecv_root, isend_root, mpiVars>>

LeaveWaitall(r) ==
  /\ call[r].op = "MPI_Waitall"
  /\ \E array \in SUBSET Reqs : FinishRequests(r, array)

LeaveWaitany(r) ==
  /\ call[r].op = "MPI_Waitany"
  /\ \E index \in Reqs : request[r][index].st # "null" /\ FinishRequests(r, {index})

\* MPI_Test and its relatives, and MPI_Waitsome: nothing is looked up.
EnterTest(r, c) ==
  /\ c.op \in TestOps
  /\ Enter(r, c, <<In(r, c.op, NoMark)>>)
  /\ UNCHANGED <<send_mark, irecv_root, isend_root, mpiVars>>

\* Mutant of LeaveTest: the OUT event is not recorded.
LeaveTestUnrecorded(r) ==
  LET a == call[r].req
  IN /\ call[r].op \in TestOps
     /\ call[r].op = "MPI_Waitsome" => Complete(request[r][a])
     /\ Leave(r, <<>>)
     /\ request' = IF Complete(request[r][a])
                   THEN [request EXCEPT ![r][a] = Null] ELSE request
     /\ UNCHANGED <<send_mark, irecv_root, isend_root, nsent, net, posted, clog, ccount>>

\* PMPI completes the request or not, and the wrapper does not look.
LeaveTest(r) ==
  LET a == call[r].req
  IN /\ call[r].op \in TestOps
     /\ call[r].op = "MPI_Waitsome" => Complete(request[r][a])
     /\ Leave(r, <<Out(r, call[r].op)>>)
     /\ request' = IF Complete(request[r][a])
                   THEN [request EXCEPT ![r][a] = Null] ELSE request
     /\ UNCHANGED <<send_mark, irecv_root, isend_root, nsent, net, posted, clog, ccount>>

-----------------------------------------------------------------------------
\* A legal application makes no collective call that a member will not make.
Collective(r, c) ==
  /\ \A x \in Members(c.comm) : pc[x] # "end" /\ call[x].op # "MPI_Finalize"
  /\ JoinCollective(r, c.comm, c.op, c.peer)

\* MPI_Bcast and MPI_Scatter: the root records one event for all receivers, with
\* the size of the communicator in the place of the peer and of the mark.
EnterDown(r, c) ==
  LET size == Size(c.comm)
  IN /\ c.op \in DownOps
     /\ Collective(r, c)
     /\ Enter(r, c,
          IF r = AKY_translate_rank(c.comm, c.peer)
          THEN <<In(r, c.op, size),
                 SendEvent(SendEventOf(c.op), r, size, c.size, size,
                           ThisCollective(r, c.comm)')>>
          ELSE <<In(r, c.op, NoMark)>>)
     /\ UNCHANGED <<send_mark, irecv_root, isend_root, nsent, net, posted, request>>

\* ... and each other member records the root it received from.
LeaveDown(r) ==
  LET c == call[r]
      root == AKY_translate_rank(c.comm, c.peer)
  IN /\ c.op \in DownOps
     /\ CollectiveDone(r, c.comm, c.op, c.peer)
     /\ Leave(r, IF r = root THEN <<Out(r, c.op)>>
                 ELSE <<RecvEvent(RecvEventOf(c.op), r, root, ThisCollective(r, c.comm)),
                        Out(r, c.op)>>)
     /\ UNCHANGED <<send_mark, irecv_root, isend_root, mpiVars>>

\* MPI_Gather and MPI_Reduce: each member but the root records its send ...
EnterUp(r, c) ==
  LET size == Size(c.comm)
      root == AKY_translate_rank(c.comm, c.peer)
  IN /\ c.op \in UpOps
     /\ Collective(r, c)
     /\ Enter(r, c,
          IF r = root THEN <<In(r, c.op, NoMark)>>
          ELSE <<In(r, c.op, size),
                 SendEvent(SendEventOf(c.op), r, root, c.size, size,
                           ThisCollective(r, c.comm)')>>)
     /\ UNCHANGED <<send_mark, irecv_root, isend_root, nsent, net, posted, request>>

\* Mutant of LeaveUp: the root counts those that send to it.
LeaveUpOthers(r) ==
  LET c == call[r]
  IN /\ c.op \in UpOps
     /\ CollectiveDone(r, c.comm, c.op, c.peer)
     /\ Leave(r, IF r = AKY_translate_rank(c.comm, c.peer)
                 THEN <<RecvEvent(RecvEventOf(c.op), r, Size(c.comm) - 1,
                                  ThisCollective(r, c.comm)),
                        Out(r, c.op)>>
                 ELSE <<Out(r, c.op)>>)
     /\ UNCHANGED <<send_mark, irecv_root, isend_root, mpiVars>>

\* ... and the root one event for all of them, with the size of the communicator.
LeaveUp(r) ==
  LET c == call[r]
  IN /\ c.op \in UpOps
     /\ CollectiveDone(r, c.comm, c.op, c.peer)
     /\ Leave(r, IF r = AKY_translate_rank(c.comm, c.peer)
                 THEN <<RecvEvent(RecvEventOf(c.op), r, Size(c.comm),
                                  ThisCollective(r, c.comm)),
                        Out(r, c.op)>>
                 ELSE <<Out(r, c.op)>>)
     /\ UNCHANGED <<send_mark, irecv_root, isend_root, mpiVars>>

\* Every other wrapper.
EnterPlain(r, c) ==
  /\ c.op \in PlainOps
  /\ IF c.op \in SyncOps THEN Collective(r, c)
     ELSE UNCHANGED <<clog, ccount>>
  /\ Enter(r, c, <<In(r, c.op, NoMark)>>)
  /\ UNCHANGED <<send_mark, irecv_root, isend_root, nsent, net, posted, request>>

LeavePlain(r) ==
  LET c == call[r]
  IN /\ c.op \in PlainOps
     /\ c.op \in SyncOps => CollectiveDone(r, c.comm, c.op, c.peer)
     /\ Leave(r, <<Out(r, c.op)>>)
     /\ UNCHANGED <<send_mark, irecv_root, isend_root, mpiVars>>

-----------------------------------------------------------------------------
EnterCall(r, c) ==
  \/ EnterSend(r, c) \/ EnterRecv(r, c) \/ EnterIrecv(r, c) \/ EnterSendrecv(r, c)
  \/ EnterWait(r, c) \/ EnterWaitArray(r, c) \/ EnterTest(r, c)
  \/ EnterDown(r, c) \/ EnterUp(r, c) \/ EnterPlain(r, c)

LeaveCall(r) ==
  \/ LeaveSend(r) \/ LeaveRecv(r) \/ LeaveIrecv(r) \/ LeaveSendrecv(r)
  \/ LeaveWait(r) \/ LeaveWaitall(r) \/ LeaveWaitany(r) \/ LeaveTest(r)
  \/ LeaveDown(r) \/ LeaveUp(r) \/ LeavePlain(r)

\* PMPI matches a message while the ranks are anywhere in their code.
Deliver(s, d) ==
  /\ Match(s, d)
  /\ UNCHANGED <<pc, call, ncalls, send_mark, irecv_root, isend_root, trace>>

TracerNext ==
  \/ \E r \in Ranks : InitCall(r) \/ EnterFinalize(r) \/ LeaveFinalize(r) \/ LeaveCall(r)
  \/ \E r \in Ranks : \E c \in Calls[r] : EnterCall(r, c)
  \/ \E s, d \in Ranks : Deliver(s, d)
=============================================================================
