------------------------------ MODULE Akypuera ------------------------------
(***************************************************************************)
(* The workflow of the README: an MPI application runs with libaky, and    *)
(* aky_converter turns the files of all its ranks into one Paje trace.     *)
(*                                                                         *)
(* rst_decode_event returns the events of all files by time.  When the     *)
(* clocks are synchronized (Synced) that is the order of recording;        *)
(* otherwise only the order inside each file is kept.  What the converter  *)
(* prints for an event depends on the events before it alone, so the model *)
(* lets it read the trace while the application still runs, as far behind  *)
(* as MaxLag allows.                                                       *)
(***************************************************************************)
EXTENDS AkyTracer, AkyConverter

CONSTANT Synced   \* a synchronization file aligned the clocks of the ranks

\* A status may name no source where a link has its peer.
ASSUME AkypueraAssumption == NProcs = N /\ Synced \in BOOLEAN /\ AnySource \in Ids

vars == <<tracerVars, converterVars>>

Init == TracerInit /\ ConverterInit

\* Mutant of NextToDecode: the events of one file are not kept in their order.
AnyInTrace == DOMAIN trace

\* The places of the trace from which the next decoded event may be.
NextToDecode ==
  {i \in DOMAIN trace :
     IF Synced THEN i = 1
     ELSE \A j \in 1..(i - 1) : trace[j].id1 # trace[i].id1}

DecodeNext ==
  /\ \E i \in NextToDecode : Decode(trace[i]) /\ trace' = Without(trace, i)
  /\ UNCHANGED <<pc, call, ncalls, send_mark, irecv_root, isend_root, mpiVars>>

\* The loop ends when the files do, or at the first turn after a failure.
CloseTrace ==
  /\ \A r \in Ranks : pc[r] = "end"
  /\ fail \/ trace = <<>>
  /\ Close
  /\ UNCHANGED tracerVars

ConverterNext ==
  \/ DecodeNext
  \/ (ScatterStep \/ CollectStep \/ LoopEnd) /\ UNCHANGED tracerVars
  \/ CloseTrace

TracerStep == TracerNext /\ UNCHANGED converterVars

Next == TracerStep \/ ConverterNext

\* The converter is a sequential program that never waits for anything but its
\* input: it goes on as long as it can.
Spec == Init /\ [][Next]_vars /\ WF_vars(ConverterNext)

-----------------------------------------------------------------------------
\* The types of the variables: in particular send_mark counts the sends of a rank,
\* once each, whichever wrapper made them.
TypeOK ==
  /\ KeysTypeOK
  /\ pc \in [Ranks -> {"start", "app", "call", "end"}]
  /\ send_mark \in [Ranks -> 0..MaxCalls]
  /\ \A r \in Ranks : DOMAIN irecv_root[r] \subseteq Reqs /\ DOMAIN isend_root[r] \subseteq Reqs
  /\ phase \in {"decode", "scatter", "collect", "closed"}
  /\ rank \in 0..N
  /\ fail \in BOOLEAN

\* With synchronized clocks aky_get_key always finds the key: every wrapper records
\* its send before PMPI can show the message to anyone, and its receive after.
NoMissingKey == ~fail /\ \A j \in Ends : KeyAt(j) # NoKey

\* The two ends of a printed link are about the same message, or about the same
\* pair of ranks in the same collective call.
LinksJoinOneMessage ==
  \A i \in Starts, j \in Ends :
    KeyAt(i) = KeyAt(j) /\ KeyAt(i) # NoKey => links[i].about = links[j].about

\* When all is converted, every rooted collective call has linked its root with each of
\* the other processes once, towards them or from them: the one event of the root stood
\* for as many links as the other ranks recorded ends or starts of, and none is left over
\* for a later call between the same ranks.
CollectiveLinksComplete ==
  phase = "closed" /\ ~fail =>
    \A comm \in DOMAIN Comms : \A k \in DOMAIN clog[comm] :
      LET this == clog[comm][k]
          others == Members(comm) \ {this.root}
          pairs == CASE this.op \in DownOps -> {this.root} \X others
                     [] this.op \in UpOps -> others \X {this.root}
                     [] OTHER -> {}
      IN \A s, d \in Ranks, side \in {"start", "end"} :
           Cardinality({i \in DOMAIN links : /\ links[i].side = side
                                            /\ links[i].about = <<<<comm, 0, k>>, s, d>>})
             = IF <<s, d>> \in pairs THEN 1 ELSE 0

\* When all is converted, the links left open between two ranks are as many as the
\* messages that the one sent and the other never received, and the links of all
\* collective calls are closed.
OpenLinksAreUnreceived ==
  phase = "closed" =>
    \A s, d \in Ranks :
      LET open == {i \in Starts : KeyAt(i) \in OpenKeys /\ links[i].about[2] = s
                                                        /\ links[i].about[3] = d}
      IN /\ Cardinality(open) = Len(net[s][d])
         /\ \A i \in open : links[i].value = "PTP"

\* A *_OUT event pops the state that its own call pushed.
PopsItsOwnState ==
  [][\A r \in Ranks : Len(stack'[r]) < Len(stack[r]) =>
       \E i \in NextToDecode :
         /\ trace[i].id1 = r /\ trace[i].op = stack[r][Len(stack[r])]
         /\ trace' = Without(trace, i)]_vars

\* A converted trace is whole: no process has a state left, and every container
\* that was created was destroyed, processes before the root.
TraceIsWhole ==
  /\ phase = "closed" /\ ~fail =>
       root = "gone" /\ \A r \in Ranks : container[r] = "gone" /\ stack[r] = <<>>
  /\ \A r \in Ranks : container[r] = "live" /\ ~fail => root = "live"

BetweenCalls(r) == pc[r] = "app"

\* aky_irecv_root holds the requests of the receives that are not completed, from
\* the return of MPI_Irecv on: no wait misses one and none reports one twice.
IrecvsRemembered ==
  \A r \in Ranks : BetweenCalls(r) =>
    DOMAIN irecv_root[r] = {a \in Reqs : request[r][a].st \in {"posted", "arrived"}}

\* aky_isend_root holds the requests of the MPI_Isend not waited for, each with
\* the mark that its send was recorded with.
IsendsRemembered ==
  \A r \in Ranks : BetweenCalls(r) =>
    /\ DOMAIN isend_root[r] = {a \in Reqs : request[r][a].st = "isend"}
    /\ \A a \in DOMAIN isend_root[r] : isend_root[r][a] = request[r][a].mark

\* The WAIT_IN of a request that MPI_Isend left open carries the mark of that very send,
\* the first one, 0, included, and that of any other request carries none: by it a reader
\* of the trace finds the message that is waited for.
WaitNamesItsSend ==
  [][\A r \in Ranks :
       pc[r] = "app" /\ pc'[r] = "call" /\ call'[r].op = "MPI_Wait" =>
         LET q == request[r][call'[r].req]
         IN trace' = trace \o <<In(r, "MPI_Wait",
                                   IF q.st = "isend" THEN q.mark ELSE NoMark)>>]_vars

\* Once every rank has finalized, aky_converter comes to its end.
ConversionEnds ==
  (\A r \in Ranks : pc[r] = "end") ~> (phase = "closed")
-----------------------------------------------------------------------------
\* What the repository says and the runs refute.

\* "do you synchronize your input traces?" (src/src/aky/aky_converter.c:241): a
\* receive without a key is the fault of traces that are not synchronized.
MissingMeansUnsynced == fail => ~Synced

\* "You can assume FIFO between every pair of MPI ranks"
\* (src/src/otf2/DevLog.org:166): the receives of a rank are recorded in the order
\* in which the other rank sent the messages.
ReceivesAreFifo ==
  \A i, j \in Ends :
    /\ links[i].value = "PTP" /\ links[j].value = "PTP"
    /\ links[i].about[2] = links[j].about[2] /\ links[i].about[3] = links[j].about[3]
    /\ i < j
    => links[i].about[1][3] < links[j].about[1][3]

\* "int16 upper range is a 5 digits str in base 10"
\* (src/src/aky/aky_converter.c:31): five digits hold the size of every message.
SizesArePrinted == \A i \in Starts : links[i].size = links[i].sent

\* "Read input traces but won't translate (no output)"
\* (src/src/aky/aky_arguments.c:23), of the option --dummy.
DummyPrintsNothing ==
  Dummy => ~header /\ root = "none" /\ links = <<>>
             /\ \A r \in Ranks : container[r] = "none" /\ stack[r] = <<>>
=============================================================================
