----------------------------- MODULE AkyAnyTrace -----------------------------
(***************************************************************************)
(* aky_converter on the merge of any well-formed rst files in any order.   *)
(* Without a synchronization file the clocks of the ranks are unrelated,   *)
(* so that rst_decode_event may return the events of different files in    *)
(* any order; those of one file come in the order they were recorded:      *)
(* MPI_INIT first, link events inside a call, the OUT of MPI_Finalize last.*)
(***************************************************************************)
EXTENDS AkyConverter

CONSTANT Events   \* the events that the files may hold

EventTypes == {"AKY_PTP_SEND", "AKY_PTP_RECV", "MPI_INIT", "IN", "OUT"}
  \cup ScatterSends \cup ScatterRecvs \cup GatherSends \cup GatherRecvs

\* v_uint32[0] of a link event: a peer, or the size of a communicator.
ASSUME EventsAssumption ==
  \A e \in Events :
    /\ e.type \in EventTypes
    /\ e.id1 \in Procs
    /\ e.type \in ScatterSends \cup GatherRecvs => e.v \in 0..NProcs
    /\ e.type \notin ScatterSends \cup GatherRecvs => e.v \in Ids

VARIABLE inside   \* the call whose IN was the last one of each rank's file

anyVars == <<converterVars, inside>>

NoOp == "none"

\* The files in which e may be the next event of its rank.
FileOrder(e) ==
  /\ e.type = "MPI_INIT" <=> container[e.id1] = "none"
  /\ container[e.id1] # "gone"
  /\ e.type \in {"MPI_INIT", "IN"} <=> inside[e.id1] = NoOp
  /\ e.type = "OUT" => inside[e.id1] = e.op

AnyInit == ConverterInit /\ inside = [p \in Procs |-> NoOp]

DecodeAny(e) ==
  /\ FileOrder(e)
  /\ Decode(e)
  /\ inside' = CASE e.type = "IN" -> [inside EXCEPT ![e.id1] = e.op]
                 [] e.type = "OUT" -> [inside EXCEPT ![e.id1] = NoOp]
                 [] OTHER -> inside

LoopStep == (ScatterStep \/ CollectStep \/ LoopEnd) /\ UNCHANGED inside

\* The files may end anywhere: a rank that was killed wrote no further.
CloseAny == Close /\ UNCHANGED inside

AnyNext == (\E e \in Events : DecodeAny(e)) \/ LoopStep \/ CloseAny

AnySpec == AnyInit /\ [][AnyNext]_anyVars
-----------------------------------------------------------------------------
\* aky_converter keeps the promise of PajeLinks, on any merge of the files and with any
\* number of failures of the key table: the links printed without a key are left out.
Pairing ==
  INSTANCE PajeLinks WITH
    used <- {KeyAt(i) : i \in Starts} \ {NoKey},
    open <- OpenKeys \ {NoKey},
    lines <- Cardinality({i \in DOMAIN links : KeyAt(i) # NoKey})
AnyLinksPaired == Pairing!LinksSpec
=============================================================================
