---------------------------- MODULE AkyConverter ----------------------------
(***************************************************************************)
(* aky_converter (src/src/aky/aky_converter.c): reads the events of all    *)
(* rst files merged by time and prints a Paje trace.  Decode(e) is one turn*)
(* of the loop in main on event e; the two loops over the ranks of a       *)
(* communicator (treat_1tx_send, treat_xt1_recv) take one step per rank.   *)
(* The output is kept as what it means: which containers exist, the stack  *)
(* of states of each process, and the links in the order they are printed. *)
(***************************************************************************)
EXTENDS AkyKeys

CONSTANTS
  NProcs,         \* the number of ranks, 0..NProcs-1
  NoLinks,        \* --no-links
  NoStates,       \* --no-states
  IgnoreErrors,   \* --ignore-errors
  Dummy           \* --dummy

Procs == 0..(NProcs - 1)

ASSUME ConverterAssumption ==
  /\ NProcs \in Nat
  /\ Procs \subseteq Ids
  /\ {"ptp", "1tn", "1ta", "at1"} \subseteq Types
  /\ {NoLinks, NoStates, IgnoreErrors, Dummy} \subseteq BOOLEAN

VARIABLES
  phase,      \* decode, scatter (treat_1tx_send), collect (treat_xt1_recv), closed
  ev,         \* the event that the loop over ranks is treating
  rank,       \* the variable of that loop
  fail,       \* main's fail
  header,     \* whether the header of the output was printed
  root,       \* the container "root": none, live, gone
  container,  \* the container of each process: none, live, gone
  stack,      \* the states pushed on the container of each process
  links       \* the StartLink and EndLink events printed, in order

outputVars == <<header, root, container, stack, links>>
converterVars == <<phase, ev, rank, fail, outputVars, keyVars>>

NoEvent == [type |-> "none"]

ConverterInit ==
  /\ KeysInit
  /\ phase = "decode"
  /\ ev = NoEvent
  /\ rank = 0
  /\ fail = FALSE
  /\ header = ~Dummy
  /\ root = "none"
  /\ container = [p \in Procs |-> "none"]
  /\ stack = [p \in Procs |-> <<>>]
  /\ links = <<>>

-----------------------------------------------------------------------------
ScatterSends == {"AKY_1TN_SEND", "AKY_1TA_SEND"}   \* treat_1tx_send
ScatterRecvs == {"AKY_1TN_RECV", "AKY_1TA_RECV"}   \* treat_1tx_recv
GatherSends == {"AKY_NT1_SEND", "AKY_AT1_SEND"}    \* treat_xt1_send
GatherRecvs == {"AKY_NT1_RECV", "AKY_AT1_RECV"}    \* treat_xt1_recv

\* AKY_KEY_*: a gather and a scatter share their keys.
KeyType(type) ==
  CASE type \in {"AKY_PTP_SEND", "AKY_PTP_RECV"} -> "ptp"
    [] type \in {"AKY_1TN_SEND", "AKY_1TN_RECV", "AKY_NT1_SEND", "AKY_NT1_RECV"} -> "1tn"
    [] type \in {"AKY_1TA_SEND", "AKY_1TA_RECV"} -> "1ta"
    [] type \in {"AKY_AT1_SEND", "AKY_AT1_RECV"} -> "at1"

\* The value that the link is printed with.
LinkValue(type) ==
  CASE type \in {"AKY_PTP_SEND", "AKY_PTP_RECV"} -> "PTP"
    [] type \in {"AKY_1TN_SEND", "AKY_1TN_RECV"} -> "1TN"
    [] type \in {"AKY_NT1_SEND", "AKY_NT1_RECV"} -> "NT1"
    [] type \in {"AKY_1TA_SEND", "AKY_1TA_RECV"} -> "1TA"
    [] type \in {"AKY_AT1_SEND", "AKY_AT1_RECV"} -> "AT1"

\* snprintf (buffer, 6, "%d", n) for n >= 0: the first five digits of n.
FiveDigits(n) ==
  LET prefixes == {n \div d : d \in {1, 10, 100, 1000, 10000, 100000}}
  IN CHOOSE q \in prefixes : q <= 99999 /\ \A o \in prefixes : o <= 99999 => o <= q

\* poti_user_StartLink by linksizemark, and poti_EndLink, with the key in buffer.
StartLink(e, src, dst) ==
  links' = Append(links, [side |-> "start", value |-> LinkValue(e.type), key |-> buffer',
                          at |-> e.id1, about |-> <<e.about, src, dst>>,
                          sent |-> e.size, size |-> FiveDigits(e.size)])
EndLink(e, src, dst) ==
  links' = Append(links, [side |-> "end", value |-> LinkValue(e.type), key |-> buffer',
                          at |-> e.id1, about |-> <<e.about, src, dst>>,
                          sent |-> 0, size |-> 0])

\* One link starts: a fresh key, whatever aky_put_key returned.
LinkFrom(e, src, dst) ==
  /\ AkyPutKey(<<KeyType(e.type), src, dst>>)
  /\ StartLink(e, src, dst)
  /\ UNCHANGED fail

\* Mutant of LinkTo: the key is asked for the opposite direction.
LinkToSwapped(e, src, dst) ==
  /\ AkyGetKey(<<KeyType(e.type), dst, src>>)
  /\ fail' = (fail \/ (buffer' = NoKey /\ ~IgnoreErrors))
  /\ EndLink(e, src, dst)

\* One link ends: without a key the conversion is to stop, and the event is
\* printed all the same.
LinkTo(e, src, dst) ==
  /\ AkyGetKey(<<KeyType(e.type), src, dst>>)
  /\ fail' = (fail \/ (buffer' = NoKey /\ ~IgnoreErrors))
  /\ EndLink(e, src, dst)

-----------------------------------------------------------------------------
\* The link events with a single peer, v_uint32[0].
DecodeSend(e) ==
  /\ e.type \in {"AKY_PTP_SEND"} \cup GatherSends
  /\ IF NoLinks THEN UNCHANGED <<keyVars, links, fail>> ELSE LinkFrom(e, e.id1, e.v)
  /\ UNCHANGED <<phase, ev, rank, header, root, container, stack>>

DecodeRecv(e) ==
  /\ e.type \in {"AKY_PTP_RECV"} \cup ScatterRecvs
  /\ IF NoLinks THEN UNCHANGED <<keyVars, links, fail>> ELSE LinkTo(e, e.v, e.id1)
  /\ UNCHANGED <<phase, ev, rank, header, root, container, stack>>

\* Mutant of DecodeLoop: the loop starts with rank 1.
DecodeLoopFromOne(e) ==
  /\ e.type \in ScatterSends \cup GatherRecvs
  /\ IF NoLinks THEN UNCHANGED <<phase, ev, rank>>
     ELSE /\ phase' = IF e.type \in ScatterSends THEN "scatter" ELSE "collect"
          /\ ev' = e
          /\ rank' = 1
  /\ UNCHANGED <<fail, keyVars, outputVars>>

\* The link events with all ranks below v_uint32[0] start a loop.
DecodeLoop(e) ==
  /\ e.type \in ScatterSends \cup GatherRecvs
  /\ IF NoLinks THEN UNCHANGED <<phase, ev, rank>>
     ELSE /\ phase' = IF e.type \in ScatterSends THEN "scatter" ELSE "collect"
          /\ ev' = e
          /\ rank' = 0
  /\ UNCHANGED <<fail, keyVars, outputVars>>

\* Mutant of ScatterStep: a key is put for the own rank too.
ScatterStepWithSelf ==
  /\ phase = "scatter" /\ rank < ev.v
  /\ IF rank = ev.id1 THEN AkyPutKey(<<KeyType(ev.type), rank, rank>>) /\ UNCHANGED <<links, fail>>
     ELSE LinkFrom(ev, ev.id1, rank)
  /\ rank' = rank + 1
  /\ UNCHANGED <<phase, ev, header, root, container, stack>>

\* One turn of the loop of treat_1tx_send: a link to every rank but its own.
ScatterStep ==
  /\ phase = "scatter" /\ rank < ev.v
  /\ IF rank = ev.id1 THEN UNCHANGED <<keyVars, links, fail>>
     ELSE LinkFrom(ev, ev.id1, rank)
  /\ rank' = rank + 1
  /\ UNCHANGED <<phase, ev, header, root, container, stack>>

\* One turn of the loop of treat_xt1_recv: a link from every rank but its own.
CollectStep ==
  /\ phase = "collect" /\ rank < ev.v
  /\ IF rank = ev.id1 THEN UNCHANGED <<keyVars, links, fail>>
     ELSE LinkTo(ev, rank, ev.id1)
  /\ rank' = rank + 1
  /\ UNCHANGED <<phase, ev, header, root, container, stack>>

LoopEnd ==
  /\ phase \in {"scatter", "collect"} /\ rank >= ev.v
  /\ phase' = "decode"
  /\ ev' = NoEvent
  /\ rank' = 0
  /\ UNCHANGED <<fail, keyVars, outputVars>>

\* MPI_INIT: the first one creates the root too (root_created).
DecodeInit(e) ==
  /\ e.type = "MPI_INIT"
  /\ root' = IF root = "none" THEN "live" ELSE root
  /\ container' = [container EXCEPT ![e.id1] = "live"]
  /\ UNCHANGED <<phase, ev, rank, fail, header, stack, links, keyVars>>

\* The *_IN events push the state named after their call.
DecodeIn(e) ==
  /\ e.type = "IN"
  /\ stack' = IF NoStates THEN stack ELSE [stack EXCEPT ![e.id1] = Append(@, e.op)]
  /\ UNCHANGED <<phase, ev, rank, fail, header, root, container, links, keyVars>>

\* The *_OUT events pop whatever state is on top; the last event of a file also
\* destroys the container of its process.
DecodeOut(e) ==
  /\ e.type = "OUT"
  /\ stack' = IF NoStates \/ stack[e.id1] = <<>> THEN stack
              ELSE [stack EXCEPT ![e.id1] = SubSeq(@, 1, Len(@) - 1)]
  /\ container' = IF e.op = "MPI_Finalize" THEN [container EXCEPT ![e.id1] = "gone"]
                  ELSE container
  /\ UNCHANGED <<phase, ev, rank, fail, header, root, links, keyVars>>

\* One turn of the loop in main.
Decode(e) ==
  /\ phase = "decode" /\ ~fail
  /\ \/ DecodeSend(e) \/ DecodeRecv(e) \/ DecodeLoop(e)
     \/ DecodeInit(e) \/ DecodeIn(e) \/ DecodeOut(e)

\* Mutant of Close: the end waits for every key to be taken.
CloseWhenPaired ==
  /\ phase = "decode"
  /\ \A nm \in Names : queue[nm] = <<>>
  /\ phase' = "closed"
  /\ root' = IF root = "live" THEN "gone" ELSE root
  /\ UNCHANGED <<ev, rank, fail, header, container, stack, links, keyVars>>

\* After the loop: the root is destroyed if any event was decoded.  The exit
\* status is 0 whether the conversion failed or not.
Close ==
  /\ phase = "decode"
  /\ phase' = "closed"
  /\ root' = IF root = "live" THEN "gone" ELSE root
  /\ UNCHANGED <<ev, rank, fail, header, container, stack, links, keyVars>>
-----------------------------------------------------------------------------
Starts == {i \in DOMAIN links : links[i].side = "start"}
Ends == {i \in DOMAIN links : links[i].side = "end"}
KeyAt(i) == links[i].key

\* No key is printed on two StartLinks or on two EndLinks, so that Paje can pair
\* the events of a link by their key (src/src/otf2/DevLog.org:165).
LinkKeysUnique ==
  \A i, j \in DOMAIN links :
    links[i].side = links[j].side /\ KeyAt(i) = KeyAt(j) /\ KeyAt(i) # NoKey => i = j

\* Every EndLink that has a key comes after the StartLink with that key, at the
\* process of the pair's destination, and the link leaves the pair's source.
EndsFollowStarts ==
  \A j \in Ends : KeyAt(j) # NoKey =>
    /\ KeyAt(j)[2] = links[j].at
    /\ \E i \in Starts : i < j /\ KeyAt(i) = KeyAt(j) /\ KeyAt(i)[1] = links[i].at

\* The keys waiting in the table are those of the links started and not ended:
\* aky_converter takes no key without printing it, and prints none it did not take.
WaitingKeys == UNION {{queue[nm][i] : i \in DOMAIN queue[nm]} : nm \in Names}
OpenKeys == {KeyAt(i) : i \in Starts} \ {KeyAt(j) : j \in Ends}
OpenLinksWait == WaitingKeys = OpenKeys \ {NoKey}

\* The return value of aky_put_key is not looked at: a StartLink is printed with
\* an empty key, but only once the table is full.
EmptyStartMeansFull ==
  (\E i \in Starts : KeyAt(i) = NoKey) => Cardinality(entered) >= TableSize
=============================================================================
