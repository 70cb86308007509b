------------------------------ MODULE Tau2Paje ------------------------------
(***************************************************************************)
(* tau2paje (src/src/tau): the callbacks that the TAU reader makes for the *)
(* records of a merged trace, and the loop in main around the reader.      *)
(* The TAU library is external: it makes one callback for a record, Batch  *)
(* records in a call (100 in the code), in the order of their times: the   *)
(* time of a record is its number.  Different nodes have different clocks, *)
(* so that a receive may be read before its send.  A thread is known       *)
(* before its events, a state before it is entered; a node may be named as *)
(* a peer before it is known.  The trace may end anywhere.                 *)
(***************************************************************************)
EXTENDS AkyKeys, PajeOutput

CONSTANTS
  Threads,       \* the threads of the traced program: node and number
  States,        \* the state tokens
  MpiStates,     \* those with MPI_ in their name
  StateSlots,    \* how many states state_name_hash holds (1000 asked for)
  Batch,         \* the records read in one call of Ttf_ReadNumEvents
  MaxThreads,    \* bounds on the trace: threads, states entered, messages of a pair
  MaxDepth,
  MaxMessages,
  MaxRecords

Nodes == {th[1] : th \in Threads}
Pairs == {pair \in Nodes \X Nodes : pair[1] # pair[2]}
Rank(n) == <<"rank", n>>

ASSUME TauAssumption ==
  /\ Nodes \subseteq Ids \cap Nat
  /\ "n" \in Types
  /\ MpiStates \subseteq States
  /\ {Root, World} \cup {Rank(n) : n \in Nodes} \subseteq Containers
  /\ {StateSlots, Batch, MaxThreads, MaxDepth, MaxMessages, MaxRecords} \subseteq Nat
  /\ Batch > 0

VARIABLES
  tau,                    \* read, leave (the loop is over), closed, exit, undefined
  recs_read,              \* the records read in the current call of the reader
  state_names,            \* the states in state_name_hash
  total_number_of_ranks,  \* the length of rank_last_time
  rank_last_time,
  last_time,
  EndOfTrace,
  untranslated            \* total_number_of_links_not_translated

\* The TAU trace: what the reader has told so far.
VARIABLES
  known,      \* the threads
  finished,   \* the threads whose trace has ended
  told,       \* the states
  inside,     \* the states that each thread is in
  sent,       \* how many messages of each pair of nodes
  received,   \* which of them were received
  orderly,    \* the pairs whose messages were received in order, after they were sent
  records,    \* how many records, the time of the last one
  eof         \* no, or what the reader answers at the end: empty (0 records), error

tauTables == <<state_names, total_number_of_ranks, rank_last_time, last_time>>
tauTrace == <<known, finished, told, inside, sent, received, orderly>>
tauVars == <<tau, recs_read, tauTables, EndOfTrace, untranslated,
             tauTrace, records, eof, arguments, paje, keyVars>>

TauStart ==
  /\ KeysInit
  /\ tau = "read" /\ recs_read = 0
  /\ state_names = {}
  /\ total_number_of_ranks = 0
  /\ rank_last_time = [n \in Nodes |-> 0]
  /\ last_time = 0
  /\ EndOfTrace = FALSE
  /\ untranslated = 0
  /\ known = {} /\ finished = {} /\ told = {}
  /\ inside = [th \in Threads |-> <<>>]
  /\ sent = [pair \in Pairs |-> 0]
  /\ received = [pair \in Pairs |-> {}]
  /\ orderly = Pairs
  /\ records = 0 /\ eof = "no"

TauInit == TauStart /\ OutputInit

-----------------------------------------------------------------------------
\* The reader has one more record.
Record ==
  /\ tau = "read" /\ recs_read < Batch /\ eof = "no"
  /\ records < MaxRecords
  /\ recs_read' = recs_read + 1
  /\ records' = records + 1
  /\ UNCHANGED <<eof, arguments>>

Runs(th) == th \in known \ finished

\* Definitions come from the event file (tau.edf) and are no records of the trace.
Definition ==
  /\ tau = "read" /\ recs_read < Batch /\ eof = "no"
  /\ UNCHANGED <<recs_read, records, eof, arguments>>
  /\ UNCHANGED <<keyVars, untranslated, EndOfTrace, last_time, tau>>

\* rank_last_time is reallocated when the node is beyond its end.  What it holds
\* of nodes never defined is not initialized, and not read.
GrowTo(n) ==
  total_number_of_ranks' =
    IF n + 1 > total_number_of_ranks THEN n + 1 ELSE total_number_of_ranks

\* Mutant of DefThread: a container for the nodes that make the table grow only.
DefThreadWhenGrown(th) ==
  /\ Definition
  /\ th \notin known /\ Cardinality(known) < MaxThreads
  /\ known' = known \cup {th}
  /\ paje' = IF th[1] + 1 > total_number_of_ranks
             THEN Printed(CreateContainer(paje, 0, Rank(th[1]), "PROCESS", Root))
             ELSE paje
  /\ GrowTo(th[1])
  /\ rank_last_time' = [rank_last_time EXCEPT ![th[1]] = 0]
  /\ UNCHANGED <<state_names, finished, told, inside, sent, received, orderly>>

DefThread(th) ==
  /\ Definition
  /\ th \notin known /\ Cardinality(known) < MaxThreads
  /\ known' = known \cup {th}
  /\ paje' = Printed(CreateContainer(paje, 0, Rank(th[1]), "PROCESS", Root))
  /\ GrowTo(th[1])
  /\ rank_last_time' = [rank_last_time EXCEPT ![th[1]] = 0]
  /\ UNCHANGED <<state_names, finished, told, inside, sent, received, orderly>>

\* A name without MPI_ is left out by --only-mpi; ENTER fails when there is no slot.
DefState(s) ==
  /\ Definition
  /\ s \notin told
  /\ told' = told \cup {s}
  /\ state_names' =
       IF \/ arguments.only_mpi /\ s \notin MpiStates
          \/ Cardinality(state_names) >= StateSlots
       THEN state_names ELSE state_names \cup {s}
  /\ UNCHANGED <<paje, total_number_of_ranks, rank_last_time,
                 known, finished, inside, sent, received, orderly>>

\* An event of the node n.
Reached(n) ==
  /\ rank_last_time' = [rank_last_time EXCEPT ![n] = records']
  /\ last_time' = records'

StateEvent ==
  /\ Record
  /\ UNCHANGED <<keyVars, untranslated, EndOfTrace, tau, state_names,
                 total_number_of_ranks, known, finished, told, sent, received, orderly>>

EnterState(th, s) ==
  /\ StateEvent
  /\ Runs(th) /\ s \in told /\ Len(inside[th]) < MaxDepth
  /\ inside' = [inside EXCEPT ![th] = Append(@, s)]
  /\ IF s \notin state_names THEN UNCHANGED <<paje, rank_last_time, last_time>>
     ELSE /\ Reached(th[1])
          /\ paje' = IF arguments.no_states THEN paje
                     ELSE Printed(PushState(paje, records', Rank(th[1]), s))

\* Mutant of LeaveState: the name is not looked up.
LeaveAnyState(th, s) ==
  /\ StateEvent
  /\ Runs(th) /\ inside[th] # <<>> /\ s = inside[th][Len(inside[th])]
  /\ inside' = [inside EXCEPT ![th] = SubSeq(@, 1, Len(@) - 1)]
  /\ Reached(th[1])
  /\ paje' = IF arguments.no_states THEN paje
             ELSE Printed(PopState(paje, records', Rank(th[1])))

LeaveState(th, s) ==
  /\ StateEvent
  /\ Runs(th) /\ inside[th] # <<>> /\ s = inside[th][Len(inside[th])]
  /\ inside' = [inside EXCEPT ![th] = SubSeq(@, 1, Len(@) - 1)]
  /\ IF s \notin state_names THEN UNCHANGED <<paje, rank_last_time, last_time>>
     ELSE /\ Reached(th[1])
          /\ paje' = IF arguments.no_states THEN paje
                     ELSE Printed(PopState(paje, records', Rank(th[1])))

EventTrigger(th) ==
  /\ StateEvent
  /\ Runs(th)
  /\ Reached(th[1])
  /\ UNCHANGED <<paje, inside>>

-----------------------------------------------------------------------------
\* A message from th[1] to another node, or from another node to th[1].
MessageEvent(th) ==
  /\ Record
  /\ Runs(th)
  /\ UNCHANGED <<EndOfTrace, state_names, total_number_of_ranks,
                 known, finished, told, inside>>

NothingPrinted == UNCHANGED <<keyVars, paje, rank_last_time, last_time, tau, untranslated>>

\* Both ends of a message reach its time.
BothReach(src, dst) ==
  /\ rank_last_time' = [rank_last_time EXCEPT ![src] = records', ![dst] = records']
  /\ last_time' = records'

\* The time of a peer that no thread was defined for is written behind the table:
\* whatever happens then is not followed any further.
SendMessage(th, dst) ==
  LET src == th[1]
      message == sent[<<src, dst>>] + 1
  IN /\ MessageEvent(th)
     /\ <<src, dst>> \in Pairs
     /\ message <= MaxMessages
     /\ sent' = [sent EXCEPT ![<<src, dst>>] = message]
     /\ UNCHANGED <<received, orderly>>
     /\ IF arguments.no_links THEN NothingPrinted
        ELSE IF dst >= total_number_of_ranks
             THEN /\ tau' = "undefined"
                  /\ UNCHANGED <<keyVars, paje, rank_last_time, last_time, untranslated>>
             ELSE /\ AkyPutKey(<<"n", src, dst>>)
                  /\ BothReach(src, dst)
                  /\ paje' = Printed(LinkLine(paje, records', "start", Rank(src), buffer',
                                              <<src, dst, message>>))
                  /\ UNCHANGED <<tau, untranslated>>

\* Mutant of NoLink: the end of the link is not printed, and not counted either.
NoLinkUncounted ==
  /\ tau' = IF arguments.ignore_errors THEN tau ELSE "exit"
  /\ UNCHANGED <<paje, rank_last_time, last_time, untranslated>>

\* Without a key, the receive is counted and skipped, or ends the program.
NoLink ==
  /\ tau' = IF arguments.ignore_errors THEN tau ELSE "exit"
  /\ untranslated' = IF arguments.ignore_errors THEN untranslated + 1 ELSE untranslated
  /\ UNCHANGED <<paje, rank_last_time, last_time>>

\* A key was put by SendMessage, so that the times of both nodes are in the table.
RecvMessage(th, src, message) ==
  LET dst == th[1]
      pair == <<src, dst>>
  IN /\ MessageEvent(th)
     /\ pair \in Pairs
     /\ message \in 1..MaxMessages \ received[pair]
     /\ received' = [received EXCEPT ![pair] = @ \cup {message}]
     /\ orderly' = IF message = Cardinality(received[pair]) + 1 /\ message <= sent[pair]
                   THEN orderly ELSE orderly \ {pair}
     /\ UNCHANGED sent
     /\ IF arguments.no_links THEN NothingPrinted
        ELSE /\ AkyGetKey(<<"n", src, dst>>)
             /\ IF buffer' = NoKey THEN NoLink
                ELSE /\ BothReach(src, dst)
                     /\ paje' = Printed(LinkLine(paje, records', "end", Rank(dst), buffer',
                                                 <<src, dst, message>>))
                     /\ UNCHANGED <<tau, untranslated>>

EndTrace(th) ==
  /\ Record
  /\ Runs(th)
  /\ finished' = finished \cup {th}
  /\ paje' = Printed(DestroyContainer(paje, rank_last_time[th[1]], Rank(th[1])))
  /\ EndOfTrace' = TRUE
  /\ UNCHANGED <<keyVars, untranslated, tau, tauTables,
                 known, told, inside, sent, received, orderly>>

-----------------------------------------------------------------------------
programOnly == <<tauTables, EndOfTrace, untranslated, tauTrace, records, arguments, keyVars>>

TraceEnds ==
  /\ tau = "read" /\ eof = "no"
  /\ eof' \in {"empty", "error"}
  /\ UNCHANGED <<tau, recs_read, paje, programOnly>>

\* Mutant of ReadReturns: the loop goes on until the reader fails.
ReadReturnsUntilFailure ==
  /\ tau = "read"
  /\ recs_read = Batch \/ eof # "no"
  /\ recs_read' = 0
  /\ tau' = IF eof = "error" THEN "leave" ELSE "read"
  /\ UNCHANGED <<eof, paje, programOnly>>

\* Ttf_ReadNumEvents returns: a number of records, or a negative number.
ReadReturns ==
  /\ tau = "read"
  /\ recs_read = Batch \/ eof # "no"
  /\ recs_read' = 0
  /\ tau' = IF EndOfTrace \/ eof = "error" THEN "leave" ELSE "read"
  /\ UNCHANGED <<eof, paje, programOnly>>

\* After the loop.
LeaveMain ==
  /\ tau = "leave"
  /\ tau' = "closed"
  /\ paje' = Printed(DestroyContainer(paje, last_time, Root))
  /\ UNCHANGED <<recs_read, eof, programOnly>>

TauNext ==
  \/ \E th \in Threads : DefThread(th) \/ EndTrace(th)
  \/ \E s \in States : DefState(s)
  \/ \E th \in Threads :
       \/ \E s \in States : EnterState(th, s) \/ LeaveState(th, s)
       \/ EventTrigger(th)
       \/ \E n \in Nodes : SendMessage(th, n)
       \/ \E n \in Nodes, m \in 1..MaxMessages : RecvMessage(th, n, m)
  \/ TraceEnds
  \/ ReadReturns
  \/ LeaveMain

\* The program is one thread, and the reader does not block.
TauFairness == WF_tauVars(TauNext)

TauSpec == TauInit /\ [][TauNext]_tauVars /\ TauFairness

-----------------------------------------------------------------------------
\* Two threads of a node share its container.
SharesNode(th, other) == th # other /\ th[1] = other[1]

\* The states pushed on the container of a node are those that its thread is in,
\* without the ones that are not converted: EnterState and LeaveState look the same
\* names up.  Nodes with two threads are left out, whose states share one stack.
TauStatesMirrored ==
  ~arguments.dummy /\ ~arguments.no_states =>
    \A th \in known :
      \/ \E other \in known : SharesNode(th, other)
      \/ Mirrors(paje.stack[Rank(th[1])], inside[th], state_names)

\* No line is about a container that is not there, is created again, or ends before
\* its last line, except where a node has two threads: DefThread creates the container
\* and forgets the last time for each of them, and the first EndTrace destroys it.
TauRefusedOnlyThreads ==
  RunBy("tau2paje") => \A line \in paje.refused :
    \E th, other \in known : SharesNode(th, other) /\ line[2] = Rank(th[1])

\* What SendMessage and RecvMessage read, print, keep in the key table and count agrees
\* for each pair of nodes, unless the table had no room for the pair: a message sent is
\* a link that has ended or a key that waits, and the receives that end no link are those
\* that total_number_of_links_not_translated has counted.
EndsOf(pair) ==
  {i \in DOMAIN paje.links : /\ paje.links[i].side = "end"
                             /\ <<paje.links[i].about[1], paje.links[i].about[2]>> = pair}
Translated == UNION {EndsOf(pair) : pair \in Pairs}
ReceivedMessages == {r \in Pairs \X (1..MaxMessages) : r[2] \in received[r[1]]}
TauLinksAccounted ==
  ~arguments.dummy /\ ~arguments.no_links /\ tau \notin {"exit", "undefined"} =>
    /\ Cardinality(ReceivedMessages) = Cardinality(Translated) + untranslated
    /\ \A pair \in Pairs : <<"n", pair[1], pair[2]>> \in entered =>
         sent[pair] = Cardinality(EndsOf(pair)) + Len(queue[<<"n", pair[1], pair[2]>>])

\* As long as the messages of a pair are received in order, and none before it was sent
\* ("do you synchronize your input traces?", src/src/tau/tau2paje_handlers.c:255), both
\* ends of a link are about the same message.
TauLinksJoinOneMessage ==
  \A j \in DOMAIN paje.links :
    LET link == paje.links[j]
    IN link.side = "end" /\ <<link.about[1], link.about[2]>> \in orderly =>
         \E i \in 1..(j - 1) :
           /\ paje.links[i].side = "start"
           /\ paje.links[i].key = link.key
           /\ paje.links[i].about = link.about

\* tau2paje keeps the promise of PajeLinks.
KeysOn(side) == {paje.links[i].key : i \in {i \in DOMAIN paje.links : paje.links[i].side = side}}
TauPairing ==
  INSTANCE PajeLinks WITH
    used <- KeysOn("start") \ {NoKey},
    open <- KeysOn("start") \ (KeysOn("end") \cup {NoKey}),
    lines <- Cardinality({i \in DOMAIN paje.links : paje.links[i].key # NoKey})
TauLinksPaired == TauPairing!LinksSpec

\* Once the trace of any thread has ended, the conversion ends, with the records of the
\* call of the reader that is under way: EndOfTrace is looked at between two calls.
TauEnds == EndOfTrace ~> tau \in {"closed", "exit", "undefined"}
=============================================================================
