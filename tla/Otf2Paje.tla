------------------------------ MODULE Otf2Paje ------------------------------
(***************************************************************************)
(* otf2paje (src/src/otf): the handlers that the OTF reader calls for the  *)
(* definitions and then for the events, in the order of their times; the   *)
(* time of an event is its number.  The OTF library is external.  A trace  *)
(* begins a process before its events, and may name a process in no        *)
(* definition.  The handlers that are left out return at once: messages,   *)
(* counters, collective operations and all others are not converted.       *)
(***************************************************************************)
EXTENDS PajeOutput, FiniteSets

CONSTANTS
  Processes,
  Functions,
  CollectiveOps,
  NameSlots,       \* how many names process_name_hash holds (1000 asked for)
  MaxNesting,      \* bounds on the trace: functions entered,
  MaxEvents        \* and events

Alias(p) == <<"p", p>>
Value(f) == <<"f", f>>
CollectiveValue(op) == <<"c", op>>

ASSUME OtfAssumption ==
  /\ {Root, World} \cup {Alias(p) : p \in Processes} \subseteq Containers
  /\ {NameSlots, MaxNesting, MaxEvents} \subseteq Nat

VARIABLES
  otf,            \* definitions, events (what the reader reads), closed
  process_names,  \* the processes in process_name_hash
  values,         \* the entity values printed
  otf_last_time,  \* last_time
  functions,      \* the trace: the functions defined,
  begun,          \* the processes that have begun,
  over,           \* those that have ended,
  entered_in,     \* the functions that each process is in,
  events          \* and how many events there were

otfTables == <<process_names, values, otf_last_time>>
otfTrace == <<functions, begun, over, entered_in, events>>
otfVars == <<otf, otfTables, otfTrace, arguments, paje>>

OtfStart ==
  /\ otf = "definitions"
  /\ process_names = {}
  /\ values = {}
  /\ otf_last_time = 0
  /\ functions = {} /\ begun = {} /\ over = {} /\ events = 0
  /\ entered_in = [p \in Processes |-> <<>>]

OtfInit == OtfStart /\ OutputInit

-----------------------------------------------------------------------------
OtfDefinition ==
  /\ otf = "definitions"
  /\ UNCHANGED <<otf, otf_last_time, begun, over, entered_in, events, arguments, paje>>

\* data_def: the first name of a process stays; ENTER fails when there is no slot.
DefProcess(p) ==
  /\ OtfDefinition
  /\ process_names' = IF Cardinality(process_names) >= NameSlots THEN process_names
                      ELSE process_names \cup {p}
  /\ UNCHANGED <<values, functions>>

DefineEntityValue(value) ==
  values' = IF arguments.dummy \/ arguments.no_states THEN values ELSE values \cup {value}

\* Mutant of DefFunction: the alias is the one of a collective operation.
DefFunctionAsCollective(f) ==
  /\ OtfDefinition
  /\ functions' = functions \cup {f}
  /\ DefineEntityValue(CollectiveValue(f))
  /\ UNCHANGED process_names

DefFunction(f) ==
  /\ OtfDefinition
  /\ functions' = functions \cup {f}
  /\ DefineEntityValue(Value(f))
  /\ UNCHANGED process_names

DefCollectiveOperation(op) ==
  /\ OtfDefinition
  /\ DefineEntityValue(CollectiveValue(op))
  /\ UNCHANGED <<process_names, functions>>

DefinitionsRead ==
  /\ otf = "definitions"
  /\ otf' = "events"
  /\ UNCHANGED <<otfTables, otfTrace, arguments, paje>>

\* An event is printed at its time, which ticks_to_seconds keeps as last_time; what is
\* not printed leaves last_time alone.
OtfEvent ==
  /\ otf = "events"
  /\ events < MaxEvents
  /\ events' = events + 1
  /\ UNCHANGED <<otf, process_names, values, functions, arguments>>

PrintedAtLast(prints, trace) ==
  IF prints /\ ~arguments.dummy
  THEN paje' = trace /\ otf_last_time' = events'
  ELSE UNCHANGED <<paje, otf_last_time>>

\* A process without a name gets no container.
BeginProcess(p) ==
  /\ OtfEvent
  /\ p \notin begun
  /\ begun' = begun \cup {p}
  /\ PrintedAtLast(p \in process_names,
                   CreateContainer(paje, events', Alias(p), "PROCESS", Root))
  /\ UNCHANGED <<over, entered_in>>

Enter(p, f) ==
  /\ OtfEvent
  /\ p \in begun \ over /\ f \in functions /\ Len(entered_in[p]) < MaxNesting
  /\ entered_in' = [entered_in EXCEPT ![p] = Append(@, f)]
  /\ PrintedAtLast(~arguments.no_states, PushState(paje, events', Alias(p), Value(f)))
  /\ UNCHANGED <<begun, over>>

\* Mutant of Leave: states are popped though none was pushed.
LeaveRegardless(p) ==
  /\ OtfEvent
  /\ p \in begun \ over /\ entered_in[p] # <<>>
  /\ entered_in' = [entered_in EXCEPT ![p] = SubSeq(@, 1, Len(@) - 1)]
  /\ PrintedAtLast(TRUE, PopState(paje, events', Alias(p)))
  /\ UNCHANGED <<begun, over>>

\* The state on top is popped: the function of the event is not looked at.
Leave(p) ==
  /\ OtfEvent
  /\ p \in begun \ over /\ entered_in[p] # <<>>
  /\ entered_in' = [entered_in EXCEPT ![p] = SubSeq(@, 1, Len(@) - 1)]
  /\ PrintedAtLast(~arguments.no_states, PopState(paje, events', Alias(p)))
  /\ UNCHANGED <<begun, over>>

EndProcess(p) ==
  /\ OtfEvent
  /\ p \in begun \ over
  /\ over' = over \cup {p}
  /\ PrintedAtLast(p \in process_names, DestroyContainer(paje, events', Alias(p)))
  /\ UNCHANGED <<begun, entered_in>>

\* After the reader: the root ends at the time of the last event printed.
OtfClose ==
  /\ otf = "events"
  /\ otf' = "closed"
  /\ paje' = Printed(DestroyContainer(paje, otf_last_time, Root))
  /\ UNCHANGED <<otfTables, otfTrace, arguments>>

OtfNext ==
  \/ \E p \in Processes : DefProcess(p)
  \/ \E f \in Functions : DefFunction(f)
  \/ \E op \in CollectiveOps : DefCollectiveOperation(op)
  \/ DefinitionsRead
  \/ \E p \in Processes :
       \/ BeginProcess(p)
       \/ \E f \in Functions : Enter(p, f)
       \/ Leave(p)
       \/ EndProcess(p)
  \/ OtfClose

OtfSpec == OtfInit /\ [][OtfNext]_otfVars

-----------------------------------------------------------------------------
\* The states on the container of a process are the functions it is in: what Enter
\* pushed is what Leave pops, also where the process has no container; and each was
\* given a name by DefFunction, under the alias that Enter makes up anew.
OtfStatesMirrored ==
  ~arguments.dummy =>
    \A p \in Processes :
      /\ paje.stack[Alias(p)] = IF arguments.no_states THEN <<>>
                                ELSE [i \in DOMAIN entered_in[p] |-> Value(entered_in[p][i])]
      /\ \A i \in DOMAIN paje.stack[Alias(p)] : paje.stack[Alias(p)][i] \in values

\* All lines are about containers that are there, and none ends before its last line,
\* but for the states of the processes without a name: BeginProcess looks the name up,
\* Enter and Leave do not.
OtfRefusedOnlyUnnamed ==
  RunBy("otf2paje") => \A line \in paje.refused :
    \E p \in Processes \ process_names : line = <<"absent", Alias(p)>>
=============================================================================
