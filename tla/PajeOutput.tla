----------------------------- MODULE PajeOutput -----------------------------
(***************************************************************************)
(* The Paje trace that tau2paje, otf2paje and otf22paje print through      *)
(* libpoti, which is not in the repository: here a line is printed by an   *)
(* operator from the trace so far to the longer trace.  A trace is kept as *)
(* what a reader of it knows, and as the lines it has to refuse: they are  *)
(* about a container that is not there, or of a type that was not defined. *)
(***************************************************************************)
EXTENDS Integers, Sequences, FiniteSets

CONSTANT Containers   \* the names of containers: a text and a number

VARIABLES
  arguments,   \* the program and its options, which nothing changes
  paje         \* the trace printed so far

World == <<"0", 0>>   \* the container of all others, of the type "0"
Root == <<"root", 0>>

NewTrace ==
  [types |-> {},                                \* container types, each with its parent
   kind |-> [c \in Containers |-> IF c = World THEN "0" ELSE "none"],
   parent |-> [c \in Containers |-> World],
   stack |-> [c \in Containers |-> <<>>],
   latest |-> [c \in Containers |-> 0],         \* the time of the last line about it
   links |-> <<>>,
   refused |-> {}]                              \* why, and the container

Absent(trace, c) == trace.kind[c] \in {"none", "gone"}
Refuse(trace, bad, why, c) ==
  IF bad THEN [trace EXCEPT !.refused = @ \cup {<<why, c>>}] ELSE trace

\* A line at a time about a container, and so about the root too.
At(trace, time, c) ==
  [trace EXCEPT !.latest = [d \in Containers |->
     IF d \in {c, Root} /\ @[d] < time THEN time ELSE @[d]]]

DefineContainerType(trace, type, above) ==
  [trace EXCEPT !.types = @ \cup {<<type, above>>}]

\* All containers are created at time 0 but those of otf2paje.
CreateContainer(trace, time, c, type, above) ==
  LET again == Refuse(trace, trace.kind[c] # "none", "again", c)
      typed == Refuse(again, <<type, trace.kind[above]>> \notin trace.types, "untyped", c)
  IN At([typed EXCEPT !.kind[c] = type, !.parent[c] = above], time, c)

DestroyContainer(trace, time, c) ==
  LET there == Refuse(trace, Absent(trace, c), "absent", c)
      late == Refuse(there, time < trace.latest[c], "early", c)
  IN At([late EXCEPT !.kind[c] = "gone"], time, c)

PushState(trace, time, c, state) ==
  At([Refuse(trace, Absent(trace, c), "absent", c) EXCEPT !.stack[c] = Append(@, state)],
     time, c)

PopState(trace, time, c) ==
  LET there == Refuse(trace, Absent(trace, c) \/ trace.stack[c] = <<>>, "absent", c)
  IN At([there EXCEPT !.stack[c] = SubSeq(@, 1, Len(@) - 1)], time, c)

\* One end of a link; about is the message, which is not printed.
LinkLine(trace, time, side, c, key, about) ==
  At([Refuse(trace, Absent(trace, c), "absent", c) EXCEPT
        !.links = Append(@, [side |-> side, at |-> c, key |-> key, about |-> about])],
     time, c)

\* aky_paje_hierarchy and the creation of the root, in tau2paje and otf2paje.
TraceWithRoot ==
  CreateContainer(
    DefineContainerType(DefineContainerType(NewTrace, "ROOT", "0"), "PROCESS", "ROOT"),
    0, Root, "ROOT", World)

RunBy(program) == arguments.program = program

\* otf22paje creates no root.
OutputInit ==
  paje = IF arguments.dummy \/ RunBy("otf22paje") THEN NewTrace ELSE TraceWithRoot

\* What is printed where --dummy asks for no output.
Printed(trace) == IF arguments.dummy THEN paje ELSE trace

-----------------------------------------------------------------------------
\* Those of a sequence of states that have names are, in their order, the states of a
\* stack: the i-th of the sequence is in the stack above the named ones before it.
Mirrors(stack, states, names) ==
  LET named == {i \in DOMAIN states : states[i] \in names}
  IN /\ Len(stack) = Cardinality(named)
     /\ \A i \in named : stack[Cardinality({j \in named : j <= i})] = states[i]
=============================================================================
