---------------------------- MODULE Tau2PajeProofs ----------------------------
(***************************************************************************)
(* What tau2paje prints of any TAU trace, with any number of nodes, states *)
(* and messages, and any room in its two tables.                           *)
(***************************************************************************)
EXTENDS Tau2Paje, AkyKeysProofs, OtfProofs

MessageName(pair) == <<"n", pair[1], pair[2]>>
TauLink ==
  [side : {"start", "end"}, at : Containers, key : Key \cup {NoKey},
   about : Nodes \X Nodes \X Nat]

TauTypeOK ==
  /\ arguments \in CommandLines /\ RunBy("tau2paje")
  /\ tau \in {"read", "leave", "closed", "exit", "undefined"}
  /\ paje \in TraceOf(States, TauLink)
  /\ known \subseteq Threads /\ finished \subseteq known
  /\ told \subseteq States /\ state_names \subseteq told
  /\ inside \in [Threads -> Seq(States)]
  /\ rank_last_time \in [Nodes -> Nat] /\ last_time \in Nat
  /\ records \in Nat /\ untranslated \in Nat
  /\ sent \in [Pairs -> Nat] /\ received \in [Pairs -> SUBSET (1..MaxMessages)]
  /\ orderly \subseteq Pairs

Unknown(n) == \A th \in known : th[1] # n
Shared(th) == \E other \in known : SharesNode(th, other)

\* A state is entered after it was defined, and so after it was given a name or none.
InsideTold ==
  \A th \in Threads :
    /\ th \notin known => inside[th] = <<>>
    /\ \A i \in 1..Len(inside[th]) : inside[th][i] \in told

\* The stack of a node of one thread, and of one without threads yet.
StacksMirror ==
  Prints /\ ~arguments.no_states =>
    /\ \A th \in known :
         Shared(th) \/ Mirrors(paje.stack[Rank(th[1])], inside[th], state_names)
    /\ \A n \in Nodes : Unknown(n) => paje.stack[Rank(n)] = <<>>

\* The container of a node is created with its first thread, and lives while that is the
\* only one and runs.
NodesLive ==
  Prints =>
    /\ \A n \in Nodes : Unknown(n) => paje.kind[Rank(n)] = "none" /\ paje.latest[Rank(n)] = 0
    /\ \A th \in known \ finished :
         \/ Shared(th)
         \/ /\ paje.kind[Rank(th[1])] = "PROCESS"
            /\ paje.latest[Rank(th[1])] <= rank_last_time[th[1]]

RootLives ==
  Prints =>
    /\ <<"PROCESS", "ROOT">> \in paje.types
    /\ tau # "closed" => paje.kind[Root] = "ROOT"
    /\ paje.latest[Root] <= last_time
TimesOrdered == last_time <= records /\ \A n \in Nodes : rank_last_time[n] <= last_time

\* The links printed.  A key that waits in the table was started and has not ended, and
\* the next key is new to all lines.
LinkAt(i) == paje.links[i]
OnLine(side, key) == \E i \in DOMAIN paje.links : LinkAt(i).side = side /\ LinkAt(i).key = key
KeysOld ==
  \A i \in DOMAIN paje.links : LinkAt(i).key # NoKey => LinkAt(i).key[3] < counter
WaitingOpen ==
  Prints => \A nm \in Names : \A i \in 1..Len(queue[nm]) :
    OnLine("start", queue[nm][i]) /\ ~OnLine("end", queue[nm][i])

\* The counts of TauLinksAccounted: a pair that is not in the table has sent nothing, or
\* the table is full for good.
Counts == Prints /\ ~arguments.no_links /\ tau \notin {"exit", "undefined"}
PairsCounted ==
  Counts => \A pair \in Pairs :
    IF MessageName(pair) \in entered
    THEN sent[pair] = Cardinality(EndsOf(pair)) + Len(queue[MessageName(pair)])
    ELSE EndsOf(pair) = {} /\ (sent[pair] = 0 \/ Cardinality(entered) >= TableSize)
ReceivesCounted ==
  /\ IsFiniteSet(ReceivedMessages)
  /\ Counts => Cardinality(ReceivedMessages) = Cardinality(Translated) + untranslated

\* The messages of an orderly pair wait in their order.
OrderlyBehind == \A pair \in orderly : Cardinality(received[pair]) <= sent[pair]
WaitInOrder(pair) ==
  LET waiting == queue[MessageName(pair)]
      done == Cardinality(received[pair])
  IN /\ sent[pair] = done + Len(waiting)
     /\ \A i \in 1..Len(waiting) :
          \E l \in DOMAIN paje.links :
            /\ LinkAt(l).side = "start" /\ LinkAt(l).key = waiting[i]
            /\ LinkAt(l).about = <<pair[1], pair[2], done + i>>
OrderlyWait ==
  Counts => \A pair \in orderly : MessageName(pair) \in entered => WaitInOrder(pair)

\* The inductive invariant.
TauInv ==
  /\ TauTypeOK
  /\ InsideTold /\ StacksMirror
  /\ NodesLive /\ RootLives /\ TimesOrdered /\ TauRefusedOnlyThreads
  /\ KeysInv /\ KeysOld /\ WaitingOpen
  /\ PairsCounted /\ ReceivesCounted
  /\ OrderlyBehind /\ OrderlyWait /\ TauLinksJoinOneMessage

-----------------------------------------------------------------------------
(***************************************************************************)
(* Nodes: their containers, and the times of the lines about them.         *)
(***************************************************************************)
StatesInv == InsideTold /\ StacksMirror
NodesInv == NodesLive /\ RootLives /\ TimesOrdered /\ TauRefusedOnlyThreads
TableInv == KeysInv /\ KeysOld /\ WaitingOpen
CountsInv ==
  PairsCounted /\ ReceivesCounted /\ OrderlyBehind /\ OrderlyWait /\ TauLinksJoinOneMessage

\* Nodes have containers of their own, and pairs of nodes names.
LEMMA NodeContainers ==
  /\ \A n \in Nodes : Rank(n) \in Containers /\ Rank(n) \notin {Root, World}
  /\ \A m, n \in Nodes : Rank(m) = Rank(n) => m = n
  /\ Root \in Containers /\ World \in Containers
  /\ \A th \in Threads : th[1] \in Nodes
  /\ \A pair \in Pairs : /\ MessageName(pair) \in Names
                         /\ pair[1] \in Nodes /\ pair[2] \in Nodes /\ pair = <<pair[1], pair[2]>>
  /\ \A a, b \in Pairs : MessageName(a) = MessageName(b) => a = b
<1>1. \A n \in Nodes : Rank(n) \in Containers /\ Rank(n) \notin {Root, World}
  BY TauAssumption DEF Rank, Root, World
<1>2. \A m, n \in Nodes : Rank(m) = Rank(n) => m = n
  BY DEF Rank
<1>3. Root \in Containers /\ World \in Containers
  BY TauAssumption
<1>4. \A th \in Threads : th[1] \in Nodes
  BY DEF Nodes
<1>5. \A pair \in Pairs : /\ MessageName(pair) \in Names
                         /\ pair[1] \in Nodes /\ pair[2] \in Nodes /\ pair = <<pair[1], pair[2]>>
  BY TauAssumption DEF Pairs, MessageName, Names
<1>6. \A a, b \in Pairs : MessageName(a) = MessageName(b) => a = b
  BY <1>5 DEF MessageName
<1> QED
  BY <1>1, <1>2, <1>3, <1>4, <1>5, <1>6

\* Sharing a node is for good.
LEMMA SharedStays ==
  ASSUME known \subseteq known'
  PROVE  \A th : Shared(th) => Shared(th)'
BY DEF Shared, SharesNode

\* A line about the container of a running thread, at the time of its event.
LineAbout(th) ==
  /\ Prints
  /\ paje'.types = paje.types /\ paje'.kind = paje.kind
  /\ \A line \in paje'.refused \ paje.refused :
       line = <<"absent", Rank(th[1])>> /\ (Absent(paje, Rank(th[1])) \/ Shared(th))
  /\ Dated(paje, paje', records', Rank(th[1]))

NodesKept == UNCHANGED <<known, finished, arguments>> /\ tau # "closed" /\ tau' # "closed"

LEMMA EventKeepsNodes ==
  ASSUME TauTypeOK, TauTypeOK', NodesInv, NodesKept, NEW th \in known \ finished,
         records' = records + 1, last_time' = records',
         rank_last_time'[th[1]] = records',
         \A n \in Nodes : rank_last_time'[n] \in {rank_last_time[n], records'},
         paje' = paje \/ LineAbout(th)
  PROVE  NodesInv'
<1> DEFINE m == th[1]
<1>1. th \in known /\ th \in Threads /\ m \in Nodes /\ Rank(m) \in Containers /\ Rank(m) # Root
      /\ Root \in Containers
  BY NodeContainers DEF TauTypeOK
<1>2. /\ records \in Nat /\ records' \in Nat /\ last_time \in Nat
      /\ \A n \in Nodes : rank_last_time[n] \in Nat
      /\ \A c \in Containers : paje.latest[c] \in Nat
  BY DEF TauTypeOK, TraceOf
<1>3. last_time <= records /\ \A n \in Nodes : rank_last_time[n] <= last_time
  BY DEF NodesInv, TimesOrdered
<1>4. TimesOrdered'
  BY <1>2, <1>3 DEF TimesOrdered
<1>5. /\ paje'.types = paje.types /\ paje'.kind = paje.kind
      /\ \A c \in Containers \ {Rank(m), Root} : paje'.latest[c] = paje.latest[c]
      /\ \A c \in Containers : paje'.latest[c] \in {paje.latest[c], records'}
  BY DEF LineAbout, Dated
<1>6. RootLives'
  BY <1>1, <1>2, <1>3, <1>5 DEF NodesInv, RootLives, Prints, NodesKept
<1>7. NodesLive'
  <2> SUFFICES ASSUME Prints
               PROVE  /\ \A n \in Nodes :
                           Unknown(n) => paje'.kind[Rank(n)] = "none" /\ paje'.latest[Rank(n)] = 0
                      /\ \A t \in known \ finished :
                           \/ Shared(t)
                           \/ /\ paje'.kind[Rank(t[1])] = "PROCESS"
                              /\ paje'.latest[Rank(t[1])] <= rank_last_time'[t[1]]
    BY DEF NodesLive, Prints, NodesKept, Unknown, Shared
  <2>1. ASSUME NEW n \in Nodes, Unknown(n)
        PROVE  paje'.kind[Rank(n)] = "none" /\ paje'.latest[Rank(n)] = 0
    <3>1. n # m /\ Rank(n) \in Containers \ {Rank(m), Root}
      BY <1>1, <2>1, NodeContainers DEF Unknown
    <3>2. paje.kind[Rank(n)] = "none" /\ paje.latest[Rank(n)] = 0
      BY <2>1 DEF NodesInv, NodesLive
    <3> QED
      BY <1>5, <3>1, <3>2
  <2>2. ASSUME NEW t \in known \ finished, ~Shared(t)
        PROVE  /\ paje'.kind[Rank(t[1])] = "PROCESS"
               /\ paje'.latest[Rank(t[1])] <= rank_last_time'[t[1]]
    <3>1. paje.kind[Rank(t[1])] = "PROCESS" /\ paje.latest[Rank(t[1])] <= rank_last_time[t[1]]
      BY <2>2 DEF NodesInv, NodesLive
    <3>2. t \in Threads /\ t[1] \in Nodes /\ Rank(t[1]) \in Containers /\ Rank(t[1]) # Root
      BY NodeContainers DEF TauTypeOK
    <3>3. CASE t[1] = m
      <4>1. paje.latest[Rank(m)] <= records'
        BY <1>1, <1>2, <1>3, <3>1, <3>3
      <4> QED
        BY <1>1, <1>2, <1>5, <3>1, <3>3, <4>1
    <3>4. CASE t[1] # m
      <4>1. Rank(t[1]) # Rank(m)
        BY <1>1, <3>2, <3>4, NodeContainers
      <4>2. rank_last_time[t[1]] <= rank_last_time'[t[1]]
        BY <1>2, <1>3, <3>2
      <4>3. /\ paje'.latest[Rank(t[1])] = paje.latest[Rank(t[1])]
            /\ paje.latest[Rank(t[1])] \in Nat /\ rank_last_time[t[1]] \in Nat
            /\ rank_last_time'[t[1]] \in Nat
        BY <1>2, <1>5, <3>2, <4>1
      <4> QED
        BY <1>5, <3>1, <4>2, <4>3
    <3> QED
      BY <3>3, <3>4
  <2> QED
    BY <2>1, <2>2
<1>8. TauRefusedOnlyThreads'
  <2> SUFFICES ASSUME NEW line \in paje'.refused
               PROVE  \E t, other \in known : SharesNode(t, other) /\ line[2] = Rank(t[1])
    BY DEF TauRefusedOnlyThreads, NodesKept
  <2>1. CASE line \in paje.refused
    BY <2>1 DEF NodesInv, TauRefusedOnlyThreads, TauTypeOK
  <2>2. CASE line \notin paje.refused
    <3>1. line = <<"absent", Rank(m)>> /\ (Absent(paje, Rank(m)) \/ Shared(th)) /\ Prints
      BY <2>2 DEF LineAbout
    <3>2. Shared(th)
      BY <3>1 DEF NodesInv, NodesLive, Absent
    <3> QED
      BY <1>1, <3>1, <3>2 DEF Shared
  <2> QED
    BY <2>1, <2>2
<1> QED
  BY <1>4, <1>6, <1>7, <1>8 DEF NodesInv

\* An event that is about no container, or about one that nothing is printed of.
LEMMA SilentKeepsNodes ==
  ASSUME TauTypeOK, NodesInv, NodesKept, records' \in {records, records + 1},
         UNCHANGED <<paje, rank_last_time, last_time>>
  PROVE  NodesInv'
<1>1. TimesOrdered'
  BY DEF NodesInv, TimesOrdered, TauTypeOK
<1>2. NodesLive' /\ RootLives' /\ TauRefusedOnlyThreads'
  BY DEF NodesInv, NodesLive, RootLives, TauRefusedOnlyThreads, NodesKept, Prints, Unknown, Shared,
         RunBy
<1> QED
  BY <1>1, <1>2 DEF NodesInv

-----------------------------------------------------------------------------
(***************************************************************************)
(* The actions.  What does not reach the links, and what does not reach    *)
(* the states.                                                             *)
(***************************************************************************)
LinksKept ==
  /\ UNCHANGED <<keyVars, sent, received, orderly, untranslated, arguments>>
  /\ paje'.links = paje.links
  /\ tau \notin {"exit", "undefined"}

LEMMA LinksKeptInv ==
  ASSUME TableInv, CountsInv, LinksKept
  PROVE  TableInv' /\ CountsInv'
<1> USE DEF LinksKept, keyVars
<1>1. KeysInv'
  BY DEF TableInv, KeysInv, KeysTypeOK, KeysBelong, QueuesOrdered, KeysUnique, TableBounded
<1>2. KeysOld' /\ WaitingOpen'
  BY DEF TableInv, KeysOld, WaitingOpen, OnLine, LinkAt, Prints
<1>3. \A pair : EndsOf(pair)' = EndsOf(pair)
  BY DEF EndsOf
<1>4. Translated' = Translated /\ ReceivedMessages' = ReceivedMessages
  BY <1>3 DEF Translated, ReceivedMessages
<1>5. Counts' => Counts
  BY DEF Counts, Prints
<1>6. PairsCounted' /\ ReceivesCounted' /\ OrderlyBehind'
  BY <1>3, <1>4, <1>5 DEF CountsInv, PairsCounted, ReceivesCounted, OrderlyBehind
<1>7. OrderlyWait'
  <2>1. \A pair : WaitInOrder(pair) => WaitInOrder(pair)'
    BY DEF WaitInOrder, LinkAt
  <2> QED
    BY <1>5, <2>1 DEF CountsInv, OrderlyWait
<1>8. TauLinksJoinOneMessage'
  BY DEF CountsInv, TauLinksJoinOneMessage
<1> QED
  BY <1>1, <1>2, <1>6, <1>7, <1>8 DEF TableInv, CountsInv

LEMMA StatesKeptInv ==
  ASSUME StatesInv, UNCHANGED <<known, told, inside, state_names, arguments>>,
         paje'.stack = paje.stack
  PROVE  StatesInv'
BY DEF StatesInv, InsideTold, StacksMirror, Prints, Unknown, Shared

\* What a record of the trace has in common.
LEMMA RecordShape ==
  ASSUME TauTypeOK, Record
  PROVE  /\ tau = "read" /\ records' = records + 1 /\ records' \in Nat
         /\ UNCHANGED <<eof, arguments>>
BY DEF Record, TauTypeOK

TauKeeps ==
  TauTypeOK' /\ StatesInv' /\ NodesInv' /\ TableInv' /\ CountsInv'
TauNow ==
  TauTypeOK /\ StatesInv /\ NodesInv /\ TableInv /\ CountsInv

LEMMA TauInvParts ==
  (TauInv <=> TauNow) /\ (TauInv' <=> TauKeeps)
BY DEF TauInv, TauNow, TauKeeps, StatesInv, NodesInv, TableInv, CountsInv

\* The reader and the loop: nothing is printed but the end of the root.
LEMMA ReaderKeeps ==
  ASSUME TauNow, TraceEnds \/ ReadReturns
  PROVE  TauKeeps
<1>1. /\ UNCHANGED <<paje, programOnly>>
      /\ tau = "read" /\ tau' \in {"read", "leave"}
  BY DEF TraceEnds, ReadReturns
<1>2. /\ UNCHANGED <<state_names, total_number_of_ranks, rank_last_time, last_time>>
      /\ UNCHANGED <<known, finished, told, inside, sent, received, orderly>>
      /\ UNCHANGED <<EndOfTrace, untranslated, records, arguments, keyVars>>
  BY <1>1 DEF programOnly, tauTables, tauTrace
<1>3. TauTypeOK'
  BY <1>1, <1>2 DEF TauNow, TauTypeOK, RunBy
<1>4. NodesInv'
  BY <1>1, <1>2, SilentKeepsNodes DEF TauNow, NodesKept
<1>5. TableInv' /\ CountsInv'
  BY <1>1, <1>2, LinksKeptInv DEF TauNow, LinksKept
<1>6. StatesInv'
  BY <1>1, <1>2, StatesKeptInv DEF TauNow
<1> QED
  BY <1>3, <1>4, <1>5, <1>6 DEF TauKeeps

LEMMA EventTriggerKeeps ==
  ASSUME TauNow, NEW th \in Threads, EventTrigger(th)
  PROVE  TauKeeps
<1>1. Record /\ StateEvent /\ Runs(th) /\ Reached(th[1]) /\ UNCHANGED <<paje, inside>>
  BY DEF EventTrigger, StateEvent
<1>2. /\ tau = "read" /\ tau' = tau /\ records' = records + 1 /\ records' \in Nat
      /\ UNCHANGED <<arguments, keyVars, untranslated, state_names, known, finished, told, sent,
                     received, orderly>>
  BY <1>1, RecordShape DEF StateEvent, TauNow
<1>3. /\ rank_last_time' = [rank_last_time EXCEPT ![th[1]] = records'] /\ last_time' = records'
      /\ th \in known \ finished
  BY <1>1 DEF Reached, Runs
<1>4. TauTypeOK'
  BY <1>1, <1>2, <1>3 DEF TauNow, TauTypeOK, RunBy
<1>5. NodesInv'
  BY <1>1, <1>2, <1>3, <1>4, NodeContainers, EventKeepsNodes DEF TauNow, NodesKept, TauTypeOK
<1>6. TableInv' /\ CountsInv'
  BY <1>1, <1>2, LinksKeptInv DEF TauNow, LinksKept
<1>7. StatesInv'
  BY <1>1, <1>2, StatesKeptInv DEF TauNow
<1> QED
  BY <1>4, <1>5, <1>6, <1>7 DEF TauKeeps

\* A state gets its name, or none, before a thread is in it.
LEMMA DefStateKeeps ==
  ASSUME TauNow, NEW s \in States, DefState(s)
  PROVE  TauKeeps
<1>1. /\ Definition /\ s \notin told /\ told' = told \cup {s}
      /\ state_names' \in {state_names, state_names \cup {s}}
      /\ UNCHANGED <<paje, total_number_of_ranks, rank_last_time,
                     known, finished, inside, sent, received, orderly>>
  BY DEF DefState
<1>2. tau = "read" /\ tau' = tau
      /\ UNCHANGED <<records, arguments, keyVars, untranslated, last_time>>
  BY <1>1 DEF Definition
<1>3. TauTypeOK'
  BY <1>1, <1>2 DEF TauNow, TauTypeOK, RunBy
<1>4. NodesInv'
  BY <1>1, <1>2, SilentKeepsNodes DEF TauNow, NodesKept
<1>5. TableInv' /\ CountsInv'
  BY <1>1, <1>2, LinksKeptInv DEF TauNow, LinksKept
<1>6. InsideTold'
  BY <1>1 DEF TauNow, StatesInv, InsideTold
<1>7. StacksMirror'
  <2>1. ASSUME NEW th \in known, Mirrors(paje.stack[Rank(th[1])], inside[th], state_names)
        PROVE  Mirrors(paje.stack[Rank(th[1])], inside[th], state_names')
    <3>1. inside[th] \in Seq(States)
      BY DEF TauNow, TauTypeOK
    <3>2. \A i \in 1..Len(inside[th]) : inside[th][i] \in state_names <=> inside[th][i] \in state_names'
      BY <1>1 DEF TauNow, StatesInv, InsideTold, TauTypeOK
    <3> QED
      BY <2>1, <3>1, <3>2, MirrorsNames
  <2> QED
    BY <1>1, <1>2, <2>1 DEF TauNow, StatesInv, StacksMirror, Prints, Unknown, Shared
<1> QED
  BY <1>3, <1>4, <1>5, <1>6, <1>7 DEF TauKeeps, StatesInv

\* What the two events of a state have in common, but for the stacks.
StateKept(th) ==
  /\ Prints /\ ~arguments.no_states
  /\ LineAbout(th) /\ paje'.links = paje.links
  /\ paje' \in TraceOf(States, TauLink)

LEMMA StateEventKeeps ==
  ASSUME TauNow, NEW th \in known \ finished, StateEvent,
         inside' \in [Threads -> Seq(States)],
         \/ UNCHANGED <<paje, rank_last_time, last_time>>
         \/ Reached(th[1]) /\ (paje' = paje \/ StateKept(th))
  PROVE  TauTypeOK' /\ NodesInv' /\ TableInv' /\ CountsInv'
<1>1. /\ tau = "read" /\ tau' = tau /\ records' = records + 1 /\ records' \in Nat
      /\ UNCHANGED <<arguments, keyVars, untranslated, state_names, known, finished, told, sent,
                     received, orderly>>
  BY RecordShape DEF StateEvent, TauNow
<1>2. paje' \in TraceOf(States, TauLink) /\ paje'.links = paje.links
  BY DEF StateKept, TauNow, TauTypeOK
<1>3. TauTypeOK'
  BY <1>1, <1>2 DEF TauNow, TauTypeOK, RunBy, Reached
<1>4. NodesInv'
  <2>1. CASE UNCHANGED <<paje, rank_last_time, last_time>>
    BY <1>1, <2>1, SilentKeepsNodes DEF TauNow, NodesKept
  <2>2. CASE Reached(th[1]) /\ (paje' = paje \/ StateKept(th))
    <3>1. last_time' = records' /\ rank_last_time' = [rank_last_time EXCEPT ![th[1]] = records']
      BY <2>2 DEF Reached
    <3>2. /\ rank_last_time'[th[1]] = records'
          /\ \A n \in Nodes : rank_last_time'[n] \in {rank_last_time[n], records'}
      BY <3>1, NodeContainers DEF TauNow, TauTypeOK
    <3> QED
      BY <1>1, <1>3, <2>2, <3>1, <3>2, EventKeepsNodes DEF TauNow, NodesKept, StateKept
  <2> QED
    BY <2>1, <2>2
<1>5. TableInv' /\ CountsInv'
  BY <1>1, <1>2, LinksKeptInv DEF TauNow, LinksKept
<1> QED
  BY <1>3, <1>4, <1>5

\* Of a thread alone on its node, the stack changes as what it is in.
LEMMA StackFollows ==
  ASSUME TauNow, NEW th \in known \ finished, StateEvent,
         inside' \in [Threads -> Seq(States)],
         \A t \in Threads \ {th} : inside'[t] = inside[t],
         \A i \in 1..Len(inside'[th]) : inside'[th][i] \in told,
         Prints /\ ~arguments.no_states =>
           /\ \A c \in Containers \ {Rank(th[1])} : paje'.stack[c] = paje.stack[c]
           /\ ~Shared(th) => Mirrors(paje'.stack[Rank(th[1])], inside'[th], state_names)
  PROVE  StatesInv'
<1>1. UNCHANGED <<arguments, state_names, known, told>>
  BY DEF StateEvent, Record
<1>2. th \in Threads
  BY DEF TauNow, TauTypeOK
<1>3. InsideTold'
  BY <1>1, <1>2 DEF TauNow, StatesInv, InsideTold
<1>4. StacksMirror'
  <2> SUFFICES ASSUME Prints, ~arguments.no_states
               PROVE  /\ \A t \in known :
                           Shared(t) \/ Mirrors(paje'.stack[Rank(t[1])], inside'[t], state_names)
                      /\ \A n \in Nodes : Unknown(n) => paje'.stack[Rank(n)] = <<>>
    BY <1>1 DEF StacksMirror, Prints, Unknown, Shared
  <2>1. ASSUME NEW t \in known, ~Shared(t)
        PROVE  Mirrors(paje'.stack[Rank(t[1])], inside'[t], state_names)
    <3>1. CASE t = th
      BY <2>1, <3>1
    <3>2. CASE t # th
      <4>1. t[1] # th[1] /\ t \in Threads
        BY <2>1, <3>2 DEF Shared, SharesNode, TauNow, TauTypeOK
      <4>2. Rank(t[1]) \in Containers \ {Rank(th[1])}
        BY <1>2, <4>1, NodeContainers
      <4>3. Mirrors(paje.stack[Rank(t[1])], inside[t], state_names)
        BY <2>1 DEF TauNow, StatesInv, StacksMirror
      <4> QED
        BY <3>2, <4>1, <4>2, <4>3
    <3> QED
      BY <3>1, <3>2
  <2>2. ASSUME NEW n \in Nodes, Unknown(n)
        PROVE  paje'.stack[Rank(n)] = <<>>
    <3>1. n # th[1] /\ th[1] \in Nodes
      BY <1>2, <2>2, NodeContainers DEF Unknown
    <3>2. Rank(n) \in Containers \ {Rank(th[1])}
      BY <3>1, NodeContainers
    <3>3. paje.stack[Rank(n)] = <<>>
      BY <2>2 DEF TauNow, StatesInv, StacksMirror
    <3> QED
      BY <3>2, <3>3
  <2> QED
    BY <2>1, <2>2
<1> QED
  BY <1>3, <1>4 DEF StatesInv

\* Where nothing is printed of states, the stacks are said nothing about.
LEMMA EnterStateKeeps ==
  ASSUME TauNow, NEW th \in Threads, NEW s \in States, EnterState(th, s)
  PROVE  TauKeeps
<1> DEFINE c == Rank(th[1])
<1>1. /\ StateEvent /\ th \in known \ finished /\ s \in told
      /\ inside' = [inside EXCEPT ![th] = Append(@, s)]
  BY DEF EnterState, Runs
<1>2. /\ inside \in [Threads -> Seq(States)] /\ inside[th] \in Seq(States)
      /\ paje \in TraceOf(States, TauLink)
      /\ c \in Containers /\ records' \in Nat
  BY <1>1, RecordShape, NodeContainers DEF TauNow, TauTypeOK, StateEvent
<1>3. inside' \in [Threads -> Seq(States)] /\ inside'[th] = Append(inside[th], s)
      /\ \A t \in Threads \ {th} : inside'[t] = inside[t]
  BY <1>1, <1>2
<1>4. \A i \in 1..Len(inside'[th]) : inside'[th][i] \in told
  <2>1. \A i \in 1..Len(inside[th]) : inside[th][i] \in told
    BY DEF TauNow, StatesInv, InsideTold
  <2> QED
    BY <1>1, <1>2, <1>3, <2>1
<1>5. ASSUME Prints, ~arguments.no_states, ~Shared(th)
      PROVE  Mirrors(paje.stack[c], inside[th], state_names)
  BY <1>1, <1>5 DEF TauNow, StatesInv, StacksMirror
<1> HIDE DEF c
<1>6. CASE s \notin state_names
  <2>1. UNCHANGED <<paje, rank_last_time, last_time>>
    BY <1>6 DEF EnterState
  <2>2. TauTypeOK' /\ NodesInv' /\ TableInv' /\ CountsInv'
    BY <1>1, <1>3, <2>1, StateEventKeeps
  <2>3. ASSUME Prints, ~arguments.no_states, ~Shared(th)
        PROVE  Mirrors(paje'.stack[c], inside'[th], state_names)
    BY <1>2, <1>3, <1>5, <1>6, <2>1, <2>3, MirrorsUnnamed
  <2>4. StatesInv'
    BY <1>1, <1>3, <1>4, <2>1, <2>3, StackFollows DEF c
  <2> QED
    BY <2>2, <2>4 DEF TauKeeps
<1>7. CASE s \in state_names /\ (arguments.no_states \/ ~Prints)
  <2>1. paje' = paje /\ Reached(th[1])
    BY <1>7 DEF EnterState, Printed, Prints
  <2>2. TauTypeOK' /\ NodesInv' /\ TableInv' /\ CountsInv'
    BY <1>1, <1>3, <2>1, StateEventKeeps
  <2>3. StatesInv'
    BY <1>1, <1>3, <1>4, <1>7, StackFollows
  <2> QED
    BY <2>2, <2>3 DEF TauKeeps
<1>8. CASE s \in state_names /\ ~arguments.no_states /\ Prints
  <2>1. paje' = PushState(paje, records', c, s) /\ Reached(th[1])
    BY <1>8 DEF EnterState, Printed, Prints, c
  <2>2. Pushes(States, TauLink, paje, paje', records', c, s)
    BY <1>2, <2>1, PushShape
  <2>3. StateKept(th)
    BY <1>8, <2>2 DEF Pushes, StateKept, LineAbout, Refusals, c
  <2>4. TauTypeOK' /\ NodesInv' /\ TableInv' /\ CountsInv'
    BY <1>1, <1>3, <2>1, <2>3, StateEventKeeps
  <2>5. paje.stack[c] \in Seq(States) /\ DOMAIN paje.stack = Containers
    BY <1>2 DEF TraceOf
  <2>6. /\ paje'.stack[c] = Append(paje.stack[c], s)
        /\ \A d \in Containers \ {c} : paje'.stack[d] = paje.stack[d]
    BY <1>2, <2>2, <2>5 DEF Pushes
  <2>7. ASSUME ~Shared(th)
        PROVE  Mirrors(paje'.stack[c], inside'[th], state_names)
    BY <1>2, <1>3, <1>5, <1>8, <2>5, <2>6, <2>7, MirrorsPushed
  <2>8. StatesInv'
    BY <1>1, <1>3, <1>4, <2>6, <2>7, StackFollows DEF c
  <2> QED
    BY <2>4, <2>8 DEF TauKeeps
<1> QED
  BY <1>6, <1>7, <1>8

LEMMA LeaveStateKeeps ==
  ASSUME TauNow, NEW th \in Threads, NEW s \in States, LeaveState(th, s)
  PROVE  TauKeeps
<1> DEFINE c == Rank(th[1])
           rest == SubSeq(inside[th], 1, Len(inside[th]) - 1)
<1>1. /\ StateEvent /\ th \in known \ finished
      /\ inside[th] # <<>> /\ s = inside[th][Len(inside[th])]
      /\ inside' = [inside EXCEPT ![th] = rest]
  BY DEF LeaveState, Runs
<1>2. /\ inside \in [Threads -> Seq(States)] /\ inside[th] \in Seq(States)
      /\ paje \in TraceOf(States, TauLink)
      /\ c \in Containers /\ records' \in Nat
  BY <1>1, RecordShape, NodeContainers DEF TauNow, TauTypeOK, StateEvent
<1>3. /\ rest \in Seq(States) /\ inside[th] = Append(rest, s)
      /\ \A i \in 1..Len(rest) : i \in 1..Len(inside[th]) /\ rest[i] = inside[th][i]
  BY <1>1, <1>2, LastOf
<1> HIDE DEF rest
<1>4. /\ inside' \in [Threads -> Seq(States)] /\ inside'[th] = rest
      /\ \A t \in Threads \ {th} : inside'[t] = inside[t]
  BY <1>1, <1>2, <1>3
<1>5. \A i \in 1..Len(inside'[th]) : inside'[th][i] \in told
  <2>1. \A i \in 1..Len(inside[th]) : inside[th][i] \in told
    BY DEF TauNow, StatesInv, InsideTold
  <2> QED
    BY <1>3, <1>4, <2>1
<1>6. ASSUME Prints, ~arguments.no_states, ~Shared(th)
      PROVE  Mirrors(paje.stack[c], Append(rest, s), state_names)
  BY <1>1, <1>3, <1>6 DEF TauNow, StatesInv, StacksMirror
<1> HIDE DEF c
<1>7. CASE s \notin state_names
  <2>1. UNCHANGED <<paje, rank_last_time, last_time>>
    BY <1>7 DEF LeaveState
  <2>2. TauTypeOK' /\ NodesInv' /\ TableInv' /\ CountsInv'
    BY <1>1, <1>4, <2>1, StateEventKeeps
  <2>3. ASSUME Prints, ~arguments.no_states, ~Shared(th)
        PROVE  Mirrors(paje'.stack[c], inside'[th], state_names)
    BY <1>3, <1>4, <1>6, <1>7, <2>1, <2>3, MirrorsUnnamed
  <2>4. StatesInv'
    BY <1>1, <1>4, <1>5, <2>1, <2>3, StackFollows DEF c
  <2> QED
    BY <2>2, <2>4 DEF TauKeeps
<1>8. CASE s \in state_names /\ (arguments.no_states \/ ~Prints)
  <2>1. paje' = paje /\ Reached(th[1])
    BY <1>8 DEF LeaveState, Printed, Prints
  <2>2. TauTypeOK' /\ NodesInv' /\ TableInv' /\ CountsInv'
    BY <1>1, <1>4, <2>1, StateEventKeeps
  <2>3. StatesInv'
    BY <1>1, <1>4, <1>5, <1>8, StackFollows
  <2> QED
    BY <2>2, <2>3 DEF TauKeeps
<1>9. CASE s \in state_names /\ ~arguments.no_states /\ Prints
  <2>1. paje' = PopState(paje, records', c) /\ Reached(th[1])
    BY <1>9 DEF LeaveState, Printed, Prints, c
  <2>2. Pops(States, TauLink, paje, paje', records', c)
    BY <1>2, <2>1, PopShape
  <2>3. /\ paje.stack[c] \in Seq(States) /\ DOMAIN paje.stack = Containers
    BY <1>2 DEF TraceOf
  <2>4. /\ paje'.stack[c] = SubSeq(paje.stack[c], 1, Len(paje.stack[c]) - 1)
        /\ \A d \in Containers \ {c} : paje'.stack[d] = paje.stack[d]
    BY <1>2, <2>2, <2>3 DEF Pops
  <2>5. ASSUME ~Shared(th)
        PROVE  /\ paje.stack[c] # <<>>
               /\ Mirrors(paje'.stack[c], inside'[th], state_names)
    <3>1. Mirrors(paje.stack[c], Append(rest, s), state_names)
      BY <1>6, <1>9, <2>5
    <3> QED
      BY <1>3, <1>4, <1>9, <2>3, <2>4, <3>1, MirrorsPopped
  <2>6. StateKept(th)
    <3>1. \A line \in paje'.refused \ paje.refused :
            line = <<"absent", c>> /\ (Absent(paje, c) \/ Shared(th))
      BY <2>2, <2>5 DEF Pops, Refusals
    <3> QED
      BY <1>9, <2>2, <3>1 DEF Pops, StateKept, LineAbout, c
  <2>7. TauTypeOK' /\ NodesInv' /\ TableInv' /\ CountsInv'
    BY <1>1, <1>4, <2>1, <2>6, StateEventKeeps
  <2>8. StatesInv'
    BY <1>1, <1>4, <1>5, <2>4, <2>5, StackFollows DEF c
  <2> QED
    BY <2>7, <2>8 DEF TauKeeps
<1> QED
  BY <1>7, <1>8, <1>9
\* Where the container of one node changes, and its threads do, the others stay.
OthersStay(m) ==
  /\ \A t \in known' : t[1] # m => t \in known
  /\ \A n \in Nodes \ {m} :
       /\ paje'.kind[Rank(n)] = paje.kind[Rank(n)]
       /\ paje'.latest[Rank(n)] = paje.latest[Rank(n)]
       /\ rank_last_time'[n] = rank_last_time[n]

LEMMA OthersLive ==
  ASSUME TauTypeOK, TauTypeOK', NodesLive, NEW m \in Nodes, OthersStay(m),
         known \subseteq known', finished \subseteq finished', UNCHANGED arguments,
         ~Unknown(m)',
         Prints => \A t \in known' \ finished' :
           t[1] = m => \/ Shared(t)'
                       \/ /\ paje'.kind[Rank(m)] = "PROCESS"
                          /\ paje'.latest[Rank(m)] <= rank_last_time'[m]
  PROVE  NodesLive'
<1> SUFFICES ASSUME Prints
             PROVE  /\ \A n \in Nodes : Unknown(n)' =>
                         paje'.kind[Rank(n)] = "none" /\ paje'.latest[Rank(n)] = 0
                    /\ \A t \in known' \ finished' :
                         \/ Shared(t)'
                         \/ /\ paje'.kind[Rank(t[1])] = "PROCESS"
                            /\ paje'.latest[Rank(t[1])] <= rank_last_time'[t[1]]
  BY DEF NodesLive, Prints
<1>1. ASSUME NEW n \in Nodes, Unknown(n)'
      PROVE  paje'.kind[Rank(n)] = "none" /\ paje'.latest[Rank(n)] = 0
  <2>1. n # m /\ Unknown(n)
    BY <1>1 DEF Unknown
  <2> QED
    BY <2>1 DEF OthersStay, NodesLive
<1>2. ASSUME NEW t \in known' \ finished', ~Shared(t)'
      PROVE  /\ paje'.kind[Rank(t[1])] = "PROCESS"
             /\ paje'.latest[Rank(t[1])] <= rank_last_time'[t[1]]
  <2>1. CASE t[1] = m
    BY <1>2, <2>1
  <2>2. CASE t[1] # m
    <3>1. t \in known \ finished /\ ~Shared(t) /\ t[1] \in Nodes \ {m}
      BY <1>2, <2>2, SharedStays, NodeContainers DEF OthersStay, TauTypeOK
    <3>2. paje.kind[Rank(t[1])] = "PROCESS" /\ paje.latest[Rank(t[1])] <= rank_last_time[t[1]]
      BY <3>1 DEF NodesLive
    <3> QED
      BY <3>1, <3>2 DEF OthersStay
  <2> QED
    BY <2>1, <2>2
<1> QED
  BY <1>1, <1>2

\* No line is refused but where a node has two threads.
LEMMA RefusedStay ==
  ASSUME TauTypeOK, TauRefusedOnlyThreads, known \subseteq known', UNCHANGED arguments,
         \A line \in paje'.refused \ paje.refused :
           \E t, other \in known' : SharesNode(t, other) /\ line[2] = Rank(t[1])
  PROVE  TauRefusedOnlyThreads'
<1> SUFFICES ASSUME NEW line \in paje'.refused
             PROVE  \E t, other \in known' : SharesNode(t, other) /\ line[2] = Rank(t[1])
  BY DEF TauRefusedOnlyThreads, SharesNode
<1>1. CASE line \in paje.refused
  BY <1>1 DEF TauRefusedOnlyThreads, TauTypeOK
<1> QED
  BY <1>1

\* The first thread of a node creates its container; another shares it.
LEMMA DefThreadKeeps ==
  ASSUME TauNow, NEW th \in Threads, DefThread(th)
  PROVE  TauKeeps
<1> DEFINE m == th[1]
           c == Rank(m)
<1>1. /\ Definition /\ th \notin known /\ known' = known \cup {th}
      /\ paje' = Printed(CreateContainer(paje, 0, c, "PROCESS", Root))
      /\ rank_last_time' = [rank_last_time EXCEPT ![m] = 0]
      /\ UNCHANGED <<state_names, finished, told, inside, sent, received, orderly>>
  BY DEF DefThread
<1>2. tau = "read" /\ tau' = tau
      /\ UNCHANGED <<records, arguments, keyVars, untranslated, last_time>>
  BY <1>1 DEF Definition
<1>3. /\ m \in Nodes /\ c \in Containers /\ c \notin {Root, World} /\ Root \in Containers
      /\ paje \in TraceOf(States, TauLink)
      /\ rank_last_time \in [Nodes -> Nat] /\ "PROCESS" \in Kinds
  BY NodeContainers DEF TauNow, TauTypeOK, Kinds
<1>4. /\ TauTypeOK /\ NodesLive /\ RootLives /\ TimesOrdered /\ TauRefusedOnlyThreads
      /\ InsideTold /\ StacksMirror
  BY DEF TauNow, NodesInv, StatesInv
<1> HIDE DEF c
<1>5. /\ paje' \in TraceOf(States, TauLink)
      /\ paje'.links = paje.links /\ paje'.stack = paje.stack /\ paje'.types = paje.types
      /\ paje'.latest = paje.latest
      /\ \A d \in Containers \ {c} : paje'.kind[d] = paje.kind[d]
      /\ Prints => paje'.kind[c] = "PROCESS"
      /\ \A line \in paje'.refused \ paje.refused : line[2] = c /\ ~Unknown(m)
  <2>1. CASE ~Prints
    BY <1>1, <1>3, <2>1 DEF Printed, Prints
  <2>2. CASE Prints
    <3>1. paje' = CreateContainer(paje, 0, c, "PROCESS", Root)
      BY <1>1, <2>2 DEF Printed, Prints
    <3>2. Creates(States, TauLink, paje, paje', 0, c, "PROCESS", Root)
      BY <1>3, <3>1, CreateShape
    <3>3. paje.kind[Root] = "ROOT" /\ <<"PROCESS", "ROOT">> \in paje.types
          /\ (Unknown(m) => paje.kind[c] = "none")
      BY <1>2, <1>3, <1>4, <2>2 DEF RootLives, NodesLive, c
    <3>4. \A line \in paje'.refused \ paje.refused : line[2] = c /\ ~Unknown(m)
      BY <3>2, <3>3 DEF Creates, Refusals
    <3>5. \A d \in Containers : paje'.latest[d] = paje.latest[d]
      <4>1. \A d \in Containers : paje.latest[d] \in Nat
        BY <1>3 DEF TraceOf
      <4> QED
        BY <3>2, <4>1 DEF Creates, Dated
    <3>6. paje'.latest = paje.latest
      BY <1>3, <3>2, <3>5 DEF Creates, TraceOf
    <3> QED
      BY <1>3, <3>2, <3>4, <3>6 DEF Creates, TraceOf
  <2> QED
    BY <2>1, <2>2
<1>6. TauTypeOK'
  BY <1>1, <1>2, <1>3, <1>4, <1>5 DEF TauTypeOK, RunBy
<1>7. /\ rank_last_time'[m] = 0
      /\ \A n \in Nodes \ {m} : rank_last_time'[n] = rank_last_time[n]
      /\ ~Unknown(m)'
  BY <1>1, <1>3 DEF Unknown
<1>8. ASSUME ~Unknown(m), NEW t \in known', t[1] = m
      PROVE  Shared(t)'
  <2>1. PICK other \in known : other[1] = m
    BY <1>8 DEF Unknown
  <2>2. other # th /\ {th, other} \subseteq known'
    BY <1>1
  <2> QED
    BY <1>8, <2>1, <2>2 DEF Shared, SharesNode
<1>9. TimesOrdered'
  BY <1>2, <1>3, <1>4, <1>7 DEF TimesOrdered, TauTypeOK
<1>10. RootLives'
  BY <1>2, <1>3, <1>4, <1>5 DEF RootLives, Prints
<1>11. NodesLive'
  <2>1. OthersStay(m)
    <3>1. \A n \in Nodes \ {m} : Rank(n) \in Containers \ {c}
      BY <1>3, NodeContainers DEF c
    <3> QED
      BY <1>1, <1>5, <1>7, <3>1 DEF OthersStay
  <2>2. ASSUME Prints, NEW t \in known' \ finished', t[1] = m, ~Shared(t)'
        PROVE  paje'.kind[c] = "PROCESS" /\ paje'.latest[c] <= rank_last_time'[m]
    <3>1. paje.latest[c] = 0
      BY <1>3, <1>4, <1>8, <2>2 DEF NodesLive, c
    <3> QED
      BY <1>5, <1>7, <2>2, <3>1
  <2> QED
    BY <1>1, <1>2, <1>3, <1>4, <1>6, <1>7, <2>1, <2>2, OthersLive DEF c
<1>12. TauRefusedOnlyThreads'
  <2>1. ASSUME NEW line \in paje'.refused \ paje.refused
        PROVE  \E t, other \in known' : SharesNode(t, other) /\ line[2] = Rank(t[1])
    <3>1. line[2] = Rank(m) /\ ~Unknown(m)
      BY <1>5, <2>1 DEF c
    <3>2. PICK other \in known : other[1] = m
      BY <3>1 DEF Unknown
    <3>3. SharesNode(th, other) /\ {th, other} \subseteq known'
      BY <1>1, <3>2 DEF SharesNode
    <3> QED
      BY <3>1, <3>3
  <2> QED
    BY <1>1, <1>2, <1>4, <2>1, RefusedStay
<1>13. InsideTold'
  BY <1>1, <1>4 DEF InsideTold
<1>14. StacksMirror'
  <2> SUFFICES ASSUME Prints, ~arguments.no_states
               PROVE  /\ \A t \in known' :
                           Shared(t)' \/ Mirrors(paje'.stack[Rank(t[1])], inside'[t], state_names')
                      /\ \A n \in Nodes : Unknown(n)' => paje'.stack[Rank(n)] = <<>>
    BY <1>2 DEF StacksMirror, Prints
  <2>1. ASSUME NEW n \in Nodes, Unknown(n)'
        PROVE  paje'.stack[Rank(n)] = <<>>
    BY <1>1, <1>4, <1>5, <2>1 DEF StacksMirror, Unknown
  <2>2. ASSUME NEW t \in known', ~Shared(t)'
        PROVE  Mirrors(paje'.stack[Rank(t[1])], inside'[t], state_names')
    <3>1. CASE t \in known
      BY <1>1, <1>4, <1>5, <2>2, <3>1, SharedStays DEF StacksMirror
    <3>2. CASE t = th
      <4>1. inside[th] = <<>> /\ paje.stack[Rank(m)] = <<>>
        BY <1>1, <1>3, <1>4, <1>8, <2>2, <3>2 DEF StacksMirror, InsideTold
      <4>2. Mirrors(<<>>, <<>>, state_names)
        BY FS_EmptySet DEF Mirrors
      <4> QED
        BY <1>1, <1>5, <3>2, <4>1, <4>2
    <3> QED
      BY <1>1, <3>1, <3>2
  <2> QED
    BY <2>1, <2>2
<1>15. TableInv' /\ CountsInv'
  BY <1>1, <1>2, <1>5, LinksKeptInv DEF TauNow, LinksKept
<1> QED
  BY <1>6, <1>9, <1>10, <1>11, <1>12, <1>13, <1>14, <1>15 DEF TauKeeps, NodesInv, StatesInv
\* The container of a thread alone on its node ends after its last line.
LEMMA EndTraceKeeps ==
  ASSUME TauNow, NEW th \in Threads, EndTrace(th)
  PROVE  TauKeeps
<1> DEFINE m == th[1]
           c == Rank(m)
<1>1. /\ Record /\ th \in known \ finished /\ finished' = finished \cup {th}
      /\ paje' = Printed(DestroyContainer(paje, rank_last_time[m], c))
      /\ UNCHANGED <<keyVars, untranslated, tau, rank_last_time, last_time, state_names,
                     known, told, inside, sent, received, orderly>>
  BY DEF EndTrace, Runs, tauTables
<1>2. tau = "read" /\ records' = records + 1 /\ records' \in Nat /\ UNCHANGED arguments
  BY <1>1, RecordShape DEF TauNow
<1>3. /\ m \in Nodes /\ c \in Containers /\ c \notin {Root, World} /\ Root \in Containers
      /\ paje \in TraceOf(States, TauLink)
      /\ rank_last_time \in [Nodes -> Nat] /\ last_time \in Nat /\ records \in Nat
      /\ \A d \in Containers : paje.latest[d] \in Nat
  BY NodeContainers DEF TauNow, TauTypeOK, TraceOf
<1>4. /\ TauTypeOK /\ NodesLive /\ RootLives /\ TimesOrdered /\ TauRefusedOnlyThreads
      /\ StatesInv
  BY DEF TauNow, NodesInv
<1> HIDE DEF c
<1>5. /\ paje' \in TraceOf(States, TauLink)
      /\ paje'.links = paje.links /\ paje'.stack = paje.stack /\ paje'.types = paje.types
      /\ \A d \in Containers \ {c} : paje'.kind[d] = paje.kind[d]
      /\ \A d \in Containers \ {c, Root} : paje'.latest[d] = paje.latest[d]
      /\ paje'.latest[Root] \in {paje.latest[Root], rank_last_time[m]}
      /\ \A line \in paje'.refused \ paje.refused : line[2] = c /\ Shared(th)
  <2>1. CASE ~Prints
    BY <1>1, <1>3, <2>1 DEF Printed, Prints
  <2>2. CASE Prints
    <3>1. paje' = DestroyContainer(paje, rank_last_time[m], c) /\ rank_last_time[m] \in Nat
      BY <1>1, <1>3, <2>2 DEF Printed, Prints
    <3>2. Destroys(States, TauLink, paje, paje', rank_last_time[m], c)
      BY <1>3, <3>1, DestroyShape
    <3>3. \/ Shared(th)
          \/ ~Absent(paje, c) /\ ~(rank_last_time[m] < paje.latest[c])
      BY <1>1, <1>3, <1>4, <2>2, <3>1 DEF NodesLive, Absent, c
    <3>4. \A line \in paje'.refused \ paje.refused : line[2] = c /\ Shared(th)
      BY <3>2, <3>3 DEF Destroys, Refusals
    <3>5. /\ \A d \in Containers \ {c, Root} : paje'.latest[d] = paje.latest[d]
          /\ paje'.latest[Root] \in {paje.latest[Root], rank_last_time[m]}
      BY <1>3, <3>2 DEF Destroys, Dated
    <3> QED
      BY <1>3, <3>2, <3>4, <3>5 DEF Destroys, TraceOf
  <2> QED
    BY <2>1, <2>2
<1>6. TauTypeOK'
  BY <1>1, <1>2, <1>4, <1>5 DEF TauTypeOK, RunBy
<1>7. TimesOrdered'
  BY <1>1, <1>2, <1>3, <1>4 DEF TimesOrdered
<1>8. RootLives'
  <2>1. rank_last_time[m] <= last_time
    BY <1>3, <1>4 DEF TimesOrdered
  <2> QED
    BY <1>1, <1>2, <1>3, <1>4, <1>5, <2>1 DEF RootLives, Prints
<1>9. NodesLive'
  <2>1. OthersStay(m)
    <3>1. \A n \in Nodes \ {m} : Rank(n) \in Containers \ {c, Root}
      BY <1>3, NodeContainers DEF c
    <3> QED
      BY <1>1, <1>5, <3>1 DEF OthersStay
  <2>2. ~Unknown(m)'
    BY <1>1 DEF Unknown
  <2>3. ASSUME NEW t \in known' \ finished', t[1] = m
        PROVE  Shared(t)'
    <3>1. t # th /\ {t, th} \subseteq known'
      BY <1>1, <2>3
    <3> QED
      BY <2>3, <3>1 DEF Shared, SharesNode
  <2> QED
    BY <1>1, <1>2, <1>3, <1>4, <1>6, <2>1, <2>2, <2>3, OthersLive
<1>10. TauRefusedOnlyThreads'
  <2>1. ASSUME NEW line \in paje'.refused \ paje.refused
        PROVE  \E t, other \in known' : SharesNode(t, other) /\ line[2] = Rank(t[1])
    BY <1>1, <1>5, <2>1 DEF c, Shared
  <2> QED
    BY <1>1, <1>2, <1>4, <2>1, RefusedStay
<1>11. StatesInv'
  BY <1>1, <1>2, <1>4, <1>5, StatesKeptInv
<1>12. TableInv' /\ CountsInv'
  BY <1>1, <1>2, <1>5, LinksKeptInv DEF TauNow, LinksKept
<1> QED
  BY <1>6, <1>7, <1>8, <1>9, <1>10, <1>11, <1>12 DEF TauKeeps, NodesInv

\* The root ends after all.
LEMMA LeaveMainKeeps ==
  ASSUME TauNow, LeaveMain
  PROVE  TauKeeps
<1>1. /\ tau = "leave" /\ tau' = "closed"
      /\ paje' = Printed(DestroyContainer(paje, last_time, Root))
      /\ UNCHANGED <<recs_read, eof, programOnly>>
  BY DEF LeaveMain
<1>2. /\ UNCHANGED <<state_names, total_number_of_ranks, rank_last_time, last_time>>
      /\ UNCHANGED <<known, finished, told, inside, sent, received, orderly>>
      /\ UNCHANGED <<EndOfTrace, untranslated, records, arguments, keyVars>>
  BY <1>1 DEF programOnly, tauTables, tauTrace
<1>3. /\ Root \in Containers /\ paje \in TraceOf(States, TauLink) /\ last_time \in Nat
      /\ \A d \in Containers : paje.latest[d] \in Nat
  BY NodeContainers DEF TauNow, TauTypeOK, TraceOf
<1>4. /\ TauTypeOK /\ NodesLive /\ RootLives /\ TimesOrdered /\ TauRefusedOnlyThreads
      /\ StatesInv
  BY DEF TauNow, NodesInv
<1>5. /\ paje' \in TraceOf(States, TauLink)
      /\ paje'.links = paje.links /\ paje'.stack = paje.stack /\ paje'.types = paje.types
      /\ \A d \in Containers \ {Root} : /\ paje'.kind[d] = paje.kind[d]
                                        /\ paje'.latest[d] = paje.latest[d]
      /\ Prints => paje'.latest[Root] <= last_time
      /\ paje'.refused = paje.refused
  <2>1. CASE ~Prints
    BY <1>1, <1>3, <2>1 DEF Printed, Prints
  <2>2. CASE Prints
    <3>1. Destroys(States, TauLink, paje, paje', last_time, Root)
      BY <1>1, <1>3, <2>2, DestroyShape DEF Printed, Prints
    <3>2. ~Absent(paje, Root) /\ ~(last_time < paje.latest[Root]) /\ paje.latest[Root] <= last_time
      BY <1>1, <1>3, <1>4, <2>2 DEF RootLives, Absent
    <3>3. paje'.refused = paje.refused
      BY <3>1, <3>2 DEF Destroys, Refusals
    <3>4. /\ \A d \in Containers \ {Root} : paje'.latest[d] = paje.latest[d]
          /\ paje'.latest[Root] <= last_time
      BY <1>3, <3>1, <3>2 DEF Destroys, Dated
    <3> QED
      BY <1>3, <3>1, <3>3, <3>4 DEF Destroys, TraceOf
  <2> QED
    BY <2>1, <2>2
<1>6. TauTypeOK'
  BY <1>1, <1>2, <1>4, <1>5 DEF TauTypeOK, RunBy
<1>7. TimesOrdered' /\ RootLives'
  BY <1>1, <1>2, <1>4, <1>5 DEF TimesOrdered, RootLives, Prints
<1>8. NodesLive'
  <2>1. \A n \in Nodes : Rank(n) \in Containers \ {Root}
    BY NodeContainers
  <2>2. \A t \in known : t[1] \in Nodes
    BY <1>4, NodeContainers DEF TauTypeOK
  <2> QED
    BY <1>2, <1>4, <1>5, <2>1, <2>2 DEF NodesLive, Prints, Unknown, Shared
<1>9. TauRefusedOnlyThreads'
  BY <1>2, <1>4, <1>5, RefusedStay
<1>10. StatesInv'
  BY <1>2, <1>4, <1>5, StatesKeptInv
<1>11. TableInv' /\ CountsInv'
  BY <1>1, <1>2, <1>5, LinksKeptInv DEF TauNow, LinksKept
<1> QED
  BY <1>6, <1>7, <1>8, <1>9, <1>10, <1>11 DEF TauKeeps, NodesInv
-----------------------------------------------------------------------------
(***************************************************************************)
(* Messages.  One more line about a link, and one more message received.   *)
(***************************************************************************)
LEMMA LinksGrow ==
  ASSUME paje.links \in Seq(TauLink), NEW link \in TauLink,
         paje'.links = Append(paje.links, link)
  PROVE  LET n == Len(paje.links)
         IN /\ n \in Nat /\ DOMAIN paje.links = 1..n /\ DOMAIN paje'.links = 1..(n + 1)
            /\ \A i \in 1..n : paje'.links[i] = paje.links[i]
            /\ paje'.links[n + 1] = link
            /\ \A side, key : OnLine(side, key)' <=>
                 OnLine(side, key) \/ (link.side = side /\ link.key = key)
            /\ \A pair : EndsOf(pair) \subseteq 1..n
            /\ \A pair : EndsOf(pair)' =
                 EndsOf(pair) \cup
                 (IF link.side = "end" /\ <<link.about[1], link.about[2]>> = pair
                  THEN {n + 1} ELSE {})
<1> DEFINE n == Len(paje.links)
<1>1. /\ n \in Nat /\ DOMAIN paje.links = 1..n /\ DOMAIN paje'.links = 1..(n + 1)
      /\ \A i \in 1..n : paje'.links[i] = paje.links[i]
      /\ paje'.links[n + 1] = link
  OBVIOUS
<1> HIDE DEF n
<1>2. 1..(n + 1) = (1..n) \cup {n + 1}
  BY <1>1
<1>3. \A side, key : OnLine(side, key)' <=>
        OnLine(side, key) \/ (link.side = side /\ link.key = key)
  BY <1>1, <1>2 DEF OnLine, LinkAt
<1>4. \A pair : EndsOf(pair) \subseteq 1..n
  BY <1>1 DEF EndsOf
<1>5. \A pair : EndsOf(pair)' =
        EndsOf(pair) \cup
        (IF link.side = "end" /\ <<link.about[1], link.about[2]>> = pair THEN {n + 1} ELSE {})
  BY <1>1, <1>2 DEF EndsOf
<1> QED
  BY <1>1, <1>3, <1>4, <1>5 DEF n

ReceivedNow(pair, message) ==
  /\ pair \in Pairs /\ message \in 1..MaxMessages \ received[pair]
  /\ received' = [received EXCEPT ![pair] = @ \cup {message}]
  /\ orderly' = IF message = Cardinality(received[pair]) + 1 /\ message <= sent[pair]
                THEN orderly ELSE orderly \ {pair}
  /\ UNCHANGED sent

LEMMA ReceivedShape ==
  ASSUME TauTypeOK, IsFiniteSet(ReceivedMessages), OrderlyBehind,
         NEW pair, NEW message, ReceivedNow(pair, message)
  PROVE  /\ received' \in [Pairs -> SUBSET (1..MaxMessages)] /\ orderly' \subseteq orderly
         /\ Cardinality(received[pair]) \in Nat
         /\ Cardinality(received'[pair]) = Cardinality(received[pair]) + 1
         /\ \A other \in Pairs \ {pair} : received'[other] = received[other]
         /\ pair \in orderly' =>
              message = Cardinality(received[pair]) + 1 /\ message <= sent[pair]
         /\ OrderlyBehind'
         /\ IsFiniteSet(ReceivedMessages')
         /\ Cardinality(ReceivedMessages') = Cardinality(ReceivedMessages) + 1
         /\ Cardinality(ReceivedMessages) \in Nat
<1>1. /\ pair \in Pairs /\ message \in 1..MaxMessages \ received[pair]
      /\ received \in [Pairs -> SUBSET (1..MaxMessages)] /\ MaxMessages \in Nat
      /\ sent \in [Pairs -> Nat] /\ orderly \subseteq Pairs
  BY TauAssumption DEF ReceivedNow, TauTypeOK
<1>2. /\ received' \in [Pairs -> SUBSET (1..MaxMessages)]
      /\ received'[pair] = received[pair] \cup {message}
      /\ \A other \in Pairs \ {pair} : received'[other] = received[other]
  BY <1>1 DEF ReceivedNow
<1>3. IsFiniteSet(1..MaxMessages)
  BY <1>1, FS_Interval
<1> DEFINE before == received[pair]
<1>4. IsFiniteSet(before) /\ Cardinality(before) \in Nat
  BY <1>1, <1>3, FS_Subset, FS_CardinalityType
<1> HIDE DEF before
<1>5. Cardinality(before \cup {message}) = Cardinality(before) + 1
  BY <1>1, <1>4, FS_AddElement DEF before
<1>6. Cardinality(received'[pair]) = Cardinality(before) + 1
  BY <1>2, <1>5 DEF before
<1>7. pair \in orderly' => message = Cardinality(before) + 1 /\ message <= sent[pair]
  BY DEF ReceivedNow, before
<1>8. orderly' \subseteq orderly /\ sent' = sent
  BY DEF ReceivedNow
<1>9. OrderlyBehind'
  <2> SUFFICES ASSUME NEW other \in orderly'
               PROVE  Cardinality(received'[other]) <= sent[other]
    BY <1>8 DEF OrderlyBehind
  <2>1. CASE other = pair
    BY <1>6, <1>7, <2>1
  <2>2. CASE other # pair
    BY <1>1, <1>2, <1>8, <2>2 DEF OrderlyBehind
  <2> QED
    BY <2>1, <2>2
<1>10. ReceivedMessages' = ReceivedMessages \cup {<<pair, message>>}
       /\ <<pair, message>> \notin ReceivedMessages
  <2>1. \A r \in Pairs \X (1..MaxMessages) :
          r[2] \in received'[r[1]] <=> r[2] \in received[r[1]] \/ r = <<pair, message>>
    BY <1>1, <1>2
  <2>2. <<pair, message>> \in Pairs \X (1..MaxMessages)
    BY <1>1
  <2> QED
    BY <1>1, <2>1, <2>2 DEF ReceivedMessages
<1> DEFINE old == ReceivedMessages
           new == ReceivedMessages'
<1>11. IsFiniteSet(old) /\ new = old \cup {<<pair, message>>} /\ <<pair, message>> \notin old
  BY <1>10
<1> HIDE DEF old, new
<1>12. IsFiniteSet(new) /\ Cardinality(new) = Cardinality(old) + 1 /\ Cardinality(old) \in Nat
  BY <1>11, FS_AddElement, FS_CardinalityType
<1> QED
  BY <1>2, <1>4, <1>6, <1>7, <1>8, <1>9, <1>12 DEF before, old, new
\* Ends stay joined where no line is about a link.
LEMMA JoinsKept ==
  ASSUME TauLinksJoinOneMessage, paje'.links = paje.links, orderly' \subseteq orderly
  PROVE  TauLinksJoinOneMessage'
BY DEF TauLinksJoinOneMessage

\* Nothing is printed of links, and nothing put or taken.
LEMMA QuietLinks ==
  ASSUME TableInv, TauLinksJoinOneMessage, KeysInv',
         UNCHANGED <<entered, queue, counter, arguments>>, paje'.links = paje.links,
         orderly' \subseteq orderly
  PROVE  TableInv' /\ TauLinksJoinOneMessage'
<1>1. KeysOld' /\ WaitingOpen'
  BY DEF TableInv, KeysOld, WaitingOpen, OnLine, LinkAt, Prints
<1>2. TauLinksJoinOneMessage'
  BY JoinsKept
<1> QED
  BY <1>1, <1>2 DEF TableInv

\* A message is sent: a key put, or none where the table is full.
SentNow(pair) ==
  /\ pair \in Pairs
  /\ sent' = [sent EXCEPT ![pair] = @ + 1]
  /\ UNCHANGED <<received, orderly>>

LEMMA SentShape ==
  ASSUME TauTypeOK, OrderlyBehind, ReceivesCounted, NEW pair, SentNow(pair)
  PROVE  /\ sent' \in [Pairs -> Nat] /\ sent'[pair] = sent[pair] + 1
         /\ \A other \in Pairs \ {pair} : sent'[other] = sent[other]
         /\ OrderlyBehind'
         /\ ReceivedMessages' = ReceivedMessages /\ IsFiniteSet(ReceivedMessages')
         /\ \A p \in Pairs : Cardinality(received[p]) \in Nat
<1>1. /\ pair \in Pairs /\ sent \in [Pairs -> Nat] /\ orderly \subseteq Pairs
      /\ received' = received /\ orderly' = orderly /\ MaxMessages \in Nat
  BY TauAssumption DEF SentNow, TauTypeOK
<1>2. /\ sent' \in [Pairs -> Nat] /\ sent'[pair] = sent[pair] + 1
      /\ \A other \in Pairs \ {pair} : sent'[other] = sent[other]
  BY <1>1 DEF SentNow
<1>3. IsFiniteSet(1..MaxMessages)
  BY <1>1, FS_Interval
<1>4. ASSUME NEW p \in Pairs PROVE Cardinality(received[p]) \in Nat
  <2> DEFINE r == received[p]
  <2>1. r \subseteq 1..MaxMessages
    BY DEF TauTypeOK
  <2> HIDE DEF r
  <2>2. Cardinality(r) \in Nat
    BY <1>3, <2>1, FS_Subset, FS_CardinalityType
  <2> QED
    BY <2>2 DEF r
<1>5. OrderlyBehind'
  <2> SUFFICES ASSUME NEW p \in orderly PROVE Cardinality(received[p]) <= sent'[p]
    BY <1>1 DEF OrderlyBehind
  <2>1. p \in Pairs /\ Cardinality(received[p]) \in Nat /\ Cardinality(received[p]) <= sent[p]
    BY <1>1, <1>4 DEF OrderlyBehind
  <2>2. sent[p] \in Nat /\ sent'[p] \in {sent[p], sent[p] + 1}
    BY <1>1, <1>2, <2>1
  <2> QED
    BY <2>1, <2>2
<1>6. ReceivedMessages' = ReceivedMessages
  BY <1>1 DEF ReceivedMessages
<1> QED
  BY <1>2, <1>4, <1>5, <1>6 DEF ReceivesCounted

\* What is printed of the start of a link with the key that the table gave.
StartPrinted(pair, link) ==
  /\ link \in TauLink /\ link.side = "start" /\ link.key = buffer'
  /\ link.about = <<pair[1], pair[2], sent'[pair]>>
  /\ IF Prints THEN paje'.links = Append(paje.links, link) ELSE paje'.links = paje.links

LEMMA StartKeepsTable ==
  ASSUME TauTypeOK, TableInv, NEW pair \in Pairs, AkyPutKey(MessageName(pair)),
         NEW link, StartPrinted(pair, link), UNCHANGED arguments
  PROVE  TableInv'
<1> DEFINE nm == MessageName(pair)
<1>1. nm \in Names
  BY NodeContainers
<1>2. KeysInv /\ KeysInv' /\ KeysTypeOK /\ counter \in Nat
  <2>1. KeysInv'
    BY <1>1, KeysAssumption, KeysInvStep DEF TableInv, KeysNext
  <2> QED
    BY <2>1 DEF TableInv, KeysInv, KeysTypeOK
<1>3. paje.links \in Seq(TauLink) /\ \A i \in DOMAIN paje.links : paje.links[i].key \in Key \cup {NoKey}
  <2>1. paje.links \in Seq(TauLink)
    BY DEF TauTypeOK, TraceOf
  <2>2. \A i \in DOMAIN paje.links : paje.links[i] \in TauLink
    BY <2>1
  <2> QED
    BY <2>1, <2>2 DEF TauLink
<1>4. /\ counter' \in {counter, counter + 1}
      /\ \/ /\ buffer' = KeyOf(nm, counter) /\ counter' = counter + 1
            /\ PutKey(nm)
         \/ buffer' = NoKey /\ UNCHANGED <<queue, counter>>
  BY <1>2 DEF AkyPutKey, PutKey, PutRefused
<1> HIDE DEF nm
<1>5. \A i \in DOMAIN paje.links : LinkAt(i).key # NoKey =>
        LinkAt(i).key[3] < counter /\ LinkAt(i).key[3] < counter'
  <2> TAKE i \in DOMAIN paje.links
  <2>1. LinkAt(i).key # NoKey => LinkAt(i).key[3] \in Nat /\ LinkAt(i).key[3] < counter
    BY <1>3 DEF LinkAt, Key, TableInv, KeysOld
  <2> QED
    BY <1>2, <1>4, <2>1
<1>6. CASE ~Prints
  <2>1. KeysOld'
    BY <1>5, <1>6 DEF StartPrinted, KeysOld, LinkAt
  <2>2. WaitingOpen'
    BY <1>6 DEF WaitingOpen, Prints
  <2> QED
    BY <1>2, <2>1, <2>2 DEF TableInv
<1>7. CASE Prints
  <2> DEFINE n == Len(paje.links)
  <2>1. link \in TauLink /\ link.side = "start" /\ link.key = buffer'
        /\ paje'.links = Append(paje.links, link)
    BY <1>7 DEF StartPrinted
  <2>2. /\ n \in Nat /\ DOMAIN paje.links = 1..n /\ DOMAIN paje'.links = 1..(n + 1)
        /\ \A i \in 1..n : paje'.links[i] = paje.links[i]
        /\ paje'.links[n + 1] = link
        /\ \A side, key : OnLine(side, key)' <=>
             OnLine(side, key) \/ (link.side = side /\ link.key = key)
    BY <1>3, <2>1, LinksGrow
  <2> HIDE DEF n
  <2>3. buffer' # NoKey => buffer'[3] < counter'
    BY <1>2, <1>4 DEF KeyOf
  <2>4. KeysOld'
    <3> SUFFICES ASSUME NEW i \in 1..(n + 1), paje'.links[i].key # NoKey
                 PROVE  paje'.links[i].key[3] < counter'
      BY <2>2 DEF KeysOld, LinkAt
    <3>1. CASE i \in 1..n
      BY <1>5, <2>2, <3>1 DEF LinkAt
    <3>2. CASE i = n + 1
      BY <2>1, <2>2, <2>3, <3>2
    <3> QED
      BY <2>2, <3>1, <3>2
  <2>5. WaitingOpen'
    <3> SUFFICES ASSUME NEW m \in Names, NEW i \in 1..Len(queue'[m]),
                        NEW key, key = queue'[m][i]
                 PROVE  OnLine("start", key)' /\ ~OnLine("end", key)'
      BY DEF WaitingOpen
    <3>1. ASSUME i \in 1..Len(queue[m]), queue'[m][i] = queue[m][i]
          PROVE  OnLine("start", key)' /\ ~OnLine("end", key)'
      BY <1>7, <2>1, <2>2, <3>1 DEF TableInv, WaitingOpen
    <3>2. CASE UNCHANGED queue
      BY <3>1, <3>2
    <3>3. CASE PutKey(nm) /\ m # nm
      BY <1>1, <1>2, <3>1, <3>3, PutShape
    <3>4. CASE PutKey(nm) /\ m = nm
      <4>1. Len(queue[nm]) \in Nat /\ Len(queue'[nm]) = Len(queue[nm]) + 1
            /\ \A k \in 1..Len(queue[nm]) : queue'[nm][k] = queue[nm][k]
            /\ queue'[nm][Len(queue[nm]) + 1] = KeyOf(nm, counter)
        BY <1>1, <1>2, <3>4, PutShape DEF KeysTypeOK
      <4>2. CASE i \in 1..Len(queue[nm])
        BY <3>1, <3>4, <4>1, <4>2
      <4>3. CASE i = Len(queue[nm]) + 1
        <5>1. key = buffer' /\ buffer' = KeyOf(nm, counter)
          BY <3>4, <4>1, <4>3 DEF PutKey
        <5>2. buffer' # NoKey /\ buffer'[3] = counter
          BY <5>1 DEF KeyOf, NoKey
        <5>3. ~OnLine("end", buffer')
          BY <1>2, <1>5, <5>2 DEF OnLine
        <5> QED
          BY <2>1, <2>2, <5>1, <5>3
      <4> QED
        BY <3>4, <4>1, <4>2, <4>3
    <3> QED
      BY <1>4, <3>2, <3>3, <3>4
  <2> QED
    BY <1>2, <2>4, <2>5 DEF TableInv
<1> QED
  BY <1>6, <1>7
\* A put in terms of lengths and places, whether the name had a queue or not.
LEMMA PutOrRefused ==
  ASSUME KeysInv, NEW nm \in Names, AkyPutKey(nm)
  PROVE  /\ entered \subseteq entered' /\ entered' \subseteq entered \cup {nm}
         /\ \A m \in Names : Len(queue[m]) \in Nat
         /\ \A m \in Names \ {nm} : queue'[m] = queue[m]
         /\ nm \notin entered => Len(queue[nm]) = 0
         /\ Cardinality(entered) \in Nat
         /\ \/ /\ nm \in entered' /\ buffer' # NoKey
               /\ nm \in entered \/ Cardinality(entered) < TableSize
               /\ Len(queue'[nm]) = Len(queue[nm]) + 1
               /\ \A i \in 1..Len(queue[nm]) : queue'[nm][i] = queue[nm][i]
               /\ queue'[nm][Len(queue[nm]) + 1] = buffer'
            \/ nm \notin entered' /\ Cardinality(entered) >= TableSize /\ UNCHANGED <<entered, queue>>
<1>1. KeysTypeOK /\ IsFiniteSet(entered) /\ (queue[nm] # <<>> => nm \in entered)
  BY DEF KeysInv, TableBounded
<1>2. \A m \in Names : Len(queue[m]) \in Nat
  BY <1>1 DEF KeysTypeOK
<1>3. nm \notin entered => Len(queue[nm]) = 0
  BY <1>1
<1>4. Cardinality(entered) \in Nat
  BY <1>1, FS_CardinalityType
<1>5. CASE PutKey(nm)
  <2>1. /\ entered' = entered \cup {nm} /\ buffer' = KeyOf(nm, counter)
        /\ nm \in entered \/ Cardinality(entered) < TableSize
    BY <1>5 DEF PutKey
  <2>2. buffer' # NoKey
    BY <2>1 DEF KeyOf, NoKey
  <2>3. /\ \A m \in Names \ {nm} : queue'[m] = queue[m]
        /\ Len(queue'[nm]) = Len(queue[nm]) + 1
        /\ \A i \in 1..Len(queue[nm]) : queue'[nm][i] = queue[nm][i]
        /\ queue'[nm][Len(queue[nm]) + 1] = KeyOf(nm, counter)
    BY <1>1, <1>5, PutShape
  <2> QED
    BY <1>2, <1>3, <1>4, <2>1, <2>2, <2>3
<1>6. CASE PutRefused(nm)
  BY <1>2, <1>3, <1>4, <1>6 DEF PutRefused
<1> QED
  BY <1>5, <1>6 DEF AkyPutKey

\* An order is kept where the lines about links only grow.
LEMMA WaitInOrderKept ==
  ASSUME NEW pair, WaitInOrder(pair),
         sent'[pair] = sent[pair], received'[pair] = received[pair],
         queue'[MessageName(pair)] = queue[MessageName(pair)],
         \A l \in DOMAIN paje.links : l \in DOMAIN paje'.links /\ paje'.links[l] = paje.links[l]
  PROVE  WaitInOrder(pair)'
<1> DEFINE waiting == queue[MessageName(pair)]
           done == Cardinality(received[pair])
<1>1. /\ sent[pair] = done + Len(waiting)
      /\ \A i \in 1..Len(waiting) :
           \E l \in DOMAIN paje.links :
             /\ paje.links[l].side = "start" /\ paje.links[l].key = waiting[i]
             /\ paje.links[l].about = <<pair[1], pair[2], done + i>>
  BY DEF WaitInOrder, LinkAt
<1>2. queue'[MessageName(pair)] = waiting /\ Cardinality(received'[pair]) = done
  OBVIOUS
<1> HIDE DEF waiting, done
<1>3. \A i \in 1..Len(waiting) :
        \E l \in DOMAIN paje'.links :
          /\ paje'.links[l].side = "start" /\ paje'.links[l].key = waiting[i]
          /\ paje'.links[l].about = <<pair[1], pair[2], done + i>>
  <2> TAKE i \in 1..Len(waiting)
  <2>1. PICK l \in DOMAIN paje.links :
          /\ paje.links[l].side = "start" /\ paje.links[l].key = waiting[i]
          /\ paje.links[l].about = <<pair[1], pair[2], done + i>>
    BY <1>1
  <2> QED
    BY <2>1
<1> QED
  BY <1>1, <1>2, <1>3 DEF WaitInOrder, LinkAt

\* A message sent is a key that waits, the last in the order of the pair.
LEMMA StartKeepsCounts ==
  ASSUME TauTypeOK, TableInv, CountsInv, NEW pair \in Pairs, SentNow(pair),
         AkyPutKey(MessageName(pair)), NEW link, StartPrinted(pair, link),
         UNCHANGED <<arguments, untranslated, tau>>, Counts \/ ~Prints
  PROVE  CountsInv'
<1> DEFINE nm == MessageName(pair)
           n == Len(paje.links)
           queueLength == Len(queue[nm])
<1>1. /\ nm \in Names /\ \A p \in Pairs : MessageName(p) \in Names
      /\ \A p \in Pairs \ {pair} : MessageName(p) # nm
  BY NodeContainers
<1>2. /\ KeysInv /\ PairsCounted /\ ReceivesCounted /\ OrderlyBehind /\ OrderlyWait
      /\ TauLinksJoinOneMessage
      /\ paje.links \in Seq(TauLink) /\ sent \in [Pairs -> Nat] /\ orderly \subseteq Pairs
  BY DEF TableInv, CountsInv, TauTypeOK, TraceOf
<1>3. /\ sent'[pair] = sent[pair] + 1
      /\ \A other \in Pairs \ {pair} : sent'[other] = sent[other]
      /\ OrderlyBehind' /\ ReceivedMessages' = ReceivedMessages /\ IsFiniteSet(ReceivedMessages')
      /\ \A p \in Pairs : Cardinality(received[p]) \in Nat
      /\ received' = received /\ orderly' = orderly
  BY <1>2, SentShape DEF SentNow
<1>4. /\ entered \subseteq entered' /\ entered' \subseteq entered \cup {nm}
      /\ \A m \in Names : Len(queue[m]) \in Nat
      /\ \A m \in Names \ {nm} : queue'[m] = queue[m]
      /\ nm \notin entered => queueLength = 0
      /\ Cardinality(entered) \in Nat
      /\ \/ /\ nm \in entered' /\ buffer' # NoKey
            /\ nm \in entered \/ Cardinality(entered) < TableSize
            /\ Len(queue'[nm]) = queueLength + 1
            /\ \A i \in 1..queueLength : queue'[nm][i] = queue[nm][i]
            /\ queue'[nm][queueLength + 1] = buffer'
         \/ nm \notin entered' /\ Cardinality(entered) >= TableSize /\ UNCHANGED <<entered, queue>>
  BY <1>1, <1>2, PutOrRefused
<1>5. CASE ~Prints
  <2>1. ~Counts' /\ paje'.links = paje.links
    BY <1>5 DEF Counts, Prints, StartPrinted
  <2>2. TauLinksJoinOneMessage'
    BY <1>2, <1>3, <2>1 DEF TauLinksJoinOneMessage
  <2> QED
    BY <1>3, <2>1, <2>2 DEF CountsInv, PairsCounted, ReceivesCounted, OrderlyWait
<1>6. CASE Counts
  <2>1. /\ link \in TauLink /\ link.side = "start" /\ link.key = buffer'
        /\ link.about = <<pair[1], pair[2], sent'[pair]>>
        /\ paje'.links = Append(paje.links, link)
    BY <1>6 DEF StartPrinted, Counts
  <2>2. /\ n \in Nat /\ DOMAIN paje.links = 1..n /\ DOMAIN paje'.links = 1..(n + 1)
        /\ \A i \in 1..n : paje'.links[i] = paje.links[i]
        /\ paje'.links[n + 1] = link
        /\ \A p : EndsOf(p)' = EndsOf(p) \cup
             (IF link.side = "end" /\ <<link.about[1], link.about[2]>> = p THEN {n + 1} ELSE {})
    BY <1>2, <2>1, LinksGrow
  <2>3. \A p : EndsOf(p)' = EndsOf(p)
    BY <2>1, <2>2
  <2>4. Translated' = Translated
    BY <2>3 DEF Translated
  <2> HIDE DEF n, nm, queueLength
  <2>5. ReceivesCounted'
    BY <1>2, <1>3, <1>6, <2>4 DEF ReceivesCounted
  <2>6. ASSUME nm \notin entered, nm \in entered'
        PROVE  /\ sent[pair] = 0 /\ EndsOf(pair) = {} /\ Cardinality(EndsOf(pair)) = 0
               /\ Cardinality(received[pair]) \in Nat
    <3>1. EndsOf(pair) = {} /\ (sent[pair] = 0 \/ Cardinality(entered) >= TableSize)
      BY <1>2, <1>6, <2>6 DEF PairsCounted, nm
    <3>2. Cardinality(entered) < TableSize /\ TableSize \in Nat /\ Cardinality(entered) \in Nat
      BY <1>4, <2>6, KeysAssumption
    <3>3. sent[pair] = 0
      BY <3>1, <3>2
    <3> DEFINE ends == EndsOf(pair)
    <3>4. ends = {}
      BY <3>1
    <3> HIDE DEF ends
    <3>5. Cardinality(ends) = 0
      BY <3>4, FS_EmptySet
    <3> QED
      BY <1>3, <3>1, <3>3, <3>5 DEF ends
  <2>7. PairsCounted'
    <3> SUFFICES ASSUME NEW p \in Pairs
                 PROVE  IF MessageName(p) \in entered'
                        THEN sent'[p] = Cardinality(EndsOf(p)) + Len(queue'[MessageName(p)])
                        ELSE EndsOf(p) = {} /\ (sent'[p] = 0 \/ Cardinality(entered') >= TableSize)
      BY <2>3 DEF PairsCounted
    <3>1. IF MessageName(p) \in entered
          THEN sent[p] = Cardinality(EndsOf(p)) + Len(queue[MessageName(p)])
          ELSE EndsOf(p) = {} /\ (sent[p] = 0 \/ Cardinality(entered) >= TableSize)
      BY <1>2, <1>6 DEF PairsCounted
    <3>2. Cardinality(entered) <= Cardinality(entered')
      <4>1. IsFiniteSet(entered')
        BY <1>2, <1>4, FS_AddElement, FS_Subset DEF KeysInv
      <4> QED
        BY <1>4, <4>1, FS_Subset
    <3>3. Cardinality(entered') \in Nat /\ TableSize \in Nat
      <4>1. IsFiniteSet(entered')
        BY <1>2, <1>4, FS_AddElement, FS_Subset DEF KeysInv
      <4> QED
        BY <4>1, FS_CardinalityType, KeysAssumption
    <3>4. CASE p # pair
      <4>1. /\ MessageName(p) \in Names \ {nm} /\ sent'[p] = sent[p]
            /\ MessageName(p) \in entered' <=> MessageName(p) \in entered
        BY <1>1, <1>3, <1>4, <3>4 DEF nm
      <4> QED
        BY <1>4, <3>1, <3>2, <3>3, <4>1
    <3>5. CASE p = pair
      <4>1. MessageName(p) = nm /\ sent[p] \in Nat
        BY <1>2, <3>5 DEF nm
      <4>2. CASE nm \in entered
        <5>1. nm \in entered' /\ Len(queue'[nm]) = queueLength + 1
          BY <1>4, <4>2
        <5>2. sent[p] = Cardinality(EndsOf(p)) + queueLength
          BY <3>1, <4>1, <4>2 DEF queueLength
        <5>3. Cardinality(EndsOf(p)) \in Nat
          <6> DEFINE ends == EndsOf(p)
          <6>1. ends \subseteq 1..n
            BY <1>2, <2>1, LinksGrow DEF n
          <6> HIDE DEF ends
          <6>2. IsFiniteSet(1..n)
            BY <2>2, FS_Interval
          <6>3. Cardinality(ends) \in Nat
            BY <6>1, <6>2, FS_Subset, FS_CardinalityType
          <6> QED
            BY <6>3 DEF ends
        <5>4. queueLength \in Nat
          BY <1>1, <1>4 DEF queueLength, nm
        <5> QED
          BY <1>3, <3>5, <4>1, <5>1, <5>2, <5>3, <5>4
      <4>3. CASE nm \notin entered /\ nm \in entered'
        <5>1. queueLength = 0 /\ Len(queue'[nm]) = queueLength + 1
          BY <1>4, <4>3
        <5>2. sent[p] = 0 /\ Cardinality(EndsOf(p)) = 0
          BY <2>6, <3>5, <4>3
        <5> QED
          BY <1>3, <3>5, <4>1, <4>3, <5>1, <5>2
      <4>4. CASE nm \notin entered'
        <5>1. nm \notin entered /\ Cardinality(entered) >= TableSize /\ entered' = entered
          BY <1>4, <4>4
        <5> QED
          BY <3>1, <4>1, <4>4, <5>1
      <4> QED
        BY <4>2, <4>3, <4>4
    <3> QED
      BY <3>4, <3>5
  <2>8. OrderlyWait'
    <3> SUFFICES ASSUME NEW p \in orderly, MessageName(p) \in entered'
                 PROVE  WaitInOrder(p)'
      BY <1>3 DEF OrderlyWait
    <3> DEFINE done == Cardinality(received[p])
    <3>1. p \in Pairs /\ done \in Nat
      BY <1>2, <1>3
    <3> HIDE DEF done
    <3>2. CASE p # pair
      <4>1. MessageName(p) \in Names \ {nm} /\ MessageName(p) \in entered
        BY <1>1, <1>4, <3>1, <3>2 DEF nm
      <4>2. WaitInOrder(p)
        BY <1>2, <1>6, <4>1 DEF OrderlyWait
      <4>3. queue'[MessageName(p)] = queue[MessageName(p)] /\ sent'[p] = sent[p]
        BY <1>3, <1>4, <3>1, <3>2, <4>1
      <4>4. \A l \in DOMAIN paje.links : l \in DOMAIN paje'.links /\ paje'.links[l] = paje.links[l]
        BY <2>2
      <4> QED
        BY <1>3, <4>2, <4>3, <4>4, WaitInOrderKept
    <3>3. CASE p = pair
      <4>1. MessageName(p) = nm /\ nm \in entered' /\ sent[p] \in Nat /\ queueLength \in Nat
        BY <1>1, <1>2, <1>4, <3>1, <3>3 DEF nm, queueLength
      <4>2. /\ Len(queue'[nm]) = queueLength + 1
            /\ \A i \in 1..queueLength : queue'[nm][i] = queue[nm][i]
            /\ queue'[nm][queueLength + 1] = buffer'
        BY <1>4, <4>1
      <4>3. /\ sent[p] = done + queueLength
            /\ \A i \in 1..queueLength : \E l \in 1..n :
                 /\ paje.links[l].side = "start" /\ paje.links[l].key = queue[nm][i]
                 /\ paje.links[l].about = <<p[1], p[2], done + i>>
        <5>1. CASE nm \in entered
          <6>1. WaitInOrder(p)
            BY <1>2, <1>6, <4>1, <5>1 DEF OrderlyWait
          <6> QED
            BY <2>2, <4>1, <6>1 DEF WaitInOrder, LinkAt, queueLength, done
        <5>2. CASE nm \notin entered
          <6>1. queueLength = 0 /\ sent[p] = 0
            BY <1>4, <2>6, <3>3, <4>1, <5>2
          <6>2. done <= sent[p]
            BY <1>2, <3>1 DEF OrderlyBehind, done
          <6> QED
            BY <3>1, <6>1, <6>2
        <5> QED
          BY <5>1, <5>2
      <4>4. sent'[p] = done + Len(queue'[nm])
        BY <1>3, <3>1, <3>3, <4>1, <4>2, <4>3
      <4>5. ASSUME NEW i \in 1..Len(queue'[nm])
            PROVE  \E l \in 1..(n + 1) :
                     /\ paje'.links[l].side = "start" /\ paje'.links[l].key = queue'[nm][i]
                     /\ paje'.links[l].about = <<p[1], p[2], done + i>>
        <5>1. CASE i \in 1..queueLength
          <6>1. PICK l \in 1..n :
                  /\ paje.links[l].side = "start" /\ paje.links[l].key = queue[nm][i]
                  /\ paje.links[l].about = <<p[1], p[2], done + i>>
            BY <4>3, <5>1
          <6>2. l \in 1..(n + 1) /\ paje'.links[l] = paje.links[l]
            BY <2>2
          <6> QED
            BY <4>2, <5>1, <6>1, <6>2
        <5>2. CASE i = queueLength + 1
          <6>1. done + i = sent'[p]
            BY <3>1, <4>1, <4>2, <4>4, <5>2
          <6>2. n + 1 \in 1..(n + 1)
            BY <2>2
          <6> QED
            BY <2>1, <2>2, <3>3, <4>2, <5>2, <6>1, <6>2
        <5> QED
          BY <4>1, <4>2, <5>1, <5>2
      <4> QED
        BY <1>3, <2>2, <4>1, <4>4, <4>5 DEF WaitInOrder, LinkAt, done
    <3> QED
      BY <3>2, <3>3
  <2>9. TauLinksJoinOneMessage'
    <3> SUFFICES ASSUME NEW j \in 1..(n + 1), paje'.links[j].side = "end",
                        <<paje'.links[j].about[1], paje'.links[j].about[2]>> \in orderly
                 PROVE  \E i \in 1..(j - 1) :
                          /\ paje'.links[i].side = "start"
                          /\ paje'.links[i].key = paje'.links[j].key
                          /\ paje'.links[i].about = paje'.links[j].about
      BY <1>3, <2>2 DEF TauLinksJoinOneMessage
    <3>1. j \in 1..n /\ paje'.links[j] = paje.links[j]
      BY <2>1, <2>2
    <3>2. \A i \in 1..(j - 1) : paje'.links[i] = paje.links[i]
      BY <2>2, <3>1
    <3>3. /\ j \in DOMAIN paje.links /\ paje.links[j].side = "end"
          /\ <<paje.links[j].about[1], paje.links[j].about[2]>> \in orderly
      BY <1>3, <2>2, <3>1
    <3>4. PICK i \in 1..(j - 1) :
            /\ paje.links[i].side = "start"
            /\ paje.links[i].key = paje.links[j].key
            /\ paje.links[i].about = paje.links[j].about
      BY <1>2, <3>3 DEF TauLinksJoinOneMessage
    <3> QED
      BY <3>1, <3>2, <3>4
  <2> QED
    BY <1>3, <2>5, <2>7, <2>8, <2>9 DEF CountsInv
<1> QED
  BY <1>5, <1>6
\* The nodes and the states, whatever a message does to the links: its line, if there is
\* one, is about the node of the event.
MessageLine(th) ==
  /\ paje' \in TraceOf(States, TauLink) /\ paje'.stack = paje.stack
  /\ paje' = paje \/ LineAbout(th)

BothReached(th) ==
  /\ last_time' = records' /\ rank_last_time' \in [Nodes -> Nat]
  /\ rank_last_time'[th[1]] = records'
  /\ \A n \in Nodes : rank_last_time'[n] \in {rank_last_time[n], records'}

LEMMA BothReachedBy ==
  ASSUME TauTypeOK, NEW th, NEW src \in Nodes, NEW dst \in Nodes, th[1] \in {src, dst},
         records' \in Nat, BothReach(src, dst)
  PROVE  BothReached(th)
BY DEF BothReach, BothReached, TauTypeOK

LEMMA MessageKeeps ==
  ASSUME TauNow, NEW th \in Threads, MessageEvent(th),
         tau' \in {"read", "exit", "undefined"},
         sent' \in [Pairs -> Nat], received' \in [Pairs -> SUBSET (1..MaxMessages)],
         orderly' \subseteq Pairs, untranslated' \in Nat,
         \/ UNCHANGED <<paje, rank_last_time, last_time>>
         \/ MessageLine(th) /\ BothReached(th)
  PROVE  TauTypeOK' /\ NodesInv' /\ StatesInv'
<1>1. /\ th \in known \ finished /\ tau = "read" /\ records' = records + 1 /\ records' \in Nat
      /\ UNCHANGED <<arguments, state_names, known, finished, told, inside>>
  BY RecordShape DEF MessageEvent, Runs, TauNow
<1>2. paje' \in TraceOf(States, TauLink) /\ paje'.stack = paje.stack
      /\ rank_last_time' \in [Nodes -> Nat] /\ last_time' \in Nat
  BY <1>1 DEF TauNow, TauTypeOK, MessageLine, BothReached
<1>3. TauTypeOK'
  BY <1>1, <1>2 DEF TauNow, TauTypeOK, RunBy
<1>4. NodesInv'
  <2>1. CASE UNCHANGED <<paje, rank_last_time, last_time>>
    BY <1>1, <2>1, SilentKeepsNodes DEF TauNow, NodesKept
  <2>2. CASE MessageLine(th) /\ BothReached(th)
    BY <1>1, <1>3, <2>2, EventKeepsNodes DEF TauNow, NodesKept, MessageLine, BothReached
  <2> QED
    BY <2>1, <2>2
<1>5. StatesInv'
  BY <1>1, <1>2, StatesKeptInv DEF TauNow
<1> QED
  BY <1>3, <1>4, <1>5

\* What a line about a link does to the rest of the trace.
LEMMA LinkPrinted ==
  ASSUME TauTypeOK, NEW th \in Threads, records' \in Nat,
         NEW side \in {"start", "end"}, NEW key \in Key \cup {NoKey}, NEW about \in Nodes \X Nodes \X Nat,
         paje' = Printed(LinkLine(paje, records', side, Rank(th[1]), key, about))
  PROVE  LET link == [side |-> side, at |-> Rank(th[1]), key |-> key, about |-> about]
         IN /\ link \in TauLink /\ MessageLine(th)
            /\ IF Prints THEN paje'.links = Append(paje.links, link) ELSE paje' = paje
<1> DEFINE c == Rank(th[1])
           link == [side |-> side, at |-> c, key |-> key, about |-> about]
<1>1. c \in Containers /\ paje \in TraceOf(States, TauLink)
  BY NodeContainers DEF TauTypeOK
<1> HIDE DEF c
<1>2. /\ link \in TauLink /\ link.side = side /\ link.key = key /\ link.about = about
  BY <1>1 DEF TauLink
<1>3. CASE ~Prints
  BY <1>1, <1>2, <1>3 DEF Printed, Prints, MessageLine, c
<1>4. CASE Prints
  <2>1. paje' = LinkLine(paje, records', side, c, key, about)
    BY <1>4 DEF Printed, Prints, c
  <2>2. Joins(States, TauLink, paje, paje', records', c, link)
    BY <1>1, <1>2, <2>1, LinkShape
  <2> HIDE DEF link
  <2>3. MessageLine(th)
    BY <1>4, <2>2 DEF Joins, Refusals, MessageLine, LineAbout, c
  <2> QED
    BY <1>2, <1>4, <2>2, <2>3 DEF Joins, c, link
<1> QED
  BY <1>3, <1>4
LEMMA SendMessageKeeps ==
  ASSUME TauNow, NEW th \in Threads, NEW dst \in Nodes, SendMessage(th, dst)
  PROVE  TauKeeps
<1> DEFINE src == th[1]
           pair == <<src, dst>>
           message == sent[pair] + 1
           nm == <<"n", src, dst>>
<1>1. /\ MessageEvent(th) /\ pair \in Pairs
      /\ sent' = [sent EXCEPT ![pair] = message]
      /\ UNCHANGED <<received, orderly>>
      /\ IF arguments.no_links THEN NothingPrinted
         ELSE IF dst >= total_number_of_ranks
              THEN /\ tau' = "undefined"
                   /\ UNCHANGED <<keyVars, paje, rank_last_time, last_time, untranslated>>
              ELSE /\ AkyPutKey(nm)
                   /\ BothReach(src, dst)
                   /\ paje' = Printed(LinkLine(paje, records', "start", Rank(src), buffer',
                                               <<src, dst, message>>))
                   /\ UNCHANGED <<tau, untranslated>>
  BY DEF SendMessage
<1>2. /\ TauTypeOK /\ TableInv /\ CountsInv /\ OrderlyBehind /\ ReceivesCounted
      /\ TauLinksJoinOneMessage /\ KeysInv
      /\ untranslated \in Nat /\ received \in [Pairs -> SUBSET (1..MaxMessages)]
      /\ orderly \subseteq Pairs /\ sent \in [Pairs -> Nat]
  BY DEF TauNow, CountsInv, TauTypeOK, TableInv
<1>3. /\ tau = "read" /\ records' \in Nat /\ UNCHANGED arguments
  BY <1>1, RecordShape DEF MessageEvent, TauNow
<1>4. /\ SentNow(pair) /\ nm = MessageName(pair) /\ nm \in Names
      /\ src \in Nodes /\ pair[1] = src /\ pair[2] = dst
  BY <1>1, NodeContainers DEF SentNow, MessageName
<1> HIDE DEF nm
<1>5. /\ sent' \in [Pairs -> Nat] /\ sent'[pair] = message
      /\ OrderlyBehind' /\ ReceivedMessages' = ReceivedMessages
      /\ IsFiniteSet(ReceivedMessages')
  BY <1>2, <1>4, SentShape
<1>6. ASSUME UNCHANGED <<keyVars, paje, rank_last_time, last_time, untranslated>>,
             tau' \in {"read", "undefined"}, ~Counts'
      PROVE  TauKeeps
  <2>1. TauTypeOK' /\ NodesInv' /\ StatesInv'
    BY <1>1, <1>2, <1>5, <1>6, MessageKeeps
  <2>2. KeysInv'
    BY <1>2, <1>6, KeysAssumption, KeysInvStep
  <2>3. TableInv' /\ TauLinksJoinOneMessage'
    BY <1>1, <1>2, <1>3, <1>6, <2>2, QuietLinks DEF keyVars
  <2>4. CountsInv'
    BY <1>5, <1>6, <2>3 DEF CountsInv, PairsCounted, ReceivesCounted, OrderlyWait
  <2> QED
    BY <2>1, <2>3, <2>4 DEF TauKeeps
<1>7. CASE arguments.no_links
  BY <1>1, <1>3, <1>6, <1>7 DEF NothingPrinted, Counts
<1>8. CASE ~arguments.no_links /\ dst >= total_number_of_ranks
  BY <1>1, <1>6, <1>8 DEF Counts
<1>9. CASE ~arguments.no_links /\ ~(dst >= total_number_of_ranks)
  <2> DEFINE about == <<src, dst, message>>
             link == [side |-> "start", at |-> Rank(src), key |-> buffer', about |-> about]
  <2>1. /\ AkyPutKey(nm) /\ BothReach(src, dst)
        /\ paje' = Printed(LinkLine(paje, records', "start", Rank(src), buffer', about))
        /\ UNCHANGED <<tau, untranslated>>
    BY <1>1, <1>9
  <2>2. buffer' \in Key \cup {NoKey}
    <3>1. KeysInv'
      BY <1>2, <1>4, <2>1, KeysAssumption, KeysInvStep DEF KeysNext
    <3> QED
      BY <3>1 DEF KeysInv, KeysTypeOK
  <2>3. about \in Nodes \X Nodes \X Nat
    BY <1>1, <1>2, <1>4
  <2>4. /\ link \in TauLink /\ MessageLine(th)
        /\ IF Prints THEN paje'.links = Append(paje.links, link) ELSE paje' = paje
    <3> HIDE DEF about
    <3> QED
      BY <1>2, <1>3, <2>1, <2>2, <2>3, LinkPrinted
  <2>5. /\ link.side = "start" /\ link.key = buffer'
        /\ link.about = <<pair[1], pair[2], sent'[pair]>>
    BY <1>4, <1>5
  <2> HIDE DEF link
  <2>6. StartPrinted(pair, link)
    BY <2>4, <2>5 DEF StartPrinted
  <2>7. BothReached(th)
    BY <1>2, <1>3, <1>4, <2>1, BothReachedBy
  <2>8. TauTypeOK' /\ NodesInv' /\ StatesInv'
    BY <1>1, <1>2, <1>3, <1>5, <2>1, <2>4, <2>7, MessageKeeps
  <2>9. TableInv'
    BY <1>1, <1>2, <1>3, <1>4, <2>1, <2>6, StartKeepsTable
  <2>10. Counts \/ ~Prints
    BY <1>3, <1>9 DEF Counts
  <2>11. CountsInv'
    BY <1>1, <1>2, <1>3, <1>4, <2>1, <2>6, <2>10, StartKeepsCounts
  <2> QED
    BY <2>8, <2>9, <2>11 DEF TauKeeps
<1> QED
  BY <1>7, <1>8, <1>9
\* The key taken is the one that waited longest, and waits nowhere any more.
LEMMA TakenShape ==
  ASSUME KeysInv, NEW nm \in Names, GetKey(nm)
  PROVE  /\ nm \in entered /\ Len(queue[nm]) \in Nat \ {0} /\ UNCHANGED <<entered, counter>>
         /\ buffer' = queue[nm][1] /\ buffer' \in Key /\ buffer' # NoKey /\ buffer'[3] < counter
         /\ \A m \in Names \ {nm} : queue'[m] = queue[m]
         /\ Len(queue'[nm]) = Len(queue[nm]) - 1
         /\ \A i \in 1..Len(queue'[nm]) : queue'[nm][i] = queue[nm][i + 1]
         /\ \A m \in Names : \A i \in 1..Len(queue'[m]) :
              /\ queue'[m][i] # buffer'
              /\ \E j \in 1..Len(queue[m]) : queue'[m][i] = queue[m][j]
<1>1. KeysTypeOK /\ KeysBelong /\ KeysUnique /\ counter \in Nat
  BY DEF KeysInv, KeysTypeOK
<1>2. /\ nm \in entered /\ queue[nm] # <<>> /\ UNCHANGED <<entered, counter>>
      /\ buffer' = Head(queue[nm])
  BY DEF GetKey
<1>3. /\ \A m \in Names \ {nm} : queue'[m] = queue[m]
      /\ Len(queue'[nm]) = Len(queue[nm]) - 1
      /\ Len(queue[nm]) \in Nat \ {0}
      /\ \A i \in 1..Len(queue'[nm]) : queue'[nm][i] = queue[nm][i + 1]
  BY <1>1, GetShape
<1>4. buffer' = queue[nm][1] /\ buffer' \in Key /\ 1 \in 1..Len(queue[nm])
  <2>1. queue[nm] \in Seq(Key)
    BY <1>1 DEF KeysTypeOK
  <2> QED
    BY <1>2, <1>3, <2>1
<1>5. buffer' # NoKey /\ buffer'[3] < counter
  <2>1. PICK n \in 0..(counter - 1) : buffer' = KeyOf(nm, n)
    BY <1>1, <1>4 DEF KeysBelong
  <2> QED
    BY <1>1, <2>1 DEF KeyOf, NoKey
<1>6. ASSUME NEW m \in Names, NEW i \in 1..Len(queue'[m])
      PROVE  /\ queue'[m][i] # buffer'
             /\ \E j \in 1..Len(queue[m]) : queue'[m][i] = queue[m][j]
  <2>1. CASE m # nm
    <3>1. i \in 1..Len(queue[m]) /\ queue'[m][i] = queue[m][i]
      BY <1>3, <2>1
    <3>2. queue[m][i][3] # queue[nm][1][3]
      BY <1>1, <1>4, <2>1, <3>1 DEF KeysUnique
    <3> QED
      BY <1>4, <3>1, <3>2
  <2>2. CASE m = nm
    <3>1. i + 1 \in 1..Len(queue[nm]) /\ queue'[nm][i] = queue[nm][i + 1] /\ i + 1 # 1
      BY <1>3, <2>2
    <3>2. queue[nm][i + 1][3] # queue[nm][1][3]
      BY <1>1, <1>4, <3>1 DEF KeysUnique
    <3> QED
      BY <1>4, <2>2, <3>1, <3>2
  <2> QED
    BY <2>1, <2>2
<1> QED
  BY <1>2, <1>3, <1>4, <1>5, <1>6

\* What is printed of the end of a link with the key that the table gave.
EndPrinted(pair, message, link) ==
  /\ link \in TauLink /\ link.side = "end" /\ link.key = buffer'
  /\ link.about = <<pair[1], pair[2], message>>
  /\ IF Prints THEN paje'.links = Append(paje.links, link) ELSE paje'.links = paje.links

LEMMA EndKeepsTable ==
  ASSUME TauTypeOK, TableInv, NEW pair \in Pairs, GetKey(MessageName(pair)),
         NEW message, NEW link, EndPrinted(pair, message, link), UNCHANGED arguments
  PROVE  TableInv'
<1> DEFINE nm == MessageName(pair)
           n == Len(paje.links)
<1>1. nm \in Names
  BY NodeContainers
<1>2. KeysInv /\ KeysOld /\ WaitingOpen /\ paje.links \in Seq(TauLink)
  BY DEF TableInv, TauTypeOK, TraceOf
<1>3. KeysInv'
  BY <1>1, <1>2, KeysAssumption, KeysInvStep DEF KeysNext, AkyGetKey
<1>4. /\ counter' = counter /\ buffer' # NoKey /\ buffer'[3] < counter
      /\ \A m \in Names : \A i \in 1..Len(queue'[m]) :
           /\ queue'[m][i] # buffer'
           /\ \E j \in 1..Len(queue[m]) : queue'[m][i] = queue[m][j]
  BY <1>1, <1>2, TakenShape
<1> HIDE DEF nm
<1>5. CASE ~Prints
  BY <1>2, <1>3, <1>4, <1>5
  DEF EndPrinted, TableInv, KeysOld, WaitingOpen, LinkAt, Prints
<1>6. CASE Prints
  <2>1. link \in TauLink /\ link.side = "end" /\ link.key = buffer'
        /\ paje'.links = Append(paje.links, link)
    BY <1>6 DEF EndPrinted
  <2>2. /\ n \in Nat /\ DOMAIN paje.links = 1..n /\ DOMAIN paje'.links = 1..(n + 1)
        /\ \A i \in 1..n : paje'.links[i] = paje.links[i]
        /\ paje'.links[n + 1] = link
        /\ \A side, key : OnLine(side, key)' <=>
             OnLine(side, key) \/ (link.side = side /\ link.key = key)
    BY <1>2, <2>1, LinksGrow
  <2> HIDE DEF n
  <2>3. KeysOld'
    <3> SUFFICES ASSUME NEW i \in 1..(n + 1), paje'.links[i].key # NoKey
                 PROVE  paje'.links[i].key[3] < counter
      BY <1>4, <2>2 DEF KeysOld, LinkAt
    <3>1. CASE i \in 1..n
      BY <1>2, <2>2, <3>1 DEF KeysOld, LinkAt
    <3>2. CASE i = n + 1
      BY <1>4, <2>1, <2>2, <3>2
    <3> QED
      BY <2>2, <3>1, <3>2
  <2>4. WaitingOpen'
    <3> SUFFICES ASSUME NEW m \in Names, NEW i \in 1..Len(queue'[m]),
                        NEW key, key = queue'[m][i]
                 PROVE  OnLine("start", key)' /\ ~OnLine("end", key)'
      BY DEF WaitingOpen
    <3>1. key # buffer' /\ \E j \in 1..Len(queue[m]) : key = queue[m][j]
      BY <1>4
    <3>2. OnLine("start", key) /\ ~OnLine("end", key)
      BY <1>2, <1>6, <3>1 DEF WaitingOpen
    <3> QED
      BY <2>1, <2>2, <3>1, <3>2
  <2> QED
    BY <1>3, <2>3, <2>4 DEF TableInv
<1> QED
  BY <1>5, <1>6
\* A link that ends: one more received, one more translated, one less waiting.
LEMMA EndsFinite ==
  ASSUME TauTypeOK
  PROVE  /\ IsFiniteSet(Translated)
         /\ \A pair : IsFiniteSet(EndsOf(pair)) /\ Cardinality(EndsOf(pair)) \in Nat
<1> DEFINE n == Len(paje.links)
<1>1. paje.links \in Seq(TauLink) /\ n \in Nat /\ DOMAIN paje.links = 1..n
  BY DEF TauTypeOK, TraceOf
<1> HIDE DEF n
<1>2. IsFiniteSet(1..n)
  BY <1>1, FS_Interval
<1>3. \A pair : EndsOf(pair) \subseteq 1..n
  BY <1>1 DEF EndsOf
<1>4. ASSUME NEW pair
      PROVE  IsFiniteSet(EndsOf(pair)) /\ Cardinality(EndsOf(pair)) \in Nat
  <2> DEFINE ends == EndsOf(pair)
  <2>1. ends \subseteq 1..n
    BY <1>3
  <2> HIDE DEF ends
  <2>2. IsFiniteSet(ends) /\ Cardinality(ends) \in Nat
    BY <1>2, <2>1, FS_Subset, FS_CardinalityType
  <2> QED
    BY <2>2 DEF ends
<1> DEFINE all == Translated
<1>5. all \subseteq 1..n
  BY <1>3 DEF Translated
<1> HIDE DEF all
<1>6. IsFiniteSet(all)
  BY <1>2, <1>5, FS_Subset
<1> QED
  BY <1>4, <1>6 DEF all

LEMMA EndKeepsCounts ==
  ASSUME TauTypeOK, KeysInv, CountsInv, NEW pair, NEW message, ReceivedNow(pair, message),
         GetKey(MessageName(pair)), NEW link, EndPrinted(pair, message, link),
         UNCHANGED <<arguments, untranslated, tau>>, Counts \/ ~Prints
  PROVE  CountsInv'
<1> DEFINE nm == MessageName(pair)
           n == Len(paje.links)
           queueLength == Len(queue[nm])
           done == Cardinality(received[pair])
<1>1. /\ pair \in Pairs /\ nm \in Names /\ \A p \in Pairs : MessageName(p) \in Names
      /\ \A p \in Pairs \ {pair} : MessageName(p) # nm
      /\ pair = <<pair[1], pair[2]>>
  BY NodeContainers DEF ReceivedNow
<1>2. /\ PairsCounted /\ ReceivesCounted /\ OrderlyBehind /\ OrderlyWait
      /\ TauLinksJoinOneMessage
      /\ paje.links \in Seq(TauLink) /\ sent \in [Pairs -> Nat] /\ orderly \subseteq Pairs
      /\ untranslated \in Nat
      /\ sent' = sent
  BY DEF CountsInv, TauTypeOK, TraceOf, ReceivedNow
<1>3. /\ orderly' \subseteq orderly /\ done \in Nat /\ Cardinality(received'[pair]) = done + 1
      /\ \A other \in Pairs \ {pair} : received'[other] = received[other]
      /\ pair \in orderly' => message = done + 1 /\ message <= sent[pair]
      /\ OrderlyBehind' /\ IsFiniteSet(ReceivedMessages')
      /\ Cardinality(ReceivedMessages') = Cardinality(ReceivedMessages) + 1
      /\ Cardinality(ReceivedMessages) \in Nat
  BY <1>2, ReceivedShape DEF ReceivesCounted
<1>4. /\ nm \in entered /\ queueLength \in Nat \ {0} /\ entered' = entered
      /\ buffer' = queue[nm][1]
      /\ \A m \in Names \ {nm} : queue'[m] = queue[m]
      /\ Len(queue'[nm]) = queueLength - 1
      /\ \A i \in 1..Len(queue'[nm]) : queue'[nm][i] = queue[nm][i + 1]
  BY <1>1, TakenShape
<1>5. CASE ~Prints
  <2>1. ~Counts' /\ paje'.links = paje.links
    BY <1>5 DEF Counts, Prints, EndPrinted
  <2>2. TauLinksJoinOneMessage'
    BY <1>2, <1>3, <2>1, JoinsKept
  <2> QED
    BY <1>3, <2>1, <2>2 DEF CountsInv, PairsCounted, ReceivesCounted, OrderlyWait
<1>6. CASE Counts
  <2>1. /\ link \in TauLink /\ link.side = "end" /\ link.key = buffer'
        /\ link.about = <<pair[1], pair[2], message>>
        /\ paje'.links = Append(paje.links, link)
    BY <1>6 DEF EndPrinted, Counts
  <2>2. /\ n \in Nat /\ DOMAIN paje.links = 1..n /\ DOMAIN paje'.links = 1..(n + 1)
        /\ \A i \in 1..n : paje'.links[i] = paje.links[i]
        /\ paje'.links[n + 1] = link
        /\ \A p : EndsOf(p) \subseteq 1..n
        /\ \A p : EndsOf(p)' = EndsOf(p) \cup
             (IF link.side = "end" /\ <<link.about[1], link.about[2]>> = p THEN {n + 1} ELSE {})
    BY <1>2, <2>1, LinksGrow
  <2>3. <<link.about[1], link.about[2]>> = pair
    BY <1>1, <2>1
  <2>4. /\ EndsOf(pair)' = EndsOf(pair) \cup {n + 1}
        /\ \A p : p # pair => EndsOf(p)' = EndsOf(p)
    BY <2>1, <2>2, <2>3
  <2>5. n + 1 \notin 1..n
    BY <2>2
  <2>6. Translated' = Translated \cup {n + 1} /\ n + 1 \notin Translated
    BY <1>1, <2>2, <2>4, <2>5 DEF Translated
  <2> HIDE DEF n, nm, queueLength, done
  <2>7. Cardinality(EndsOf(pair)') = Cardinality(EndsOf(pair)) + 1
        /\ Cardinality(EndsOf(pair)) \in Nat
    <3> DEFINE old == EndsOf(pair)
               new == EndsOf(pair)'
    <3>1. new = old \cup {n + 1} /\ n + 1 \notin old /\ IsFiniteSet(old) /\ Cardinality(old) \in Nat
      BY <2>2, <2>4, <2>5, EndsFinite
    <3> HIDE DEF old, new
    <3>2. Cardinality(new) = Cardinality(old) + 1
      BY <3>1, FS_AddElement
    <3> QED
      BY <3>1, <3>2 DEF old, new
  <2>8. Cardinality(Translated') = Cardinality(Translated) + 1
        /\ Cardinality(Translated) \in Nat
    <3> DEFINE old == Translated
               new == Translated'
    <3>1. new = old \cup {n + 1} /\ n + 1 \notin old /\ IsFiniteSet(old)
      BY <2>6, EndsFinite
    <3> HIDE DEF old, new
    <3>2. Cardinality(new) = Cardinality(old) + 1 /\ Cardinality(old) \in Nat
      BY <3>1, FS_AddElement, FS_CardinalityType
    <3> QED
      BY <3>2 DEF old, new
  <2>9. ReceivesCounted'
    <3>1. Cardinality(ReceivedMessages) = Cardinality(Translated) + untranslated
      BY <1>2, <1>6 DEF ReceivesCounted
    <3>2. Cardinality(ReceivedMessages') = Cardinality(Translated') + untranslated
      BY <1>2, <1>3, <2>8, <3>1
    <3> QED
      BY <1>3, <3>2 DEF ReceivesCounted
  <2>10. PairsCounted'
    <3> SUFFICES ASSUME NEW p \in Pairs
                 PROVE  IF MessageName(p) \in entered
                        THEN sent[p] = Cardinality(EndsOf(p)') + Len(queue'[MessageName(p)])
                        ELSE EndsOf(p)' = {} /\ (sent[p] = 0 \/ Cardinality(entered) >= TableSize)
      BY <1>2, <1>4 DEF PairsCounted
    <3>1. IF MessageName(p) \in entered
          THEN sent[p] = Cardinality(EndsOf(p)) + Len(queue[MessageName(p)])
          ELSE EndsOf(p) = {} /\ (sent[p] = 0 \/ Cardinality(entered) >= TableSize)
      BY <1>2, <1>6 DEF PairsCounted
    <3>2. CASE p # pair
      <4>1. EndsOf(p)' = EndsOf(p) /\ queue'[MessageName(p)] = queue[MessageName(p)]
        BY <1>1, <1>4, <2>4, <3>2 DEF nm
      <4> QED
        BY <3>1, <4>1
    <3>3. CASE p = pair
      <4>1. MessageName(p) = nm /\ sent[p] = Cardinality(EndsOf(pair)) + queueLength
        BY <1>4, <3>1, <3>3 DEF nm, queueLength
      <4>2. Len(queue'[nm]) = queueLength - 1 /\ queueLength \in Nat \ {0}
        BY <1>4
      <4>3. sent[pair] = Cardinality(EndsOf(pair)') + Len(queue'[nm])
        BY <2>7, <3>3, <4>1, <4>2
      <4> QED
        BY <1>4, <3>3, <4>1, <4>3
    <3> QED
      BY <3>2, <3>3
  <2>11. pair \in orderly =>
           /\ sent[pair] = done + queueLength
           /\ \A i \in 1..queueLength : \E l \in 1..n :
                /\ paje.links[l].side = "start" /\ paje.links[l].key = queue[nm][i]
                /\ paje.links[l].about = <<pair[1], pair[2], done + i>>
    <3>1. pair \in orderly => WaitInOrder(pair)
      BY <1>2, <1>4, <1>6 DEF OrderlyWait, nm
    <3> QED
      BY <2>2, <3>1 DEF WaitInOrder, LinkAt, queueLength, done, nm
  <2>12. OrderlyWait'
    <3> SUFFICES ASSUME NEW p \in orderly', MessageName(p) \in entered
                 PROVE  WaitInOrder(p)'
      BY <1>4 DEF OrderlyWait
    <3>1. p \in orderly /\ p \in Pairs
      BY <1>2, <1>3
    <3>2. CASE p # pair
      <4>1. WaitInOrder(p)
        BY <1>2, <1>6, <3>1 DEF OrderlyWait
      <4>2. /\ queue'[MessageName(p)] = queue[MessageName(p)] /\ sent'[p] = sent[p]
            /\ received'[p] = received[p]
        BY <1>1, <1>2, <1>3, <1>4, <3>1, <3>2
      <4>3. \A l \in DOMAIN paje.links : l \in DOMAIN paje'.links /\ paje'.links[l] = paje.links[l]
        BY <2>2
      <4> QED
        BY <4>1, <4>2, <4>3, WaitInOrderKept
    <3>3. CASE p = pair
      <4>1. sent[pair] = (done + 1) + Len(queue'[nm])
        BY <1>3, <1>4, <2>11, <3>1, <3>3
      <4>2. ASSUME NEW i \in 1..Len(queue'[nm])
            PROVE  \E l \in 1..(n + 1) :
                     /\ paje'.links[l].side = "start" /\ paje'.links[l].key = queue'[nm][i]
                     /\ paje'.links[l].about = <<pair[1], pair[2], (done + 1) + i>>
        <5>1. i + 1 \in 1..queueLength /\ queue'[nm][i] = queue[nm][i + 1]
              /\ done + (i + 1) = (done + 1) + i
          <6>1. Len(queue'[nm]) = queueLength - 1 /\ queueLength \in Nat \ {0} /\ done \in Nat
            BY <1>3, <1>4
          <6>2. i \in 1..(queueLength - 1)
            BY <6>1
          <6>3. i + 1 \in 1..queueLength /\ done + (i + 1) = (done + 1) + i
            BY <6>1, <6>2
          <6> QED
            BY <1>4, <6>3
        <5>2. PICK l \in 1..n :
                /\ paje.links[l].side = "start" /\ paje.links[l].key = queue[nm][i + 1]
                /\ paje.links[l].about = <<pair[1], pair[2], done + (i + 1)>>
          BY <2>11, <3>1, <3>3, <5>1
        <5>3. l \in 1..(n + 1) /\ paje'.links[l] = paje.links[l]
          BY <2>2
        <5> QED
          BY <5>1, <5>2, <5>3
      <4>3. Cardinality(received'[pair]) = done + 1 /\ sent' = sent
        BY <1>2, <1>3
      <4> DEFINE now == Cardinality(received'[pair])
      <4>4. now = done + 1
        BY <4>3
      <4> HIDE DEF now
      <4>5. /\ sent'[pair] = now + Len(queue'[nm])
            /\ \A i \in 1..Len(queue'[nm]) : \E l \in DOMAIN paje'.links :
                 /\ paje'.links[l].side = "start" /\ paje'.links[l].key = queue'[nm][i]
                 /\ paje'.links[l].about = <<pair[1], pair[2], now + i>>
        BY <2>2, <4>1, <4>2, <4>3, <4>4
      <4> QED
        BY <3>3, <4>5 DEF WaitInOrder, LinkAt, nm, now
    <3> QED
      BY <3>2, <3>3
  <2>13. TauLinksJoinOneMessage'
    <3> SUFFICES ASSUME NEW j \in 1..(n + 1), paje'.links[j].side = "end",
                        <<paje'.links[j].about[1], paje'.links[j].about[2]>> \in orderly'
                 PROVE  \E i \in 1..(j - 1) :
                          /\ paje'.links[i].side = "start"
                          /\ paje'.links[i].key = paje'.links[j].key
                          /\ paje'.links[i].about = paje'.links[j].about
      BY <2>2 DEF TauLinksJoinOneMessage
    <3>1. CASE j \in 1..n
      <4>1. paje'.links[j] = paje.links[j] /\ \A i \in 1..(j - 1) : paje'.links[i] = paje.links[i]
        BY <2>2, <3>1
      <4>2. /\ j \in DOMAIN paje.links /\ paje.links[j].side = "end"
            /\ <<paje.links[j].about[1], paje.links[j].about[2]>> \in orderly
        BY <1>3, <2>2, <3>1, <4>1
      <4>3. PICK i \in 1..(j - 1) :
              /\ paje.links[i].side = "start"
              /\ paje.links[i].key = paje.links[j].key
              /\ paje.links[i].about = paje.links[j].about
        BY <1>2, <4>2 DEF TauLinksJoinOneMessage
      <4> QED
        BY <4>1, <4>3
    <3>2. CASE j = n + 1
      <4>1. pair \in orderly' /\ message = done + 1
        BY <1>3, <2>2, <2>3, <3>2
      <4>2. PICK l \in 1..n :
              /\ paje.links[l].side = "start" /\ paje.links[l].key = queue[nm][1]
              /\ paje.links[l].about = <<pair[1], pair[2], done + 1>>
        <5>1. 1 \in 1..queueLength /\ pair \in orderly
          BY <1>3, <1>4, <4>1
        <5> QED
          BY <2>11, <5>1
      <4>3. l \in 1..(j - 1) /\ paje'.links[l] = paje.links[l]
        BY <2>2, <3>2
      <4> QED
        BY <1>4, <2>1, <2>2, <3>2, <4>1, <4>2, <4>3
    <3> QED
      BY <2>2, <3>1, <3>2
  <2> QED
    BY <1>3, <2>9, <2>10, <2>12, <2>13 DEF CountsInv
<1> QED
  BY <1>5, <1>6
\* A receive without a key is counted, or the last thing that happens: its pair sent
\* less than was received, and is not orderly any more.
LEMMA MissKeepsCounts ==
  ASSUME TauTypeOK, TauTypeOK', KeysInv, CountsInv, NEW pair, NEW message,
         ReceivedNow(pair, message), GetMissing(MessageName(pair)), NoLink,
         UNCHANGED arguments, tau = "read"
  PROVE  CountsInv'
<1> DEFINE nm == MessageName(pair)
<1>1. /\ pair \in Pairs /\ nm \in Names /\ \A p \in Pairs : MessageName(p) \in Names
      /\ \A p \in Pairs \ {pair} : MessageName(p) # nm
  BY NodeContainers DEF ReceivedNow
<1>2. /\ PairsCounted /\ ReceivesCounted /\ OrderlyBehind /\ OrderlyWait
      /\ TauLinksJoinOneMessage
      /\ sent \in [Pairs -> Nat] /\ orderly \subseteq Pairs
      /\ untranslated \in Nat
      /\ sent' = sent
  BY DEF CountsInv, TauTypeOK, ReceivedNow
<1>3. /\ orderly' \subseteq orderly
      /\ Cardinality(received[pair]) \in Nat
      /\ \A other \in Pairs \ {pair} : received'[other] = received[other]
      /\ pair \in orderly' =>
           message = Cardinality(received[pair]) + 1 /\ message <= sent[pair]
      /\ OrderlyBehind' /\ IsFiniteSet(ReceivedMessages')
      /\ Cardinality(ReceivedMessages') = Cardinality(ReceivedMessages) + 1
      /\ Cardinality(ReceivedMessages) \in Nat
  BY <1>2, ReceivedShape DEF ReceivesCounted
<1>4. /\ UNCHANGED <<entered, queue>> /\ (nm \notin entered \/ queue[nm] = <<>>)
      /\ paje' = paje
  BY DEF GetMissing, NoLink
<1>5. /\ \A p : EndsOf(p)' = EndsOf(p)
      /\ Translated' = Translated
  BY <1>4 DEF EndsOf, Translated
<1>6. Counts' => Counts /\ untranslated' = untranslated + 1
  BY DEF Counts, Prints, NoLink
<1>7. TauLinksJoinOneMessage'
  BY <1>2, <1>3, <1>4, JoinsKept
<1>8. PairsCounted'
  BY <1>2, <1>4, <1>5, <1>6 DEF PairsCounted
<1>9. ReceivesCounted'
  <2> SUFFICES ASSUME Counts'
               PROVE  Cardinality(ReceivedMessages') = Cardinality(Translated) + untranslated'
    BY <1>3, <1>5 DEF ReceivesCounted
  <2>1. Cardinality(ReceivedMessages) = Cardinality(Translated) + untranslated
        /\ untranslated' = untranslated + 1
    BY <1>2, <1>6 DEF ReceivesCounted
  <2>2. Cardinality(Translated) \in Nat
    <3> DEFINE all == Translated
    <3>1. IsFiniteSet(all)
      BY EndsFinite
    <3> HIDE DEF all
    <3>2. Cardinality(all) \in Nat
      BY <3>1, FS_CardinalityType
    <3> QED
      BY <3>2 DEF all
  <2> QED
    BY <1>2, <1>3, <2>1, <2>2
<1>10. OrderlyWait'
  <2> SUFFICES ASSUME Counts', NEW p \in orderly', MessageName(p) \in entered
               PROVE  WaitInOrder(p)'
    BY <1>4 DEF OrderlyWait
  <2>1. p \in orderly /\ p \in Pairs
    BY <1>2, <1>3
  <2>2. WaitInOrder(p)
    BY <1>2, <1>6, <2>1 DEF OrderlyWait
  <2>3. p # pair
    <3> SUFFICES ASSUME p = pair PROVE FALSE
      OBVIOUS
    <3>1. queue[nm] = <<>> /\ Len(queue[nm]) = 0
      BY <1>4
    <3>2. sent[pair] = Cardinality(received[pair]) + Len(queue[nm])
      BY <2>2 DEF WaitInOrder
    <3> QED
      BY <1>2, <1>3, <3>1, <3>2
  <2>4. received'[p] = received[p]
    BY <1>3, <2>1, <2>3
  <2> QED
    BY <1>2, <1>4, <2>2, <2>4, WaitInOrderKept
<1> QED
  BY <1>3, <1>7, <1>8, <1>9, <1>10 DEF CountsInv

LEMMA RecvMessageKeeps ==
  ASSUME TauNow, NEW th \in Threads, NEW src \in Nodes, NEW message \in 1..MaxMessages,
         RecvMessage(th, src, message)
  PROVE  TauKeeps
<1> DEFINE dst == th[1]
           pair == <<src, dst>>
           nm == <<"n", src, dst>>
           about == <<src, dst, message>>
<1>1. /\ MessageEvent(th) /\ ReceivedNow(pair, message)
      /\ IF arguments.no_links THEN NothingPrinted
         ELSE /\ AkyGetKey(nm)
              /\ IF buffer' = NoKey THEN NoLink
                 ELSE /\ BothReach(src, dst)
                      /\ paje' = Printed(LinkLine(paje, records', "end", Rank(dst), buffer', about))
                      /\ UNCHANGED <<tau, untranslated>>
  BY DEF RecvMessage, ReceivedNow
<1>2. /\ TauTypeOK /\ TableInv /\ CountsInv /\ OrderlyBehind /\ ReceivesCounted
      /\ TauLinksJoinOneMessage /\ KeysInv
      /\ untranslated \in Nat /\ orderly \subseteq Pairs /\ sent \in [Pairs -> Nat]
  BY DEF TauNow, CountsInv, TauTypeOK, TableInv
<1>3. /\ tau = "read" /\ records' \in Nat /\ UNCHANGED arguments
  BY <1>1, RecordShape DEF MessageEvent, TauNow
<1>4. /\ nm = MessageName(pair) /\ nm \in Names /\ pair \in Pairs
      /\ dst \in Nodes /\ pair[1] = src /\ pair[2] = dst
  BY <1>1, NodeContainers DEF ReceivedNow, MessageName
<1>5. /\ received' \in [Pairs -> SUBSET (1..MaxMessages)] /\ orderly' \subseteq orderly
      /\ OrderlyBehind' /\ IsFiniteSet(ReceivedMessages') /\ sent' = sent
  BY <1>1, <1>2, ReceivedShape DEF ReceivesCounted, ReceivedNow
<1> HIDE DEF nm, about
<1>6. CASE arguments.no_links
  <2>1. UNCHANGED <<keyVars, paje, rank_last_time, last_time, tau, untranslated>> /\ ~Counts'
    BY <1>1, <1>3, <1>6 DEF NothingPrinted, Counts
  <2>2. TauTypeOK' /\ NodesInv' /\ StatesInv'
    BY <1>1, <1>2, <1>3, <1>5, <2>1, MessageKeeps
  <2>3. KeysInv'
    BY <1>2, <2>1, KeysAssumption, KeysInvStep
  <2>4. TableInv' /\ TauLinksJoinOneMessage'
    BY <1>2, <1>3, <1>5, <2>1, <2>3, QuietLinks DEF keyVars
  <2>5. CountsInv'
    BY <1>5, <2>1, <2>4 DEF CountsInv, PairsCounted, ReceivesCounted, OrderlyWait
  <2> QED
    BY <2>2, <2>4, <2>5 DEF TauKeeps
<1>7. ASSUME ~arguments.no_links, GetMissing(nm)
      PROVE  TauKeeps
  <2>1. NoLink
    BY <1>1, <1>7 DEF GetMissing
  <2>2. /\ UNCHANGED <<paje, rank_last_time, last_time>> /\ tau' \in {"read", "exit"}
        /\ untranslated' \in Nat
    BY <1>2, <1>3, <2>1 DEF NoLink
  <2>3. TauTypeOK' /\ NodesInv' /\ StatesInv'
    BY <1>1, <1>2, <1>5, <2>2, MessageKeeps
  <2>4. KeysInv'
    BY <1>2, <1>4, <1>7, KeysAssumption, KeysInvStep DEF KeysNext, AkyGetKey
  <2>5. TableInv'
    BY <1>2, <1>3, <1>5, <1>7, <2>2, <2>4, QuietLinks DEF GetMissing
  <2>6. CountsInv'
    BY <1>1, <1>2, <1>3, <1>4, <1>7, <2>1, <2>3, MissKeepsCounts
  <2> QED
    BY <2>3, <2>5, <2>6 DEF TauKeeps
<1>8. ASSUME ~arguments.no_links, GetKey(nm)
      PROVE  TauKeeps
  <2> DEFINE link == [side |-> "end", at |-> Rank(dst), key |-> buffer', about |-> about]
  <2>1. buffer' \in Key /\ buffer' # NoKey
    BY <1>2, <1>4, <1>8, TakenShape
  <2>2. /\ BothReach(src, dst)
        /\ paje' = Printed(LinkLine(paje, records', "end", Rank(dst), buffer', about))
        /\ UNCHANGED <<tau, untranslated>>
    BY <1>1, <1>8, <2>1
  <2>3. about \in Nodes \X Nodes \X Nat
    BY <1>4 DEF about
  <2>4. /\ link \in TauLink /\ MessageLine(th)
        /\ IF Prints THEN paje'.links = Append(paje.links, link) ELSE paje' = paje
    BY <1>2, <1>3, <2>1, <2>2, <2>3, LinkPrinted
  <2>5. /\ link.side = "end" /\ link.key = buffer'
        /\ link.about = <<pair[1], pair[2], message>>
    BY <1>4 DEF about
  <2> HIDE DEF link
  <2>6. EndPrinted(pair, message, link)
    BY <2>4, <2>5 DEF EndPrinted
  <2>7. BothReached(th)
    BY <1>2, <1>3, <1>4, <2>2, BothReachedBy
  <2>8. TauTypeOK' /\ NodesInv' /\ StatesInv'
    BY <1>1, <1>2, <1>3, <1>5, <2>2, <2>4, <2>7, MessageKeeps
  <2>9. TableInv'
    BY <1>2, <1>3, <1>4, <1>8, <2>6, EndKeepsTable
  <2>10. Counts \/ ~Prints
    BY <1>3, <1>8 DEF Counts
  <2>11. CountsInv'
    BY <1>1, <1>2, <1>3, <1>4, <1>8, <2>2, <2>6, <2>10, EndKeepsCounts
  <2> QED
    BY <2>8, <2>9, <2>11 DEF TauKeeps
<1>9. ~arguments.no_links => GetKey(nm) \/ GetMissing(nm)
  BY <1>1 DEF AkyGetKey
<1> QED
  BY <1>6, <1>7, <1>8, <1>9
-----------------------------------------------------------------------------
(***************************************************************************)
(* The invariant.                                                          *)
(***************************************************************************)
LEMMA TauStarts ==
  ASSUME TauInit, arguments \in CommandLines, RunBy("tau2paje")
  PROVE  TauNow
<1>1. /\ KeysInit /\ tau = "read" /\ state_names = {} /\ last_time = 0
      /\ rank_last_time = [n \in Nodes |-> 0] /\ untranslated = 0
      /\ known = {} /\ finished = {} /\ told = {} /\ records = 0
      /\ inside = [th \in Threads |-> <<>>]
      /\ sent = [pair \in Pairs |-> 0] /\ received = [pair \in Pairs |-> {}]
      /\ orderly = Pairs
      /\ paje = IF Prints THEN TraceWithRoot ELSE NewTrace
  BY DEF TauInit, TauStart, OutputInit, Prints, RunBy
<1>2. /\ paje \in TraceOf(States, TauLink)
      /\ paje.links = <<>> /\ paje.refused = {}
      /\ \A c \in Containers : paje.stack[c] = <<>> /\ paje.latest[c] = 0
      /\ Prints => /\ paje.kind[Root] = "ROOT" /\ <<"PROCESS", "ROOT">> \in paje.types
                   /\ \A c \in Containers \ {Root, World} : paje.kind[c] = "none"
  <2>1. CASE Prints
    BY <1>1, <2>1, NodeContainers, RootShape
  <2>2. CASE ~Prints
    <3>1. paje = NewTrace /\ NewTrace \in TraceOf(States, TauLink)
      BY <1>1, <2>2, NodeContainers, NewTraceShape
    <3> QED
      BY <2>2, <3>1 DEF NewTrace
  <2> QED
    BY <2>1, <2>2
<1>3. TauTypeOK
  BY <1>1, <1>2 DEF TauTypeOK
<1>4. StatesInv
  BY <1>1, <1>2, NodeContainers DEF StatesInv, InsideTold, StacksMirror
<1>5. NodesInv
  BY <1>1, <1>2, NodeContainers
  DEF NodesInv, NodesLive, RootLives, TimesOrdered, TauRefusedOnlyThreads
<1>6. TableInv
  <2>1. KeysInv
    BY <1>1, KeysAssumption, KeysInvInit
  <2> QED
    BY <1>1, <1>2, <2>1 DEF TableInv, KeysOld, WaitingOpen, KeysInit
<1>7. DOMAIN paje.links = {}
  BY <1>2
<1>8. \A pair : EndsOf(pair) = {}
  BY <1>7 DEF EndsOf
<1>9. Translated = {} /\ ReceivedMessages = {}
  BY <1>1, <1>8 DEF Translated, ReceivedMessages
<1>10. IsFiniteSet({}) /\ Cardinality({}) = 0
  BY FS_EmptySet
<1>11. PairsCounted
  BY <1>1, <1>8 DEF PairsCounted, KeysInit
<1>12. ReceivesCounted
  <2> DEFINE all == Translated
             got == ReceivedMessages
  <2>1. all = {} /\ got = {}
    BY <1>9
  <2> HIDE DEF all, got
  <2>2. IsFiniteSet(got) /\ Cardinality(got) = Cardinality(all) + 0
    BY <1>10, <2>1
  <2> QED
    BY <1>1, <2>2 DEF ReceivesCounted, all, got
<1>13. OrderlyBehind
  <2> SUFFICES ASSUME NEW pair \in Pairs PROVE Cardinality(received[pair]) <= sent[pair]
    BY <1>1 DEF OrderlyBehind
  <2>1. received[pair] = {} /\ sent[pair] = 0
    BY <1>1
  <2> DEFINE got == received[pair]
  <2>2. got = {}
    BY <2>1
  <2> HIDE DEF got
  <2>3. Cardinality(got) = 0
    BY <1>10, <2>2
  <2> QED
    BY <2>1, <2>3 DEF got
<1>14. OrderlyWait
  BY <1>1 DEF OrderlyWait, KeysInit
<1>15. TauLinksJoinOneMessage
  BY <1>7 DEF TauLinksJoinOneMessage
<1> QED
  BY <1>3, <1>4, <1>5, <1>6, <1>11, <1>12, <1>13, <1>14, <1>15 DEF TauNow, CountsInv

LEMMA TauSteps == TauNow /\ [TauNext]_tauVars => TauKeeps
<1> SUFFICES ASSUME TauNow, [TauNext]_tauVars PROVE TauKeeps
  OBVIOUS
<1>1. CASE UNCHANGED tauVars
  <2>1. /\ UNCHANGED <<tau, records, arguments, paje, keyVars, untranslated>>
        /\ UNCHANGED <<state_names, rank_last_time, last_time>>
        /\ UNCHANGED <<known, finished, told, inside, sent, received, orderly>>
    BY <1>1 DEF tauVars, tauTables, tauTrace
  <2>2. TauTypeOK'
    BY <2>1 DEF TauNow, TauTypeOK, RunBy
  <2>3. StatesInv'
    BY <2>1, StatesKeptInv DEF TauNow
  <2>4. NodesInv'
    BY <2>1 DEF TauNow, NodesInv, NodesLive, RootLives, TimesOrdered, TauRefusedOnlyThreads,
                Prints, Unknown, Shared, RunBy
  <2>5. KeysInv' /\ TableInv'
    <3>1. KeysInv'
      BY <2>1, KeysAssumption, KeysInvStep DEF TauNow, TableInv
    <3> QED
      BY <2>1, <3>1, QuietLinks DEF TauNow, CountsInv, keyVars
  <2>6. CountsInv'
    <3>1. /\ \A p : EndsOf(p)' = EndsOf(p)
          /\ Translated' = Translated /\ ReceivedMessages' = ReceivedMessages
          /\ UNCHANGED <<entered, queue>>
      BY <2>1 DEF EndsOf, Translated, ReceivedMessages, keyVars
    <3>2. Counts' <=> Counts
      BY <2>1 DEF Counts, Prints
    <3>3. PairsCounted' /\ ReceivesCounted' /\ OrderlyBehind'
      BY <2>1, <3>1, <3>2 DEF TauNow, CountsInv, PairsCounted, ReceivesCounted, OrderlyBehind
    <3>4. OrderlyWait'
      BY <2>1, <3>1, <3>2, WaitInOrderKept DEF TauNow, CountsInv, OrderlyWait
    <3>5. TauLinksJoinOneMessage'
      BY <2>1, JoinsKept DEF TauNow, CountsInv
    <3> QED
      BY <3>3, <3>4, <3>5 DEF CountsInv
  <2> QED
    BY <2>2, <2>3, <2>4, <2>5, <2>6 DEF TauKeeps
<1>2. CASE TauNext
  BY <1>2, DefThreadKeeps, EndTraceKeeps, DefStateKeeps, EnterStateKeeps, LeaveStateKeeps,
     EventTriggerKeeps, SendMessageKeeps, RecvMessageKeeps, ReaderKeeps, LeaveMainKeeps
  DEF TauNext
<1> QED
  BY <1>1, <1>2

\* Whatever the reader tells the callbacks, and whenever the trace ends, the stacks, the
\* containers, the key table and the counts are as TauInv says.
THEOREM TauInvariant ==
  TauSpec /\ arguments \in CommandLines /\ RunBy("tau2paje") => []TauInv
<1>1. TauInit /\ arguments \in CommandLines /\ RunBy("tau2paje") => TauInv
  BY TauStarts, TauInvParts
<1>2. TauInv /\ [TauNext]_tauVars => TauInv'
  BY TauSteps, TauInvParts
<1> QED
  BY <1>1, <1>2, PTL DEF TauSpec

\* EnterState and LeaveState keep the stack of a thread alone on its node as what the
\* thread is in, less the states without a name.
THEOREM TauStacksAreMirrored ==
  TauSpec /\ arguments \in CommandLines /\ RunBy("tau2paje") => []TauStatesMirrored
<1>1. TauInv => TauStatesMirrored
  BY DEF TauInv, StacksMirror, TauStatesMirrored, Prints, Shared
<1> QED
  BY <1>1, TauInvariant, PTL

\* DefThread, EndTrace and main create and destroy the containers such that a line is
\* refused of a node of two threads only.
THEOREM TauRefusalsAreOfThreads ==
  TauSpec /\ arguments \in CommandLines /\ RunBy("tau2paje") => []TauRefusedOnlyThreads
<1>1. TauInv => TauRefusedOnlyThreads
  BY DEF TauInv
<1> QED
  BY <1>1, TauInvariant, PTL

\* What SendMessage and RecvMessage read, print, keep in the key table and count agrees,
\* for any number of nodes and messages, and any room in the table.
THEOREM TauMessagesAreAccounted ==
  TauSpec /\ arguments \in CommandLines /\ RunBy("tau2paje") => []TauLinksAccounted
<1>1. TauInv => TauLinksAccounted
  BY DEF TauInv, PairsCounted, ReceivesCounted, TauLinksAccounted, Counts, Prints, MessageName
<1> QED
  BY <1>1, TauInvariant, PTL

\* Of a pair whose messages are received in order, the two ends of a link that SendMessage
\* and RecvMessage print are about one message.
THEOREM TauLinksAreJoined ==
  TauSpec /\ arguments \in CommandLines /\ RunBy("tau2paje") => []TauLinksJoinOneMessage
<1>1. TauInv => TauLinksJoinOneMessage
  BY DEF TauInv
<1> QED
  BY <1>1, TauInvariant, PTL
-----------------------------------------------------------------------------
(***************************************************************************)
(* tau2paje keeps the promise of PajeLinks: each step prints nothing of    *)
(* links, starts one with a key that is on no line, or ends one that was   *)
(* started and has not ended.  A message that got no key prints a line     *)
(* without one, which is no line of PajeLinks.                             *)
(***************************************************************************)
LinkStep ==
  \/ paje'.links = paje.links
  \/ \E link \in TauLink :
       /\ paje'.links = Append(paje.links, link)
       /\ \/ /\ link.side = "start"
             /\ ~OnLine("start", link.key) \/ link.key = NoKey
             /\ ~OnLine("end", link.key) \/ link.key = NoKey
          \/ /\ link.side = "end" /\ link.key # NoKey
             /\ OnLine("start", link.key) /\ ~OnLine("end", link.key)

LEMMA PrintedKeepsLinks ==
  ASSUME TauTypeOK, NEW time \in Nat, NEW c \in Containers
  PROVE  /\ Printed(CreateContainer(paje, 0, c, "PROCESS", Root)).links = paje.links
         /\ Printed(DestroyContainer(paje, time, c)).links = paje.links
         /\ \A s \in States : Printed(PushState(paje, time, c, s)).links = paje.links
         /\ Printed(PopState(paje, time, c)).links = paje.links
<1>1. paje \in TraceOf(States, TauLink) /\ Root \in Containers /\ "PROCESS" \in Kinds
  BY NodeContainers DEF TauTypeOK, Kinds
<1>2. CreateContainer(paje, 0, c, "PROCESS", Root).links = paje.links
  <2>1. Creates(States, TauLink, paje, CreateContainer(paje, 0, c, "PROCESS", Root), 0, c, "PROCESS", Root)
    BY <1>1, CreateShape
  <2> QED
    BY <2>1 DEF Creates
<1>3. DestroyContainer(paje, time, c).links = paje.links
  <2>1. Destroys(States, TauLink, paje, DestroyContainer(paje, time, c), time, c)
    BY <1>1, DestroyShape
  <2> QED
    BY <2>1 DEF Destroys
<1>4. ASSUME NEW s \in States
      PROVE  PushState(paje, time, c, s).links = paje.links
  <2>1. Pushes(States, TauLink, paje, PushState(paje, time, c, s), time, c, s)
    BY <1>1, PushShape
  <2> QED
    BY <2>1 DEF Pushes
<1>5. PopState(paje, time, c).links = paje.links
  <2>1. Pops(States, TauLink, paje, PopState(paje, time, c), time, c)
    BY <1>1, PopShape
  <2> QED
    BY <2>1 DEF Pops
<1> QED
  BY <1>2, <1>3, <1>4, <1>5 DEF Printed

\* Threads and the end of the conversion.
LEMMA ThreadKeepsLinks ==
  ASSUME TauTypeOK, NEW th \in Threads, DefThread(th) \/ EndTrace(th) \/ EventTrigger(th)
  PROVE  paje'.links = paje.links
<1>1. Rank(th[1]) \in Containers /\ rank_last_time[th[1]] \in Nat
  BY NodeContainers DEF TauTypeOK
<1>2. CASE DefThread(th)
  BY <1>1, <1>2, PrintedKeepsLinks DEF DefThread
<1>3. CASE EndTrace(th)
  BY <1>1, <1>3, PrintedKeepsLinks DEF EndTrace
<1>4. CASE EventTrigger(th)
  BY <1>4 DEF EventTrigger
<1> QED
  BY <1>2, <1>3, <1>4

LEMMA LeavesLinks ==
  ASSUME TauTypeOK, LeaveMain
  PROVE  paje'.links = paje.links
<1>1. Root \in Containers /\ last_time \in Nat
  BY NodeContainers DEF TauTypeOK
<1> QED
  BY <1>1, PrintedKeepsLinks DEF LeaveMain

\* States.
LEMMA StateKeepsLinks ==
  ASSUME TauTypeOK, NEW s \in States
  PROVE  /\ DefState(s) => paje'.links = paje.links
         /\ \A th \in Threads : EnterState(th, s) \/ LeaveState(th, s) => paje'.links = paje.links
<1>1. DefState(s) => paje'.links = paje.links
  BY DEF DefState
<1>2. ASSUME NEW th \in Threads, EnterState(th, s) \/ LeaveState(th, s)
      PROVE  paje'.links = paje.links
  <2>1. records' \in Nat /\ Rank(th[1]) \in Containers
    BY <1>2, RecordShape, NodeContainers DEF EnterState, LeaveState, StateEvent
  <2>2. CASE EnterState(th, s)
    BY <2>1, <2>2, PrintedKeepsLinks DEF EnterState
  <2>3. CASE LeaveState(th, s)
    BY <2>1, <2>3, PrintedKeepsLinks DEF LeaveState
  <2> QED
    BY <1>2, <2>2, <2>3
<1> QED
  BY <1>1, <1>2

\* The key of a start is on no line: it is numbered by the counter.
LEMMA SendsStart ==
  ASSUME TauNow, NEW th \in Threads, NEW dst \in Nodes, SendMessage(th, dst)
  PROVE  LinkStep
<1> DEFINE src == th[1]
           nm == <<"n", src, dst>>
           about == <<src, dst, sent[<<src, dst>>] + 1>>
           link == [side |-> "start", at |-> Rank(src), key |-> buffer', about |-> about]
<1>1. /\ <<src, dst>> \in Pairs /\ MessageEvent(th)
      /\ \/ paje' = paje
         \/ /\ AkyPutKey(nm)
            /\ paje' = Printed(LinkLine(paje, records', "start", Rank(src), buffer', about))
  BY DEF SendMessage, NothingPrinted
<1>2. /\ TauTypeOK /\ KeysInv /\ KeysOld /\ records' \in Nat /\ src \in Nodes
      /\ sent[<<src, dst>>] \in Nat
  BY <1>1, RecordShape, NodeContainers DEF TauNow, TableInv, TauTypeOK, MessageEvent
<1>3. nm \in Names
  BY <1>1, NodeContainers DEF MessageName
<1> HIDE DEF nm
<1>4. CASE paje' = paje
  BY <1>4 DEF LinkStep
<1>5. CASE /\ AkyPutKey(nm)
           /\ paje' = Printed(LinkLine(paje, records', "start", Rank(src), buffer', about))
  <2>1. KeysInv'
    BY <1>2, <1>3, <1>5, KeysAssumption, KeysInvStep DEF KeysNext
  <2>2. buffer' \in Key \cup {NoKey} /\ (buffer' # NoKey => buffer'[3] = counter) /\ counter \in Nat
    BY <1>2, <1>5, <2>1 DEF KeysInv, KeysTypeOK, AkyPutKey, PutKey, PutRefused, KeyOf
  <2>3. about \in Nodes \X Nodes \X Nat
    BY <1>2
  <2>4. /\ link \in TauLink
        /\ IF Prints THEN paje'.links = Append(paje.links, link) ELSE paje' = paje
    <3> HIDE DEF about
    <3> QED
      BY <1>2, <1>5, <2>2, <2>3, LinkPrinted
  <2>5. link.side = "start" /\ link.key = buffer'
    OBVIOUS
  <2> HIDE DEF link
  <2>6. \A side : OnLine(side, buffer') => buffer' = NoKey
    BY <1>2, <2>2 DEF OnLine, KeysOld
  <2> QED
    BY <2>4, <2>5, <2>6 DEF LinkStep
<1> QED
  BY <1>1, <1>4, <1>5

LEMMA ReceivesEnd ==
  ASSUME TauNow, NEW th \in Threads, NEW src \in Nodes, NEW message \in 1..MaxMessages,
         RecvMessage(th, src, message)
  PROVE  LinkStep
<1> DEFINE dst == th[1]
           nm == <<"n", src, dst>>
           about == <<src, dst, message>>
           link == [side |-> "end", at |-> Rank(dst), key |-> buffer', about |-> about]
<1>1. /\ <<src, dst>> \in Pairs /\ MessageEvent(th)
      /\ \/ paje' = paje
         \/ /\ AkyGetKey(nm) /\ buffer' # NoKey
            /\ paje' = Printed(LinkLine(paje, records', "end", Rank(dst), buffer', about))
  BY DEF RecvMessage, NothingPrinted, NoLink
<1>2. TauTypeOK /\ KeysInv /\ WaitingOpen /\ records' \in Nat /\ dst \in Nodes
  BY <1>1, RecordShape, NodeContainers DEF TauNow, TableInv, MessageEvent
<1>3. nm \in Names
  BY <1>1, NodeContainers DEF MessageName
<1> HIDE DEF nm
<1>4. CASE paje' = paje
  BY <1>4 DEF LinkStep
<1>5. CASE /\ AkyGetKey(nm) /\ buffer' # NoKey
           /\ paje' = Printed(LinkLine(paje, records', "end", Rank(dst), buffer', about))
  <2>1. GetKey(nm)
    BY <1>5 DEF AkyGetKey, GetMissing
  <2>2. /\ buffer' \in Key /\ buffer' = queue[nm][1] /\ Len(queue[nm]) \in Nat \ {0}
    BY <1>2, <1>3, <2>1, TakenShape
  <2>3. about \in Nodes \X Nodes \X Nat
    BY <1>2
  <2>4. /\ link \in TauLink
        /\ IF Prints THEN paje'.links = Append(paje.links, link) ELSE paje' = paje
    <3> HIDE DEF about
    <3> QED
      BY <1>2, <1>5, <2>2, <2>3, LinkPrinted
  <2>5. link.side = "end" /\ link.key = buffer'
    OBVIOUS
  <2> HIDE DEF link
  <2>6. Prints => OnLine("start", buffer') /\ ~OnLine("end", buffer')
    <3> SUFFICES ASSUME Prints, NEW key, key = buffer'
                 PROVE  OnLine("start", key) /\ ~OnLine("end", key)
      OBVIOUS
    <3>1. 1 \in 1..Len(queue[nm])
      BY <2>2
    <3> QED
      BY <1>2, <1>3, <2>2, <3>1 DEF WaitingOpen
  <2> QED
    BY <1>5, <2>4, <2>5, <2>6 DEF LinkStep
<1> QED
  BY <1>1, <1>4, <1>5
\* How a step of the links is a step of the promise.
Started == KeysOn("start") \ {NoKey}
Open == KeysOn("start") \ (KeysOn("end") \cup {NoKey})
KeyLines == {i \in DOMAIN paje.links : paje.links[i].key # NoKey}

LEMMA OnLines ==
  ASSUME NEW side, NEW key
  PROVE  key \in KeysOn(side) <=> OnLine(side, key)
BY DEF KeysOn, OnLine, LinkAt

LEMMA LinkStepPromised ==
  ASSUME TauTypeOK, LinkStep
  PROVE  \/ UNCHANGED <<Started, Open, Cardinality(KeyLines)>>
         \/ /\ \E key \in Started' \ Started : Started' = Started \cup {key} /\ Open' = Open \cup {key}
            /\ Cardinality(KeyLines)' = Cardinality(KeyLines) + 1
         \/ /\ \E key \in Open : Open' = Open \ {key}
            /\ Cardinality(KeyLines)' = Cardinality(KeyLines) + 1
            /\ UNCHANGED Started
<1>1. CASE paje'.links = paje.links
  BY <1>1 DEF Started, Open, KeyLines, KeysOn
<1>2. ASSUME NEW link \in TauLink, paje'.links = Append(paje.links, link)
      PROVE  /\ link.side = "start" =>
                  /\ KeysOn("start")' = KeysOn("start") \cup {link.key}
                  /\ KeysOn("end")' = KeysOn("end")
             /\ link.side = "end" =>
                  /\ KeysOn("start")' = KeysOn("start")
                  /\ KeysOn("end")' = KeysOn("end") \cup {link.key}
             /\ link.key # NoKey => Cardinality(KeyLines)' = Cardinality(KeyLines) + 1
             /\ link.key = NoKey => Cardinality(KeyLines)' = Cardinality(KeyLines)
  <2> DEFINE n == Len(paje.links)
  <2>1. paje.links \in Seq(TauLink)
    BY DEF TauTypeOK, TraceOf
  <2>2. /\ n \in Nat /\ DOMAIN paje.links = 1..n /\ DOMAIN paje'.links = 1..(n + 1)
        /\ \A i \in 1..n : paje'.links[i] = paje.links[i]
        /\ paje'.links[n + 1] = link
    BY <1>2, <2>1, LinksGrow
  <2> HIDE DEF n
  <2>3. 1..(n + 1) = (1..n) \cup {n + 1} /\ n + 1 \notin 1..n
    BY <2>2
  <2>4. link.side = "start" =>
          /\ KeysOn("start")' = KeysOn("start") \cup {link.key}
          /\ KeysOn("end")' = KeysOn("end")
    BY <2>2, <2>3 DEF KeysOn
  <2>5. link.side = "end" =>
          /\ KeysOn("start")' = KeysOn("start")
          /\ KeysOn("end")' = KeysOn("end") \cup {link.key}
    BY <2>2, <2>3 DEF KeysOn
  <2> DEFINE old == KeyLines
             new == KeyLines'
  <2>6. /\ old \subseteq 1..n
        /\ new = IF link.key = NoKey THEN old ELSE old \cup {n + 1}
    BY <2>2, <2>3 DEF KeyLines
  <2> HIDE DEF old, new
  <2>7. IsFiniteSet(old) /\ n + 1 \notin old
    <3>1. IsFiniteSet(1..n)
      BY <2>2, FS_Interval
    <3> QED
      BY <2>3, <2>6, <3>1, FS_Subset
  <2>8. link.key # NoKey => Cardinality(new) = Cardinality(old) + 1
    BY <2>6, <2>7, FS_AddElement
  <2>9. link.key = NoKey => Cardinality(new) = Cardinality(old)
    BY <2>6
  <2> QED
    BY <2>4, <2>5, <2>8, <2>9 DEF old, new
<1>3. CASE paje'.links # paje.links
  <2>1. PICK link \in TauLink :
          /\ paje'.links = Append(paje.links, link)
          /\ \/ /\ link.side = "start"
                /\ ~OnLine("start", link.key) \/ link.key = NoKey
                /\ ~OnLine("end", link.key) \/ link.key = NoKey
             \/ /\ link.side = "end" /\ link.key # NoKey
                /\ OnLine("start", link.key) /\ ~OnLine("end", link.key)
    BY <1>3 DEF LinkStep
  <2>2. CASE link.key = NoKey
    BY <1>2, <2>1, <2>2 DEF Started, Open
  <2>3. CASE link.side = "start" /\ link.key # NoKey
    <3>1. link.key \notin KeysOn("start") /\ link.key \notin KeysOn("end")
      BY <2>1, <2>3, OnLines
    <3>2. /\ link.key \in Started' \ Started /\ Started' = Started \cup {link.key}
          /\ Open' = Open \cup {link.key}
      BY <1>2, <2>1, <2>3, <3>1 DEF Started, Open
    <3> QED
      BY <1>2, <2>1, <2>3, <3>2
  <2>4. CASE link.side = "end" /\ link.key # NoKey
    <3>1. link.key \in KeysOn("start") /\ link.key \notin KeysOn("end")
      BY <2>1, <2>4, OnLines
    <3>2. link.key \in Open /\ Open' = Open \ {link.key} /\ Started' = Started
      BY <1>2, <2>1, <2>4, <3>1 DEF Started, Open
    <3> QED
      BY <1>2, <2>1, <2>4, <3>2
  <2> QED
    BY <2>1, <2>2, <2>3, <2>4
<1> QED
  BY <1>1, <1>3

\* Whatever the reader tells, each key that is printed starts one link and ends it once,
\* in that order.
THEOREM TauLinksArePaired ==
  TauSpec /\ arguments \in CommandLines /\ RunBy("tau2paje") => TauLinksPaired
<1> USE DEF Started, Open, KeyLines
<1>1. TauInit => TauPairing!LinksInit
  <2> SUFFICES ASSUME TauInit PROVE TauPairing!LinksInit
    OBVIOUS
  <2>1. paje.links = <<>>
    <3>1. paje \in {NewTrace, TraceWithRoot}
      BY DEF TauInit, OutputInit
    <3>2. TraceWithRoot.links = <<>>
      BY NodeContainers, RootShape
    <3> QED
      BY <3>1, <3>2 DEF NewTrace
  <2>2. DOMAIN paje.links = {}
    BY <2>1
  <2>3. KeysOn("start") = {} /\ KeysOn("end") = {}
    BY <2>2 DEF KeysOn
  <2> DEFINE all == KeyLines
  <2>4. all = {}
    BY <2>2
  <2> HIDE DEF all
  <2>5. Cardinality(all) = 0
    BY <2>4, FS_EmptySet
  <2> QED
    BY <2>3, <2>5 DEF TauPairing!LinksInit, all
<1>2. TauInv /\ [TauNext]_tauVars =>
        [TauPairing!Start \/ TauPairing!End]_TauPairing!linkVars
  <2> SUFFICES ASSUME TauInv, [TauNext]_tauVars
               PROVE  [TauPairing!Start \/ TauPairing!End]_TauPairing!linkVars
    OBVIOUS
  <2>1. TauNow /\ TauTypeOK
    BY TauInvParts DEF TauNow
  <2>2. LinkStep
    <3>1. CASE UNCHANGED tauVars
      BY <3>1 DEF tauVars, LinkStep
    <3>2. CASE TauNext
      <4>1. CASE TraceEnds \/ ReadReturns
        BY <4>1 DEF TraceEnds, ReadReturns, LinkStep
      <4>2. CASE LeaveMain
        BY <2>1, <4>2, LeavesLinks DEF LinkStep
      <4> QED
        BY <2>1, <3>2, <4>1, <4>2, SendsStart, ReceivesEnd, ThreadKeepsLinks, StateKeepsLinks
        DEF TauNext, LinkStep
    <3> QED
      BY <3>1, <3>2
  <2> QED
    BY <2>1, <2>2, LinkStepPromised DEF TauPairing!Start, TauPairing!End, TauPairing!linkVars
<1> QED
  BY <1>1, <1>2, TauInvariant, PTL DEF TauSpec, TauLinksPaired, TauPairing!LinksSpec
===============================================================================
