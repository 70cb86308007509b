----------------------------- MODULE Otf22Paje -----------------------------
(***************************************************************************)
(* otf22paje (src/src/otf2): the callbacks that the OTF2 reader makes for  *)
(* the global definitions of an archive and then for its events, all       *)
(* locations merged by time; the time of an event is its number.           *)
(*                                                                         *)
(* What the definitions say is kept in tables that are reallocated to the  *)
(* reference of the last one, or to their number, whichever the code does; *)
(* a table is modelled by what can be read from it.  Using anything else   *)
(* is undefined behaviour, and the model stops there (otf2 = "undefined"). *)
(*                                                                         *)
(* The OTF2 library is external.  An archive is written kind by kind, and  *)
(* a definition after those that it refers to; strings and regions come in *)
(* ascending or in descending order, the others in any.                    *)
(***************************************************************************)
EXTENDS Hostfile

CONSTANTS
  Texts,          \* the string with each reference, from 0 on
  ShortName,      \* of each text: what comes before its first dot
  MpiTexts,       \* the texts with MPI_ in them
  RegionNames,    \* the string reference of the name of each region, from 0 on
  NodeNames,      \* the string references of names of nodes of the system tree
  ClassNames,     \* and of their classes
  MaxNodes,       \* bounds: nodes of the system tree,
  MaxGroups,      \* location groups (MPI processes),
  MaxLocations,   \* locations (their threads),
  LocationTypes,  \* OTF2_LocationType: 1 is a thread of a CPU, 2 of a GPU
  MaxOpen,        \* regions entered,
  MaxDefinitions, \* nodes, groups and locations together,
  MaxArchive      \* and these with the events

StringRefs == 0..(Len(Texts) - 1)
RegionRefs == 0..(Len(RegionNames) - 1)
NodeRefs == 0..(MaxNodes - 1)
LocationRefs == 0..(MaxLocations - 1)
String(ref) == Texts[ref + 1]
Thread(ref) == <<"t", ref>>
Uninitialized == "uninitialized"

ASSUME Otf2Assumption ==
  /\ {MaxNodes, MaxGroups, MaxLocations, MaxOpen, MaxDefinitions, MaxArchive} \subseteq Nat
  /\ LocationTypes \subseteq Nat
  /\ NodeNames \cup ClassNames \subseteq StringRefs
  /\ \A r \in RegionRefs : RegionNames[r + 1] \in StringRefs
  /\ \A text \in {String(s) : s \in StringRefs} :
       /\ {Named(text), Named(ShortName[text])} \subseteq Containers
       /\ text \notin {Uninitialized, "none", "gone"}   \* marks of the model
  /\ World \in Containers
  /\ \A i \in 0..(MaxGroups + MaxLocations) : Thread(i) \in Containers

VARIABLES
  otf2,            \* start, hostfile, definitions, events, closed, failed, exit, undefined
  strings,         \* string_hash: the references that can be read
  regions,         \* region_name_map: likewise
  typeTree,        \* type_tree_hash
  containerTree,   \* container_tree_hash
  groups,          \* data->groups: the node of each group, in the order they arrive
  locations,       \* data->locations
  last_timestamp

\* The archive: what the reader has told so far.
VARIABLES
  kinds,           \* how many kinds of definitions have begun
  strings_told,    \* the references of strings and regions
  regions_told,
  nodes,           \* the nodes of the system tree, groups and locations, in the order
  group_defs,      \* they are defined
  location_defs,
  in_order,        \* whether all references have come in ascending order
  open,            \* the regions that each location is in
  otf2_events      \* how many events there were

tables == <<strings, regions, typeTree, containerTree, groups, locations>>
archive == <<strings_told, regions_told, nodes, group_defs, location_defs>>
otf2Vars == <<otf2, tables, last_timestamp, kinds, archive, in_order, open, otf2_events,
              nfVars, arguments, paje>>

Otf2Start ==
  /\ HostfileInit
  /\ otf2 = "start"
  /\ strings = {} /\ regions = {} /\ strings_told = {} /\ regions_told = {}
  /\ typeTree = <<>> /\ containerTree = <<>> /\ groups = <<>> /\ locations = <<>>
  /\ nodes = <<>> /\ group_defs = <<>> /\ location_defs = <<>>
  /\ last_timestamp = -1      \* not initialized
  /\ kinds = 0 /\ otf2_events = 0
  /\ in_order = TRUE
  /\ open = [l \in LocationRefs |-> <<>>]

Otf2Init == Otf2Start /\ OutputInit

-----------------------------------------------------------------------------
unread == <<last_timestamp, open, otf2_events, arguments>>

\* main: --flat and --hostfile exclude each other.
ChooseHierarchy ==
  /\ otf2 = "start"
  /\ otf2' = IF arguments.hostfile
             THEN IF arguments.flat THEN "failed" ELSE "hostfile"
             ELSE "definitions"
  /\ UNCHANGED <<tables, kinds, archive, in_order, unread, nfVars, paje>>

ReadHostLine ==
  /\ otf2 = "hostfile"
  /\ \E line \in HostLines, outcome \in {"more", "done", "exit", "undefined"} :
       /\ HostfileLine(line, outcome)
       /\ otf2' = CASE outcome = "more" -> "hostfile"
                    [] outcome = "done" -> "definitions"
                    [] OTHER -> outcome
  /\ UNCHANGED <<tables, kinds, archive, in_order, unread>>

HostfileEnds ==
  /\ otf2 = "hostfile"
  /\ otf2' = "definitions"
  /\ UNCHANGED <<tables, kinds, archive, in_order, unread, nfVars, paje>>

ArchiveLength == Len(nodes) + Len(group_defs) + Len(location_defs) + otf2_events

\* A definition of a kind, and whether its reference is the next one.
OneOfKind(kind, next) ==
  /\ otf2 = "definitions"
  /\ kinds <= kind /\ kinds' = kind
  /\ kind > 0 => strings_told = StringRefs
  /\ kind > 1 => regions_told = RegionRefs
  /\ ArchiveLength < MaxDefinitions
  /\ in_order' = (in_order /\ next)
  /\ UNCHANGED unread

\* A table reallocated to hold ref as its last entry: those behind it are lost.
CutAfter(table, ref) == {r \in table : r < ref} \cup {ref}

\* The next reference from below, or from above.
UpOrDown(ref, toldRefs, all) ==
  Cardinality(toldRefs) \in {ref, Cardinality(all) - 1 - ref}

\* Mutant of DefString: one entry too few is asked for.
DefStringShort(self) ==
  /\ OneOfKind(0, self = Cardinality(strings_told))
  /\ self \notin strings_told
  /\ UpOrDown(self, strings_told, StringRefs)
  /\ strings_told' = strings_told \cup {self}
  /\ strings' = {r \in strings : r < self - 1} \cup {self}
  /\ UNCHANGED <<otf2, regions, typeTree, containerTree, groups, locations,
                 regions_told, nodes, group_defs, location_defs, nfVars, paje>>

DefString(self) ==
  /\ OneOfKind(0, self = Cardinality(strings_told))
  /\ self \notin strings_told
  /\ UpOrDown(self, strings_told, StringRefs)
  /\ strings_told' = strings_told \cup {self}
  /\ strings' = CutAfter(strings, self)
  /\ UNCHANGED <<otf2, regions, typeTree, containerTree, groups, locations,
                 regions_told, nodes, group_defs, location_defs, nfVars, paje>>

DefRegion(self) ==
  /\ OneOfKind(1, self = Cardinality(regions_told))
  /\ self \notin regions_told
  /\ UpOrDown(self, regions_told, RegionRefs)
  /\ regions_told' = regions_told \cup {self}
  /\ regions' = CutAfter(regions, self)
  /\ UNCHANGED <<otf2, strings, typeTree, containerTree, groups, locations,
                 strings_told, nodes, group_defs, location_defs, nfVars, paje>>

-----------------------------------------------------------------------------
\* find_type_tree_name goes through the table until it finds the name, or an entry that
\* was never written.
Found(name) ==
  \E i \in DOMAIN typeTree : typeTree[i] = name /\ \A j \in 1..i : typeTree[j] # Uninitialized
Astray(name) ==
  \E i \in DOMAIN typeTree : typeTree[i] = Uninitialized /\ \A j \in 1..i : typeTree[j] # name

\* The type of a node, whatever lies at its index.
TypeOf(node) ==
  IF node = -1 THEN "0"
  ELSE IF node < Len(typeTree) THEN typeTree[node + 1] ELSE Uninitialized

\* A new type: the table grows by one, and the index of its entry is not its end.
WithType(index, type) ==
  [Append(typeTree, Uninitialized) EXCEPT ![index + 1] = type]

\* What defining a type does: nothing when its name is in the table.
BadType(index, type, above) ==
  \/ Astray(type)
  \/ ~Found(type) /\ index > Len(typeTree)
  \/ ~Found(type) /\ ~arguments.dummy /\ TypeOf(above) = Uninitialized
NewType(index, type, above, trace) ==
  IF Found(type) THEN [table |-> typeTree, trace |-> trace]
  ELSE [table |-> WithType(index, type),
        trace |-> DefineContainerType(trace, type, TypeOf(above))]

\* Mutant of ContainerOf: the first node is taken for no node.
ContainerOfOthers(node) == IF node <= 0 THEN World ELSE Named(containerTree[node + 1])

ContainerOf(node) == IF node = -1 THEN World ELSE Named(containerTree[node + 1])

\* A node of the system tree: its container is named as the node, its type as the class.
TreeNode(self, name, class, parent) ==
  LET type == NewType(self, String(class), parent, paje)
  IN IF \/ {name, class} \ strings # {}
        \/ BadType(self, String(class), parent)
        \/ self > Len(containerTree)
     THEN otf2' = "undefined" /\ UNCHANGED <<typeTree, containerTree, paje>>
     ELSE /\ typeTree' = type.table
          /\ containerTree' = Append(containerTree, String(name))
          /\ paje' = Printed(CreateContainer(type.trace, 0, Named(String(name)),
                                             String(class), ContainerOf(parent)))
          /\ UNCHANGED otf2

\* With --hostfile, its name is kept only.
HostfileNode(self, name) ==
  IF name \notin strings \/ self > Len(containerTree)
  THEN otf2' = "undefined" /\ UNCHANGED <<typeTree, containerTree, paje>>
  ELSE /\ containerTree' = Append(containerTree, String(name))
       /\ UNCHANGED <<otf2, typeTree, paje>>

DefSystemTreeNode(self, name, class, parent) ==
  /\ OneOfKind(2, self = Len(nodes))
  /\ self \notin {nodes[i].self : i \in DOMAIN nodes}
  /\ parent \in IF nodes = <<>> THEN {-1} ELSE {nodes[i].self : i \in DOMAIN nodes}
  /\ nodes' = Append(nodes, [self |-> self, name |-> String(name),
                             class |-> String(class), parent |-> parent])
  /\ IF arguments.hostfile THEN HostfileNode(self, name)
     ELSE IF arguments.flat THEN UNCHANGED <<otf2, typeTree, containerTree, paje>>
     ELSE TreeNode(self, name, class, parent)
  /\ UNCHANGED <<strings, regions, groups, locations,
                 strings_told, regions_told, group_defs, location_defs, nfVars>>

-----------------------------------------------------------------------------
\* nf_container_type_declare ("P", ...) and the container of a process, in another.
MakeProcess(self, aboveType, above) ==
  LET done == DeclareType(Declared(paje), "P", aboveType)
  IN IF arguments.dummy THEN UNCHANGED <<nf_types, paje>>
     ELSE /\ nf_types' = done.types
          /\ paje' = CreateContainer(done.trace, 0, Thread(self), "P", above)

\* A process: kept in the order of arrival, or made a container in the others.
DefLocationGroup(self, name, parent) ==
  /\ OneOfKind(3, self = Len(group_defs))
  /\ parent \in {nodes[i].self : i \in DOMAIN nodes}
  /\ self \notin {group_defs[i].self : i \in DOMAIN group_defs}
  /\ group_defs' = Append(group_defs, [self |-> self, parent |-> parent])
  /\ IF arguments.hostfile \/ arguments.flat
     THEN IF name \notin strings
          THEN otf2' = "undefined" /\ UNCHANGED <<groups, nf_types, paje>>
          ELSE /\ IF arguments.flat THEN MakeProcess(self, "0", World)
                  ELSE MakeProcess(self, "H", Named(ShortName[containerTree[parent + 1]]))
               /\ UNCHANGED <<otf2, groups>>
     ELSE groups' = Append(groups, parent) /\ UNCHANGED <<otf2, nf_types, paje>>
  /\ UNCHANGED <<strings, regions, typeTree, containerTree, locations, strings_told,
                 regions_told, nodes, location_defs, nf_containers, nf_depth, nf_read>>

\* A thread: the same callback whatever the hierarchy is.  The types are searched for
\* "thread", which is then entered at the number of the type of the location.
DefLocation(self, type, group) ==
  /\ OneOfKind(4, TRUE)
  /\ group \in {group_defs[i].self : i \in DOMAIN group_defs}
  /\ self \notin {location_defs[i].self : i \in DOMAIN location_defs}
  /\ location_defs' = Append(location_defs, [self |-> self, type |-> type, group |-> group])
  /\ IF group >= Len(groups)
     THEN otf2' = "undefined" /\ UNCHANGED <<typeTree, paje>>
     ELSE IF BadType(type, "thread", groups[group + 1])
     THEN otf2' = "undefined" /\ UNCHANGED <<typeTree, paje>>
     ELSE LET node == groups[group + 1]
              thread == NewType(type, "thread", node, paje)
          IN /\ typeTree' = thread.table
             /\ paje' = Printed(CreateContainer(thread.trace, 0, Thread(self), "thread",
                                                ContainerOf(node)))
             /\ UNCHANGED otf2
  /\ locations' = Append(locations, self)
  /\ UNCHANGED <<strings, regions, containerTree, groups,
                 strings_told, regions_told, nodes, group_defs, nfVars>>

\* The reader comes to the end, with the number of definitions of the anchor or not.
DefinitionsEnd ==
  /\ otf2 = "definitions"
  /\ otf2' \in {"events", "failed"}
  /\ UNCHANGED <<tables, kinds, archive, in_order, unread, nfVars, paje>>

-----------------------------------------------------------------------------
\* The name of a region, where it can be read.
Readable(r) == r \in regions /\ RegionNames[r + 1] \in strings
NameOf(r) == String(RegionNames[r + 1])
Converted(r) == arguments.only_mpi => NameOf(r) \in MpiTexts

RegionEvent(l) ==
  /\ otf2 = "events"
  /\ ArchiveLength < MaxArchive
  /\ otf2_events' = otf2_events + 1
  /\ l \in {location_defs[i].self : i \in DOMAIN location_defs}
  /\ UNCHANGED <<tables, kinds, archive, in_order, nfVars, arguments>>

PrintedEvent(r, trace) ==
  IF ~Readable(r) THEN otf2' = "undefined" /\ UNCHANGED <<paje, last_timestamp>>
  ELSE /\ IF Converted(r)
          THEN /\ paje' = IF arguments.no_states THEN paje ELSE Printed(trace)
               /\ last_timestamp' = otf2_events'
          ELSE UNCHANGED <<paje, last_timestamp>>
       /\ UNCHANGED otf2

EnterRegion(l, r) ==
  /\ RegionEvent(l)
  /\ r \in regions_told /\ Len(open[l]) < MaxOpen
  /\ open' = [open EXCEPT ![l] = Append(@, r)]
  /\ PrintedEvent(r, PushState(paje, otf2_events', Thread(l), NameOf(r)))

\* Mutant of LeaveRegion: --only-mpi is not looked at.
LeaveAnyRegion(l, r) ==
  /\ RegionEvent(l)
  /\ open[l] # <<>> /\ r = open[l][Len(open[l])]
  /\ open' = [open EXCEPT ![l] = SubSeq(@, 1, Len(@) - 1)]
  /\ IF ~Readable(r) THEN otf2' = "undefined" /\ UNCHANGED <<paje, last_timestamp>>
     ELSE /\ paje' = IF arguments.no_states THEN paje
                     ELSE Printed(PopState(paje, otf2_events', Thread(l)))
          /\ last_timestamp' = otf2_events'
          /\ UNCHANGED otf2

LeaveRegion(l, r) ==
  /\ RegionEvent(l)
  /\ open[l] # <<>> /\ r = open[l][Len(open[l])]
  /\ open' = [open EXCEPT ![l] = SubSeq(@, 1, Len(@) - 1)]
  /\ PrintedEvent(r, PopState(paje, otf2_events', Thread(l)))

\* What a double that was never set may hold: a time before the one of the lines printed
\* without events, which is 0, or that time, or one after it.
AnyTime == {-1, 0, 1}

\* The end of main: each location ends at last_timestamp, which is not initialized when
\* no event was converted; the containers of the system tree are not destroyed.
Otf2Close ==
  /\ otf2 = "events"
  /\ otf2' = "closed"
  /\ \E time \in IF last_timestamp = -1 THEN AnyTime ELSE {last_timestamp} :
       LET upTo[i \in 0..Len(locations)] ==
             IF i = 0 THEN paje
             ELSE DestroyContainer(upTo[i - 1], time, Thread(locations[i]))
       IN paje' = Printed(upTo[Len(locations)])
  /\ UNCHANGED <<tables, last_timestamp, kinds, archive, in_order, open, otf2_events,
                 nfVars, arguments>>

Otf2Next ==
  \/ ChooseHierarchy \/ ReadHostLine \/ HostfileEnds
  \/ \E s \in StringRefs : DefString(s)
  \/ \E r \in RegionRefs : DefRegion(r)
  \/ \E self \in NodeRefs, name \in NodeNames, class \in ClassNames, p \in {-1} \cup NodeRefs :
       DefSystemTreeNode(self, name, class, p)
  \/ \E self \in 0..(MaxGroups - 1), name \in NodeNames, p \in NodeRefs :
       DefLocationGroup(self, name, p)
  \/ \E self \in LocationRefs, type \in LocationTypes, g \in 0..(MaxGroups - 1) :
       DefLocation(self, type, g)
  \/ DefinitionsEnd
  \/ \E l \in LocationRefs, r \in RegionRefs : EnterRegion(l, r) \/ LeaveRegion(l, r)
  \/ Otf2Close

Otf2Spec == Otf2Init /\ [][Otf2Next]_otf2Vars

-----------------------------------------------------------------------------
TreeMode == RunBy("otf22paje") /\ ~arguments.hostfile /\ ~arguments.flat

NodeOf(location) ==
  LET i == CHOOSE i \in DOMAIN group_defs : group_defs[i].self = location.group
  IN group_defs[i].parent
NodeNamed(ref) == nodes[CHOOSE i \in DOMAIN nodes : nodes[i].self = ref]
Classes == {nodes[i].class : i \in DOMAIN nodes}

\* Each class has come before any class is repeated.
ClassesFirst ==
  \A i, j \in DOMAIN nodes : i < j =>
    \/ \E k \in 1..(j - 1) : nodes[k].class = nodes[j].class
    \/ \A k \in 1..(i - 1) : nodes[k].class # nodes[i].class

\* The first thread is of a type numbered within the classes, and on one of the nodes
\* that brought a class.
FirstThreadFits ==
  location_defs # <<>> =>
    /\ location_defs[1].type <= Cardinality(Classes)
    /\ NodeOf(location_defs[1]) < Cardinality(Classes)

\* All that is known of an archive that is safe to convert into a tree.
SafeArchive == in_order /\ ClassesFirst /\ FirstThreadFits

\* The callbacks use no entry of their tables that was not written or was lost: when
\* references come in ascending order, no class is new after one was repeated, and the
\* first location has a type and a node that type_tree_hash has room for.
Otf2SafeTree == TreeMode /\ SafeArchive => otf2 # "undefined"

\* Names that the Paje trace can keep apart: each node has its own name, which is not that
\* of a thread or of the container of all, no class is called as the type of threads, the
\* nodes of a class are in nodes of one class, and so are the locations.
SameAbove(i, j) ==
  IF nodes[i].parent = -1 \/ nodes[j].parent = -1 THEN nodes[i].parent = nodes[j].parent
  ELSE NodeNamed(nodes[i].parent).class = NodeNamed(nodes[j].parent).class
PlainArchive ==
  /\ \A i \in DOMAIN nodes :
       /\ Named(nodes[i].name) \notin {World} \cup {Thread(l) : l \in LocationRefs}
       /\ nodes[i].class # "thread"
  /\ \A i, j \in DOMAIN nodes : i # j =>
       /\ nodes[i].name # nodes[j].name
       /\ nodes[i].class = nodes[j].class => SameAbove(i, j)
  /\ \A i, j \in DOMAIN location_defs :
       NodeNamed(NodeOf(location_defs[i])).class = NodeNamed(NodeOf(location_defs[j])).class

\* The ends of the locations of an archive of which no event was converted, refused as
\* printed at a time, never set, before the locations begin.
UntimedEnds ==
  IF otf2 = "closed" /\ last_timestamp = -1
  THEN {<<"early", Thread(location_defs[i].self)>> : i \in DOMAIN location_defs} ELSE {}

\* The containers are the system tree: each node in its parent, and each location in the
\* node of its group although the callback of groups forgets which group it was called
\* for.  No line is refused, up to the end of the threads, but for the untimed ends: once
\* an event was converted, no location ends before its last line.
Otf2TreePrinted ==
  TreeMode /\ ~arguments.dummy /\ in_order /\ PlainArchive /\ otf2 # "undefined" =>
    /\ paje.refused \subseteq UntimedEnds
    /\ \A i \in DOMAIN nodes :
         /\ paje.kind[Named(nodes[i].name)] = nodes[i].class
         /\ nodes[i].parent # -1 =>
              paje.parent[Named(nodes[i].name)] = Named(NodeNamed(nodes[i].parent).name)
    /\ \A i \in DOMAIN location_defs :
         paje.parent[Thread(location_defs[i].self)]
           = Named(NodeNamed(NodeOf(location_defs[i])).name)

\* The states on the container of a location are the regions it is in that --only-mpi
\* converts, by the names that they were defined with, whatever was cut from the tables
\* in between.
Otf2StatesMirrored ==
  ~arguments.dummy /\ ~arguments.no_states /\ otf2 # "undefined" =>
    \A l \in LocationRefs :
      Mirrors(paje.stack[Thread(l)], [i \in DOMAIN open[l] |-> NameOf(open[l][i])],
              {NameOf(r) : r \in {r \in RegionRefs : Converted(r)}})

\* "Flat hierarchy (only MPI ranks)" (src/src/otf2/otf22paje_arguments.c:34): an archive
\* that comes in order can be converted with --flat.
FlatConverts == arguments.flat /\ in_order => otf2 # "undefined"
=============================================================================
