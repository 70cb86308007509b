------------------------------ MODULE Hostfile ------------------------------
(***************************************************************************)
(* The hostfile of otf22paje (src/src/otf2/otf22paje_hostfile.c), which    *)
(* describes the machine with a host in a line, for example                *)
(* "griffon-1.nancy.grid5000.fr": host 1 of the cluster griffon, in nancy, *)
(* in grid5000, in fr.  Each level becomes a container type (L1, L2, ...   *)
(* from the inside out, L0 for clusters, H for hosts), each name one       *)
(* container.                                                              *)
(*                                                                         *)
(* A line is a record: the text of its first field, the pieces of it       *)
(* between the dashes, the fields after it, and whether a newline ends it. *)
(* The first field of an empty line is "".                                 *)
(***************************************************************************)
EXTENDS PajeOutput

CONSTANTS
  HostLines,      \* the lines that a file may hold
  MaxHostLines    \* bound on the length of the file

Levels == <<"L1", "L2", "L3">>
Named(text) == <<text, 0>>

\* The texts that name a container, the name of a level or of a host being its alias.
ContainerTexts == {text \in {c[1] : c \in Containers} : Named(text) \in Containers}

ASSUME HostfileAssumption ==
  /\ MaxHostLines \in Nat
  /\ "0" \in ContainerTexts
  /\ \A line \in HostLines :
       /\ line.above \in Seq(ContainerTexts) /\ Len(line.above) <= Len(Levels)
       /\ line.host # "" => line.host \in ContainerTexts /\ line.pieces[1] \in ContainerTexts

VARIABLES
  nf_types,        \* types: the container types declared
  nf_containers,   \* the names of containers created
  nf_depth,        \* the number of fields in a line, -1 before the first one
  nf_read          \* the lines read

nfVars == <<nf_types, nf_containers, nf_depth, nf_read>>

HostfileInit ==
  /\ nf_types = {} /\ nf_containers = {}
  /\ nf_depth = -1
  /\ nf_read = <<>>

\* What the program has declared and created, with what it printed for it.
Declared(trace) == [trace |-> trace, types |-> nf_types, names |-> nf_containers]

\* nf_container_type_declare, nf_container_create: once for each name.
DeclareType(done, type, above) ==
  IF type \in done.types THEN done
  ELSE [done EXCEPT !.types = @ \cup {type},
                    !.trace = DefineContainerType(@, type, above)]

\* Mutant of MakeContainer: a name is created whenever it is read.
MakeContainerAgain(done, name, type, above) ==
  [done EXCEPT !.names = @ \cup {name},
               !.trace = CreateContainer(@, 0, Named(name), type, Named(above))]

MakeContainer(done, name, type, above) ==
  IF name \in done.names THEN done
  ELSE [done EXCEPT !.names = @ \cup {name},
                    !.trace = CreateContainer(@, 0, Named(name), type, Named(above))]

\* The levels of a line from the outermost one down to L1.
MakeLevels(done, above) ==
  LET n == Len(above)
      from[j \in 1..(n + 1)] ==
        IF j = n + 1 THEN done
        ELSE MakeContainer(
               DeclareType(from[j + 1], Levels[j], IF j = n THEN "0" ELSE Levels[j + 1]),
               above[j], Levels[j], IF j = n THEN "0" ELSE above[j + 1])
  IN from[1]

\* The cluster in the innermost level, and the host in the cluster.
MakeHost(done, line) ==
  LET cluster == MakeContainer(DeclareType(done, "L0", "L1"),
                               line.pieces[1], "L0", line.above[1])
  IN MakeContainer(DeclareType(cluster, "H", "L0"), line.host, "H", line.pieces[1])

Depth(line) == IF line.host = "" THEN 0 ELSE 1 + Len(line.above)

\* One turn of the loop of nf_read_and_create_hierarchy, which returns what becomes of
\* the program: it goes on, leaves the loop, exits, or (undefined) uses a field that the
\* line does not have.  The hierarchy is printed whatever --dummy says.
HostfileLine(line, outcome) ==
  LET levels == MakeLevels(Declared(paje), line.above)
      made == MakeHost(levels, line)
      keeps(done) == /\ paje' = done.trace
                     /\ nf_types' = done.types
                     /\ nf_containers' = done.names
  IN /\ Len(nf_read) < MaxHostLines
     /\ \/ /\ ~line.newline
           /\ outcome = "done"
           /\ UNCHANGED <<paje, nfVars>>
        \/ /\ line.newline /\ nf_depth \notin {-1, Depth(line)}
           /\ outcome = "exit"
           /\ UNCHANGED <<paje, nfVars>>
        \/ /\ line.newline /\ nf_depth \in {-1, Depth(line)}
           /\ nf_depth' = Depth(line)
           /\ nf_read' = Append(nf_read, line)
           /\ IF Depth(line) <= 1
              THEN outcome = "undefined" /\ UNCHANGED <<paje, nf_types, nf_containers>>
              ELSE \/ Len(line.pieces) = 2 /\ outcome = "more" /\ keeps(made)
                   \/ Len(line.pieces) # 2 /\ outcome = "exit" /\ keeps(levels)

-----------------------------------------------------------------------------
\* Where the lines read put a name: its type and the name it is in.
LevelPlaces(above) ==
  {<<above[j], Levels[j], IF j = Len(above) THEN "0" ELSE above[j + 1]>> : j \in 1..Len(above)}
Places(line) ==
  LevelPlaces(line.above)
    \cup IF Len(line.pieces) = 2
         THEN {<<line.pieces[1], "L0", line.above[1]>>, <<line.host, "H", line.pieces[1]>>}
         ELSE {}
AllPlaces ==
  UNION {Places(nf_read[i]) : i \in {i \in DOMAIN nf_read : Depth(nf_read[i]) > 1}}
OnePlace(name) == \A p, q \in AllPlaces : p[1] = name /\ q[1] = name => p = q

\* The containers are those of the file, each where its line puts it: names are created
\* once although each line repeats the levels above its host, and outer levels first.
\* A name that the file uses at two places (a site called as its cluster) is not held to it.
HostfilePlaced ==
  /\ \A p \in AllPlaces : OnePlace(p[1]) =>
       paje.kind[Named(p[1])] = p[2] /\ paje.parent[Named(p[1])] = Named(p[3])
  /\ (\A p \in AllPlaces : OnePlace(p[1])) =>
       \A line \in paje.refused : line[2][1] \notin nf_containers
=============================================================================
