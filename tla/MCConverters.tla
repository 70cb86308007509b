---------------------------- MODULE MCConverters ----------------------------
(***************************************************************************)
(* The converters of foreign traces, tau2paje, otf2paje, otf22paje and     *)
(* otf2ompprint2paje: one of them is run, with some of its options, on any *)
(* small trace.                                                            *)
(***************************************************************************)
EXTENDS Tau2Paje, Otf2Paje, Otf22Paje, OtfOmpPrint

CONSTANT Commands   \* the programs that may be run, with their options

Command(program, options) ==
  [option \in {"program", "dummy", "no_links", "no_states", "only_mpi", "ignore_errors",
               "flat", "hostfile"}
     |-> IF option = "program" THEN program ELSE option \in options]

MCCommands ==
  {Command("tau2paje", o) : o \in {{"ignore_errors"}, {"only_mpi"}, {"no_links"}}}
    \cup {Command("otf2paje", o) : o \in {{}, {"no_states"}, {"dummy"}}}
    \cup {Command("otf22paje", o) :
           o \in {{"only_mpi"}, {"dummy"}, {"hostfile"}, {"dummy", "hostfile"}, {"flat"},
                  {"flat", "hostfile"}}}
    \cup {Command("otf2ompprint2paje", {})}
FlatOnly == {Command("otf22paje", {"flat"})}

MCThreads == {<<0, 0>>, <<0, 1>>, <<1, 0>>}

MCTexts == <<"m", "n", "MPI_f">>
MCShortName == [text \in {"m", "n", "MPI_f"} |-> text]
MCRegionNames == <<2, 1>>

HostLine(host, pieces, above) ==
  [host |-> host, pieces |-> pieces, above |-> above, newline |-> TRUE]
MCHostLines ==
  {HostLine("n", <<"c", "1">>, <<"s", "f">>),      \* two hosts of a cluster,
   HostLine("m", <<"c", "2">>, <<"s", "f">>),
   HostLine("d", <<"d", "1">>, <<"c", "f">>),      \* names used at two places,
   [HostLine("d-1", <<"d", "1">>, <<"s", "f">>) EXCEPT !.newline = FALSE],
   HostLine("d-1", <<"d">>, <<"s", "f">>),         \* a name without a dash,
   HostLine("d-1", <<"d", "1">>, <<"s">>),         \* a level too few,
   HostLine("d-1", <<"d", "1">>, <<>>),            \* no level at all,
   HostLine("", <<>>, <<>>)}                       \* an empty line

MCContainers ==
  {Root, World} \cup {Rank(n) : n \in Nodes} \cup {Alias(p) : p \in Processes}
    \cup {Named(text) : text \in {"m", "n", "MPI_f", "c", "s", "f", "d", "d-1"}}
    \cup {Thread(ref) : ref \in 0..(MaxGroups + MaxLocations)}

Init ==
  /\ arguments \in Commands /\ OutputInit
  /\ TauStart /\ OtfStart /\ Otf2Start /\ OmpInit
  /\ script = "none" <=> ~RunBy("otf2ompprint2paje")

tauOwn == <<tau, recs_read, tauTables, EndOfTrace, untranslated, tauTrace, records, eof, keyVars>>
otfOwn == <<otf, otfTables, otfTrace>>
otf2Own == <<otf2, tables, last_timestamp, kinds, archive, in_order, open, otf2_events, nfVars>>
vars == <<arguments, paje, tauOwn, otfOwn, otf2Own, ompVars>>

RunTau == RunBy("tau2paje") /\ TauNext /\ UNCHANGED <<otfOwn, otf2Own, ompVars>>
RunOtf == RunBy("otf2paje") /\ OtfNext /\ UNCHANGED <<tauOwn, otf2Own, ompVars>>
RunOtf2 == RunBy("otf22paje") /\ Otf2Next /\ UNCHANGED <<tauOwn, otfOwn, ompVars>>
RunOmp == OmpNext /\ UNCHANGED <<arguments, paje, tauOwn, otfOwn, otf2Own>>

Next == RunTau \/ RunOtf \/ RunOtf2 \/ RunOmp

Spec == Init /\ [][Next]_vars /\ WF_vars(RunTau)

\* With --hostfile or --flat, one node and one process of the archive, and a thread; the
\* long TAU traces are those converted with --ignore-errors, which do not end at a lost
\* message, and the second thread of node 0 comes with the first one only.
Bounded ==
  /\ arguments.hostfile \/ arguments.flat => ArchiveLength <= 3
  /\ RunBy("otf22paje") /\ arguments.dummy => ArchiveLength <= 4
  /\ RunBy("tau2paje") /\ ~arguments.ignore_errors => records <= 2
  /\ ~{<<0, 1>>, <<1, 0>>} \subseteq known
=============================================================================
