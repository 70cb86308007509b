---------------------------- MODULE OtfOmpPrint ----------------------------
(***************************************************************************)
(* The filters of src/src/otf2-omp-print: they read the text that          *)
(* otf2-print writes for the trace of an OpenMP program, a line at a time, *)
(* and write Paje.  otf2ompprint2paje.sh and .jl are one filter in two     *)
(* languages; otf2ompprint2paje.pl also prints, with the states, the       *)
(* metrics and the tasks that the text gives on lines of their own.        *)
(* otf2-print is external: it gives threads as numbers, regions nested on  *)
(* each thread, and a METRIC line before the event it belongs to.          *)
(***************************************************************************)
EXTENDS Integers, Sequences, SequencesExt

CONSTANTS
  OmpThreads,    \* the threads: numbers
  OmpRegions,
  BufferLines,   \* how many lines $strbuffer holds (3 KBytes)
  MaxLines       \* bound on the text

ASSUME OmpAssumption ==
  /\ OmpThreads \subseteq Nat
  /\ {BufferLines, MaxLines} \subseteq Nat

VARIABLES
  script,      \* which of the filters is run: pl, sh (or jl), none
  filter,      \* read, closed
  created,     \* created_containers, or tids
  jobid,       \* of each thread; -1 when it has none
  metrics,
  strbuffer,   \* lines written and not yet printed
  output,      \* the lines printed
  lines_read

ompVars == <<script, filter, created, jobid, metrics, strbuffer, output, lines_read>>

NoJob == -1

\* A line read: what, the thread, the region, and the number of a task or of a metric,
\* for which that of the line stands.
OmpLine(kind, th, region) ==
  [kind |-> kind, thread |-> th, region |-> region, value |-> Len(lines_read) + 1]

\* Lines written: a container, the start or the end of a state.
ContainerLine(th) == [code |-> "6", thread |-> th]
StateLine(code, th, region, job, values) ==
  [code |-> code, thread |-> th, region |-> region, job |-> job, metrics |-> values]

\* bufferize: what waits is printed once there is too much of it.
Bufferize(line) ==
  LET waiting == Append(strbuffer, line)
  IN IF Len(waiting) > BufferLines
     THEN output' = output \o waiting /\ strbuffer' = <<>>
     ELSE strbuffer' = waiting /\ UNCHANGED output

OmpStart ==
  /\ filter = "read"
  /\ jobid = [th \in OmpThreads |-> NoJob]
  /\ metrics = <<>> /\ output = <<>> /\ lines_read = <<>>

\* otf2ompprint2paje.pl writes the container of thread 0, called zero, before all others.
OmpInit ==
  /\ OmpStart
  /\ \/ script = "pl" /\ created = {0} /\ strbuffer = <<ContainerLine(0)>>
     \/ script \in {"sh", "none"} /\ created = {} /\ strbuffer = <<>>

-----------------------------------------------------------------------------
ReadLine(line) ==
  /\ filter = "read"
  /\ Len(lines_read) < MaxLines
  /\ lines_read' = Append(lines_read, line)
  /\ UNCHANGED <<script, filter>>

\* The regions that a thread is in.
Within(th) ==
  FoldLeft(LAMBDA stack, line :
             IF line.thread # th THEN stack
             ELSE CASE line.kind = "ENTER" -> Append(stack, line.region)
                    [] line.kind = "LEAVE" -> Front(stack)
                    [] OTHER -> stack,
           <<>>, lines_read)

\* The job of a thread is printed with one state.
PerlEnter(th, region) ==
  /\ ReadLine(OmpLine("ENTER", th, region))
  /\ Bufferize(StateLine("12", th, region, jobid[th], metrics))
  /\ jobid' = [jobid EXCEPT ![th] = NoJob]
  /\ metrics' = <<>>
  /\ UNCHANGED created

\* Mutant of PerlLeave: the metrics are left to the next event, too.
PerlLeaveKeeping(th, region) ==
  /\ Within(th) # <<>> /\ region = Last(Within(th))
  /\ ReadLine(OmpLine("LEAVE", th, region))
  /\ Bufferize(StateLine("14", th, region, NoJob, metrics))
  /\ UNCHANGED <<created, jobid, metrics>>

PerlLeave(th, region) ==
  /\ Within(th) # <<>> /\ region = Last(Within(th))
  /\ ReadLine(OmpLine("LEAVE", th, region))
  /\ Bufferize(StateLine("14", th, region, NoJob, metrics))
  /\ metrics' = <<>>
  /\ UNCHANGED <<created, jobid>>

\* Metrics are collected from all threads.
PerlMetric(th) ==
  LET line == OmpLine("METRIC", th, "none")
  IN /\ ReadLine(line)
     /\ metrics' = Append(metrics, line.value)
     /\ UNCHANGED <<created, jobid, strbuffer, output>>

\* Mutant of PerlTeamBegin: a container for each team that a thread begins.
PerlTeamBeginAgain(th) ==
  /\ ReadLine(OmpLine("THREAD_TEAM_BEGIN", th, "none"))
  /\ IF th = 0 THEN UNCHANGED <<created, strbuffer, output>>
     ELSE created' = created \cup {th} /\ Bufferize(ContainerLine(th))
  /\ UNCHANGED <<jobid, metrics>>

PerlTeamBegin(th) ==
  /\ ReadLine(OmpLine("THREAD_TEAM_BEGIN", th, "none"))
  /\ IF th \in {0} \cup created THEN UNCHANGED <<created, strbuffer, output>>
     ELSE created' = created \cup {th} /\ Bufferize(ContainerLine(th))
  /\ UNCHANGED <<jobid, metrics>>

PerlTaskSwitch(th) ==
  LET line == OmpLine("THREAD_TASK_SWITCH", th, "none")
  IN /\ ReadLine(line)
     /\ jobid' = [jobid EXCEPT ![th] = line.value]
     /\ UNCHANGED <<created, metrics, strbuffer, output>>

PerlEnds ==
  /\ filter = "read"
  /\ filter' = "closed"
  /\ output' = output \o strbuffer
  /\ strbuffer' = <<>>
  /\ UNCHANGED <<script, created, jobid, metrics, lines_read>>

\* otf2ompprint2paje.sh and .jl: whatever the line is, its thread has a container first;
\* all is printed at once.
ShellLine(line) ==
  /\ ReadLine(line)
  /\ created' = created \cup {line.thread}
  /\ output' = output
       \o (IF line.thread \in created THEN <<>> ELSE <<ContainerLine(line.thread)>>)
       \o (CASE line.kind = "ENTER" ->
                  <<StateLine("12", line.thread, line.region, NoJob, <<>>)>>
             [] line.kind = "LEAVE" ->
                  <<StateLine("14", line.thread, line.region, NoJob, <<>>)>>
             [] OTHER -> <<>>)
  /\ UNCHANGED <<jobid, metrics, strbuffer>>

ShellEnds ==
  /\ filter = "read"
  /\ filter' = "closed"
  /\ UNCHANGED <<script, created, jobid, metrics, strbuffer, output, lines_read>>

PerlNext ==
  \/ \E th \in OmpThreads :
       \/ \E region \in OmpRegions : PerlEnter(th, region) \/ PerlLeave(th, region)
       \/ PerlMetric(th) \/ PerlTeamBegin(th) \/ PerlTaskSwitch(th)
  \/ PerlEnds

ShellNext ==
  \/ \E th \in OmpThreads :
       \/ \E region \in OmpRegions :
            \/ ShellLine(OmpLine("ENTER", th, region))
            \/ /\ Within(th) # <<>> /\ region = Last(Within(th))
               /\ ShellLine(OmpLine("LEAVE", th, region))
       \/ \E kind \in {"METRIC", "THREAD_TEAM_BEGIN", "THREAD_TASK_SWITCH"} :
            ShellLine(OmpLine(kind, th, "none"))
  \/ ShellEnds

OmpNext ==
  \/ script = "pl" /\ PerlNext
  \/ script = "sh" /\ ShellNext

OmpSpec == OmpInit /\ [][OmpNext]_ompVars
-----------------------------------------------------------------------------
Written == output \o strbuffer
IsEvent(line) == line.kind \in {"ENTER", "LEAVE"}

\* The metrics of the i-th line read: those read since the event before it.
MetricsOf(i) ==
  {j \in 1..(i - 1) : /\ lines_read[j].kind = "METRIC"
                      /\ \A k \in j..(i - 1) : ~IsEvent(lines_read[k])}

\* The job of a thread at the i-th line: its last switch before, if no region was entered
\* after it.
JobsOf(th, i) ==
  {j \in 1..(i - 1) :
     /\ lines_read[j].thread = th /\ lines_read[j].kind = "THREAD_TASK_SWITCH"
     /\ \A k \in (j + 1)..(i - 1) : lines_read[k].thread = th =>
          lines_read[k].kind \notin {"ENTER", "THREAD_TASK_SWITCH"}}

\* The events among the first lines read, and the states among the first lines written.
EventsTo(i) == {j \in 1..i : IsEvent(lines_read[j])}
StatesTo(n) == {m \in 1..n : Written[m].code # "6"}

\* A line written for the i-th line read, an event.
Explains(i, line) ==
  LET event == lines_read[i]
      enters == event.kind = "ENTER"
  IN /\ line.thread = event.thread /\ line.region = event.region
     /\ line.code = IF enters THEN "12" ELSE "14"
     /\ ToSet(line.metrics) = MetricsOf(i)
     /\ {line.job} \ {NoJob} = IF enters THEN JobsOf(event.thread, i) ELSE {}

\* The states that otf2ompprint2paje.pl has written are, in their order, the events read,
\* each with the metrics read just before it and with the task that its thread was switched
\* to for it: no metric and no task is lost, and none is printed twice, through three
\* variables that events of all threads use; at the end nothing is left in strbuffer.
OmpEventsExplained ==
  script = "pl" =>
    /\ Cardinality(StatesTo(Len(Written))) = Cardinality(EventsTo(Len(lines_read)))
    /\ \A n \in StatesTo(Len(Written)), i \in EventsTo(Len(lines_read)) :
         Cardinality(StatesTo(n)) = Cardinality(EventsTo(i)) => Explains(i, Written[n])
    /\ filter = "closed" => strbuffer = <<>>

\* Each thread has one container, before its first state.  In the text that
\* otf2ompprint2paje.pl expects a thread begins a team before it enters a region; a thread
\* other than 0 of which it does not say so has states and no container.
Begun(th, n) ==
  \E i \in 1..n : lines_read[i].thread = th /\ lines_read[i].kind = "THREAD_TEAM_BEGIN"
BegunFirst(th) ==
  \/ script = "sh" \/ th = 0
  \/ \A n \in DOMAIN lines_read :
       lines_read[n].thread = th /\ IsEvent(lines_read[n]) => Begun(th, n - 1)
OmpContainersOnce ==
  \A n \in DOMAIN Written :
    LET before(th) == {i \in 1..(n - 1) : Written[i] = ContainerLine(th)}
    IN IF Written[n].code = "6" THEN before(Written[n].thread) = {}
       ELSE BegunFirst(Written[n].thread) => before(Written[n].thread) # {}
=============================================================================
