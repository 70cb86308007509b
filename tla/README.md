# Akypuera in TLA+

Akypuera traces MPI applications and converts traces to the Paje format. This directory holds TLA+
modules for the parts of it that keep state: the tracing library (libaky), the converter of its traces
(aky_converter) and the table of link keys, where processes meet; and the converters of the traces of other
tools (tau2paje, otf2paje, otf22paje, the OpenMP filters), where a library calls back in an order that nobody
controls. TLC checks them on small instances; TLAPS proves the properties of the key table and its lists, of
aky_converter, of tau2paje, otf2paje, otf22paje and the OpenMP filters, and most of those of applications, libaky and
aky_converter together, for every instance. Paths are written from the directory that holds the repository as `src/`, as in PROJECT.json, so that
those of its own source directory begin with `src/src/`.

    tlc -config MCPtp.cfg MCAkypuera.tla      # one of the runs, see the table below
    tlapm AkyConverterProofs.tla              # the proofs, see "What is proved"

## The system and its parts

    application --calls--> libaky --PMPI--> MPI library
                             | rst_event, one rst file per rank
                             v
         rst files --merged by time (librastro)--> aky_converter --poti--> Paje trace
                                                        | aky_put_key, aky_get_key
                                                        v
    TAU trace  --callbacks-->  tau2paje ------------> aky_keys
    OTF trace  --callbacks-->  otf2paje
    OTF2 archive --callbacks--> otf22paje <-- hostfile          all --poti--> Paje trace
    otf2-print --lines--> otf2ompprint2paje (Perl, shell, Julia) --> Paje trace

| Part | Code | State | Operations | Modelled |
|---|---|---|---|---|
| key table | `src/src/aky_keys.c` | a libc hash table from "type#src#dst" to a linked list of keys; a static counter | `aky_put_key`, `aky_get_key`, init, free | yes |
| request trees | `src/src/aky_aux.c` | `aky_irecv_root`, `aky_isend_root` (tsearch trees by address) | insert, remove, check; `AKY_translate_rank` | yes |
| libaky | `src/src/aky.c` | `send_mark`, the trees, the open rst file, all per process | some 120 MPI wrappers | all but persistent requests' messages and calls before MPI_Init |
| MPI library | external | messages, posted receives, requests, collective calls | PMPI | as the wrappers rely on it |
| aky_converter | `src/src/aky/aky_converter.c` | `fail`, `root_created`, the key table, the output | the loop of `main`, four `treat_*` functions | yes |
| options | `src/src/aky/aky_arguments.c` | `struct arguments` | argp | what the loop reads |
| event encoders, names, utilities | `aky_rastro.c`, `aky_names.c`, `aky_utils.c` | a constant table | - | which fields an event has |
| tau2paje | `src/src/tau/` | key table, table of state names, last time per rank, EndOfTrace, a count of lost links | callbacks of the TAU reader, the loop around it | all but how times and names are printed |
| otf22paje | `src/src/otf2/` | tables of definitions reallocated as they arrive, last timestamp | callbacks of the OTF2 reader; tree, flat and hostfile hierarchies | all but clock properties and blanks in names |
| hostfile | `src/src/otf2/otf22paje_hostfile.c` | declared types, created containers | the loop over the lines | yes |
| otf2paje | `src/src/otf/` | table of process names, last time | handlers of the OTF reader | all but the resolution of times |
| otf2-omp-print | `src/src/otf2-omp-print/` | per thread a task, metrics read, containers, a buffer of lines | three text filters | the loops; not the header, nor the taking apart of a line |
| librastro, poti | submodules, not in the tree | - | - | from their use |

How they interact. A wrapper runs in the process of the application; it talks to the other processes only
through PMPI, and to the converter only through its rst file. The converter runs later, alone, on all
files merged by time. So the properties that matter are about what the interleaving of the processes leaves
in the merged trace, and about what the converter makes of *any* merge.

What is hard:

* A send must be recorded before PMPI can show its message to anyone and a receive after PMPI had it; the
  wrappers are written that way, one by one, some 120 times.
* A link's two ends are recorded by two processes, and paired by nothing but order: the k-th receive from a
  rank takes the key of the k-th send to it. Scatters and gathers even share their queues.
* Request variables are reused, so that what the trees remember becomes stale unless every completion
  forgets it.
* Without a synchronization file the events of different ranks arrive in any order.
* The hash table has a fixed size, and nobody looks at what `aky_put_key` returns.
* A failure in the middle of `treat_xt1_recv` does not stop it; `fail` stops the main loop one turn later.
* The foreign converters print from callbacks. One of them ends a process inside a callback (`exit` in
  `RecvMessage`), one thread's end stops the reading for all, and a callback trusts tables that earlier ones
  were to fill: by the last reference rather than by the largest, in the order of arrival rather than by
  reference, for one hierarchy and not for the others.
* What a line about a state looks up must be what its counterpart looked up: a state pushed and not popped
  shifts all the states below it.

What makes each part correct: the key table hands out each key once, oldest first, keys unique over all
types (`KeysUnique`, `QueuesOrdered`, `NoKeyReturns`, `BufferExplained`); its lists stay well linked
(`WellLinked`, `NoLeakNoSharing`); libaky's trees hold just the live requests (`IrecvsRemembered`,
`IsendsRemembered`), so that a wait names the send it waits for (`WaitNamesItsSend`); the trace of a run with
synchronized clocks lets the converter find every key (`NoMissingKey`), pair the ends of the same message or call
(`LinksJoinOneMessage`, `OpenLinksAreUnreceived`), and link each rooted collective call whole (`CollectiveLinksComplete`); the converter's output is well formed whatever it reads (`LinkKeysUnique`,
`EndsFollowStarts`, `OpenLinksWait`, `EmptyStartMeansFull`), its states and containers nest and are complete
(`PopsItsOwnState`, `TraceIsWhole`), and it ends (`ConversionEnds`).

The foreign converters are correct when the Paje trace says what the trace read says: the stack of states of
each container is that of its thread or process, less what the options leave out (`TauStatesMirrored`,
`OtfStatesMirrored`, `Otf2StatesMirrored`, `OmpEventsExplained`); each container is created once, in its place,
and lives as long as there are lines about it (`TauRefusedOnlyThreads`, `OtfRefusedOnlyUnnamed`, `Otf2TreePrinted`,
`HostfilePlaced`, `OmpContainersOnce`); links are paired, and all messages accounted for (`TauLinksPaired`,
`TauLinksAccounted`, `TauLinksJoinOneMessage`); nothing is read that was not written (`Otf2SafeTree`); and the
loop ends (`TauEnds`).

## The modules

| Module | Stands for | Extends |
|---|---|---|
| AkyKeys | the key table as FIFO queues: the abstract specification | |
| AkyKeyList | the same with the doubly linked lists, malloc and free; implements AkyKeys | (INSTANCE AkyKeys) |
| AkyAux | the request trees and `AKY_translate_rank`, as operators | |
| Mpi | the MPI library, external | AkyAux |
| AkyTracer | libaky: the wrappers of every process | Mpi |
| AkyConverter | aky_converter: one turn of its loop per step | AkyKeys |
| AkyAnyTrace | aky_converter on any merge of any well-formed files | AkyConverter |
| Akypuera | application, libaky and aky_converter together | AkyTracer, AkyConverter |
| PajeLinks | what a converter promises of its links: an abstract specification that aky_converter and tau2paje implement | |
| PajeOutput | the Paje trace that the other converters print through libpoti, external | |
| Tau2Paje | tau2paje | AkyKeys, PajeOutput |
| Otf2Paje | otf2paje | PajeOutput |
| Hostfile | the hostfile of otf22paje | PajeOutput |
| Otf22Paje | otf22paje | Hostfile |
| OtfOmpPrint | the OpenMP filters | |
| MCAkyKeys, MCAkyKeyList, MCAkyAnyTrace, MCAkypuera | instances for TLC | |
| MCConverters | one of the foreign converters, with some of its options, on any small trace | Tau2Paje, Otf2Paje, Otf22Paje, OtfOmpPrint |
| AkyKeysProofs, AkyKeyListProofs, AkyConverterProofs | theorems and their proofs | AkyKeys; AkyKeyList; AkyAnyTrace |
| OtfProofs | lemmas about the lines of a Paje trace; theorems about otf2paje, otf22paje, its hostfile and the OpenMP filters | Otf2Paje, Otf22Paje, OtfOmpPrint |
| Tau2PajeProofs | theorems about tau2paje | Tau2Paje, AkyKeysProofs, OtfProofs |
| AkypueraProofs | theorems about the request trees of libaky | Akypuera |
| AkypueraFilesProofs | theorems about the files that libaky writes and what is converted of them | AkypueraProofs, (INSTANCE AkyConverterProofs) |
| AkypueraLinksProofs | theorems about the pairing of sends and receives | AkypueraFilesProofs |

**AkyKeys.** The name "type#src#dst" is a triple, `queue` gives each its keys, `entered` is the set of names
that `hsearch_r (ENTER)` accepted, `counter` the static counter of `new_element`, `buffer` what the caller's
zeroed buffer holds after the call. `PutKey`/`PutRefused` are the two outcomes of `aky_put_key`,
`GetKey`/`GetMissing` those of `aky_get_key`. A key is `<<src, dst, number>>`, as it is printed.

**AkyKeyList.** `desc` is the `desc_t` of each name, `elem` the memory of the `elem_t`s, `alive` those that
malloc has handed out. `Enqueue` and `Dequeue` make the pointer assignments of the code, the two branches
included; malloc may return any free address, and freed memory is reused. The refinement mapping gives to
`queue` the data met by following `tail` from `first`.

**AkyTracer.** A wrapper is split where another process can run: `Enter...` takes it up to the PMPI call and
the call's start, `Leave...` from the return of PMPI to its end. Both record with the fields that the code
gives them (`v`, `size`, `mark` are `v_uint32[0]`, `v_uint32[1]` and `v_uint64[0]`). Wrappers that differ
in nothing but their name and arguments are one action over a set of names: the sends (`EnterSend`), the
tests (`EnterTest`), the rooted collectives down and up the tree (`EnterDown`, `EnterUp`), and all that are
just IN, PMPI, OUT (`PlainOps`, listed as they follow in `aky.c`). The array of an MPI_Waitall is any set of
requests. The application may make the calls in `Calls` in any order, but only as MPI allows: it sends from a free
request, joins each collective call in the order of the others, and finalizes with no request pending.

**AkyConverter.** `Decode(e)` is one turn of the loop in `main`: the guard is `phase = "decode" /\ ~fail`,
each disjunct is a group of cases. The loops of `treat_1tx_send` and `treat_xt1_recv` take one step per rank,
so that their early fails are seen. The output is kept as what it means: which containers live, the stack of
states of each process, and the list of links in the order of printing, with key, value, place and size.
`Close` is what follows the loop. Each link also carries `about`, the message or call that it stands for:
it is not in the files, and no guard reads it; properties compare it.

**AkyAnyTrace** drives the converter with events from the set `Events`, constrained only by what holds in
one file (`FileOrder`): MPI_INIT first, links inside a call, IN and OUT alternating, nothing after the OUT of
MPI_Finalize. Any interleaving of the files is possible, and the files may end anywhere.

**Akypuera** composes tracer and converter through `trace`, the events recorded and not yet decoded.
`NextToDecode` is the merge by time: the first event with synchronized clocks (`Synced`), else the first of
any rank. In reality the converter starts after the application has ended. In the model it may read while the
application runs: what it does on an event depends on the events before it only, so the outcome is the
same, and the model need not remember whole traces. `MaxLag` bounds how far it is behind.

**PajeLinks** keeps the keys ever started, those still open, and the number of lines. A line starts a link with a
fresh key or ends an open one. `AnyLinksPaired` maps to it the links of aky_converter that have a key, and
`TauLinksPaired` those of tau2paje: in both, by what has been *printed*, not by the key table, so that the two
implementations of the pairing, with their different ways to fail, are held to one promise.

**PajeOutput.** A trace is a record of what its reader knows: container types, the type and parent of each
container and the stack of its states, the time of its last line, the links; and `refused`, the lines a reader
cannot accept (a container created again, absent, of a type not defined, ended before its last line). Converters
do not look at any of this: it is what their properties are about. `Printed` is the `--dummy` of the code.

**Tau2Paje.** One action per callback; `Record` is a record that the reader hands over in one call of
`Ttf_ReadNumEvents`, `ReadReturns` the end of that call and the test of the loop. `DefThread`, `DefState`,
`EnterState`, `LeaveState`, `EventTrigger`, `SendMessage`, `RecvMessage` and `EndTrace` are those of
`tau2paje_handlers.c`. `tau` is `"exit"` after the `exit` in `RecvMessage`, and `"undefined"` once `SendMessage` has
written behind `rank_last_time`. The variables from `known` to `eof` are the trace, not the program: what the reader
has told. Guards of callbacks constrain it only as far as a trace is one: a thread runs between its definition and
its end, and leaves the state it entered last. A message may be received before it is sent (clocks), in another order,
or never.

**Otf2Paje.** Definitions, then events. `PrintedAtLast` is a line with the side effect of `ticks_to_seconds` on
`last_time`, which is evaluated as an argument of the printing and so only where something is printed.

**Otf22Paje** and **Hostfile.** `strings` and `regions` are the references whose entries can be read: `CutAfter` is
`realloc` to `(self+1)` entries. `typeTree` grows by one entry for each new class and is written at the number of the
node; entries between are `Uninitialized`. Any use of what is not there leads to `otf2 = "undefined"`, where the model
stops. The double `last_timestamp` is allocated and not set: `Otf2Close` takes for it a time before, at or after the creation of the
containers (`AnyTime`) when no event was converted. Three hierarchies (tree, `--flat`, `--hostfile`) choose among the callbacks as `main` does. A line of a
hostfile is a record of its parts; `HostfileLine` is one turn of the loop, with its ways out.

**OtfOmpPrint.** A line read is its kind, thread and region; the value of a METRIC or of a task switch is the number
of its line, so that a property can say which one was printed. `Bufferize` prints when too many lines wait.
The shell and Julia filters differ in language only and are one action.

**MCConverters** runs one program per behaviour: they share no state but the modules, and each step belongs to one
of them.

Abstractions that hold everywhere: names of operations stand for their numbers and their printed names; time
is order; tags and sizes are small numbers, and the one conversion a property is about, five digits of a
size, is computed (`FiveDigits`); sends are buffered; allocations do not fail.

## The runs

| Run | Instance | Shows | Distinct states |
|---|---|---|---|
| keys | 2 types, 2 ranks (8 names), 3 slots, 4 keys | the table under any calls, a full table included | 54,449 |
| keylist | 4 names, 2 slots, 4 addresses (symmetric), 5 keys | the lists are sound and implement AkyKeys | 4,485 |
| anytrace | 2 ranks, ptp, scatter and gather events, 2 slots, up to 3 links, errors ignored | the links of the output on any merge; that they implement PajeLinks | 166,106 |
| ptp | 2 ranks, 2 requests, 3 calls each, synchronized | libaky and converter on all tracked point-to-point calls | 271,351 |
| collectives | 3 ranks, 2 calls each, 5 collectives from 2 roots | pairing of collective links, and that none is missing in the end | 80,935 |
| untraced | 2 ranks, 2 calls each of the calls that libaky does not follow, unsynchronized | states and containers stay nested and complete; the conversion ends | 98,465 |
| converters | one program per behaviour, 13 choices of program and options; 2 nodes and 3 threads, 2 processes, archives of up to 5 definitions and 6 with events, 2 lines of a hostfile, 4 lines of otf2-print | what each foreign converter prints of any small trace; `TauEnds` | 578,728 |
| diagnosis, fifo, sizes, dummy, flat | one scenario each | a text of the repository against the code; see Findings | - |

Why the bounds are enough. *keys*: three slots against eight names make the table overflow with names still
to come; four keys are two in each of two queues, or four in one. *keylist*: four addresses and five keys
give lists of each length from 0 to 4 and force the reuse of an address; with two slots a third name is
refused. *anytrace*: two slots fill after two names, so a third link has no key; a scatter and
a gather event on two ranks make one loop turn that is skipped (the own rank) and one that is not. The
constraint `Bounded` cuts behaviours after `MaxLinks` links; the run checks safety only, so that
nothing is lost by it, and the theorems below are free of it. *ptp*: three calls let rank 1 post two
receives and complete both with one `MPI_Waitall`, or in either order, and let rank 0 send twice and reuse
its request. *collectives*: with three ranks a root's loop has two links, two calls overlap when a fast rank is
already in the second, and the two roots make a scatter and a gather use one queue. *untraced*:
`MaxLag` is 4, so that events of two ranks are there to be reordered. Receives find no key and links stay open in this
run, which is why `ConversionEnds` is checked here. Errors are ignored in it, so that no conversion fails and stops
early; one that does is seen in *diagnosis*.

*converters*, tau2paje: four records are two messages of a pair with both ends in any order, or a message within two
states; one slot for two states and for two pairs makes both tables overflow; the third thread shares a node; with
three records to a call a thread can end within a call, at its end or in the next one. *otf2paje*: a
process without a name next to one that has one, functions nested twice. *otf22paje*: three nodes of two classes are the
least that make a hole in `typeTree` and a node without a slot; two processes and two locations in either order of
references; three strings, two regions, in ascending and descending order; each condition of `SafeArchive` is
needed, as TLC shows when it is dropped. *Hostfile*: two lines, so that a line repeats
the levels of the one before, from a list that has each irregular line once. *The filters*: four lines let a metric of one
thread precede an event of the other, and a task switch be overtaken by an event; the buffer holds two lines and is
flushed within and at the end. The constraint `Bounded` keeps the archives short where the hierarchy does not
use them, and the traces short where `--ignore-errors` is not given. It cuts states and not only
transitions, which matters to `TauEnds`: a behaviour that is cut is not judged. The TAU traces of the choice with
`--ignore-errors` are not cut by length, and their number of records is bounded in the guard of `Record`.

`CHECK_DEADLOCK FALSE` stands where the system ends: a closed conversion, or, in the composed runs, also an
application that waits for a message nobody sends. *keys* and *keylist* never stop, and are checked for it.

`IsendsRemembered` and `WaitNamesItsSend` are checked in *ptp*, where the application completes an MPI_Isend with
MPI_Wait only. The second sees what the first does not, the turn of `aky_check`'s -1 into the mark 0 in `MPI_Wait`.
`MPI_Waitall`, `MPI_Waitany` and `MPI_Test` leave a completed isend in the tree (see the hazards in
PROJECT.json): with an isend completed in one of them the properties do not hold, and no text of the
repository says what should. The same goes for `IrecvsRemembered` and the test calls.

Fairness: `Akypuera` assumes weak fairness of `ConverterNext`, nothing else. The converter is a sequential
program that waits for nothing but its input, so that a step of it that is possible will be taken; of the
application nothing is assumed, and `ConversionEnds` speaks only of runs whose ranks have all finalized.
`MCConverters` assumes weak fairness of `RunTau`: tau2paje is one thread, and the reader, which reads a file, does not
block. Nothing says that a trace holds an end of a thread: where the file just ends, and the reader answers 0
for ever, the loop of tau2paje goes on for ever as well, and `TauEnds` speaks of the traces in which a thread ends.

Every property of a passing run is paired, in PROJECT.json, with a mutation of the model that a plausible
bug in the code would amount to, and that makes it fail: the operators commented "Mutant of". They are used by
no other definition.

## Findings

* **diagnosis**: `MPI_Wait`, `MPI_Waitall` and `MPI_Waitany` record the source of a receive as the status has
  it (`src/src/aky.c:1458`), a rank of the receive's communicator; all other wrappers translate to
  MPI_COMM_WORLD. On a communicator with other ranks the converter finds no key and asks, in vain, whether
  the traces are synchronized.
* **fifo**: `src/src/otf2/DevLog.org:166` says that one can assume FIFO between every pair of ranks. The
  receive of an `MPI_Irecv` is recorded when it is waited for; two that are waited for in the other order swap
  the ends of their links. Of applications that receive one message at a time the assumption is true
  (`MessagesAreFifo` below).
* **sizes**: the comment at `src/src/aky/aky_converter.c:31` takes five digits to be enough; a message of
  400000 bytes is printed as 40000.
* **dummy**: `--dummy` is documented as "no output" and leaves out the header only.
* **flat**: `--flat` is documented as "Flat hierarchy (only MPI ranks)" (`src/src/otf2/otf22paje_arguments.c:34`). The
  callback for locations is registered whatever the hierarchy (`src/src/otf2/otf22paje.c:85`) and reads
  `data->groups`, which the callback of the tree hierarchy alone fills: the first location is undefined behaviour.
  The same holds of `--hostfile`.

## What is proved

All for every value of the constants, from the named assumptions of the modules: ids are integers, sizes natural
numbers, ranks are ids, addresses are not the null pointer, the four key types exist (`KeysAssumption`, `ListAssumption`,
`ConverterAssumption`); an event's peer is an id and its number of ranks is at most that of all ranks
(`EventsAssumption`); the processes of an OTF trace, the nodes of a TAU trace, the locations of an archive and the root
have names of containers, and nodes are ids (`OtfAssumption`, `TauAssumption`, `Otf2Assumption`); a line of a hostfile has at
most three levels, and texts name containers (`HostfileAssumption`); threads of an OpenMP program are numbers
(`OmpAssumption`); communicators are sequences of ranks, slots of requests are apart from the blocking one, and calls are
of the operations that are modelled (`MpiAssumption`, `TracerAssumption`, `AkypueraAssumption`). TLC evaluates the assumptions
in the passing runs.

*AkyKeysProofs*, of `KeysSpec`: `KeysTypeCorrect`, `KeysAreOrdered`, `KeysAreUnique`,
`KeysNeverReturn` and `CallsAreExplained`. `KeysUnique` and `QueuesOrdered` are not inductive: nothing in them
keeps the next key from equal numbers. The inductive invariant `KeysInv` adds `KeysBelong` (each
waiting key has the two ids of its name and a number below the counter) and, for the proofs about the converters, that
`entered` is finite and within the size of the table (`TableBounded`). A put appends the number `counter`, above all in the table (`PutStep`); a get moves one
queue up by one (`GetStep`).

*AkyKeyListProofs*, of `ListSpec`: `ListTypeCorrect`, `ListsStayWellLinked`, `NothingLeaks` and `ListImplementsKeys`, for
any number of names, slots and addresses. What a list holds is what a recursive function meets when it follows `tail` from
`first`, and no induction over a function's definition is at hand. So the inductive invariant `ListInv` says that there *is* a
sequence of addresses for each name that is linked as `first`, `last`, `head` and `tail` say, without repetition, the
sequences of two names being disjoint and all of them together being what malloc has handed out; a put appends to one of
them a free address, a get takes the first away. That the chain of the model is that sequence follows from the position
where the two part first, a least number. The refinement then maps `Enqueue` and `Dequeue` to the steps of AkyKeys, for a
malloc that may return any free address and reuse one at once.

*AkyConverterProofs*, of `AnySpec`, the converter on any merge of well-formed files: `PrintedKeysAreUnique`,
`EndsAreStarted`, `TableHoldsOpenLinks` and `EmptyStartsAreExcused`. The invariant `LinksInv` takes `KeysInv`
for the table, `OpenLinksWait` to tie the table to the printed links (a waiting key was started and not ended:
this is what lets an end that takes it be the first to print it, after its start), `PrintedKeysUsed` (a
fresh key is on no printed link), `StartsAtSource`, and the types of the loop. `StepShape` reduces all steps to
three: one that starts a link at the process of its event, one that ends one there, one that touches neither
table nor links; `StartKeepsLinks` and `EndKeepsLinks` do the rest. So the links of the output can be paired by
their keys for any number of ranks, with unsynchronized clocks, full tables and ignored errors. `LinksImplemented`
says so as a refinement of PajeLinks: a start whose key is NoKey, and an end that found no key, map to a stutter
(`NoKeyStutters`), any other start to `Start` because a fresh key is on no link (`StartIsStart`), any other end to
`End` because the key it takes is open (`EndIsEnd`).

*OtfProofs* says first of each kind of line what it changes of a trace and what it leaves alone (`PushShape`,
`PopShape`, `CreateShape`, `DestroyShape`, `LinkShape`, `RootShape`). On that rest the theorems about `OtfSpec`
run as otf2paje with any of the options, for any number of processes, functions and slots of process_name_hash, and any
length of trace: `StatesAreMirrored` and `RefusalsAreUnnamed`. Neither is inductive. `OtfInv` adds that what is entered
was defined and has its value (`EnteredAreDefined`, `DefinedHaveValues`), without which a state could have no name;
`OtfRootLives` and `NothingLate`, that the root is there until `OtfClose` and that `otf_last_time` is not before its last
line, which makes its end no early one though `last_time` is only set where something is printed; `NamedLive`, that a
running process with a name has its container and one that has not begun has none; and `DefinitionsFirst`, that no name
comes after the first event. There is one lemma per handler; `DatedKeeps` and `StateLineKeeps` hold what they share.

The second part of *OtfProofs* is of `Otf2Spec` run as otf22paje with any of the options, for any archive and any sizes of its
tables: `Otf2StatesAreMirrored`, `Otf2TreeIsSafe` and `Otf2TreeIsPrinted`. The invariant is a conjunction of four. `Otf2Placed`
says where each definition of the archive ended up: which entries of the reallocated tables can be read, and that they hold
what was defined by those references. `Otf2Ordered` is what an archive in ascending references gives: no table was cut, each
class of a node has its entry in `typeTree`, and no line is later than `last_timestamp`. `Otf2Mirrored` ties the stack of a location to
the regions it is in. `TreePrinted` says what container and type each node and each location has, that nothing else was
created, and that no line was refused, but ends of locations at the time that `main` never set (`RefusedEnds`): an archive
without a converted event ends its containers at whatever `malloc` left, so that a reader may have to refuse them;
with one event converted the theorem says that no end is early. The first two are enough for `Otf2SafeTree`; the last rests on all. The proof
corrected the model's idea of an archive that the trace can show: `PlainArchive` now excludes a node called as the
root or as a thread, and a class called "thread", which both lead to refused lines.

`HostfileIsPlaced` is about the lines of a hostfile of any length, whatever archive follows, if no name in it is that of the
root or of a process (`HostNamesPlain`). `HostInv` carries through the recursion over the levels of a line that each name
created stands at one of the places of the lines read, and that a type declared is declared in that of the
level above (`Fits`, `LevelFits`). Here too the property had to change: a line whose host has no dash makes the program exit
after its levels were printed, so that the places of its levels count and those of its host do not.

The third part is of `OmpSpec`, any text and any length of `strbuffer`: `OmpContainersAreOnce` and `OmpEventsAreExplained`.
`OmpInv` says of the text written, printed or not, that its containers are those created, each once
(`ContainersMade`), and that a state has its container before it unless its thread was not said to begin (`StatesHoused`); and for
the Perl filter, that `metrics` and `jobid` hold what the next event is to be explained with (`WaitsForEvent`): without it,
`OmpEventsExplained` says nothing of the next state. Events and states are matched by their number, so that the proof counts
them in the lines read and written.

*Tau2PajeProofs* rests on it and on AkyKeysProofs, and is of `TauSpec` run as tau2paje with any of the options, for any
number of threads, nodes, states and messages, any slots in the two tables, and any length of trace:
`TauStacksAreMirrored`, `TauRefusalsAreOfThreads`, `TauMessagesAreAccounted`, `TauLinksAreJoined` and
`TauLinksArePaired`. `TauInv` is the five things that each says of a state, and what they need of each other.
Of the states, `InsideTold`: a state is entered after it got its name or was refused one, so that LeaveState finds what
EnterState found. Of the nodes, `NodesLive` and `RootLives`: the container of a thread alone on its node is there, with
no line later than `rank_last_time`, and `TimesOrdered` keeps the time of the root behind that of all nodes. Of the key
table, `KeysInv` with `KeysOld` (the next key is on no line yet) and `WaitingOpen` (a key that waits was started and
has not ended), from which the refinement of PajeLinks follows: a step prints nothing of links, starts one with
a key on no line, or ends an open one (`LinkStep`, `LinkStepPromised`). Of the counts, `PairsCounted` says of a pair that
is not in the table that it sent nothing or the table is full, because the counts of a pair hold from its first message
or never. `OrderlyWait` ties the i-th key that waits for an orderly pair to the message after the i - 1 next to be
received, which is what makes `TauLinksJoinOneMessage` inductive. There is one lemma per callback; `EventKeepsNodes`,
`StackFollows` and `MessageKeeps` hold what they share, and the lemmas from `MirrorsMeans` to `MirrorsNames` say how the
named states of a sequence change with it.

*AkypueraProofs*, of `Spec`, any application with any number of ranks, requests and calls: `IrecvsAreRemembered`,
`IsendsAreRemembered` and `WaitsNameTheirSends`. The first two look at a rank between its calls; the invariants also say what holds
inside one. `RequestsInv` is about the program and MPI: a call under way is one of the application's own with its
requests allocated, a slot is posted once and only while its request is pending, the blocking slot is in use by
MPI_Recv and MPI_Sendrecv alone, and `send_mark` is behind the number of calls made by the send under way.
`IrecvsInv` (`IsendsInv`) says that a tree holds the requests that are pending, but for that of an MPI_Irecv
(MPI_Isend) that has not returned, which MPI knows and the wrapper does not yet. The third is an action property that
follows from `IsendsInv`: of all steps only `EnterWait` enters MPI_Wait, and it finds in the tree what MPI knows. Each has the hypothesis that the
property needs and that *ptp* satisfies: `NoTests`, no call of `TestOps`; `WaitsForIsends` (for the last two), a rank that calls
MPI_Isend completes requests with MPI_Wait only. The hazards in PROJECT.json say what happens otherwise.

*AkypueraFilesProofs*, of `Spec` without any hypothesis: whatever the application does and however the clocks run.
`FilesAreOrdered` says that the composition implements AkyAnyTrace: the files that libaky writes are well formed, so
that the theorems of AkyConverterProofs about any merge hold of any application
(`TracedKeysAreUnique`, `TracedEndsAreStarted`, `TracedLinksWait`, `TracedLinksArePaired`). The witness for the variable
`inside` of AkyAnyTrace is `InsideNow`, a function of the state: the call that a rank is in before the first of its events
that is not converted yet, found by reading its file from there to the first event that begins or ends a call, or, if
there is none, to the program. `FilesInv` says that each file fits what the program does at its end and what was
converted at its beginning (`EndsFit`, `ContainersFit`). `OutputInv` adds that the stack of a process is the call that its rank is in
(`StacksOK`), that the root lives when a container does (`RootOK`), and where the loops over the ranks stand
(`LoopOK`); from it follow `TypesAreCorrect`, `TracesAreWhole` and `StatesPopTheirOwn`. The first event of a rank
is found by the least number of a set, which the library has as minimal elements of well-founded relations (`LeastNumber`).

*AkypueraLinksProofs*, of `Spec`: `NoKeyIsMissing` and `OpenLinksAreLeft`, for any number of ranks, requests and
calls. The hypothesis `LinksFollowed` says what the claims need: clocks are synchronized, links are not
disabled, the key table has room for every pair of ranks, the application uses the calls that record both ends (neither
MPI_Sendrecv, nor the tests, nor MPI_Waitsome), its irecvs are on communicators numbered as MPI_COMM_WORLD (see
*diagnosis*), and it makes no rooted collective call, whose pairing *collectives* checks. The run *ptp* satisfies it. The
argument counts, for each pair of ranks. `Conserved`: the keys that wait and the starts still in the trace are as many as
the ends still in the trace and the messages that were sent and not recorded as received, on their way or in a
request (`Pending`). `Covered`: in no beginning of the trace are there more ends than starts and waiting keys. Neither
is enough alone: `Covered` is what the converter needs to find a key, and `Conserved` is what keeps `Covered` when
a rank records a receive. `SourcesKnown` says that the source a wrapper will record is the rank that sent. For
`OpenLinksAreLeft`, `FinalizedInv` says that a rank that finalizes has no request left, so that at the end `Pending` is the
messages still in the network; and the open links are counted by a bijection with the keys that wait (`OpenStartsWait`).

`LinksOfOneMessage` and `MessagesAreFifo` say of the same applications that the two ends of a link are about one
message, and that the receives are in the order of the sends. Both need `MessagesOrdered`, and *fifo* shows why: from
one rank to another all messages have one communicator and one tag (`OneChannel`), for otherwise MPI may deliver a later
one first; and a rank receives one message at a time, always with MPI_Recv or always with one request (`OneAtATime`),
for otherwise it may wait for the later one first. Two MPI_Irecv before an MPI_Waitall, common as they are, are beyond
it: there `aky_get_key` can join two messages. An application that satisfies the hypotheses is `OrderedCalls` in
MCAkypuera: `tlc -config MCOrdered.cfg MCAkypuera` checks both properties of it, in 257,094 states. Counting is not
enough now; the argument compares sets of messages and their order. `OrderedInv` gives for each pair of ranks a sequence
of messages, those of the open links in the order of their waiting keys (`OpenOf`), and says that they and the messages
of the starts still in the trace are the same as those of the ends still in the trace, those that arrived and those on
their way (`InStep`); that the sets on either side come one before the other (`Earlier`), and what ended before all of
them; and that each is in the order of its sending (`Rising`, `Ascending`). So the oldest message on the one side is the
oldest on the other, which is what joins the first key to the receive that takes it (`InStepEnds`). Each step of the
application moves one message by one place (`Moves`, with one lemma per group of calls); that it is the first one
follows from `CallsKnown`, every posted receive and every message is of a call of its rank (`FirstIsMatched`,
`OneReceive`).

Only model-checked: of Akypuera, `CollectiveLinksComplete`, and `LinksJoinOneMessage` for collective calls (their proof needs the
order of MPI's collective calls across all ranks); `ConversionEnds` and `TauEnds`, because liveness under fairness
is out of the prover's reach.

## What is not modelled

* Persistent requests (`MPI_Send_init`, `MPI_Start` and so on): the wrappers record IN and OUT, which the plain
  calls model; the messages that starting them moves do not occur.
* Calls before MPI_Init or after MPI_Finalize, MPI_PROC_NULL, cancelled requests, an MPI_Waitany of null
  requests: each needs behaviour of MPI or librastro that is not in the tree.
* `malloc`, `strdup` or a file failing: the code does not look at the results, or exits before the loop.
* 64-bit marks cut to int: it takes 2^31 sends; listed as a hazard.
* Bytes of records and text of the output, the table of names, command-line parsing.
* Of the foreign converters: the resolution of times, `--normalize-mpi`, blanks in names (`deblank`), the list of
  host names (written and never searched), the local definitions of OTF2 (no callback does anything with them), the
  taking apart of the lines of otf2-print, and the header of the Perl filter, whose metrics come from the first METRIC
  line among the first 1000: without one it has no column for those that come later.
* The readers of TAU, OTF and OTF2 themselves, librastro, poti and otf2-print: not in the tree; modelled from what the
  callbacks rely on.
* The asserts on the number of fields of an event (`src/src/aky/aky_converter.c:434-448`): they hold of every event that the
  encoders of libaky write.
* Request arrays of MPI_Waitall and MPI_Waitany with an address outside `Reqs`, or with one twice.
* What undefined behaviour does after it happened: the models stop there.

## Plan

Done, in this order: AkyKeys and its proofs, AkyKeyList, AkyAux, Mpi, AkyTracer, AkyConverter, AkyAnyTrace with
its proofs, Akypuera; then PajeLinks and its refinement by AkyAnyTrace and Tau2Paje, PajeOutput, Tau2Paje, Otf2Paje,
Hostfile, Otf22Paje, OtfOmpPrint, MCConverters; then the proofs of otf2paje, now in OtfProofs; those of the composition,
AkypueraProofs, AkypueraFilesProofs and AkypueraLinksProofs; Tau2PajeProofs; then AkyKeyListProofs, and in OtfProofs
those of otf22paje, its hostfile and the OpenMP filters; then the order of messages in AkypueraLinksProofs.

1. Collective calls on a communicator smaller than MPI_COMM_WORLD: `treat_1tx_send` takes the size of a
   communicator for a range of world ranks.
2. `LinksJoinOneMessage` and `CollectiveLinksComplete` for collective calls: the k-th key of a pair of ranks is that of their k-th
   call with that root and direction, whichever rank is ahead.
