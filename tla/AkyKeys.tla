------------------------------- MODULE AkyKeys -------------------------------
(***************************************************************************)
(* The link-key table of src/src/aky_keys.c, which every converter of the  *)
(* repository uses to pair the two ends of a Paje link.                    *)
(*                                                                         *)
(* The start of a link asks for a fresh key with aky_put_key; its end      *)
(* takes with aky_get_key the oldest key not yet taken for the same        *)
(* (type, src, dst).  A libc hash table (hcreate_r) maps the string        *)
(* "type#src#dst" to a queue of keys.  Here a name is the triple, a queue  *)
(* is a sequence (AkyKeyList has the linked list of the code and is shown  *)
(* to implement this module), and the hash table is the set `entered' of   *)
(* the names that have a queue.                                            *)
(***************************************************************************)
EXTENDS Integers, Sequences, FiniteSets

CONSTANTS
  Types,       \* the link types, the first argument of aky_put_key
  Ids,         \* the numbers used as src and dst
  TableSize,   \* how many names the hash table holds before ENTER fails
  MaxKeys      \* bound on the counter (an unsigned long long in the code)

ASSUME KeysAssumption ==
  /\ Ids \subseteq Int
  /\ TableSize \in Nat
  /\ MaxKeys \in Nat

VARIABLES
  entered,   \* the names ENTERed in the hash table
  queue,     \* the queue of each name, oldest key first
  counter,   \* the static counter of new_element
  buffer     \* what the last call left in the caller's key buffer

keyVars == <<entered, queue, counter, buffer>>

Names == Types \X Ids \X Ids

\* Mutant of KeyOf: the destination is left out of the key.
KeyWithoutDst(nm, n) == <<nm[2], n>>

\* new_element prints "<src>_<dst>_<counter>".
KeyOf(nm, n) == <<nm[2], nm[3], n>>
Key == Ids \X Ids \X Nat
\* The zeroed buffer: what a call that returns NULL leaves to its caller.
NoKey == <<>>

KeysInit ==
  /\ entered = {}
  /\ queue = [nm \in Names |-> <<>>]
  /\ counter = 0
  /\ buffer = NoKey

-----------------------------------------------------------------------------
\* Mutants of PutKey: the new key goes to the front; the counter is not moved on;
\* the room in the table is not looked at; keys are numbered within their queue.
PutAtFront(nm) ==
  /\ nm \in entered \/ Cardinality(entered) < TableSize
  /\ counter < MaxKeys
  /\ entered' = entered \cup {nm}
  /\ queue' = [queue EXCEPT ![nm] = <<KeyOf(nm, counter)>> \o @]
  /\ counter' = counter + 1
  /\ buffer' = KeyOf(nm, counter)

PutNotCounted(nm) ==
  /\ nm \in entered \/ Cardinality(entered) < TableSize
  /\ Len(queue[nm]) < MaxKeys
  /\ entered' = entered \cup {nm}
  /\ queue' = [queue EXCEPT ![nm] = Append(@, KeyOf(nm, counter))]
  /\ buffer' = KeyOf(nm, counter)
  /\ UNCHANGED counter

PutNumberedByQueue(nm) ==
  /\ nm \in entered \/ Cardinality(entered) < TableSize
  /\ counter < MaxKeys
  /\ entered' = entered \cup {nm}
  /\ queue' = [queue EXCEPT ![nm] = Append(@, KeyOf(nm, Len(@)))]
  /\ counter' = counter + 1
  /\ buffer' = KeyOf(nm, Len(queue[nm]))

\* aky_put_key when the name has a queue, or the table has room for one more.
PutKey(nm) ==
  /\ nm \in entered \/ Cardinality(entered) < TableSize
  /\ counter < MaxKeys
  /\ entered' = entered \cup {nm}
  /\ queue' = [queue EXCEPT ![nm] = Append(@, KeyOf(nm, counter))]
  /\ counter' = counter + 1
  /\ buffer' = KeyOf(nm, counter)

\* aky_put_key of a new name when the table is full: perror, return NULL.
PutRefused(nm) ==
  /\ nm \notin entered
  /\ Cardinality(entered) >= TableSize
  /\ buffer' = NoKey
  /\ UNCHANGED <<entered, queue, counter>>

\* Mutants of GetKey: the newest key is taken; the key is copied and not taken.
GetNewest(nm) ==
  /\ nm \in entered
  /\ queue[nm] # <<>>
  /\ buffer' = queue[nm][Len(queue[nm])]
  /\ queue' = [queue EXCEPT ![nm] = SubSeq(@, 1, Len(@) - 1)]
  /\ UNCHANGED <<entered, counter>>

GetWithoutTaking(nm) ==
  /\ nm \in entered
  /\ queue[nm] # <<>>
  /\ buffer' = Head(queue[nm])
  /\ UNCHANGED <<entered, queue, counter>>

\* aky_get_key when the queue of the name holds a key: dequeue and copy it.
GetKey(nm) ==
  /\ nm \in entered
  /\ queue[nm] # <<>>
  /\ buffer' = Head(queue[nm])
  /\ queue' = [queue EXCEPT ![nm] = Tail(@)]
  /\ UNCHANGED <<entered, counter>>

\* aky_get_key when there is no queue, or dequeue found it empty: NULL.
GetMissing(nm) ==
  /\ nm \notin entered \/ queue[nm] = <<>>
  /\ buffer' = NoKey
  /\ UNCHANGED <<entered, queue, counter>>

\* Mutant of AkyPutKey: the last slot of the table is refused as well.
PutRefusedEarly(nm) ==
  \/ PutKey(nm)
  \/ /\ nm \notin entered
     /\ Cardinality(entered) >= TableSize - 1
     /\ buffer' = NoKey
     /\ UNCHANGED <<entered, queue, counter>>

AkyPutKey(nm) == PutKey(nm) \/ PutRefused(nm)
AkyGetKey(nm) == GetKey(nm) \/ GetMissing(nm)

KeysNext == \E nm \in Names : AkyPutKey(nm) \/ AkyGetKey(nm)

KeysSpec == KeysInit /\ [][KeysNext]_keyVars

-----------------------------------------------------------------------------
\* The types of the table's variables.
KeysTypeOK ==
  /\ entered \subseteq Names
  /\ queue \in [Names -> Seq(Key)]
  /\ counter \in Nat
  /\ buffer \in Key \cup {NoKey}

\* A key waits in the queue of the pair of ranks it was generated for, and its
\* number has been used: new_element's snprintf and counter++ belong together.
KeysBelong ==
  \A nm \in Names : \A i \in 1..Len(queue[nm]) :
    \E n \in 0..(counter - 1) : queue[nm][i] = KeyOf(nm, n)

\* Each queue holds its keys in the order they were generated, so that dequeue
\* at the front hands out the oldest one.
QueuesOrdered ==
  \A nm \in Names : \A i, j \in 1..Len(queue[nm]) :
    i < j => queue[nm][i][3] < queue[nm][j][3]

\* No key waits in two places of the table: "Paje requires a unique key for
\* every pair of StartLink/EndLink" (src/src/otf2/DevLog.org:165).
KeysUnique ==
  \A nm1, nm2 \in Names :
    \A i \in 1..Len(queue[nm1]), j \in 1..Len(queue[nm2]) :
      queue[nm1][i][3] = queue[nm2][j][3] => nm1 = nm2 /\ i = j

\* A key once taken is never in the table again, and a key is generated once:
\* after a step, every waiting key was waiting before it or is numbered by the
\* counter as it stood.
NoKeyReturns ==
  [][\A nm \in Names : \A i \in 1..Len(queue'[nm]) :
        \/ \E j \in 1..Len(queue[nm]) : queue'[nm][i] = queue[nm][j]
        \/ queue'[nm][i] = KeyOf(nm, counter)]_keyVars

\* What a call hands to its caller: a key new to the table (put), or the key
\* that was the oldest of its name and has left the table (get), or nothing and
\* then the table is as it was.
HandedKey(k) ==
  \/ k[3] = counter /\ counter' = counter + 1
  \/ \E nm \in Names :
       /\ \E i \in 1..Len(queue[nm]) : queue[nm][i] = k
       /\ \A i \in 1..Len(queue[nm]) : k[3] <= queue[nm][i][3]
       /\ \A i \in 1..Len(queue'[nm]) : queue'[nm][i] # k

BufferExplained ==
  [][IF buffer' = NoKey THEN UNCHANGED <<entered, queue, counter>>
                        ELSE HandedKey(buffer')]_keyVars
=============================================================================
