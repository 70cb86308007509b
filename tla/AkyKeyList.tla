----------------------------- MODULE AkyKeyList -----------------------------
(***************************************************************************)
(* The linked lists inside the key table of src/src/aky_keys.c: each name  *)
(* of the hash table has a descriptor (first, last, n), and its keys are   *)
(* elements, allocated by new_element and freed by aky_get_key, chained    *)
(* through tail towards the newer and through head towards the older one.  *)
(* The module implements AkyKeys, whose queues are plain sequences.        *)
(***************************************************************************)
EXTENDS Integers, Sequences, FiniteSets

CONSTANTS
  Types, Ids, TableSize, MaxKeys,   \* as in AkyKeys
  Elems,                            \* the addresses malloc may return
  NULL                              \* the null pointer

ASSUME ListAssumption ==
  /\ Ids \subseteq Int
  /\ TableSize \in Nat
  /\ MaxKeys \in Nat
  /\ NULL \notin Elems

VARIABLES
  entered, counter, buffer,   \* as in AkyKeys
  desc,                       \* the descriptor of each name of the table
  alive,                      \* the elements allocated and not freed
  elem                        \* the memory of each element

listVars == <<entered, counter, buffer, desc, alive, elem>>

Names == Types \X Ids \X Ids
\* Mutant of KeyOf: the destination is left out of the key.
KeyWithoutDst(nm, n) == <<nm[2], n>>

\* "<src>_<dst>_<counter>".
KeyOf(nm, n) == <<nm[2], nm[3], n>>
Key == Ids \X Ids \X Nat
NoKey == <<>>

Pointer == Elems \cup {NULL}
Desc == [first : Pointer, last : Pointer, n : Nat]
Elem == [data : Key \cup {NoKey}, head : Pointer, tail : Pointer]

EmptyDesc == [first |-> NULL, last |-> NULL, n |-> 0]
Unused == [data |-> NoKey, head |-> NULL, tail |-> NULL]

ListInit ==
  /\ entered = {}
  /\ counter = 0
  /\ buffer = NoKey
  /\ desc = [nm \in Names |-> EmptyDesc]
  /\ alive = {}
  /\ elem = [e \in Elems |-> Unused]

-----------------------------------------------------------------------------
\* The memory of the elements once new_element has filled `new'.
Filled(new, key) ==
  [elem EXCEPT ![new] = [data |-> key, head |-> NULL, tail |-> NULL]]

\* Mutant of Enqueue: a new element becomes the first one.
EnqueueFirst(nm, new, mem) ==
  IF desc[nm].n = 0
  THEN /\ desc' = [desc EXCEPT ![nm] = [first |-> new, last |-> new, n |-> 1]]
       /\ elem' = mem
  ELSE LET old_first == desc[nm].first IN
       /\ elem' = [mem EXCEPT ![old_first].head = new, ![new].tail = old_first]
       /\ desc' = [desc EXCEPT ![nm].first = new, ![nm].n = @ + 1]

\* enqueue: link `new' behind the last element of the descriptor.
Enqueue(nm, new, mem) ==
  IF desc[nm].n = 0
  THEN /\ desc' = [desc EXCEPT ![nm] = [first |-> new, last |-> new, n |-> 1]]
       /\ elem' = mem
  ELSE LET old_last == desc[nm].last IN
       /\ elem' = [mem EXCEPT ![old_last].tail = new, ![new].head = old_last]
       /\ desc' = [desc EXCEPT ![nm].last = new, ![nm].n = @ + 1]

\* Mutants of Dequeue: the new first element keeps its head; the memory of the
\* element taken is not given back.
DequeueKeepsHead(nm) ==
  LET ret == desc[nm].first
      new_first == elem[ret].tail
  IN /\ desc' = [desc EXCEPT ![nm].first = new_first, ![nm].n = @ - 1,
                             ![nm].last = IF new_first = NULL THEN NULL ELSE @]
     /\ elem' = [elem EXCEPT ![ret] = Unused]
     /\ alive' = alive \ {ret}

DequeueWithoutFree(nm) ==
  LET ret == desc[nm].first
      new_first == elem[ret].tail
  IN /\ desc' = [desc EXCEPT ![nm].first = new_first, ![nm].n = @ - 1,
                             ![nm].last = IF new_first = NULL THEN NULL ELSE @]
     /\ elem' = IF new_first = NULL THEN elem ELSE [elem EXCEPT ![new_first].head = NULL]
     /\ UNCHANGED alive

\* dequeue and free_element: unlink the first element and give its memory back.
Dequeue(nm) ==
  LET ret == desc[nm].first
      new_first == elem[ret].tail
  IN IF new_first # NULL
     THEN /\ desc' = [desc EXCEPT ![nm].first = new_first, ![nm].n = @ - 1]
          /\ elem' = [elem EXCEPT ![new_first].head = NULL, ![ret] = Unused]
          /\ alive' = alive \ {ret}
     ELSE /\ desc' = [desc EXCEPT ![nm] = [first |-> NULL, last |-> NULL, n |-> @.n - 1]]
          /\ elem' = [elem EXCEPT ![ret] = Unused]
          /\ alive' = alive \ {ret}

\* aky_put_key, the table having or getting an entry for the name.
PutElem(nm) ==
  /\ nm \in entered \/ Cardinality(entered) < TableSize
  /\ counter < MaxKeys
  /\ \E new \in Elems \ alive :
       /\ alive' = alive \cup {new}
       /\ Enqueue(nm, new, Filled(new, KeyOf(nm, counter)))
  /\ entered' = entered \cup {nm}
  /\ counter' = counter + 1
  /\ buffer' = KeyOf(nm, counter)

\* aky_put_key, the table being full.
PutRefused(nm) ==
  /\ nm \notin entered
  /\ Cardinality(entered) >= TableSize
  /\ buffer' = NoKey
  /\ UNCHANGED <<entered, counter, desc, alive, elem>>

\* aky_get_key, the queue of the name holding an element.
GetElem(nm) ==
  /\ nm \in entered
  /\ desc[nm].n # 0
  /\ buffer' = elem[desc[nm].first].data
  /\ Dequeue(nm)
  /\ UNCHANGED <<entered, counter>>

\* aky_get_key without a queue, or with an empty one.
GetMissing(nm) ==
  /\ nm \notin entered \/ desc[nm].n = 0
  /\ buffer' = NoKey
  /\ UNCHANGED <<entered, counter, desc, alive, elem>>

ListNext ==
  \E nm \in Names : PutElem(nm) \/ PutRefused(nm) \/ GetElem(nm) \/ GetMissing(nm)

ListSpec == ListInit /\ [][ListNext]_listVars

-----------------------------------------------------------------------------
\* The elements met in the memory from `first' along tail, n of them.
ChainFrom(first, n, mem) ==
  LET at[i \in 1..n] ==
        IF i = 1 THEN first
        ELSE IF at[i - 1] \in Elems THEN mem[at[i - 1]].tail ELSE NULL
  IN at

\* ... as many as the descriptor counts.
Chain(nm) == ChainFrom(desc[nm].first, desc[nm].n, elem)

\* The keys along the chain: the queue that AkyKeys speaks of.
Contents(nm) ==
  [i \in 1..desc[nm].n |->
     IF Chain(nm)[i] \in Elems THEN elem[Chain(nm)[i]].data ELSE NoKey]

AbstractKeys == INSTANCE AkyKeys WITH queue <- [nm \in Names |-> Contents(nm)]

\* The types of the list's variables.
ListTypeOK ==
  /\ entered \subseteq Names
  /\ counter \in Nat
  /\ buffer \in Key \cup {NoKey}
  /\ desc \in [Names -> Desc]
  /\ alive \subseteq Elems
  /\ elem \in [Elems -> Elem]

\* enqueue and dequeue leave every list well linked: both ends terminated, the
\* last element the one the count leads to, head the inverse of tail.
WellLinked ==
  \A nm \in Names :
    LET n == desc[nm].n
        at == Chain(nm)
    IN IF n = 0
       THEN desc[nm].first = NULL /\ desc[nm].last = NULL
       ELSE /\ \A i \in 1..n : at[i] \in alive
            /\ desc[nm].last = at[n]
            /\ elem[at[n]].tail = NULL
            /\ elem[at[1]].head = NULL
            /\ \A i \in 2..n : elem[at[i]].head = at[i - 1]

\* The places of the lists that lead to an element.
PlacesOf(e) ==
  {place \in Names \X (1..MaxKeys) :
     place[2] <= desc[place[1]].n /\ Chain(place[1])[place[2]] = e}

\* Every allocated element is in exactly one place of exactly one list: none is
\* lost before aky_get_key frees it, and none is freed while a list reaches it.
NoLeakNoSharing ==
  \A e \in Elems : Cardinality(PlacesOf(e)) = IF e \in alive THEN 1 ELSE 0

\* The pointer program behaves as the table of FIFO queues does: what
\* aky_get_key copies to its caller is the oldest key of the name.
ImplementsAkyKeys == AbstractKeys!KeysSpec
=============================================================================
