---------------------------- MODULE AkyKeysProofs ----------------------------
(***************************************************************************)
(* What aky_put_key and aky_get_key guarantee for every set of types, every*)
(* set of ranks, every table size and every number of calls.               *)
(***************************************************************************)
EXTENDS AkyKeys, FiniteSetTheorems, TLAPS

\* The hash table holds no more names than it was created for, and a queue exists for a
\* name in it only: by the guard of PutKey alone, and needed by the rest.
TableBounded ==
  /\ Cardinality(entered) <= TableSize
  /\ \A nm \in Names : queue[nm] # <<>> => nm \in entered

\* The inductive invariant: a key is in the queue of its own pair, its number
\* is below the counter, and numbers grow along each queue; numbers below the
\* counter are what makes the next key new to every queue.
KeysInv ==
  /\ KeysTypeOK
  /\ IsFiniteSet(entered)
  /\ KeysBelong
  /\ QueuesOrdered
  /\ KeysUnique
  /\ TableBounded

-----------------------------------------------------------------------------
\* Every step keeps the variables in their types: the calls of aky_put_key and
\* aky_get_key write nothing but keys, numbers and the zeroed buffer.
LEMMA KeysTypeStep == KeysTypeOK /\ [KeysNext]_keyVars => KeysTypeOK'
<1> SUFFICES ASSUME KeysTypeOK, [KeysNext]_keyVars PROVE KeysTypeOK'
  OBVIOUS
<1> USE DEF KeysTypeOK
<1>1. ASSUME NEW nm \in Names, PutKey(nm) PROVE KeysTypeOK'
  <2>1. KeyOf(nm, counter) \in Key
    BY DEF KeyOf, Key, Names
  <2>2. Append(queue[nm], KeyOf(nm, counter)) \in Seq(Key)
    BY <2>1
  <2> QED
    BY <1>1, <2>1, <2>2 DEF PutKey
<1>2. ASSUME NEW nm \in Names, PutRefused(nm) PROVE KeysTypeOK'
  BY <1>2 DEF PutRefused
<1>3. ASSUME NEW nm \in Names, GetKey(nm) PROVE KeysTypeOK'
  <2>1. Head(queue[nm]) \in Key /\ Tail(queue[nm]) \in Seq(Key)
    BY <1>3 DEF GetKey
  <2> QED
    BY <1>3, <2>1 DEF GetKey
<1>4. ASSUME NEW nm \in Names, GetMissing(nm) PROVE KeysTypeOK'
  BY <1>4 DEF GetMissing
<1>5. CASE UNCHANGED keyVars
  BY <1>5 DEF keyVars
<1> QED
  BY <1>1, <1>2, <1>3, <1>4, <1>5 DEF KeysNext, AkyPutKey, AkyGetKey

\* The table of keys is well typed in every behaviour.
THEOREM KeysTypeCorrect == KeysSpec => []KeysTypeOK
<1>1. KeysInit => KeysTypeOK
  BY DEF KeysInit, KeysTypeOK
<1> QED
  BY <1>1, KeysTypeStep, PTL DEF KeysSpec

-----------------------------------------------------------------------------
\* What a put appends: the old keys in their places, the new one at the end.
LEMMA PutShape ==
  ASSUME KeysTypeOK, NEW nm \in Names, PutKey(nm)
  PROVE  /\ \A m \in Names \ {nm} : queue'[m] = queue[m]
         /\ Len(queue'[nm]) = Len(queue[nm]) + 1
         /\ \A i \in 1..Len(queue[nm]) : queue'[nm][i] = queue[nm][i]
         /\ queue'[nm][Len(queue[nm]) + 1] = KeyOf(nm, counter)
BY DEF KeysTypeOK, PutKey

\* What a get leaves: every key of that queue one place nearer to the front.
LEMMA GetShape ==
  ASSUME KeysTypeOK, NEW nm \in Names, GetKey(nm)
  PROVE  /\ \A m \in Names \ {nm} : queue'[m] = queue[m]
         /\ Len(queue'[nm]) = Len(queue[nm]) - 1
         /\ Len(queue[nm]) \in Nat \ {0}
         /\ \A i \in 1..Len(queue'[nm]) : queue'[nm][i] = queue[nm][i + 1]
BY DEF KeysTypeOK, GetKey

\* A put keeps the invariant: its key is numbered by the counter, which is above
\* every number in the table.
LEMMA PutStep ==
  ASSUME KeysAssumption, KeysInv, NEW nm \in Names, PutKey(nm)
  PROVE  KeysInv'
<1> USE DEF KeysInv
<1>1. KeysTypeOK'
  BY KeysTypeStep DEF KeysNext, AkyPutKey
<1>2. /\ counter' = counter + 1 /\ counter \in Nat
      /\ \A m \in Names : Len(queue[m]) \in Nat
  BY DEF PutKey, KeysTypeOK
<1>3. \A m \in Names : \A i \in 1..Len(queue[m]) :
         queue[m][i][3] \in 0..(counter - 1)
  BY <1>2 DEF KeysBelong, KeyOf
<1>4. /\ KeyOf(nm, counter)[3] = counter
      /\ \A m \in Names : Len(queue'[m]) = IF m = nm THEN Len(queue[m]) + 1 ELSE Len(queue[m])
  BY PutShape DEF KeyOf
<1>5. IsFiniteSet(entered')
  BY FS_AddElement DEF PutKey
\* Every key of the table after the put: an old one in its place, or the new one.
<1> DEFINE Old(m, i) == i \in 1..Len(queue[m]) /\ queue'[m][i] = queue[m][i]
           New(m, i) == m = nm /\ i = Len(queue[nm]) + 1 /\ queue'[m][i] = KeyOf(nm, counter)
<1>6. ASSUME NEW m \in Names, NEW i \in 1..Len(queue'[m]) PROVE Old(m, i) \/ New(m, i)
  <2>1. CASE m = nm
    <3>1. i \in 1..Len(queue[nm]) \/ i = Len(queue[nm]) + 1
      BY <1>2, <1>4, <2>1
    <3> QED
      BY <3>1, <2>1, PutShape
  <2>2. CASE m # nm
    BY <1>4, <2>2, PutShape
  <2> QED
    BY <2>1, <2>2
<1>7. KeysBelong'
  <2> SUFFICES ASSUME NEW m \in Names, NEW i \in 1..Len(queue'[m])
               PROVE  \E n \in 0..counter : queue'[m][i] = KeyOf(m, n)
    BY <1>2 DEF KeysBelong, KeyOf
  <2>1. CASE Old(m, i)
    BY <2>1, <1>2 DEF KeysBelong
  <2>2. CASE New(m, i)
    BY <2>2, <1>2
  <2> QED
    BY <2>1, <2>2, <1>6
<1>8. QueuesOrdered'
  <2> SUFFICES ASSUME NEW m \in Names, NEW i \in 1..Len(queue'[m]),
                      NEW j \in 1..Len(queue'[m]), i < j
               PROVE  queue'[m][i][3] < queue'[m][j][3]
    BY DEF QueuesOrdered
  <2>1. Old(m, i)
    BY <1>2, <1>4, <1>6
  <2>2. CASE Old(m, j)
    BY <2>1, <2>2 DEF QueuesOrdered
  <2>3. CASE New(m, j)
    BY <2>1, <2>3, <1>2, <1>3, <1>4
  <2> QED
    BY <2>2, <2>3, <1>6
<1>9. KeysUnique'
  <2> SUFFICES ASSUME NEW a \in Names, NEW b \in Names,
                      NEW i \in 1..Len(queue'[a]), NEW j \in 1..Len(queue'[b]),
                      queue'[a][i][3] = queue'[b][j][3]
               PROVE  a = b /\ i = j
    BY DEF KeysUnique
  <2>1. CASE Old(a, i) /\ Old(b, j)
    BY <2>1 DEF KeysUnique
  <2>2. CASE New(a, i) /\ New(b, j)
    BY <2>2
  <2>3. CASE Old(a, i) /\ New(b, j)
    <3>1. queue'[a][i][3] \in 0..(counter - 1)
      BY <2>3, <1>3
    <3>2. queue'[b][j][3] = counter
      BY <2>3, <1>4
    <3> QED
      BY <3>1, <3>2, <1>2
  <2>4. CASE New(a, i) /\ Old(b, j)
    <3>1. queue'[b][j][3] \in 0..(counter - 1)
      BY <2>4, <1>3
    <3>2. queue'[a][i][3] = counter
      BY <2>4, <1>4
    <3> QED
      BY <3>1, <3>2, <1>2
  <2> QED
    BY <1>6, <2>1, <2>2, <2>3, <2>4
<1>10. TableBounded'
  <2>1. Cardinality(entered') <= TableSize
    <3>1. Cardinality(entered) \in Nat
      BY FS_CardinalityType
    <3>2. Cardinality(entered \cup {nm}) =
            IF nm \in entered THEN Cardinality(entered) ELSE Cardinality(entered) + 1
      BY FS_AddElement
    <3> QED
      BY <3>1, <3>2 DEF PutKey, TableBounded, KeysAssumption
  <2>2. \A m \in Names : queue'[m] # <<>> => m \in entered'
    BY PutShape DEF PutKey, TableBounded
  <2> QED
    BY <2>1, <2>2 DEF TableBounded
<1> QED
  BY <1>1, <1>5, <1>7, <1>8, <1>9, <1>10

\* A get keeps the invariant: it takes one key away from the front.
LEMMA GetStep ==
  ASSUME KeysInv, NEW nm \in Names, GetKey(nm)
  PROVE  KeysInv'
<1> USE DEF KeysInv
<1>1. KeysTypeOK'
  BY KeysTypeStep DEF KeysNext, AkyGetKey
<1>2. \A m \in Names : Len(queue[m]) \in Nat /\ Len(queue'[m]) \in Nat
  BY <1>1 DEF KeysTypeOK
<1>3. counter' = counter /\ entered' = entered
  BY DEF GetKey
\* Every key left: one of another queue in its place, or one of this queue moved up.
<1> DEFINE Kept(m, i)  == m # nm /\ i \in 1..Len(queue[m]) /\ queue'[m][i] = queue[m][i]
           Moved(m, i) == m = nm /\ i + 1 \in 1..Len(queue[m]) /\ queue'[m][i] = queue[m][i + 1]
<1>4. ASSUME NEW m \in Names, NEW i \in 1..Len(queue'[m]) PROVE Kept(m, i) \/ Moved(m, i)
  BY <1>2, GetShape
<1> HIDE DEF KeysInv
<1>5. KeysBelong'
  <2> SUFFICES ASSUME NEW m \in Names, NEW i \in 1..Len(queue'[m])
               PROVE  \E n \in 0..(counter - 1) : queue'[m][i] = KeyOf(m, n)
    BY <1>3 DEF KeysBelong, KeyOf
  <2>1. KeysBelong
    BY DEF KeysInv
  <2>2. CASE Kept(m, i)
    BY <2>1, <2>2 DEF KeysBelong
  <2>3. CASE Moved(m, i)
    <3>1. PICK n \in 0..(counter - 1) : queue[m][i + 1] = KeyOf(m, n)
      BY <2>1, <2>3 DEF KeysBelong
    <3> QED
      BY <3>1, <2>3
  <2> QED
    BY <1>4, <2>2, <2>3
<1>6. QueuesOrdered'
  <2> SUFFICES ASSUME NEW m \in Names, NEW i \in 1..Len(queue'[m]),
                      NEW j \in 1..Len(queue'[m]), i < j
               PROVE  queue'[m][i][3] < queue'[m][j][3]
    BY DEF QueuesOrdered
  <2>1. QueuesOrdered
    BY DEF KeysInv
  <2>2. CASE m # nm
    BY <1>4, <2>1, <2>2 DEF QueuesOrdered
  <2>3. CASE m = nm
    <3>1. Moved(m, i) /\ Moved(m, j) /\ i + 1 < j + 1
      BY <1>2, <1>4, <2>3
    <3> QED
      BY <3>1, <2>1 DEF QueuesOrdered
  <2> QED
    BY <2>2, <2>3
<1>7. KeysUnique'
  <2> SUFFICES ASSUME NEW a \in Names, NEW b \in Names,
                      NEW i \in 1..Len(queue'[a]), NEW j \in 1..Len(queue'[b]),
                      queue'[a][i][3] = queue'[b][j][3]
               PROVE  a = b /\ i = j
    BY DEF KeysUnique
  <2>1. KeysUnique
    BY DEF KeysInv
  <2>2. CASE Kept(a, i) /\ Kept(b, j)
    BY <2>1, <2>2 DEF KeysUnique
  <2>3. CASE Kept(a, i) /\ Moved(b, j)
    BY <2>1, <2>3 DEF KeysUnique
  <2>4. CASE Moved(a, i) /\ Kept(b, j)
    BY <2>1, <2>4 DEF KeysUnique
  <2>5. CASE Moved(a, i) /\ Moved(b, j)
    BY <2>1, <2>5 DEF KeysUnique
  <2> QED
    BY <1>4, <2>2, <2>3, <2>4, <2>5
<1> USE DEF KeysInv
<1>8. TableBounded'
  BY <1>3, GetShape DEF TableBounded, GetKey
<1> QED
  BY <1>1, <1>3, <1>5, <1>6, <1>7, <1>8

\* The empty table satisfies the invariant.
LEMMA KeysInvInit == ASSUME KeysAssumption, KeysInit PROVE KeysInv
<1>1. KeysTypeOK /\ KeysBelong /\ QueuesOrdered /\ KeysUnique
  BY DEF KeysInit, KeysTypeOK, KeysBelong, QueuesOrdered, KeysUnique
<1>2. IsFiniteSet(entered) /\ TableBounded
  BY FS_EmptySet DEF KeysInit, TableBounded, KeysAssumption
<1> QED
  BY <1>1, <1>2 DEF KeysInv

\* Every call keeps the invariant.
LEMMA KeysInvStep ==
  ASSUME KeysAssumption, KeysInv, [KeysNext]_keyVars
  PROVE  KeysInv'
<1>1. ASSUME UNCHANGED <<entered, queue, counter>>, KeysTypeOK' PROVE KeysInv'
  BY <1>1 DEF KeysInv, KeysBelong, QueuesOrdered, KeysUnique, TableBounded, KeyOf
<1>2. KeysTypeOK'
  BY KeysTypeStep DEF KeysInv
<1>3. CASE UNCHANGED keyVars
  BY <1>1, <1>2, <1>3 DEF keyVars
<1>4. ASSUME NEW nm \in Names, PutRefused(nm) \/ GetMissing(nm) PROVE KeysInv'
  BY <1>1, <1>2, <1>4 DEF PutRefused, GetMissing
<1> QED
  BY <1>3, <1>4, PutStep, GetStep DEF KeysNext, AkyPutKey, AkyGetKey

\* The invariant holds at the start and through every call.
THEOREM KeysInvariant == KeysSpec => []KeysInv
<1>1. KeysInit => KeysInv
  BY KeysAssumption, KeysInvInit
<1>2. KeysInv /\ [KeysNext]_keyVars => KeysInv'
  BY KeysAssumption, KeysInvStep
<1> QED
  BY <1>1, <1>2, PTL DEF KeysSpec

-----------------------------------------------------------------------------
\* In every behaviour a queue hands out its oldest key first.
THEOREM KeysAreOrdered == KeysSpec => []QueuesOrdered
BY KeysInvariant, PTL DEF KeysInv

\* In every behaviour no two waiting keys are the same.
THEOREM KeysAreUnique == KeysSpec => []KeysUnique
BY KeysInvariant, PTL DEF KeysInv

\* In every behaviour a key that left the table stays out of it for good.
THEOREM KeysNeverReturn == KeysSpec => NoKeyReturns
<1>1. KeysInv /\ [KeysNext]_keyVars =>
        [\A nm \in Names : \A i \in 1..Len(queue'[nm]) :
           \/ \E j \in 1..Len(queue[nm]) : queue'[nm][i] = queue[nm][j]
           \/ queue'[nm][i] = KeyOf(nm, counter)]_keyVars
  <2> SUFFICES ASSUME KeysInv, KeysNext, NEW m \in Names, NEW i \in 1..Len(queue'[m])
               PROVE  \/ \E j \in 1..Len(queue[m]) : queue'[m][i] = queue[m][j]
                      \/ queue'[m][i] = KeyOf(m, counter)
    OBVIOUS
  <2>1. KeysTypeOK /\ Len(queue[m]) \in Nat
    BY DEF KeysInv, KeysTypeOK
  <2>2. ASSUME NEW nm \in Names, PutKey(nm)
        PROVE  \/ i \in 1..Len(queue[m]) /\ queue'[m][i] = queue[m][i]
               \/ queue'[m][i] = KeyOf(m, counter)
    BY <2>1, <2>2, PutShape
  <2>3. ASSUME NEW nm \in Names, GetKey(nm)
        PROVE  \E j \in 1..Len(queue[m]) : queue'[m][i] = queue[m][j]
    <3>1. CASE m = nm
      <4>1. i + 1 \in 1..Len(queue[m]) /\ queue'[m][i] = queue[m][i + 1]
        BY <2>1, <2>3, <3>1, GetShape
      <4> QED
        BY <4>1
    <3>2. CASE m # nm
      BY <2>1, <2>3, <3>2, GetShape
    <3> QED
      BY <3>1, <3>2
  <2>4. ASSUME NEW nm \in Names, PutRefused(nm) \/ GetMissing(nm)
        PROVE  queue' = queue
    BY <2>4 DEF PutRefused, GetMissing
  <2> QED
    BY <2>2, <2>3, <2>4 DEF KeysNext, AkyPutKey, AkyGetKey
<1> QED
  BY <1>1, KeysInvariant, PTL DEF KeysSpec, NoKeyReturns

\* In every behaviour a put hands out the number that the counter stood at, a get
\* the oldest key of a name, which leaves the table, and a call that returns NULL
\* leaves the table as it was.
THEOREM CallsAreExplained == KeysSpec => BufferExplained
<1>1. KeysInv /\ [KeysNext]_keyVars =>
        [IF buffer' = NoKey THEN UNCHANGED <<entered, queue, counter>>
                            ELSE HandedKey(buffer')]_keyVars
  <2> SUFFICES ASSUME KeysInv, KeysNext
               PROVE  IF buffer' = NoKey THEN UNCHANGED <<entered, queue, counter>>
                                         ELSE HandedKey(buffer')
    OBVIOUS
  <2>1. KeysTypeOK /\ QueuesOrdered /\ KeysUnique
    BY DEF KeysInv
  <2>2. ASSUME NEW nm \in Names, PutKey(nm) PROVE buffer' # NoKey /\ HandedKey(buffer')
    BY <2>2 DEF PutKey, HandedKey, KeyOf, NoKey
  <2>3. ASSUME NEW nm \in Names, GetKey(nm) PROVE HandedKey(buffer')
    <3>1. \A m \in Names : Len(queue[m]) \in Nat
      BY <2>1 DEF KeysTypeOK
    <3>2. 1 \in 1..Len(queue[nm]) /\ buffer' = queue[nm][1]
      BY <2>1, <2>3, <3>1 DEF GetKey, KeysTypeOK
    <3>3. \A i \in 1..Len(queue[nm]) : buffer'[3] <= queue[nm][i][3]
      <4> SUFFICES ASSUME NEW i \in 1..Len(queue[nm]) PROVE buffer'[3] <= queue[nm][i][3]
        OBVIOUS
      <4>1. queue[nm][1][3] \in Int /\ queue[nm][i][3] \in Int
        BY <2>1, <3>1, <3>2 DEF KeysTypeOK, Key
      <4>2. CASE i = 1
        BY <3>2, <4>1, <4>2
      <4>3. CASE i # 1
        <5>1. 1 < i
          BY <3>1, <4>3
        <5>2. queue[nm][1][3] < queue[nm][i][3]
          BY <2>1, <3>2, <5>1 DEF QueuesOrdered
        <5> QED
          BY <3>2, <4>1, <5>2
      <4> QED
        BY <4>2, <4>3
    <3>4. \A i \in 1..Len(queue'[nm]) : queue'[nm][i] # buffer'
      <4> SUFFICES ASSUME NEW i \in 1..Len(queue'[nm]), queue'[nm][i] = buffer'
                   PROVE  FALSE
        OBVIOUS
      <4>1. i + 1 \in 1..Len(queue[nm]) /\ queue[nm][i + 1] = queue[nm][1]
        BY <2>1, <2>3, <3>1, <3>2, GetShape
      <4>2. i + 1 = 1
        BY <2>1, <3>2, <4>1 DEF KeysUnique
      <4> QED
        BY <4>2
    <3> QED
      BY <3>2, <3>3, <3>4 DEF HandedKey
  <2>4. ASSUME NEW nm \in Names, PutRefused(nm) \/ GetMissing(nm)
        PROVE  buffer' = NoKey /\ UNCHANGED <<entered, queue, counter>>
    BY <2>4 DEF PutRefused, GetMissing
  <2>5. ASSUME NEW nm \in Names, GetKey(nm) PROVE buffer' # NoKey
    <3>1. buffer' \in Key
      BY <2>1, <2>5 DEF GetKey, KeysTypeOK
    <3> QED
      BY <3>1 DEF Key, NoKey
  <2> QED
    BY <2>2, <2>3, <2>4, <2>5 DEF KeysNext, AkyPutKey, AkyGetKey
<1> QED
  BY <1>1, KeysInvariant, PTL DEF KeysSpec, BufferExplained
=============================================================================
