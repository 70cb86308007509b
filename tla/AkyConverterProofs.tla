-------------------------- MODULE AkyConverterProofs --------------------------
(***************************************************************************)
(* The links that aky_converter prints, for every number of ranks, every   *)
(* size of the key table and every merge of well-formed files: a viewer    *)
(* can pair them by their keys, also when clocks are not synchronized, the *)
(* table is full, or receives have no key.                                 *)
(***************************************************************************)
EXTENDS AkyAnyTrace, AkyKeysProofs

\* The events that start or end links.
LinkTypes == {"AKY_PTP_SEND", "AKY_PTP_RECV"}
  \cup ScatterSends \cup ScatterRecvs \cup GatherSends \cup GatherRecvs

\* A printed link event.
Link ==
  [side : {"start", "end"}, value : {LinkValue(t) : t \in LinkTypes},
   key : Key \cup {NoKey}, at : Procs,
   about : {<<e.about, s, d>> : e \in Events, s \in Ids, d \in Ids},
   sent : {0} \cup {e.size : e \in Events},
   size : {0} \cup {FiveDigits(e.size) : e \in Events}]

\* The types that the proofs need: while a loop over ranks runs, its event is one
\* that has a number of ranks.
ConverterTypeOK ==
  /\ links \in Seq(Link)
  /\ rank \in Nat
  /\ phase \in {"decode", "scatter", "collect", "closed"}
  /\ phase = "scatter" => ev \in Events /\ ev.type \in ScatterSends
  /\ phase = "collect" => ev \in Events /\ ev.type \in GatherRecvs

StartKeys == {KeyAt(i) : i \in Starts}
EndKeys == {KeyAt(j) : j \in Ends}

\* A printed key has a number that was used, and a link starts at the process
\* that its key names first.
PrintedKeysUsed == \A i \in DOMAIN links : KeyAt(i) # NoKey => KeyAt(i)[3] < counter
StartsAtSource == \A i \in Starts : KeyAt(i) # NoKey => KeyAt(i)[1] = links[i].at

\* The inductive invariant.  What the table holds and what was printed are tied
\* together by OpenLinksWait: a key that is taken was started and not yet ended.
LinksInv ==
  /\ KeysInv
  /\ ConverterTypeOK
  /\ PrintedKeysUsed
  /\ StartsAtSource
  /\ LinkKeysUnique
  /\ EndsFollowStarts
  /\ OpenLinksWait

-----------------------------------------------------------------------------
\* Every step of the loop starts a link at the process of its event, ends one
\* there, or leaves the table and the links alone.
StartStep == \E e \in Events, d \in Ids :
  e.type \in LinkTypes /\ e.id1 \in Procs /\ LinkFrom(e, e.id1, d)
EndStep == \E e \in Events, s \in Ids :
  e.type \in LinkTypes /\ e.id1 \in Procs /\ LinkTo(e, s, e.id1)

\* These are all the steps that there are.
LEMMA StepShape ==
  ASSUME ConverterAssumption, EventsAssumption, ConverterTypeOK, [AnyNext]_anyVars
  PROVE  StartStep \/ EndStep \/ UNCHANGED <<keyVars, links>>
<1> USE DEF StartStep, EndStep, LinkTypes
<1>1. ASSUME NEW e \in Events, DecodeSend(e) PROVE StartStep \/ UNCHANGED <<keyVars, links>>
  <2>1. e.type \in LinkTypes /\ e.id1 \in Procs /\ e.v \in Ids
    BY <1>1 DEF EventsAssumption, DecodeSend, GatherSends, ScatterSends, GatherRecvs
  <2> QED
    BY <1>1, <2>1 DEF DecodeSend
<1>2. ASSUME NEW e \in Events, DecodeRecv(e) PROVE EndStep \/ UNCHANGED <<keyVars, links>>
  <2>1. e.type \in LinkTypes /\ e.id1 \in Procs /\ e.v \in Ids
    BY <1>2 DEF EventsAssumption, DecodeRecv, ScatterRecvs, ScatterSends, GatherRecvs
  <2> QED
    BY <1>2, <2>1 DEF DecodeRecv
<1>3. ASSUME NEW e \in Events, DecodeLoop(e) \/ DecodeInit(e) \/ DecodeIn(e) \/ DecodeOut(e)
      PROVE  UNCHANGED <<keyVars, links>>
  BY <1>3 DEF DecodeLoop, DecodeInit, DecodeIn, DecodeOut, outputVars
<1>4. ASSUME ev \in Events, ev.type \in ScatterSends \cup GatherRecvs, rank < ev.v
      PROVE  ev.type \in LinkTypes /\ ev.id1 \in Procs /\ rank \in Ids
  <2>1. ev.type \in LinkTypes /\ ev.id1 \in Procs /\ ev.v \in 0..NProcs
    BY <1>4 DEF EventsAssumption
  <2>2. rank \in Procs
    BY <1>4, <2>1 DEF ConverterTypeOK, Procs, ConverterAssumption
  <2> QED
    BY <2>1, <2>2 DEF ConverterAssumption
<1>5. CASE ScatterStep
  <2>1. ev \in Events /\ ev.type \in LinkTypes /\ ev.id1 \in Procs /\ rank \in Ids
    BY <1>4, <1>5 DEF ScatterStep, ConverterTypeOK
  <2> QED
    BY <1>5, <2>1 DEF ScatterStep
<1>6. CASE CollectStep
  <2>1. ev \in Events /\ ev.type \in LinkTypes /\ ev.id1 \in Procs /\ rank \in Ids
    BY <1>4, <1>6 DEF CollectStep, ConverterTypeOK
  <2> QED
    BY <1>6, <2>1 DEF CollectStep
<1>7. CASE LoopEnd \/ Close
  BY <1>7 DEF LoopEnd, Close, outputVars
<1>8. CASE UNCHANGED anyVars
  BY <1>8 DEF anyVars, converterVars, outputVars
<1> QED
  BY <1>1, <1>2, <1>3, <1>5, <1>6, <1>7, <1>8
  DEF AnyNext, DecodeAny, Decode, LoopStep, CloseAny

\* Every link event asks the key table for one of its names.
LEMMA NamesOfEvents ==
  ASSUME ConverterAssumption, NEW t \in LinkTypes, NEW s \in Ids, NEW d \in Ids
  PROVE  <<KeyType(t), s, d>> \in Names
<1>1. KeyType(t) \in {"ptp", "1tn", "1ta", "at1"}
  BY DEF KeyType, LinkTypes, ScatterSends, ScatterRecvs, GatherSends, GatherRecvs
<1> QED
  BY <1>1 DEF Names, ConverterAssumption

-----------------------------------------------------------------------------
\* What printing one more link event does to the list of links.
LEMMA AppendShape ==
  ASSUME links \in Seq(Link), NEW l \in Link, links' = Append(links, l)
  PROVE  /\ links' \in Seq(Link)
         /\ Len(links) \in Nat
         /\ DOMAIN links = 1..Len(links)
         /\ DOMAIN links' = DOMAIN links \cup {Len(links) + 1}
         /\ Len(links) + 1 \notin DOMAIN links
         /\ \A i \in DOMAIN links : links'[i] = links[i]
         /\ links'[Len(links) + 1] = l
OBVIOUS

\* A new start adds its key to those of the starts.
LEMMA StartedKeys ==
  ASSUME links \in Seq(Link), NEW l \in Link, l.side = "start", links' = Append(links, l)
  PROVE  /\ Starts' = Starts \cup {Len(links) + 1}
         /\ Ends' = Ends
         /\ StartKeys' = StartKeys \cup {l.key}
         /\ EndKeys' = EndKeys
<1>1. /\ Starts' = Starts \cup {Len(links) + 1} /\ Starts \subseteq DOMAIN links
      /\ Ends' = Ends /\ Ends \subseteq DOMAIN links
  BY AppendShape DEF Starts, Ends
<1> QED
  BY <1>1, AppendShape DEF StartKeys, EndKeys, KeyAt

\* A new end adds its key to those of the ends.
LEMMA EndedKeys ==
  ASSUME links \in Seq(Link), NEW l \in Link, l.side = "end", links' = Append(links, l)
  PROVE  /\ Ends' = Ends \cup {Len(links) + 1}
         /\ Starts' = Starts
         /\ EndKeys' = EndKeys \cup {l.key}
         /\ StartKeys' = StartKeys
<1>1. /\ Ends' = Ends \cup {Len(links) + 1} /\ Ends \subseteq DOMAIN links
      /\ Starts' = Starts /\ Starts \subseteq DOMAIN links
  BY AppendShape DEF Starts, Ends
<1> QED
  BY <1>1, AppendShape DEF StartKeys, EndKeys, KeyAt

\* A put adds one key to those that wait in the table.
LEMMA WaitingAfterPut ==
  ASSUME KeysInv, NEW nm \in Names, PutKey(nm)
  PROVE  WaitingKeys' = WaitingKeys \cup {KeyOf(nm, counter)}
<1>1. \A m \in Names : Len(queue[m]) \in Nat /\ DOMAIN queue[m] = 1..Len(queue[m])
  BY DEF KeysInv, KeysTypeOK
<1>2. \A m \in Names : DOMAIN queue'[m] = 1..Len(queue'[m])
  BY KeysTypeStep DEF KeysInv, KeysTypeOK, KeysNext, AkyPutKey
<1>3. WaitingKeys' \subseteq WaitingKeys \cup {KeyOf(nm, counter)}
  <2> SUFFICES ASSUME NEW m \in Names, NEW i \in 1..Len(queue'[m])
               PROVE  queue'[m][i] \in WaitingKeys \cup {KeyOf(nm, counter)}
    BY <1>2 DEF WaitingKeys
  <2>1. \/ i \in 1..Len(queue[m]) /\ queue'[m][i] = queue[m][i]
        \/ queue'[m][i] = KeyOf(nm, counter)
    BY <1>1, PutShape DEF KeysInv
  <2> QED
    BY <1>1, <2>1 DEF WaitingKeys
<1>4. WaitingKeys \subseteq WaitingKeys'
  <2> SUFFICES ASSUME NEW m \in Names, NEW i \in 1..Len(queue[m])
               PROVE  queue[m][i] \in WaitingKeys'
    BY <1>1 DEF WaitingKeys
  <2>1. i \in 1..Len(queue'[m]) /\ queue'[m][i] = queue[m][i]
    BY <1>1, PutShape DEF KeysInv
  <2> QED
    BY <1>2, <2>1 DEF WaitingKeys
<1>5. KeyOf(nm, counter) \in WaitingKeys'
  <2>1. Len(queue[nm]) + 1 \in 1..Len(queue'[nm])
    BY <1>1, PutShape DEF KeysInv
  <2> QED
    BY <1>2, <2>1, PutShape DEF WaitingKeys, KeysInv
<1> QED
  BY <1>3, <1>4, <1>5

\* A get takes one of the waiting keys, of the two processes that it asks for.
LEMMA WaitingAfterGet ==
  ASSUME KeysInv, NEW nm \in Names, GetKey(nm)
  PROVE  /\ buffer' \in WaitingKeys
         /\ WaitingKeys' = WaitingKeys \ {buffer'}
         /\ buffer'[1] = nm[2] /\ buffer'[2] = nm[3]
<1>1. \A m \in Names : Len(queue[m]) \in Nat /\ DOMAIN queue[m] = 1..Len(queue[m])
  BY DEF KeysInv, KeysTypeOK
<1>2. \A m \in Names : DOMAIN queue'[m] = 1..Len(queue'[m])
  BY KeysTypeStep DEF KeysInv, KeysTypeOK, KeysNext, AkyGetKey
<1>3. 1 \in 1..Len(queue[nm]) /\ buffer' = queue[nm][1]
  BY <1>1, GetShape DEF KeysInv, GetKey, KeysTypeOK
<1>4. buffer' \in WaitingKeys
  BY <1>1, <1>3 DEF WaitingKeys
<1>5. WaitingKeys' \subseteq WaitingKeys \ {buffer'}
  <2> SUFFICES ASSUME NEW m \in Names, NEW i \in 1..Len(queue'[m])
               PROVE  queue'[m][i] \in WaitingKeys \ {buffer'}
    BY <1>2 DEF WaitingKeys
  <2>1. \E j \in 1..Len(queue[m]) : queue'[m][i] = queue[m][j] /\ (m # nm \/ j # 1)
    <3>1. CASE m = nm
      <4>1. i + 1 \in 1..Len(queue[m]) /\ queue'[m][i] = queue[m][i + 1] /\ i + 1 # 1
        BY <1>1, <3>1, GetShape DEF KeysInv
      <4> QED
        BY <4>1
    <3>2. CASE m # nm
      BY <3>2, GetShape DEF KeysInv
    <3> QED
      BY <3>1, <3>2
  <2> QED
    BY <1>1, <1>3, <2>1 DEF WaitingKeys, KeysInv, KeysUnique
<1>6. WaitingKeys \ {buffer'} \subseteq WaitingKeys'
  <2> SUFFICES ASSUME NEW m \in Names, NEW j \in 1..Len(queue[m]), queue[m][j] # buffer'
               PROVE  queue[m][j] \in WaitingKeys'
    BY <1>1 DEF WaitingKeys
  <2>1. CASE m = nm
    <3>1. j # 1 /\ j - 1 \in 1..Len(queue'[m]) /\ queue'[m][j - 1] = queue[m][j]
      BY <1>1, <1>3, <2>1, GetShape DEF KeysInv
    <3> QED
      BY <1>2, <3>1 DEF WaitingKeys
  <2>2. CASE m # nm
    BY <1>1, <1>2, <2>2, GetShape DEF WaitingKeys, KeysInv
  <2> QED
    BY <2>1, <2>2
<1>7. buffer'[1] = nm[2] /\ buffer'[2] = nm[3]
  BY <1>3 DEF KeysInv, KeysBelong, KeyOf
<1> QED
  BY <1>4, <1>5, <1>6, <1>7

-----------------------------------------------------------------------------
\* What the theorems promise of the links; the other half of LinksInv are types
\* and the invariant of the key table.
LinksPaired ==
  /\ PrintedKeysUsed
  /\ StartsAtSource
  /\ LinkKeysUnique
  /\ EndsFollowStarts
  /\ OpenLinksWait

\* Starting a link keeps them: its key has a number that no printed key has, or
\* the table was full and there is no key to print.
LEMMA StartKeepsLinks ==
  ASSUME ConverterAssumption, LinksInv, StartStep
  PROVE  LinksPaired' /\ links' \in Seq(Link)
<1>1. PICK e \in Events, d \in Ids :
        e.type \in LinkTypes /\ e.id1 \in Procs /\ LinkFrom(e, e.id1, d)
  BY DEF StartStep
<1> DEFINE nm == <<KeyType(e.type), e.id1, d>>
           n == Len(links) + 1
           l == [side |-> "start", value |-> LinkValue(e.type), key |-> buffer',
                 at |-> e.id1, about |-> <<e.about, e.id1, d>>,
                 sent |-> e.size, size |-> FiveDigits(e.size)]
<1>2. nm \in Names /\ nm[2] = e.id1
  BY <1>1, NamesOfEvents DEF ConverterAssumption
<1>3. AkyPutKey(nm) /\ links' = Append(links, l)
  BY <1>1 DEF LinkFrom, StartLink
<1>4. buffer' \in Key \cup {NoKey}
  BY <1>2, <1>3, KeysTypeStep DEF LinksInv, KeysInv, KeysNext, KeysTypeOK
<1>5. l \in Link /\ l.side = "start" /\ l.key = buffer' /\ l.at = e.id1
  BY <1>1, <1>4 DEF Link, ConverterAssumption
<1>6. links \in Seq(Link) /\ links' \in Seq(Link)
  BY <1>3, <1>5, AppendShape DEF LinksInv, ConverterTypeOK
<1> HIDE DEF l
<1>7. /\ DOMAIN links' = DOMAIN links \cup {n} /\ n \notin DOMAIN links
      /\ \A i \in DOMAIN links : links'[i] = links[i] /\ i \in Nat /\ i < n
      /\ links'[n] = l
      /\ Starts' = Starts \cup {n} /\ Ends' = Ends
      /\ StartKeys' = StartKeys \cup {buffer'} /\ EndKeys' = EndKeys
  BY <1>3, <1>5, <1>6, AppendShape, StartedKeys
<1>8. Starts \subseteq DOMAIN links /\ Ends \subseteq DOMAIN links
  BY DEF Starts, Ends
<1>9. CASE PutRefused(nm)
  <2>1. buffer' = NoKey /\ counter' = counter /\ WaitingKeys' = WaitingKeys
    BY <1>9 DEF PutRefused, WaitingKeys
  <2>2. PrintedKeysUsed' /\ StartsAtSource' /\ LinkKeysUnique' /\ EndsFollowStarts'
    BY <1>5, <1>7, <1>8, <2>1
    DEF LinksInv, PrintedKeysUsed, StartsAtSource, LinkKeysUnique, EndsFollowStarts, KeyAt
  <2>3. OpenLinksWait'
    BY <1>7, <2>1 DEF LinksInv, OpenLinksWait, OpenKeys, StartKeys, EndKeys
  <2> QED
    BY <1>6, <2>2, <2>3 DEF LinksPaired
<1>10. CASE PutKey(nm)
  <2>1. /\ buffer' = KeyOf(nm, counter) /\ counter' = counter + 1 /\ counter \in Nat
        /\ buffer' # NoKey /\ buffer'[1] = e.id1 /\ buffer'[3] = counter
    BY <1>2, <1>10 DEF PutKey, KeyOf, LinksInv, KeysInv, KeysTypeOK, NoKey
  <2>2. \A i \in DOMAIN links : KeyAt(i) # NoKey =>
           KeyAt(i) # buffer' /\ KeyAt(i)[3] < counter' 
    <3> SUFFICES ASSUME NEW i \in DOMAIN links, KeyAt(i) # NoKey
                 PROVE  KeyAt(i) # buffer' /\ KeyAt(i)[3] < counter'
      OBVIOUS
    <3>1. links[i] \in Link
      BY <1>6
    <3>2. KeyAt(i) \in Key
      BY <3>1 DEF Link, KeyAt
    <3>3. KeyAt(i)[3] < counter
      BY DEF LinksInv, PrintedKeysUsed
    <3>4. KeyAt(i)[3] \in Nat
      BY <3>2 DEF Key
    <3> QED
      BY <2>1, <3>3, <3>4
  <2>3. PrintedKeysUsed' /\ StartsAtSource'
    BY <1>5, <1>7, <1>8, <2>1, <2>2 DEF LinksInv, PrintedKeysUsed, StartsAtSource, KeyAt
  <2>4. LinkKeysUnique' /\ EndsFollowStarts'
    BY <1>5, <1>7, <1>8, <2>1, <2>2 DEF LinksInv, LinkKeysUnique, EndsFollowStarts, KeyAt
  <2>5. OpenLinksWait'
    <3>1. buffer' \notin EndKeys
      BY <1>8, <2>1, <2>2 DEF EndKeys
    <3>2. WaitingKeys' = WaitingKeys \cup {buffer'}
      BY <1>2, <1>10, <2>1, WaitingAfterPut DEF LinksInv
    <3> QED
      BY <1>7, <2>1, <3>1, <3>2 DEF LinksInv, OpenLinksWait, OpenKeys, StartKeys, EndKeys
  <2> QED
    BY <1>6, <2>3, <2>4, <2>5 DEF LinksPaired
<1> QED
  BY <1>3, <1>9, <1>10 DEF AkyPutKey

\* Ending a link keeps them: the key that is taken was waiting, so that its link
\* was started and not ended; without a key nothing can be paired by mistake.
LEMMA EndKeepsLinks ==
  ASSUME ConverterAssumption, LinksInv, EndStep
  PROVE  LinksPaired' /\ links' \in Seq(Link)
<1>1. PICK e \in Events, s \in Ids :
        e.type \in LinkTypes /\ e.id1 \in Procs /\ LinkTo(e, s, e.id1)
  BY DEF EndStep
<1> DEFINE nm == <<KeyType(e.type), s, e.id1>>
           n == Len(links) + 1
           l == [side |-> "end", value |-> LinkValue(e.type), key |-> buffer',
                 at |-> e.id1, about |-> <<e.about, s, e.id1>>, sent |-> 0, size |-> 0]
<1>2. nm \in Names /\ nm[3] = e.id1
  BY <1>1, NamesOfEvents DEF ConverterAssumption
<1>3. AkyGetKey(nm) /\ links' = Append(links, l)
  BY <1>1 DEF LinkTo, EndLink
<1>4. buffer' \in Key \cup {NoKey}
  BY <1>2, <1>3, KeysTypeStep DEF LinksInv, KeysInv, KeysNext, KeysTypeOK
<1>5. l \in Link /\ l.side = "end" /\ l.key = buffer' /\ l.at = e.id1
  BY <1>1, <1>4 DEF Link, ConverterAssumption
<1>6. links \in Seq(Link) /\ links' \in Seq(Link)
  BY <1>3, <1>5, AppendShape DEF LinksInv, ConverterTypeOK
<1> HIDE DEF l
<1>7. /\ DOMAIN links' = DOMAIN links \cup {n} /\ n \notin DOMAIN links
      /\ \A i \in DOMAIN links : links'[i] = links[i] /\ i \in Nat /\ i < n
      /\ links'[n] = l
      /\ Ends' = Ends \cup {n} /\ Starts' = Starts
      /\ EndKeys' = EndKeys \cup {buffer'} /\ StartKeys' = StartKeys
  BY <1>3, <1>5, <1>6, AppendShape, EndedKeys
<1>8. Starts \subseteq DOMAIN links /\ Ends \subseteq DOMAIN links
  BY DEF Starts, Ends
<1>9. StartsAtSource'
  BY <1>7, <1>8 DEF LinksInv, StartsAtSource, KeyAt
<1>10. CASE GetMissing(nm)
  <2>1. buffer' = NoKey /\ counter' = counter /\ WaitingKeys' = WaitingKeys
    BY <1>10 DEF GetMissing, WaitingKeys
  <2>2. PrintedKeysUsed' /\ LinkKeysUnique' /\ EndsFollowStarts'
    BY <1>5, <1>7, <1>8, <2>1
    DEF LinksInv, PrintedKeysUsed, LinkKeysUnique, EndsFollowStarts, KeyAt
  <2>3. OpenLinksWait'
    BY <1>7, <2>1 DEF LinksInv, OpenLinksWait, OpenKeys, StartKeys, EndKeys
  <2> QED
    BY <1>6, <1>9, <2>2, <2>3 DEF LinksPaired
<1>11. CASE GetKey(nm)
  <2>1. /\ buffer' \in WaitingKeys /\ WaitingKeys' = WaitingKeys \ {buffer'}
        /\ buffer'[2] = e.id1
    BY <1>2, <1>11, WaitingAfterGet DEF LinksInv
  <2>2. buffer' \in StartKeys /\ buffer' \notin EndKeys /\ buffer' # NoKey
    BY <2>1 DEF LinksInv, OpenLinksWait, OpenKeys, StartKeys, EndKeys
  <2>3. PICK i \in Starts : KeyAt(i) = buffer'
    BY <2>2 DEF StartKeys
  <2>4. /\ links'[i] = links[i] /\ i \in DOMAIN links /\ i < n
        /\ buffer'[1] = links[i].at /\ buffer'[3] < counter
    BY <1>7, <1>8, <2>2, <2>3 DEF LinksInv, StartsAtSource, PrintedKeysUsed
  <2>5. counter' = counter
    BY <1>11 DEF GetKey
  <2>6. PrintedKeysUsed'
    BY <1>5, <1>7, <2>4, <2>5 DEF LinksInv, PrintedKeysUsed, KeyAt
  <2>7. LinkKeysUnique'
    <3>1. \A j \in DOMAIN links : links[j].side = "end" => KeyAt(j) # buffer'
      BY <2>2 DEF EndKeys, Ends
    <3> QED
      BY <1>5, <1>7, <3>1 DEF LinksInv, LinkKeysUnique, KeyAt
  <2>8. EndsFollowStarts'
    <3> SUFFICES ASSUME NEW j \in Ends', links'[j].key # NoKey
                 PROVE  /\ links'[j].key[2] = links'[j].at
                        /\ \E k \in Starts' : /\ k < j
                                              /\ links'[k].key = links'[j].key
                                              /\ links'[k].key[1] = links'[k].at
      BY DEF EndsFollowStarts, KeyAt
    <3>1. CASE j = n
      <4>1. links'[j].key = buffer' /\ links'[j].at = e.id1
        BY <1>5, <1>7, <3>1
      <4>2. i \in Starts' /\ i < j /\ links'[i].key = buffer' /\ buffer'[1] = links'[i].at
        BY <1>7, <2>3, <2>4, <3>1 DEF KeyAt
      <4> QED
        BY <2>1, <4>1, <4>2
    <3>2. CASE j \in Ends
      <4>1. links'[j] = links[j] /\ \A k \in Starts : links'[k] = links[k]
        BY <1>7, <1>8, <3>2
      <4> QED
        BY <1>7, <3>2, <4>1 DEF LinksInv, EndsFollowStarts, KeyAt
    <3> QED
      BY <1>7, <3>1, <3>2
  <2>9. OpenLinksWait'
    BY <1>7, <2>1 DEF LinksInv, OpenLinksWait, OpenKeys, StartKeys, EndKeys
  <2> QED
    BY <1>6, <1>9, <2>6, <2>7, <2>8, <2>9 DEF LinksPaired
<1> QED
  BY <1>3, <1>10, <1>11 DEF AkyGetKey

\* A loop over ranks is only entered on an event that has a number of ranks, and
\* its variable only counts up from zero.
LEMMA TypesKept ==
  ASSUME LinksInv, [AnyNext]_anyVars, links' \in Seq(Link)
  PROVE  ConverterTypeOK'
<1> USE DEF LinksInv, ConverterTypeOK
<1>1. ASSUME NEW e \in Events, Decode(e) PROVE ConverterTypeOK'
  <2>1. ScatterSends \cap GatherRecvs = {}
    BY DEF ScatterSends, GatherRecvs
  <2>2. CASE DecodeLoop(e)
    BY <1>1, <2>1, <2>2 DEF DecodeLoop, Decode
  <2>3. CASE ~DecodeLoop(e)
    BY <1>1, <2>3
    DEF Decode, DecodeSend, DecodeRecv, DecodeInit, DecodeIn, DecodeOut
  <2> QED
    BY <2>2, <2>3
<1>2. CASE ScatterStep
  BY <1>2 DEF ScatterStep
<1>3. CASE CollectStep
  BY <1>3 DEF CollectStep
<1>4. CASE LoopEnd \/ Close
  BY <1>4 DEF LoopEnd, Close
<1>5. CASE UNCHANGED anyVars
  BY <1>5 DEF anyVars, converterVars
<1> QED
  BY <1>1, <1>2, <1>3, <1>4, <1>5 DEF AnyNext, DecodeAny, LoopStep, CloseAny

\* In every merge of well-formed files, the invariant holds throughout.
THEOREM LinksInvariant == AnySpec => []LinksInv
<1> USE KeysAssumption, ConverterAssumption, EventsAssumption
<1>1. AnyInit => LinksInv
  <2> SUFFICES ASSUME AnyInit PROVE LinksInv
    OBVIOUS
  <2>1. KeysInv /\ links = <<>> /\ WaitingKeys = {}
    BY KeysInvInit DEF AnyInit, ConverterInit, KeysInit, WaitingKeys
  <2>2. ConverterTypeOK
    BY <2>1 DEF ConverterTypeOK, AnyInit, ConverterInit
  <2>3. DOMAIN links = {} /\ Starts = {} /\ Ends = {}
    BY <2>1 DEF Starts, Ends
  <2> QED
    BY <2>1, <2>2, <2>3
    DEF LinksInv, PrintedKeysUsed, StartsAtSource, LinkKeysUnique, EndsFollowStarts,
        OpenLinksWait, OpenKeys
<1>2. LinksInv /\ [AnyNext]_anyVars => LinksInv'
  <2> SUFFICES ASSUME LinksInv, [AnyNext]_anyVars PROVE LinksInv'
    OBVIOUS
  <2>1. ConverterTypeOK /\ KeysInv
    BY DEF LinksInv
  <2>2. CASE StartStep
    <3>1. \E nm \in Names : AkyPutKey(nm)
      BY <2>2, NamesOfEvents DEF StartStep, LinkFrom, ConverterAssumption
    <3>2. KeysInv'
      BY <2>1, <3>1, KeysInvStep DEF KeysNext
    <3> QED
      BY <2>2, <3>2, StartKeepsLinks, TypesKept DEF LinksInv, LinksPaired
  <2>3. CASE EndStep
    <3>1. \E nm \in Names : AkyGetKey(nm)
      BY <2>3, NamesOfEvents DEF EndStep, LinkTo, ConverterAssumption
    <3>2. KeysInv'
      BY <2>1, <3>1, KeysInvStep DEF KeysNext
    <3> QED
      BY <2>3, <3>2, EndKeepsLinks, TypesKept DEF LinksInv, LinksPaired
  <2>4. CASE UNCHANGED <<keyVars, links>>
    <3>1. KeysInv'
      BY <2>1, <2>4, KeysInvStep
    <3>2. ConverterTypeOK'
      BY <2>1, <2>4, TypesKept DEF ConverterTypeOK
    <3> QED
      BY <2>4, <3>1, <3>2
      DEF LinksInv, PrintedKeysUsed, StartsAtSource, LinkKeysUnique, EndsFollowStarts,
          OpenLinksWait, OpenKeys, WaitingKeys, Starts, Ends, KeyAt, keyVars
  <2> QED
    BY <2>1, <2>2, <2>3, <2>4, StepShape
<1> QED
  BY <1>1, <1>2, PTL DEF AnySpec

\* In every merge of well-formed files no key starts or ends two links.
THEOREM PrintedKeysAreUnique == AnySpec => []LinkKeysUnique
BY LinksInvariant, PTL DEF LinksInv

\* In every merge of well-formed files an end with a key follows its start, and
\* stands at the other process.
THEOREM EndsAreStarted == AnySpec => []EndsFollowStarts
BY LinksInvariant, PTL DEF LinksInv

\* In every merge of well-formed files the table holds the keys of the open links.
THEOREM TableHoldsOpenLinks == AnySpec => []OpenLinksWait
BY LinksInvariant, PTL DEF LinksInv

\* In every merge of well-formed files a link starts without a key only when the
\* hash table of aky_put_key is full, and from then on it stays full.
THEOREM EmptyStartsAreExcused == AnySpec => []EmptyStartMeansFull
<1> USE KeysAssumption, ConverterAssumption, EventsAssumption
<1>1. AnyInit => EmptyStartMeansFull
  BY DEF AnyInit, ConverterInit, EmptyStartMeansFull, Starts
<1>2. LinksInv /\ EmptyStartMeansFull /\ [AnyNext]_anyVars => EmptyStartMeansFull'
  <2> SUFFICES ASSUME LinksInv, EmptyStartMeansFull, [AnyNext]_anyVars
               PROVE  EmptyStartMeansFull'
    OBVIOUS
  <2>1. ConverterTypeOK /\ KeysInv /\ links \in Seq(Link)
    BY DEF LinksInv, ConverterTypeOK
  <2>2. Cardinality(entered) \in Nat
    BY <2>1, FS_CardinalityType DEF KeysInv
  <2>3. CASE StartStep
    <3>1. PICK e \in Events, d \in Ids :
            e.type \in LinkTypes /\ e.id1 \in Procs /\ LinkFrom(e, e.id1, d)
      BY <2>3 DEF StartStep
    <3> DEFINE nm == <<KeyType(e.type), e.id1, d>>
    <3>2. nm \in Names /\ AkyPutKey(nm)
      BY <3>1, NamesOfEvents DEF LinkFrom, ConverterAssumption
    <3> HIDE DEF nm
    <3>3. PICK l : links' = Append(links, l) /\ l.key = buffer'
      BY <3>1 DEF LinkFrom, StartLink
    <3>4. \A i \in Starts' :
            \/ i \in Starts /\ links'[i] = links[i]
            \/ KeyAt(i)' = buffer'
      BY <2>1, <3>3 DEF Starts, KeyAt
    <3>5. CASE PutRefused(nm)
      BY <3>5 DEF PutRefused, EmptyStartMeansFull
    <3>6. CASE PutKey(nm)
      <4>1. buffer' # NoKey
        BY <3>6 DEF PutKey, KeyOf, NoKey
      <4>2. entered' = entered \cup {nm} /\ IsFiniteSet(entered)
        BY <2>1, <3>6 DEF PutKey, KeysInv
      <4>3. /\ Cardinality(entered') \in {Cardinality(entered), Cardinality(entered) + 1}
            /\ Cardinality(entered) <= TableSize
        BY <2>1, <4>2, FS_AddElement DEF KeysInv, TableBounded
      <4>4. CASE \E i \in Starts : KeyAt(i) = NoKey
        BY <2>2, <4>3, <4>4 DEF EmptyStartMeansFull, KeysAssumption
      <4>5. CASE ~ \E i \in Starts : KeyAt(i) = NoKey
        BY <3>4, <4>1, <4>5 DEF EmptyStartMeansFull, KeyAt
      <4> QED
        BY <4>4, <4>5
    <3> QED
      BY <3>2, <3>5, <3>6 DEF AkyPutKey
  <2>4. CASE EndStep
    <3>1. PICK e \in Events, s \in Ids : LinkTo(e, s, e.id1)
      BY <2>4 DEF EndStep
    <3>2. entered' = entered
      BY <3>1 DEF LinkTo, AkyGetKey, GetKey, GetMissing
    <3>3. PICK l : links' = Append(links, l) /\ l.side = "end"
      BY <3>1 DEF LinkTo, EndLink
    <3>4. \A i \in Starts' : i \in Starts /\ links'[i] = links[i]
      BY <2>1, <3>3 DEF Starts
    <3> QED
      BY <3>2, <3>4 DEF EmptyStartMeansFull, KeyAt
  <2>5. CASE UNCHANGED <<keyVars, links>>
    BY <2>5 DEF EmptyStartMeansFull, Starts, KeyAt, keyVars
  <2> QED
    BY <2>1, <2>3, <2>4, <2>5, StepShape
<1> QED
  BY <1>1, <1>2, LinksInvariant, PTL DEF AnySpec

-----------------------------------------------------------------------------
\* The links that were printed with a key.
Keyed == {i \in DOMAIN links : KeyAt(i) # NoKey}

\* One more link event: it is counted when it has a key.
LEMMA KeyedAfterAppend ==
  ASSUME links \in Seq(Link), NEW l \in Link, links' = Append(links, l)
  PROVE  Cardinality(Keyed') = IF l.key # NoKey THEN Cardinality(Keyed) + 1
                               ELSE Cardinality(Keyed)
<1>1. Keyed' = Keyed \cup (IF l.key # NoKey THEN {Len(links) + 1} ELSE {})
  BY AppendShape DEF Keyed, KeyAt
<1>2. Len(links) + 1 \notin Keyed
  BY AppendShape DEF Keyed
<1>3. IsFiniteSet(Keyed)
  <2>1. IsFiniteSet(1..Len(links))
    BY AppendShape, FS_Interval
  <2> QED
    BY <2>1, AppendShape, FS_Subset DEF Keyed
<1>4. CASE l.key # NoKey
  BY <1>1, <1>2, <1>3, <1>4, FS_AddElement
<1>5. CASE l.key = NoKey
  <2>1. Keyed' = Keyed
    BY <1>1, <1>5
  <2> QED
    BY <1>5, <2>1
<1> QED
  BY <1>4, <1>5

\* What a start prints.
LEMMA StartPrints ==
  ASSUME ConverterAssumption, LinksInv, StartStep
  PROVE  \E l \in Link : l.side = "start" /\ links' = Append(links, l)
<1>1. PICK e \in Events, d \in Ids :
        e.type \in LinkTypes /\ e.id1 \in Procs /\ LinkFrom(e, e.id1, d)
  BY DEF StartStep
<1>2. buffer' \in Key \cup {NoKey}
  BY <1>1, NamesOfEvents, KeysTypeStep
  DEF ConverterAssumption, LinkFrom, LinksInv, KeysInv, KeysNext, KeysTypeOK
<1> DEFINE l == [side |-> "start", value |-> LinkValue(e.type), key |-> buffer',
                 at |-> e.id1, about |-> <<e.about, e.id1, d>>,
                 sent |-> e.size, size |-> FiveDigits(e.size)]
<1>3. l \in Link /\ l.side = "start"
  BY <1>1, <1>2 DEF Link, ConverterAssumption
<1>4. links' = Append(links, l)
  BY <1>1 DEF LinkFrom, StartLink
<1> QED
  BY <1>3, <1>4

\* What an end prints: no key, or one that its link has waited with.
LEMMA EndPrints ==
  ASSUME ConverterAssumption, LinksInv, EndStep
  PROVE  \E l \in Link : /\ l.side = "end" /\ links' = Append(links, l)
                         /\ l.key # NoKey => l.key \in OpenKeys
<1>1. PICK e \in Events, s \in Ids :
        e.type \in LinkTypes /\ e.id1 \in Procs /\ LinkTo(e, s, e.id1)
  BY DEF EndStep
<1> DEFINE nm == <<KeyType(e.type), s, e.id1>>
           l == [side |-> "end", value |-> LinkValue(e.type), key |-> buffer',
                 at |-> e.id1, about |-> <<e.about, s, e.id1>>, sent |-> 0, size |-> 0]
<1>2. nm \in Names /\ AkyGetKey(nm)
  BY <1>1, NamesOfEvents DEF ConverterAssumption, LinkTo
<1> HIDE DEF nm
<1>3. buffer' \in Key \cup {NoKey}
  BY <1>2, KeysTypeStep DEF LinksInv, KeysInv, KeysNext, KeysTypeOK
<1>4. l \in Link /\ l.side = "end" /\ l.key = buffer'
  BY <1>1, <1>3 DEF Link, ConverterAssumption
<1>5. links' = Append(links, l)
  BY <1>1 DEF LinkTo, EndLink
<1>6. buffer' # NoKey => buffer' \in OpenKeys
  BY <1>2, WaitingAfterGet DEF AkyGetKey, GetMissing, LinksInv, OpenLinksWait
<1> QED
  BY <1>4, <1>5, <1>6

\* A link event without a key is a stutter of PairingNext.
LEMMA NoKeyStutters ==
  ASSUME LinksInv, NEW l \in Link, links' = Append(links, l), l.key = NoKey
  PROVE  UNCHANGED <<StartKeys \ {NoKey}, OpenKeys \ {NoKey}, Cardinality(Keyed)>>
<1>1. links \in Seq(Link) /\ l.side \in {"start", "end"}
  BY DEF LinksInv, ConverterTypeOK, Link
<1>2. Cardinality(Keyed') = Cardinality(Keyed)
  BY <1>1, KeyedAfterAppend
<1>3. /\ StartKeys' \in {StartKeys, StartKeys \cup {NoKey}}
      /\ EndKeys' \in {EndKeys, EndKeys \cup {NoKey}}
  BY <1>1, StartedKeys, EndedKeys
<1> QED
  BY <1>2, <1>3 DEF OpenKeys, StartKeys, EndKeys

\* A start with a key is one of PajeLinks: LinkKeysUnique and EndsFollowStarts, which hold
\* after it too, leave no place where the key could have been printed before.
LEMMA StartIsStart ==
  ASSUME LinksInv, LinksInv', NEW l \in Link, l.side = "start", links' = Append(links, l),
         l.key # NoKey
  PROVE  Pairing!Start
<1> DEFINE n == Len(links) + 1
<1>1. links \in Seq(Link)
  BY DEF LinksInv, ConverterTypeOK
<1>2. /\ Starts' = Starts \cup {n} /\ Ends' = Ends
      /\ StartKeys' = StartKeys \cup {l.key} /\ EndKeys' = EndKeys
  BY <1>1, StartedKeys
<1>3. /\ DOMAIN links' = DOMAIN links \cup {n} /\ n \notin DOMAIN links
      /\ \A i \in DOMAIN links : links'[i] = links[i]
      /\ links'[n] = l
      /\ Starts \subseteq DOMAIN links /\ Ends \subseteq DOMAIN links
      /\ \A i \in DOMAIN links : i < n
  BY <1>1, AppendShape DEF Starts, Ends
<1>4. \A i \in Starts : KeyAt(i) # l.key
  <2> SUFFICES ASSUME NEW i \in Starts, KeyAt(i) = l.key PROVE FALSE
    OBVIOUS
  <2>1. links'[i].side = "start" /\ links'[i].key = links'[n].key /\ links'[n].side = "start"
    BY <1>3 DEF KeyAt, Starts
  <2>2. i = n
    BY <1>3, <2>1 DEF LinksInv, LinkKeysUnique, KeyAt
  <2> QED
    BY <1>3, <2>2
<1>5. \A j \in Ends : KeyAt(j) # l.key
  <2> SUFFICES ASSUME NEW j \in Ends, KeyAt(j) = l.key PROVE FALSE
    OBVIOUS
  <2>1. PICK i \in Starts : KeyAt(i) = KeyAt(j)
    BY DEF LinksInv, EndsFollowStarts
  <2> QED
    BY <1>4, <2>1
<1>6. l.key \notin StartKeys /\ l.key \notin EndKeys
  BY <1>4, <1>5 DEF StartKeys, EndKeys
<1>7. Cardinality(Keyed') = Cardinality(Keyed) + 1
  BY <1>1, KeyedAfterAppend
<1>8. /\ l.key \in (StartKeys' \ {NoKey}) \ (StartKeys \ {NoKey})
      /\ StartKeys' \ {NoKey} = (StartKeys \ {NoKey}) \cup {l.key}
      /\ OpenKeys' \ {NoKey} = (OpenKeys \ {NoKey}) \cup {l.key}
  BY <1>2, <1>6 DEF OpenKeys, StartKeys, EndKeys
<1> QED
  BY <1>7, <1>8 DEF Pairing!Start, StartKeys, Keyed

\* An end with a key is one of PajeLinks.
LEMMA EndIsEnd ==
  ASSUME LinksInv, NEW l \in Link, l.side = "end", links' = Append(links, l),
         l.key # NoKey, l.key \in OpenKeys
  PROVE  Pairing!End
<1>1. links \in Seq(Link)
  BY DEF LinksInv, ConverterTypeOK
<1>2. StartKeys' = StartKeys /\ EndKeys' = EndKeys \cup {l.key}
  BY <1>1, EndedKeys
<1>3. Cardinality(Keyed') = Cardinality(Keyed) + 1
  BY <1>1, KeyedAfterAppend
<1>4. /\ l.key \in OpenKeys \ {NoKey}
      /\ OpenKeys' \ {NoKey} = (OpenKeys \ {NoKey}) \ {l.key}
  BY <1>2 DEF OpenKeys, StartKeys, EndKeys
<1> QED
  BY <1>2, <1>3, <1>4 DEF Pairing!End, StartKeys, Keyed

\* aky_converter implements PajeLinks: on every merge of well-formed files, each step of its
\* loop starts a link with a key never used before, ends an open one, or prints no key.
THEOREM LinksImplemented == AnySpec => AnyLinksPaired
<1> USE KeysAssumption, ConverterAssumption, EventsAssumption
<1>1. AnyInit => Pairing!LinksInit
  <2> SUFFICES ASSUME AnyInit PROVE Pairing!LinksInit
    OBVIOUS
  <2>1. DOMAIN links = {} /\ Starts = {} /\ Ends = {}
    BY DEF AnyInit, ConverterInit, Starts, Ends
  <2>2. Keyed = {} /\ Cardinality(Keyed) = 0
    BY <2>1, FS_EmptySet DEF Keyed
  <2> QED
    BY <2>1, <2>2 DEF Pairing!LinksInit, OpenKeys, Keyed
<1>2. LinksInv /\ LinksInv' /\ [AnyNext]_anyVars
        => [Pairing!Start \/ Pairing!End]_(Pairing!linkVars)
  <2> SUFFICES ASSUME LinksInv, LinksInv', [AnyNext]_anyVars
               PROVE  Pairing!Start \/ Pairing!End \/ UNCHANGED Pairing!linkVars
    OBVIOUS
  <2>1. ASSUME NEW l \in Link, links' = Append(links, l), l.key = NoKey
        PROVE  UNCHANGED Pairing!linkVars
    BY <2>1, NoKeyStutters DEF Pairing!linkVars, StartKeys, Keyed
  <2>2. CASE StartStep
    BY <2>1, <2>2, StartPrints, StartIsStart
  <2>3. CASE EndStep
    BY <2>1, <2>3, EndPrints, EndIsEnd
  <2>4. CASE UNCHANGED <<keyVars, links>>
    BY <2>4 DEF Pairing!linkVars, OpenKeys, Starts, Ends, KeyAt
  <2> QED
    BY <2>2, <2>3, <2>4, StepShape DEF LinksInv
<1> QED
  BY <1>1, <1>2, LinksInvariant, PTL DEF AnySpec, AnyLinksPaired, Pairing!LinksSpec
===============================================================================
