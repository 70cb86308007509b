-------------------------- MODULE AkypueraFilesProofs --------------------------
(***************************************************************************)
(* Whatever a legal application does, the trace that libaky records is a   *)
(* merge of well-formed files, so that the composed system implements      *)
(* AkyAnyTrace: the links, containers and states that aky_converter prints *)
(* are those of any such merge, whether the clocks are synchronized or not.*)
(***************************************************************************)
EXTENDS AkypueraProofs, FiniteSetTheorems, WellFoundedInduction

\* Every set of numbers has a least one.
LEMMA NumbersWellFounded ==
  \E R : IsWellFoundedOn(R, Nat) /\ \A x, y \in Nat : x < y => <<x, y>> \in R
<1> DEFINE R == OpToRel(<, Nat)
<1>1. IsWellFoundedOn(R, Nat)
  BY NatLessThanWellFounded
<1>2. \A x, y \in Nat : x < y => <<x, y>> \in R
  BY DEF OpToRel
<1> QED
  BY <1>1, <1>2

LEMMA LeastNumber ==
  ASSUME NEW S, S \subseteq Nat, S # {}
  PROVE  \E m \in S : \A n \in S : m <= n
<1>1. PICK R : IsWellFoundedOn(R, Nat) /\ \A x, y \in Nat : x < y => <<x, y>> \in R
  BY NumbersWellFounded
<1>2. IsWellFoundedOn(R, Nat)
  BY <1>1
<1>3. PICK x \in S : \A y \in S : ~(<<y, x>> \in R)
  BY <1>2, WFMin, Zenon
<1>4. \A y \in S : ~(y < x)
  BY <1>1, <1>3
<1> QED
  BY <1>3, <1>4

-----------------------------------------------------------------------------
\* A communicator has no more members than there are ranks, and numbers them by ranks.
LEMMA SizeIsRank ==
  ASSUME NEW c \in DOMAIN Comms
  PROVE  Size(c) \in 0..N
<1>1. /\ Comms[c] \in Seq(Ranks) /\ N \in Nat
      /\ \A i, j \in DOMAIN Comms[c] : Comms[c][i] = Comms[c][j] => i = j
  BY MpiAssumption
<1>2. Comms[c] \in Injection(1..Len(Comms[c]), Ranks)
  <2>1. Comms[c] \in [1..Len(Comms[c]) -> Ranks] /\ DOMAIN Comms[c] = 1..Len(Comms[c])
    BY <1>1
  <2> QED
    BY <1>1, <2>1 DEF Injection, IsInjective
<1>3. IsFiniteSet(Ranks) /\ Cardinality(Ranks) = N
  <2>1. IsFiniteSet(0..(N - 1)) /\ Cardinality(0..(N - 1)) = N
    BY <1>1, FS_Interval
  <2> QED
    BY <2>1 DEF Ranks
<1>4. Len(Comms[c]) \in Nat /\ Cardinality(1..Len(Comms[c])) = Len(Comms[c])
  <2>1. Len(Comms[c]) \in Nat
    BY <1>1
  <2> DEFINE n == Len(Comms[c])
  <2>2. n \in Int /\ 1 \in Int
    BY <2>1
  <2>3. Cardinality(1..n) = IF 1 > n THEN 0 ELSE n - 1 + 1
    <3> HIDE DEF n
    <3> QED
      BY <2>2, FS_Interval
  <2>4. n \in Nat
    BY <2>1
  <2>5. Cardinality(1..n) = n
    <3> HIDE DEF n
    <3> QED
      BY <2>3, <2>4
  <2> QED
    BY <2>1, <2>5
<1>5. Cardinality(1..Len(Comms[c])) <= Cardinality(Ranks)
  BY <1>2, <1>3, FS_Injection
<1> QED
  BY <1>1, <1>3, <1>4, <1>5 DEF Size

LEMMA CommRankIsRank ==
  ASSUME NEW c \in DOMAIN Comms, NEW s \in Members(c)
  PROVE  CommRank(c, s) \in Ranks
<1>1. PICK i \in DOMAIN Comms[c] : Comms[c][i] = s
  BY DEF Members
<1>2. (CHOOSE k \in DOMAIN Comms[c] : Comms[c][k] = s) \in DOMAIN Comms[c]
  BY <1>1
<1>3. Comms[c] \in Seq(Ranks) /\ N \in Nat /\ Len(Comms[c]) <= N
  BY MpiAssumption, SizeIsRank DEF Size
<1>4. \A k \in DOMAIN Comms[c] : k - 1 \in 0..(N - 1)
  BY <1>3
<1> QED
  BY <1>2, <1>4 DEF CommRank, Ranks

\* What a peer is translated to can be a number of a link.
LEMMA TranslatedIsId ==
  ASSUME NEW c \in DOMAIN Comms, NEW k \in Ranks \cup {AnySource}
  PROVE  AKY_translate_rank(c, k) \in Ranks \cup {AnySource}
<1>1. Comms[c] \in Seq(Ranks)
  BY MpiAssumption
<1> QED
  BY <1>1 DEF AKY_translate_rank

LEMMA RanksAreIds ==
  /\ Ranks = Procs /\ Ranks \cup {AnySource} \subseteq Ids /\ 0 \in Ranks /\ N \in Nat
  /\ Ids \subseteq Int
  BY MpiAssumption, KeysAssumption, ConverterAssumption, AkypueraAssumption DEF Ranks, Procs

-----------------------------------------------------------------------------
\* The events that the wrappers record.
LinkEvents == {"AKY_PTP_SEND", "AKY_PTP_RECV"}
  \cup ScatterSends \cup ScatterRecvs \cup GatherSends \cup GatherRecvs

Collectives == {<<c, 0, k>> : c \in DOMAIN Comms, k \in Nat}
RecordedEvents ==
  {e \in [type : LinkEvents \cup {"MPI_INIT", "IN", "OUT"}, id1 : Ranks,
          op : {"none", "MPI_Init", "MPI_Finalize"} \cup {c.op : c \in AllCalls},
          v : Int, size : {0} \cup {c.size : c \in AllCalls}, mark : Int,
          about : Messages \cup Collectives] :
     IF e.type \in ScatterSends \cup GatherRecvs THEN e.v \in 0..N ELSE e.v \in Ids}

LEMMA EventIsRecorded ==
  ASSUME NEW type \in LinkEvents \cup {"MPI_INIT", "IN", "OUT"}, NEW r \in Ranks,
         NEW op \in {"none", "MPI_Init", "MPI_Finalize"} \cup {c.op : c \in AllCalls},
         NEW v, NEW size \in {0} \cup {c.size : c \in AllCalls}, NEW mark \in Int,
         NEW about \in Messages \cup Collectives,
         IF type \in ScatterSends \cup GatherRecvs THEN v \in 0..N ELSE v \in Ids
  PROVE  Event(type, r, op, v, size, mark, about) \in RecordedEvents
<1>1. v \in Int
  <2>1. v \in 0..N \/ v \in Ids
    OBVIOUS
  <2>2. Ids \subseteq Int /\ 0..N \subseteq Int
    BY RanksAreIds
  <2> QED
    BY <2>1, <2>2
<1> DEFINE e == Event(type, r, op, v, size, mark, about)
<1>2. e.type = type /\ e.v = v
  BY DEF Event
<1>3. e \in [type : LinkEvents \cup {"MPI_INIT", "IN", "OUT"}, id1 : Ranks,
             op : {"none", "MPI_Init", "MPI_Finalize"} \cup {c.op : c \in AllCalls},
             v : Int, size : {0} \cup {c.size : c \in AllCalls}, mark : Int,
             about : Messages \cup Collectives]
  BY <1>1 DEF Event
<1> HIDE DEF e
<1> QED
  BY <1>2, <1>3 DEF e, RecordedEvents

-----------------------------------------------------------------------------
\* Where a rank is between the events of its file: `now' is the call that it is in at
\* the end of the file, and a call begins or ends at the Bounds.
NoOp == "none"
Bounds(t, p, i) ==
  {j \in DOMAIN t : i <= j /\ t[j].id1 = p /\ t[j].type \in {"IN", "OUT"}}
Before(e) == IF e.type = "IN" THEN NoOp ELSE e.op
InsideFrom(t, now, p, i) ==
  LET bounds == Bounds(t, p, i)
  IN IF bounds = {} THEN now
     ELSE Before(t[CHOOSE m \in bounds : \A n \in bounds : m <= n])

\* The first of the bounds.
FirstBound(t, p, i, m) == m \in Bounds(t, p, i) /\ \A n \in Bounds(t, p, i) : m <= n

LEMMA FirstBoundExists ==
  ASSUME NEW S, NEW t \in Seq(S), NEW p, NEW i, Bounds(t, p, i) # {}
  PROVE  \E m : FirstBound(t, p, i, m)
<1>1. Bounds(t, p, i) \subseteq Nat
  BY DEF Bounds
<1>2. \E m \in Bounds(t, p, i) : \A n \in Bounds(t, p, i) : m <= n
  BY <1>1, LeastNumber
<1> QED
  BY <1>2 DEF FirstBound

LEMMA InsideAtFirst ==
  ASSUME NEW S, NEW t \in Seq(S), NEW now, NEW p, NEW i, NEW m, FirstBound(t, p, i, m)
  PROVE  InsideFrom(t, now, p, i) = Before(t[m])
<1> DEFINE bounds == Bounds(t, p, i)
           least == CHOOSE k \in bounds : \A n \in bounds : k <= n
<1>1. bounds \subseteq Nat
  BY DEF Bounds
<1>2. m \in bounds /\ \A n \in bounds : m <= n
  BY DEF FirstBound
<1> HIDE DEF bounds
<1>3. least \in bounds /\ \A n \in bounds : least <= n
  BY <1>2
<1> HIDE DEF least
<1>4. least = m
  BY <1>1, <1>2, <1>3
<1>5. InsideFrom(t, now, p, i) = Before(t[least])
  BY <1>2 DEF InsideFrom, bounds, least
<1> QED
  BY <1>4, <1>5

LEMMA InsideAtEnd ==
  ASSUME NEW t, NEW now, NEW p, NEW i, Bounds(t, p, i) = {}
  PROVE  InsideFrom(t, now, p, i) = now
  BY DEF InsideFrom

\* At a bound of its file, a rank is before it.
LEMMA InsideAtBound ==
  ASSUME NEW S, NEW t \in Seq(S), NEW now, NEW i \in DOMAIN t, t[i].type \in {"IN", "OUT"}
  PROVE  InsideFrom(t, now, t[i].id1, i) = Before(t[i])
<1>1. FirstBound(t, t[i].id1, i, i)
  BY DEF FirstBound, Bounds
<1> QED
  BY <1>1, InsideAtFirst

\* Events that are no bounds of a file change nothing.
LEMMA InsideSkips ==
  ASSUME NEW S, NEW t \in Seq(S), NEW now, NEW p, NEW i \in Nat, NEW k \in Nat, i <= k,
         \A j \in i..(k - 1) : j \in DOMAIN t => t[j].id1 # p \/ t[j].type \notin {"IN", "OUT"}
  PROVE  InsideFrom(t, now, p, i) = InsideFrom(t, now, p, k)
<1>1. DOMAIN t \subseteq Nat
  OBVIOUS
<1>2. Bounds(t, p, i) = Bounds(t, p, k)
  BY <1>1 DEF Bounds
<1> QED
  BY <1>2 DEF InsideFrom

\* More events at the end change nothing before them, if the rank is where it was when
\* they begin.
LEMMA InsideExtended ==
  ASSUME NEW S, NEW t \in Seq(S), NEW u \in Seq(S), Len(t) <= Len(u),
         \A j \in DOMAIN t : u[j] = t[j],
         NEW now, NEW later, NEW p,
         InsideFrom(u, later, p, Len(t) + 1) = now,
         NEW i \in 1..(Len(t) + 1)
  PROVE  InsideFrom(u, later, p, i) = InsideFrom(t, now, p, i)
<1>1. /\ DOMAIN t = 1..Len(t) /\ DOMAIN u = 1..Len(u) /\ Len(t) \in Nat /\ Len(u) \in Nat
  OBVIOUS
<1>2. Bounds(u, p, i) = Bounds(t, p, i) \cup Bounds(u, p, Len(t) + 1)
  BY <1>1 DEF Bounds
<1>3. CASE Bounds(t, p, i) = {}
  <2>1. Bounds(u, p, i) = Bounds(u, p, Len(t) + 1)
    BY <1>2, <1>3
  <2>2. InsideFrom(u, later, p, i) = now
    BY <2>1 DEF InsideFrom
  <2> QED
    BY <1>3, <2>2, InsideAtEnd
<1>4. CASE Bounds(t, p, i) # {}
  <2>1. PICK m : FirstBound(t, p, i, m)
    BY <1>4, FirstBoundExists
  <2>2. FirstBound(u, p, i, m) /\ u[m] = t[m]
    BY <1>1, <1>2, <2>1 DEF FirstBound, Bounds
  <2> QED
    BY <2>1, <2>2, InsideAtFirst
<1> QED
  BY <1>3, <1>4

\* One event is taken away: the bounds behind it move up by one place.
Old(i, j) == IF j < i THEN j ELSE j + 1

LEMMA PlacesMove ==
  ASSUME NEW S, NEW t \in Seq(S), NEW u \in Seq(S), NEW i \in DOMAIN t, Shortens(u, t, i)
  PROVE  /\ \A j \in DOMAIN u : Old(i, j) \in DOMAIN t /\ Old(i, j) # i /\ u[j] = t[Old(i, j)]
         /\ \A n \in DOMAIN t \ {i} : \E j \in DOMAIN u : n = Old(i, j)
         /\ \A j, k \in DOMAIN u : Old(i, j) <= Old(i, k) => j <= k
         /\ \A j, k \in DOMAIN u : j <= k => Old(i, j) <= Old(i, k)
<1>1. /\ Len(t) \in Nat /\ DOMAIN t = 1..Len(t) /\ DOMAIN u = 1..(Len(t) - 1) /\ i \in 1..Len(t)
      /\ \A j \in 1..(Len(t) - 1) : u[j] = t[IF j < i THEN j ELSE j + 1]
  BY DEF Shortens
<1>2. \A j \in DOMAIN u : Old(i, j) \in DOMAIN t /\ Old(i, j) # i /\ u[j] = t[Old(i, j)]
  <2> SUFFICES ASSUME NEW j \in DOMAIN u
               PROVE  Old(i, j) \in DOMAIN t /\ Old(i, j) # i /\ u[j] = t[Old(i, j)]
    OBVIOUS
  <2>1. Old(i, j) \in DOMAIN t /\ Old(i, j) # i
    BY <1>1 DEF Old
  <2>2. u[j] = t[Old(i, j)]
    BY <1>1 DEF Old
  <2> QED
    BY <2>1, <2>2
<1>3. \A n \in DOMAIN t \ {i} : \E j \in DOMAIN u : n = Old(i, j)
  <2> SUFFICES ASSUME NEW n \in DOMAIN t \ {i}
               PROVE  \E j \in DOMAIN u : n = Old(i, j)
    OBVIOUS
  <2>1. CASE n < i
    <3>1. n \in DOMAIN u /\ n = Old(i, n)
      BY <1>1, <2>1 DEF Old
    <3> QED
      BY <3>1
  <2>2. CASE i < n
    <3>1. n - 1 \in DOMAIN u /\ n = Old(i, n - 1)
      BY <1>1, <2>2 DEF Old
    <3> QED
      BY <3>1
  <2> QED
    BY <1>1, <2>1, <2>2
<1>4. \A j, k \in DOMAIN u : Old(i, j) <= Old(i, k) => j <= k
  BY <1>1 DEF Old
<1>5. \A j, k \in DOMAIN u : j <= k => Old(i, j) <= Old(i, k)
  BY <1>1 DEF Old
<1> QED
  BY <1>2, <1>3, <1>4, <1>5

LEMMA InsideRemoved ==
  ASSUME NEW S, NEW t \in Seq(S), NEW u \in Seq(S), NEW i \in DOMAIN t, Shortens(u, t, i),
         NEW now, NEW p, NEW a, NEW b, i \notin Bounds(t, p, b),
         \A j \in DOMAIN u : j \in Bounds(u, p, a) <=> Old(i, j) \in Bounds(t, p, b)
  PROVE  InsideFrom(u, now, p, a) = InsideFrom(t, now, p, b)
<1>1. /\ Bounds(u, p, a) \subseteq DOMAIN u /\ Bounds(t, p, b) \subseteq DOMAIN t \ {i}
  BY DEF Bounds
<1>2. CASE Bounds(u, p, a) = {}
  <2>1. Bounds(t, p, b) = {}
    BY <1>1, <1>2, PlacesMove
  <2> QED
    BY <1>2, <2>1, InsideAtEnd
<1>3. CASE Bounds(u, p, a) # {}
  <2>1. PICK m : FirstBound(u, p, a, m)
    BY <1>3, FirstBoundExists
  <2>2. m \in DOMAIN u /\ m \in Bounds(u, p, a) /\ \A n \in Bounds(u, p, a) : m <= n
    BY <1>1, <2>1 DEF FirstBound
  <2>3. Old(i, m) \in Bounds(t, p, b) /\ u[m] = t[Old(i, m)]
    BY <2>2, PlacesMove
  <2>4. ASSUME NEW n \in Bounds(t, p, b) PROVE Old(i, m) <= n
    <3>1. PICK j \in DOMAIN u : n = Old(i, j)
      BY <1>1, <2>4, PlacesMove
    <3>2. m <= j
      BY <2>2, <2>4, <3>1
    <3> QED
      BY <2>2, <3>1, <3>2, PlacesMove
  <2>5. FirstBound(t, p, b, Old(i, m))
    BY <2>3, <2>4 DEF FirstBound
  <2> QED
    BY <2>1, <2>3, <2>5, InsideAtFirst
<1> QED
  BY <1>2, <1>3

\* Behind the event that is taken away, and before it for the other files, each rank is
\* where it was.
LEMMA InsideBehind ==
  ASSUME NEW S, NEW t \in Seq(S), NEW u \in Seq(S), NEW i \in DOMAIN t, Shortens(u, t, i),
         NEW now, NEW p, NEW k \in Nat, i <= k
  PROVE  InsideFrom(u, now, p, k) = InsideFrom(t, now, p, k + 1)
<1>1. i \in Nat /\ DOMAIN u \subseteq Nat
  OBVIOUS
<1>2. i \notin Bounds(t, p, k + 1)
  BY <1>1 DEF Bounds
<1>3. ASSUME NEW j \in DOMAIN u
      PROVE  j \in Bounds(u, p, k) <=> Old(i, j) \in Bounds(t, p, k + 1)
  <2>1. Old(i, j) \in DOMAIN t /\ u[j] = t[Old(i, j)]
    BY PlacesMove
  <2>2. k <= j <=> k + 1 <= Old(i, j)
    BY <1>1, <1>3 DEF Old
  <2> QED
    BY <2>1, <2>2 DEF Bounds
<1> QED
  BY <1>2, <1>3, InsideRemoved

LEMMA InsideOther ==
  ASSUME NEW S, NEW t \in Seq(S), NEW u \in Seq(S), NEW i \in DOMAIN t, Shortens(u, t, i),
         NEW now, NEW p, NEW k \in Nat, k <= i,
         t[i].id1 # p \/ t[i].type \notin {"IN", "OUT"}
  PROVE  InsideFrom(u, now, p, k) = InsideFrom(t, now, p, k)
<1>1. i \in Nat /\ DOMAIN u \subseteq Nat
  OBVIOUS
<1>2. i \notin Bounds(t, p, k)
  BY DEF Bounds
<1>3. ASSUME NEW j \in DOMAIN u
      PROVE  j \in Bounds(u, p, k) <=> Old(i, j) \in Bounds(t, p, k)
  <2>1. Old(i, j) \in DOMAIN t /\ u[j] = t[Old(i, j)]
    BY PlacesMove
  <2>2. k <= j <=> k <= Old(i, j)
    BY <1>1, <1>3 DEF Old
  <2> QED
    BY <2>1, <2>2 DEF Bounds
<1> QED
  BY <1>2, <1>3, InsideRemoved

-----------------------------------------------------------------------------
\* A message is sent by a member of its communicator, so that the source of a receive is
\* a rank; and the collective calls of a rank are counted.
SendersOK ==
  /\ \A s, d \in Ranks : \A i \in DOMAIN net[s][d] : s \in Members(net[s][d][i].comm)
  /\ \A r \in Ranks : \A a \in Slots : request[r][a].src \in Ranks \cup {AnySource}
CountsOK == ccount \in [Ranks -> [DOMAIN Comms -> Nat]]
MessagesInv == SendersOK /\ CountsOK

\* Requests change to ones without a source.
SourcesForgotten ==
  \A r \in Ranks, a \in Slots :
    request'[r][a] = request[r][a] \/ request'[r][a].src = AnySource

LEMMA SendersKept ==
  ASSUME SendersOK, net' = net, SourcesForgotten
  PROVE  SendersOK'
  BY DEF SendersOK, SourcesForgotten

LEMMA SlotForgotten ==
  ASSUME RequestsInv, NEW r \in Ranks, NEW a \in Slots, NEW v, v.src = AnySource,
         request' = [request EXCEPT ![r][a] = v]
  PROVE  SourcesForgotten
<1>1. request \in [Ranks -> [Slots -> Request]]
  BY DEF RequestsInv, RequestsTypeOK
<1>2. request[r] \in [Slots -> Request]
  BY <1>1
<1>3. request' = [request EXCEPT ![r] = [request[r] EXCEPT ![a] = v]]
  BY <1>1
<1>4. /\ \A q \in Ranks \ {r} : request'[q] = request[q]
      /\ \A b \in Slots : request'[r][b] = IF b = a THEN v ELSE request[r][b]
  BY <1>1, <1>2, <1>3
<1> QED
  BY <1>4 DEF SourcesForgotten

\* A message is sent.
LEMMA TransmitKeepsSenders ==
  ASSUME RequestsInv, SendersOK, NEW r \in Ranks, NEW c \in Calls[r],
         c.op \in SendOps \cup SendrecvOps,
         Transmit(r, c.comm, c.peer, c.tag), SourcesForgotten
  PROVE  SendersOK'
<1> DEFINE d == AKY_translate_rank(c.comm, c.peer)
           m == [comm |-> c.comm, tag |-> c.tag, msg |-> NextMsg(r)]
<1>1. c.comm \in DOMAIN Comms /\ d \in Ranks /\ r \in Members(c.comm)
  BY TracerAssumption
<1>2. m.comm = c.comm
  OBVIOUS
<1>3. /\ net \in [Ranks -> [Ranks -> Seq(NetMessage)]]
  BY DEF RequestsInv, RequestsTypeOK
<1>4. net' = [net EXCEPT ![r] = [net[r] EXCEPT ![d] = Append(net[r][d], m)]]
  BY <1>1, <1>3 DEF Transmit
<1> HIDE DEF d, m
<1>5. net[r] \in [Ranks -> Seq(NetMessage)] /\ net[r][d] \in Seq(NetMessage)
  BY <1>1, <1>3
<1>6. /\ net'[r][d] = Append(net[r][d], m)
      /\ \A q, e \in Ranks : q # r \/ e # d => net'[q][e] = net[q][e]
  BY <1>1, <1>3, <1>4, <1>5
<1>7. \A q, e \in Ranks : \A i \in DOMAIN net'[q][e] : q \in Members(net'[q][e][i].comm)
  <2> SUFFICES ASSUME NEW q \in Ranks, NEW e \in Ranks, NEW i \in DOMAIN net'[q][e]
               PROVE  q \in Members(net'[q][e][i].comm)
    OBVIOUS
  <2>1. CASE q # r \/ e # d
    BY <1>6, <2>1 DEF SendersOK
  <2>2. CASE q = r /\ e = d
    <3>1. \/ i \in DOMAIN net[r][d] /\ net'[r][d][i] = net[r][d][i]
          \/ net'[r][d][i] = m
      BY <1>5, <1>6, <2>2
    <3> QED
      BY <1>1, <1>2, <2>2, <3>1 DEF SendersOK
  <2> QED
    BY <2>1, <2>2
<1> QED
  BY <1>7 DEF SendersOK, SourcesForgotten

\* A message meets a receive, which gets its sender's rank in the communicator.
LEMMA DeliverKeepsSenders ==
  ASSUME RequestsInv, SendersOK, NEW s \in Ranks, NEW d \in Ranks, Deliver(s, d)
  PROVE  SendersOK'
<1>1. PICK i \in DOMAIN net[s][d], j \in DOMAIN posted[d] :
        /\ posted[d][j].comm = net[s][d][i].comm
        /\ net' = [net EXCEPT ![s][d] = Without(@, i)]
        /\ request' = [request EXCEPT ![d][posted[d][j].slot] =
                         [st |-> "arrived", src |-> CommRank(posted[d][j].comm, s),
                          msg |-> net[s][d][i].msg, mark |-> 0]]
  BY DEF Deliver, Match, Accepts
<1> DEFINE v == [st |-> "arrived", src |-> CommRank(posted[d][j].comm, s),
                 msg |-> net[s][d][i].msg, mark |-> 0]
           slot == posted[d][j].slot
<1>2. /\ net \in [Ranks -> [Ranks -> Seq(NetMessage)]] /\ posted \in [Ranks -> Seq(Receive)]
      /\ request \in [Ranks -> [Slots -> Request]]
  BY DEF RequestsInv, RequestsTypeOK
<1>3. posted[d][j] \in Receive /\ slot \in Slots
  BY <1>2, SlotsOfPosted
<1>4. v.src \in Ranks
  <2>1. posted[d][j].comm \in DOMAIN Comms
    BY <1>3 DEF Receive
  <2>2. s \in Members(posted[d][j].comm)
    BY <1>1 DEF SendersOK
  <2> QED
    BY <2>1, <2>2, CommRankIsRank
<1> HIDE DEF v, slot
<1>5. /\ \A q \in Ranks \ {d} : request'[q] = request[q]
      /\ \A b \in Slots : request'[d][b] = IF b = slot THEN v ELSE request[d][b]
  <2>1. request[d] \in [Slots -> Request]
    BY <1>2
  <2>2. request' = [request EXCEPT ![d] = [request[d] EXCEPT ![slot] = v]]
    BY <1>1, <1>2 DEF v, slot
  <2> QED
    BY <1>2, <2>1, <2>2
<1>6. \A r \in Ranks : \A a \in Slots : request'[r][a].src \in Ranks \cup {AnySource}
  BY <1>4, <1>5 DEF SendersOK
<1>7. net[s] \in [Ranks -> Seq(NetMessage)] /\ net[s][d] \in Seq(NetMessage)
  BY <1>2
<1>8. /\ Shortens(net'[s][d], net[s][d], i)
      /\ \A q, e \in Ranks : q # s \/ e # d => net'[q][e] = net[q][e]
  <2>1. net' = [net EXCEPT ![s] = [net[s] EXCEPT ![d] = Without(net[s][d], i)]]
    BY <1>1, <1>2
  <2>2. net'[s][d] = Without(net[s][d], i)
    BY <1>2, <1>7, <2>1
  <2>3. Shortens(Without(net[s][d], i), net[s][d], i)
    BY <1>1, <1>7, WithoutShape
  <2> QED
    BY <1>2, <1>7, <2>1, <2>2, <2>3
<1>9. \A q, e \in Ranks : \A k \in DOMAIN net'[q][e] : q \in Members(net'[q][e][k].comm)
  <2> SUFFICES ASSUME NEW q \in Ranks, NEW e \in Ranks, NEW k \in DOMAIN net'[q][e]
               PROVE  q \in Members(net'[q][e][k].comm)
    OBVIOUS
  <2>1. CASE q # s \/ e # d
    BY <1>8, <2>1 DEF SendersOK
  <2>2. CASE q = s /\ e = d
    <3>1. net'[s][d] \in Seq(NetMessage)
      BY MatchShape DEF Deliver
    <3>2. \E n \in DOMAIN net[s][d] : net'[s][d][k] = net[s][d][n]
      BY <1>1, <1>7, <1>8, <2>2, <3>1, PlacesMove
    <3> QED
      BY <2>2, <3>2 DEF SendersOK
  <2> QED
    BY <2>1, <2>2
<1> QED
  BY <1>6, <1>9 DEF SendersOK

\* The wrappers count the collective calls that they join.
LEMMA CountsKept ==
  ASSUME CountsOK, NEW r \in Ranks, NEW c \in Calls[r],
         ccount' = ccount \/ JoinCollective(r, c.comm, c.op, c.peer)
  PROVE  CountsOK'
<1>1. c.comm \in DOMAIN Comms
  BY TracerAssumption
<1>2. CASE ccount' = ccount
  BY <1>2 DEF CountsOK
<1>3. CASE JoinCollective(r, c.comm, c.op, c.peer)
  <2>1. ccount[r] \in [DOMAIN Comms -> Nat] /\ ccount[r][c.comm] \in Nat
    BY <1>1 DEF CountsOK
  <2>2. ccount' = [ccount EXCEPT ![r] = [ccount[r] EXCEPT ![c.comm] = ccount[r][c.comm] + 1]]
    BY <1>3 DEF JoinCollective, CountsOK
  <2>3. ccount[r][c.comm] + 1 \in Nat
    BY <2>1
  <2> QED
    BY <1>1, <2>1, <2>2, <2>3 DEF CountsOK
<1> QED
  BY <1>2, <1>3

LEMMA MessagesEnter ==
  ASSUME RequestsInv, MessagesInv, NEW r \in Ranks, NEW c \in Calls[r], EnterCall(r, c)
  PROVE  MessagesInv'
<1> USE DEF MessagesInv
<1>1. CASE QuietEnter(r, c)
  <2>1. net' = net /\ request' = request
    BY <1>1, QuietEnterShape
  <2>2. ccount' = ccount \/ JoinCollective(r, c.comm, c.op, c.peer)
    BY <1>1 DEF QuietEnter, EnterWaitArray, EnterTest, EnterDown, EnterUp, EnterPlain,
                Collective, mpiVars
  <2> QED
    BY <2>1, <2>2, CountsKept, SendersKept DEF SourcesForgotten
<1>2. CASE EnterWait(r, c)
  BY <1>2, SendersKept DEF EnterWait, mpiVars, CountsOK, SourcesForgotten
<1>3. CASE EnterSend(r, c)
  <2>1. /\ Transmit(r, c.comm, c.peer, c.tag) /\ c.op \in SendOps
        /\ ccount' = ccount
    BY <1>3 DEF EnterSend
  <2>2. SourcesForgotten
    <3>1. CASE c.op \in BlockingSends
      BY <1>3, <3>1 DEF EnterSend, SourcesForgotten
    <3>2. CASE c.op \notin BlockingSends
      <4>1. c.req \in Slots
        BY <1>3, <3>2, SendsRequest
      <4> DEFINE v == [st |-> IF c.op = "MPI_Isend" THEN "isend" ELSE "send",
                       src |-> AnySource, msg |-> NextMsg(r), mark |-> send_mark[r]]
      <4>2. request' = [request EXCEPT ![r][c.req] = v] /\ v.src = AnySource
        BY <1>3, <3>2 DEF EnterSend
      <4> HIDE DEF v
      <4> QED
        BY <4>1, <4>2, SlotForgotten
    <3> QED
      BY <3>1, <3>2
  <2> QED
    BY <2>1, <2>2, TransmitKeepsSenders DEF CountsOK
<1>4. ASSUME NEW slot \in Slots, Post(r, slot, c.comm, c.peer, c.tag)
      PROVE  SourcesForgotten
  <2>1. /\ request' = [request EXCEPT ![r][slot] = [Null EXCEPT !.st = "posted"]]
        /\ [Null EXCEPT !.st = "posted"].src = AnySource
    BY <1>4 DEF Post, Null
  <2> QED
    BY <2>1, SlotForgotten
<1>5. CASE EnterRecv(r, c)
  BY <1>4, <1>5, BlockingApart, SendersKept DEF EnterRecv, CountsOK
<1>6. CASE EnterIrecv(r, c)
  <2>1. c.req \in Slots
    BY <1>6, TracerAssumption DEF EnterIrecv, RequestOps, Slots
  <2> QED
    BY <1>4, <1>6, <2>1, SendersKept DEF EnterIrecv, CountsOK
<1>7. CASE EnterSendrecv(r, c)
  <2>1. /\ Transmit(r, c.comm, c.peer, c.tag) /\ c.op \in SendrecvOps
        /\ Post(r, Blocking, c.comm, c.peer, c.tag) /\ ccount' = ccount
    BY <1>7 DEF EnterSendrecv
  <2>2. SourcesForgotten
    BY <1>4, <2>1, BlockingApart
  <2> QED
    BY <2>1, <2>2, TransmitKeepsSenders DEF CountsOK
<1> QED
  BY <1>1, <1>2, <1>3, <1>5, <1>6, <1>7 DEF EnterCall, QuietEnter

LEMMA MessagesLeave ==
  ASSUME RequestsInv, MessagesInv, NEW r \in Ranks, LeaveCall(r)
  PROVE  MessagesInv'
<1> USE DEF MessagesInv
<1>1. ASSUME net' = net, ccount' = ccount, SourcesForgotten PROVE MessagesInv'
  BY <1>1, SendersKept DEF CountsOK
<1>2. Null.src = AnySource
  BY DEF Null
<1>3. CASE QuietLeave(r) \/ LeaveSend(r) \/ LeaveIrecv(r)
  <2>1. net' = net /\ request' = request /\ ccount' = ccount
    BY <1>3 DEF QuietLeave, LeaveDown, LeaveUp, LeavePlain, LeaveSend, LeaveIrecv, mpiVars
  <2> QED
    BY <1>1, <2>1 DEF SourcesForgotten
<1>4. CASE LeaveRecv(r) \/ LeaveSendrecv(r)
  <2>1. /\ net' = net /\ ccount' = ccount
        /\ request' = [request EXCEPT ![r][Blocking] = Null]
    BY <1>4 DEF LeaveRecv, LeaveSendrecv
  <2> QED
    BY <1>1, <1>2, <2>1, BlockingApart, SlotForgotten
<1>5. CASE LeaveWait(r) \/ LeaveWaitall(r) \/ LeaveWaitany(r)
  <2>1. PICK done : FinishRequests(r, done)
    BY <1>5 DEF LeaveWait, LeaveWaitall, LeaveWaitany
  <2>2. /\ net' = net /\ ccount' = ccount
        /\ request' = [request EXCEPT ![r] = [a \in DOMAIN @ |-> IF a \in done THEN Null ELSE @[a]]]
    BY <2>1 DEF FinishRequests
  <2>3. request \in [Ranks -> [Slots -> Request]]
    BY DEF RequestsInv, RequestsTypeOK
  <2>4. /\ \A q \in Ranks \ {r} : request'[q] = request[q]
        /\ \A a \in Slots : request'[r][a] = IF a \in done THEN Null ELSE request[r][a]
    BY <2>2, <2>3
  <2> QED
    BY <1>1, <1>2, <2>2, <2>4 DEF SourcesForgotten
<1>6. CASE LeaveTest(r)
  <2>1. /\ net' = net /\ ccount' = ccount /\ call[r].op \in TestOps /\ pc[r] = "call"
        /\ \/ request' = request
           \/ request' = [request EXCEPT ![r][call[r].req] = Null]
    BY <1>6 DEF LeaveTest, Leave
  <2>2. call[r] \in Calls[r]
    BY <2>1 DEF RequestsInv, CallsAreOwn, Finalize, TestOps
  <2>3. call[r].req \in Slots
    BY <2>1, <2>2, TracerAssumption DEF RequestOps, Slots
  <2>4. SourcesForgotten
    BY <1>2, <2>1, <2>3, SlotForgotten DEF SourcesForgotten
  <2> QED
    BY <1>1, <2>1, <2>4
<1> QED
  BY <1>3, <1>4, <1>5, <1>6 DEF LeaveCall, QuietLeave

LEMMA MessagesInvStep ==
  ASSUME RequestsInv, MessagesInv, [Next]_vars
  PROVE  MessagesInv'
<1>1. CASE \E r \in Ranks : InitCall(r) \/ EnterFinalize(r) \/ LeaveFinalize(r)
  <2>1. UNCHANGED mpiVars
    BY <1>1 DEF InitCall, EnterFinalize, LeaveFinalize
  <2> QED
    BY <2>1, SendersKept DEF mpiVars, MessagesInv, CountsOK, SourcesForgotten
<1>2. CASE \E r \in Ranks : LeaveCall(r)
  BY <1>2, MessagesLeave
<1>3. CASE \E r \in Ranks : \E c \in Calls[r] : EnterCall(r, c)
  BY <1>3, MessagesEnter
<1>4. CASE \E s, d \in Ranks : Deliver(s, d)
  <2>1. PICK s, d \in Ranks : Deliver(s, d)
    BY <1>4
  <2>2. ccount' = ccount
    BY <2>1 DEF Deliver, Match
  <2>3. SendersOK'
    BY <2>1, DeliverKeepsSenders DEF MessagesInv
  <2> QED
    BY <2>2, <2>3 DEF MessagesInv, CountsOK
<1>5. CASE ConverterNext \/ UNCHANGED vars
  <2>1. UNCHANGED mpiVars
    BY <1>5 DEF ConverterNext, DecodeNext, CloseTrace, vars, tracerVars
  <2> QED
    BY <2>1, SendersKept DEF mpiVars, MessagesInv, CountsOK, SourcesForgotten
<1> QED
  BY <1>1, <1>2, <1>3, <1>4, <1>5 DEF Next, TracerStep, TracerNext

-----------------------------------------------------------------------------
\* What a wrapper records on the way in: the beginning of its call, then its links ...
Begins(r, op, events) ==
  /\ events \in Seq(RecordedEvents) /\ events # <<>>
  /\ events[1].type = "IN" /\ events[1].op = op
  /\ \A k \in 2..Len(events) : events[k].type \in LinkEvents
  /\ \A k \in DOMAIN events : events[k].id1 = r

\* ... and on the way out: its links, then the end of its call.
Finishes(r, op, events) ==
  /\ events \in Seq(RecordedEvents) /\ events # <<>>
  /\ events[Len(events)].type = "OUT" /\ events[Len(events)].op = op
  /\ \A k \in 1..(Len(events) - 1) : events[k].type \in LinkEvents
  /\ \A k \in DOMAIN events : events[k].id1 = r

LinkOf(r) == {e \in RecordedEvents : e.type \in LinkEvents /\ e.id1 = r}
CallOps == {c.op : c \in AllCalls} \cup {"MPI_Finalize"}

LEMMA NoMsgIsMessage == NoMsg \in Messages
  BY DEF Messages

LEMMA BeginsWithIn ==
  ASSUME NEW r \in Ranks, NEW op \in CallOps, NEW mark \in Int
  PROVE  /\ Begins(r, op, <<In(r, op, mark)>>)
         /\ \A e \in LinkOf(r) : Begins(r, op, <<In(r, op, mark), e>>)
<1> DEFINE a == In(r, op, mark)
<1>1. a \in RecordedEvents
  BY EventIsRecorded, NoMsgIsMessage, RanksAreIds
  DEF In, CallOps, ScatterSends, GatherRecvs
<1>2. a.type = "IN" /\ a.op = op /\ a.id1 = r
  BY DEF In, Event
<1> HIDE DEF a
<1>3. Begins(r, op, <<a>>)
  BY <1>1, <1>2 DEF Begins
<1>4. ASSUME NEW e \in LinkOf(r) PROVE Begins(r, op, <<a, e>>)
  BY <1>1, <1>2 DEF Begins, LinkOf
<1> QED
  BY <1>3, <1>4 DEF a

LEMMA OutIsRecorded ==
  ASSUME NEW r \in Ranks, NEW op \in CallOps
  PROVE  /\ Out(r, op) \in RecordedEvents
         /\ Out(r, op).type = "OUT" /\ Out(r, op).op = op /\ Out(r, op).id1 = r
<1>1. NoMark \in Int
  BY DEF NoMark
<1>2. Out(r, op) \in RecordedEvents
  BY <1>1, EventIsRecorded, NoMsgIsMessage, RanksAreIds
  DEF Out, CallOps, ScatterSends, GatherRecvs
<1> QED
  BY <1>2 DEF Out, Event

LEMMA FinishesWithOut ==
  ASSUME NEW r \in Ranks, NEW op \in CallOps, NEW evs \in Seq(LinkOf(r))
  PROVE  Finishes(r, op, evs \o <<Out(r, op)>>)
<1> DEFINE a == Out(r, op)
<1>1. a \in RecordedEvents /\ a.type = "OUT" /\ a.op = op /\ a.id1 = r
  BY OutIsRecorded
<1> HIDE DEF a
<1>2. evs \in Seq(RecordedEvents) /\ <<a>> \in Seq(RecordedEvents) /\ Len(<<a>>) = 1
      /\ Len(evs) \in Nat /\ DOMAIN evs = 1..Len(evs)
  BY <1>1 DEF LinkOf
<1>3. /\ evs \o <<a>> \in Seq(RecordedEvents)
      /\ Concatenates(evs \o <<a>>, evs, <<a>>)
  BY <1>2, ConcatShape
<1>4. /\ Len(evs \o <<a>>) = Len(evs) + 1 /\ DOMAIN (evs \o <<a>>) = 1..(Len(evs) + 1)
      /\ \A k \in 1..Len(evs) : (evs \o <<a>>)[k] = evs[k]
      /\ (evs \o <<a>>)[Len(evs) + 1] = a
  BY <1>2, <1>3 DEF Concatenates
<1>5. \A k \in 1..Len(evs) : evs[k] \in LinkOf(r)
  BY <1>2
<1> QED
  BY <1>1, <1>2, <1>3, <1>4, <1>5 DEF Finishes, LinkOf, a

LEMMA FinishesPlainly ==
  ASSUME NEW r \in Ranks, NEW op \in CallOps
  PROVE  /\ Finishes(r, op, <<Out(r, op)>>)
         /\ \A e \in LinkOf(r) : Finishes(r, op, <<e, Out(r, op)>>)
<1> DEFINE a == Out(r, op)
<1>1. a \in RecordedEvents /\ a.type = "OUT" /\ a.op = op /\ a.id1 = r
  BY OutIsRecorded
<1> HIDE DEF a
<1>2. Finishes(r, op, <<a>>)
  BY <1>1 DEF Finishes
<1>3. ASSUME NEW e \in LinkOf(r) PROVE Finishes(r, op, <<e, a>>)
  BY <1>1 DEF Finishes, LinkOf
<1> QED
  BY <1>2, <1>3 DEF a

LEMMA EventsOfOps ==
  /\ \A op \in DownOps : SendEventOf(op) \in ScatterSends /\ RecvEventOf(op) \in ScatterRecvs
  /\ \A op \in UpOps : SendEventOf(op) \in GatherSends /\ RecvEventOf(op) \in GatherRecvs
  BY DEF DownOps, UpOps, SendEventOf, RecvEventOf, ScatterSends, ScatterRecvs, GatherSends,
         GatherRecvs

LEMMA SendIsRecorded ==
  ASSUME NEW type \in LinkEvents, NEW r \in Ranks, NEW v,
         \/ type \in ScatterSends \cup GatherRecvs /\ v \in 0..N
         \/ type \notin ScatterSends \cup GatherRecvs /\ v \in Ids,
         NEW c \in AllCalls, NEW mark \in Int,
         NEW about \in Messages \cup Collectives
  PROVE  SendEvent(type, r, v, c.size, mark, about) \in LinkOf(r)
<1> DEFINE e == Event(type, r, "none", v, c.size, mark, about)
<1>1. c.size \in {0} \cup {b.size : b \in AllCalls}
  OBVIOUS
<1>2. e \in RecordedEvents
  BY <1>1, EventIsRecorded
<1>3. e.type = type /\ e.id1 = r
  BY DEF Event
<1> QED
  BY <1>2, <1>3 DEF SendEvent, LinkOf

LEMMA RecvIsRecorded ==
  ASSUME NEW type \in LinkEvents, NEW r \in Ranks, NEW v,
         \/ type \in ScatterSends \cup GatherRecvs /\ v \in 0..N
         \/ type \notin ScatterSends \cup GatherRecvs /\ v \in Ids,
         NEW about \in Messages \cup Collectives
  PROVE  RecvEvent(type, r, v, about) \in LinkOf(r)
<1> DEFINE e == Event(type, r, "none", v, 0, NoMark, about)
<1>1. NoMark \in Int
  BY DEF NoMark
<1>2. e \in RecordedEvents
  BY <1>1, EventIsRecorded
<1>3. e.type = type /\ e.id1 = r
  BY DEF Event
<1> QED
  BY <1>2, <1>3 DEF RecvEvent, LinkOf

LEMMA PtpIsLink ==
  /\ {"AKY_PTP_SEND", "AKY_PTP_RECV"} \subseteq LinkEvents
  /\ "AKY_PTP_SEND" \notin ScatterSends \cup GatherRecvs
  /\ "AKY_PTP_RECV" \notin ScatterSends \cup GatherRecvs
  /\ ScatterRecvs \cap (ScatterSends \cup GatherRecvs) = {}
  /\ GatherSends \cap (ScatterSends \cup GatherRecvs) = {}
  BY DEF LinkEvents, ScatterSends, ScatterRecvs, GatherSends, GatherRecvs

\* The communicator and the operation of every call that a rank begins.
LEMMA CallIsKnown ==
  ASSUME NEW r \in Ranks, NEW c \in Calls[r]
  PROVE  /\ c \in AllCalls /\ c.op \in CallOps /\ c.comm \in DOMAIN Comms
         /\ r \in Members(c.comm) /\ Size(c.comm) \in 0..N
         /\ c.op \in SendOps \cup DownOps \cup UpOps =>
              AKY_translate_rank(c.comm, c.peer) \in Ranks
<1>1. c \in AllCalls
  BY DEF AllCalls
<1>2. c.op \in CallOps /\ c.comm \in DOMAIN Comms /\ r \in Members(c.comm)
  BY <1>1, TracerAssumption DEF CallOps
<1>3. Size(c.comm) \in 0..N
  BY <1>2, SizeIsRank
<1> QED
  BY <1>1, <1>2, <1>3, TracerAssumption

LEMMA EnterRecords ==
  ASSUME RequestsInv, MessagesInv, MessagesInv', NEW r \in Ranks, NEW c \in Calls[r],
         EnterCall(r, c)
  PROVE  \E events : Enter(r, c, events) /\ Begins(r, c.op, events)
<1>1. /\ c \in AllCalls /\ c.op \in CallOps /\ c.comm \in DOMAIN Comms
      /\ r \in Members(c.comm) /\ Size(c.comm) \in 0..N /\ NoMark \in Int
  BY CallIsKnown DEF NoMark
<1>2. CASE Enter(r, c, <<In(r, c.op, NoMark)>>)
  BY <1>1, <1>2, BeginsWithIn
<1>3. CASE EnterSend(r, c)
  <2>1. send_mark[r] \in Nat /\ nsent[r] \in Nat
    BY DEF RequestsInv, RequestsTypeOK
  <2>2. NextMsg(r) \in Messages
    BY <2>1 DEF NextMsg, Messages
  <2>3. AKY_translate_rank(c.comm, c.peer) \in Ids
    BY <1>3, CallIsKnown, RanksAreIds DEF EnterSend
  <2>4. SendEvent("AKY_PTP_SEND", r, AKY_translate_rank(c.comm, c.peer), c.size,
                  send_mark[r], NextMsg(r)) \in LinkOf(r)
    BY <1>1, <2>1, <2>2, <2>3, PtpIsLink, SendIsRecorded
  <2>5. Enter(r, c, <<In(r, c.op, send_mark[r]),
                      SendEvent("AKY_PTP_SEND", r, AKY_translate_rank(c.comm, c.peer), c.size,
                                send_mark[r], NextMsg(r))>>)
    BY <1>3 DEF EnterSend
  <2>6. send_mark[r] \in Int
    BY <2>1
  <2> QED
    BY <1>1, <2>4, <2>5, <2>6, BeginsWithIn
<1>4. CASE EnterWait(r, c)
  <2>1. c.op = "MPI_Wait" /\ \E mark : Enter(r, c, <<In(r, c.op, mark)>>) /\ mark \in Int
    <3> DEFINE isend == aky_check(isend_root[r], c.req)
               mark == IF isend = 0 THEN NoMark ELSE IF isend = -1 THEN 0 ELSE isend
    <3>1. isend_root[r] \in Trees
      BY DEF RequestsInv, RequestsTypeOK
    <3>2. PICK S \in SUBSET Reqs : isend_root[r] \in [S -> Nat]
      BY <3>1 DEF Trees
    <3>3. isend \in Int
      BY <3>2 DEF aky_check
    <3>4. c.op = "MPI_Wait" /\ Enter(r, c, <<In(r, c.op, mark)>>)
      BY <1>4 DEF EnterWait
    <3> HIDE DEF isend
    <3> QED
      BY <1>1, <3>3, <3>4
  <2> QED
    BY <1>1, <2>1, BeginsWithIn
<1>5. ThisCollective(r, c.comm)' \in Collectives
  <2>1. ccount' \in [Ranks -> [DOMAIN Comms -> Nat]]
    BY DEF MessagesInv, CountsOK
  <2>2. ccount'[r][c.comm] \in Nat
    BY <1>1, <2>1
  <2>3. ThisCollective(r, c.comm)' = <<c.comm, 0, ccount'[r][c.comm]>>
    BY DEF ThisCollective
  <2> QED
    BY <1>1, <2>2, <2>3 DEF Collectives
<1>6. CASE EnterDown(r, c)
  <2>1. SendEventOf(c.op) \in LinkEvents /\ SendEventOf(c.op) \in ScatterSends \cup GatherRecvs
    BY <1>6, EventsOfOps DEF EnterDown, LinkEvents
  <2>2. SendEvent(SendEventOf(c.op), r, Size(c.comm), c.size, Size(c.comm),
                  ThisCollective(r, c.comm)') \in LinkOf(r)
    <3>1. Size(c.comm) \in Int
      BY <1>1
    <3> QED
      BY <1>1, <1>5, <2>1, <3>1, SendIsRecorded
  <2>3. \/ Enter(r, c, <<In(r, c.op, NoMark)>>)
        \/ Enter(r, c, <<In(r, c.op, Size(c.comm)),
                         SendEvent(SendEventOf(c.op), r, Size(c.comm), c.size, Size(c.comm),
                                   ThisCollective(r, c.comm)')>>)
    BY <1>6 DEF EnterDown
  <2> QED
    <3>1. Size(c.comm) \in Int
      BY <1>1
    <3> QED
      BY <1>1, <1>2, <2>2, <2>3, <3>1, BeginsWithIn
<1>7. CASE EnterUp(r, c)
  <2>1. /\ SendEventOf(c.op) \in LinkEvents
        /\ SendEventOf(c.op) \notin ScatterSends \cup GatherRecvs
        /\ AKY_translate_rank(c.comm, c.peer) \in Ids
    <3>1. SendEventOf(c.op) \in GatherSends /\ c.op \in UpOps
      BY <1>7, EventsOfOps DEF EnterUp
    <3>2. AKY_translate_rank(c.comm, c.peer) \in Ids
      BY <3>1, CallIsKnown, RanksAreIds
    <3> QED
      BY <3>1, <3>2, PtpIsLink DEF LinkEvents
  <2>2. SendEvent(SendEventOf(c.op), r, AKY_translate_rank(c.comm, c.peer), c.size,
                  Size(c.comm), ThisCollective(r, c.comm)') \in LinkOf(r)
    <3>1. Size(c.comm) \in Int
      BY <1>1
    <3> QED
      BY <1>1, <1>5, <2>1, <3>1, SendIsRecorded
  <2>3. \/ Enter(r, c, <<In(r, c.op, NoMark)>>)
        \/ Enter(r, c, <<In(r, c.op, Size(c.comm)),
                         SendEvent(SendEventOf(c.op), r, AKY_translate_rank(c.comm, c.peer),
                                   c.size, Size(c.comm), ThisCollective(r, c.comm)')>>)
    BY <1>7 DEF EnterUp
  <2>4. Size(c.comm) \in Int
    BY <1>1
  <2> QED
    BY <1>1, <1>2, <2>2, <2>3, <2>4, BeginsWithIn
<1> QED
  BY <1>2, <1>3, <1>4, <1>6, <1>7
  DEF EnterCall, EnterRecv, EnterIrecv, EnterSendrecv, EnterWaitArray, EnterTest, EnterPlain

\* The operations of the calls that the wrappers make for the application.
RealOps == QuietOps \cup MovingOps

LEMMA NoOpIsNone == NoOp \notin RealOps
<1>1. /\ NoOp \notin PlainCollectives /\ NoOp \notin PlainReductions
      /\ NoOp \notin PlainComms /\ NoOp \notin PlainGroups
  BY DEF NoOp, PlainCollectives, PlainReductions, PlainComms, PlainGroups
<1>2. /\ NoOp \notin PlainEnvironment /\ NoOp \notin PlainQueries
      /\ NoOp \notin PlainBuffers /\ NoOp \notin PlainPacks
  BY DEF NoOp, PlainEnvironment, PlainQueries, PlainBuffers, PlainPacks
<1>3. /\ NoOp \notin PlainStarts /\ NoOp \notin PlainOthers
      /\ NoOp \notin PlainTypes /\ NoOp \notin PlainTopology /\ NoOp \notin PlainGraphs
  BY DEF NoOp, PlainStarts, PlainOthers, PlainTypes, PlainTopology, PlainGraphs
<1>4. NoOp \notin PlainOps
  BY <1>1, <1>2, <1>3 DEF PlainOps
<1>5. NoOp \notin MovingOps
  BY DEF NoOp, MovingOps, SendOps, SendrecvOps, BlockingSends, ForgottenSends
<1>6. NoOp \notin {"MPI_Waitall", "MPI_Waitany", "MPI_Wait", "MPI_Finalize"}
        \cup TestOps \cup DownOps \cup UpOps
  BY DEF NoOp, TestOps, DownOps, UpOps
<1> QED
  BY <1>4, <1>5, <1>6 DEF RealOps, QuietOps

LEMMA EnterIsReal ==
  ASSUME NEW r, NEW c, EnterCall(r, c)
  PROVE  c.op \in RealOps
<1>1. CASE EnterSend(r, c) \/ EnterRecv(r, c) \/ EnterIrecv(r, c) \/ EnterSendrecv(r, c)
  BY <1>1 DEF EnterSend, EnterRecv, EnterIrecv, EnterSendrecv, RealOps, MovingOps
<1>2. CASE EnterWait(r, c) \/ EnterWaitArray(r, c) \/ EnterTest(r, c)
  BY <1>2 DEF EnterWait, EnterWaitArray, EnterTest, RealOps, QuietOps
<1>3. CASE EnterDown(r, c) \/ EnterUp(r, c) \/ EnterPlain(r, c)
  BY <1>3 DEF EnterDown, EnterUp, EnterPlain, RealOps, QuietOps
<1> QED
  BY <1>1, <1>2, <1>3 DEF EnterCall

LEMMA LeaveIsReal ==
  ASSUME NEW r, LeaveCall(r)
  PROVE  call[r].op # "MPI_Finalize"
<1>1. CASE LeaveSend(r) \/ LeaveRecv(r) \/ LeaveIrecv(r) \/ LeaveSendrecv(r)
  <2>1. call[r].op \in MovingOps
    BY <1>1 DEF LeaveSend, LeaveRecv, LeaveIrecv, LeaveSendrecv, MovingOps
  <2> QED
    BY <2>1, OpsApart DEF QuietOps
<1>2. CASE LeaveWait(r) \/ LeaveWaitall(r) \/ LeaveWaitany(r)
  BY <1>2 DEF LeaveWait, LeaveWaitall, LeaveWaitany
<1>3. CASE LeaveTest(r)
  BY <1>3 DEF LeaveTest, TestOps
<1>4. CASE LeaveDown(r) \/ LeaveUp(r) \/ LeavePlain(r)
  BY <1>4, QuietLeaveShape DEF QuietLeave
<1> QED
  BY <1>1, <1>2, <1>3, <1>4 DEF LeaveCall

\* The receives that a wait records, in the order of their addresses.
LEMMA EndedAreLinks ==
  ASSUME RequestsInv, MessagesInv, NEW r \in Ranks, NEW done,
         NEW s \in Statuses(r), NEW order \in TrackedOrders(r, done)
  PROVE  EndedReceives(r, order, s) \in Seq(LinkOf(r))
<1> DEFINE tracked == {a \in done : aky_check(irecv_root[r], a) # 0}
<1>1. irecv_root[r] \in Trees /\ request[r] \in [Slots -> Request]
  BY DEF RequestsInv, RequestsTypeOK
<1>2. tracked \subseteq Reqs
  <2>1. PICK S \in SUBSET Reqs : irecv_root[r] \in [S -> Nat]
    BY <1>1 DEF Trees
  <2> QED
    BY <2>1 DEF aky_check
<1>3. IsFiniteSet(tracked) /\ Cardinality(tracked) \in Nat
  BY <1>2, MpiAssumption, FS_Subset, FS_CardinalityType
<1>4. order \in [1..Cardinality(tracked) -> tracked]
  BY DEF TrackedOrders
<1> HIDE DEF tracked
<1>5. ASSUME NEW i \in 1..Cardinality(tracked)
      PROVE  RecvEvent("AKY_PTP_RECV", r, s[order[i]], request[r][order[i]].msg) \in LinkOf(r)
  <2>1. order[i] \in Reqs /\ order[i] \in Slots
    BY <1>2, <1>4, <1>5 DEF Slots
  <2>2. request[r][order[i]].msg \in Messages
    <3>1. request[r][order[i]] \in Request
      BY <1>1, <2>1
    <3> QED
      BY <3>1 DEF Request
  <2>3. s[order[i]] \in Ids
    BY <2>1, RanksAreIds DEF Statuses
  <2> QED
    BY <2>2, <2>3, PtpIsLink, RecvIsRecorded
<1>6. EndedReceives(r, order, s) \in [1..Cardinality(tracked) -> LinkOf(r)]
  BY <1>4, <1>5 DEF EndedReceives
<1> QED
  BY <1>3, <1>6

LEMMA LeaveRecords ==
  ASSUME RequestsInv, MessagesInv, NEW r \in Ranks, LeaveCall(r)
  PROVE  \E events : Leave(r, events) /\ Finishes(r, call[r].op, events)
<1> DEFINE c == call[r]
<1>1. pc[r] = "call" /\ c \in Calls[r]
  <2>1. \E events : Leave(r, events)
    BY DEF LeaveCall, LeaveSend, LeaveRecv, LeaveIrecv, LeaveSendrecv, LeaveWait, LeaveWaitall,
           LeaveWaitany, FinishRequests, LeaveTest, LeaveDown, LeaveUp, LeavePlain
  <2>2. pc[r] = "call"
    BY <2>1 DEF Leave
  <2> QED
    BY <2>2, LeaveIsReal DEF RequestsInv, CallsAreOwn, Finalize
<1>2. /\ c \in AllCalls /\ c.op \in CallOps /\ c.comm \in DOMAIN Comms
      /\ Size(c.comm) \in 0..N
      /\ c.op \in SendOps \cup DownOps \cup UpOps =>
           AKY_translate_rank(c.comm, c.peer) \in Ranks
  BY <1>1, CallIsKnown
<1> HIDE DEF c
<1>3. CASE Leave(r, <<Out(r, c.op)>>)
  BY <1>2, <1>3, FinishesPlainly DEF c
<1>4. CASE LeaveRecv(r)
  <2> DEFINE q == request[r][Blocking]
             e == RecvEvent("AKY_PTP_RECV", r, AKY_translate_rank(c.comm, q.src), q.msg)
  <2>1. q \in Request /\ q.src \in Ranks \cup {AnySource}
    BY BlockingApart DEF RequestsInv, RequestsTypeOK, MessagesInv, SendersOK
  <2>2. q.msg \in Messages
    BY <2>1 DEF Request
  <2>3. AKY_translate_rank(c.comm, q.src) \in Ids
    BY <1>2, <2>1, TranslatedIsId, RanksAreIds
  <2>4. e \in LinkOf(r)
    BY <2>2, <2>3, PtpIsLink, RecvIsRecorded
  <2>5. c.op = "MPI_Recv" /\ Leave(r, <<e, Out(r, c.op)>>)
    BY <1>4 DEF LeaveRecv, c
  <2> HIDE DEF e
  <2> QED
    BY <1>2, <2>4, <2>5, FinishesPlainly DEF c
<1>5. CASE LeaveWait(r) \/ LeaveWaitall(r) \/ LeaveWaitany(r)
  <2>1. PICK done : FinishRequests(r, done)
    BY <1>5 DEF LeaveWait, LeaveWaitall, LeaveWaitany
  <2>2. PICK s \in Statuses(r), order \in TrackedOrders(r, done) :
          Leave(r, EndedReceives(r, order, s) \o <<Out(r, call[r].op)>>)
    BY <2>1 DEF FinishRequests
  <2>3. EndedReceives(r, order, s) \in Seq(LinkOf(r))
    BY EndedAreLinks
  <2>4. Finishes(r, c.op, EndedReceives(r, order, s) \o <<Out(r, c.op)>>)
    BY <1>2, <2>3, FinishesWithOut
  <2> QED
    BY <2>2, <2>4 DEF c
<1>6. ThisCollective(r, c.comm) \in Collectives
  <2>1. ccount[r][c.comm] \in Nat
    BY <1>2 DEF MessagesInv, CountsOK
  <2> QED
    BY <1>2, <2>1 DEF ThisCollective, Collectives
<1>7. CASE LeaveDown(r)
  <2> DEFINE root0 == AKY_translate_rank(c.comm, c.peer)
             e == RecvEvent(RecvEventOf(c.op), r, root0, ThisCollective(r, c.comm))
  <2>1. c.op \in DownOps
    BY <1>7 DEF LeaveDown, c
  <2>2. /\ RecvEventOf(c.op) \in LinkEvents
        /\ RecvEventOf(c.op) \notin ScatterSends \cup GatherRecvs
    BY <2>1, EventsOfOps, PtpIsLink DEF LinkEvents
  <2>3. root0 \in Ids
    BY <1>2, <2>1, RanksAreIds
  <2>4. e \in LinkOf(r)
    BY <1>6, <2>2, <2>3, RecvIsRecorded
  <2>5. Leave(r, <<Out(r, c.op)>>) \/ Leave(r, <<e, Out(r, c.op)>>)
    BY <1>7 DEF LeaveDown, c
  <2> HIDE DEF e
  <2> QED
    BY <1>2, <1>3, <2>4, <2>5, FinishesPlainly DEF c
<1>8. CASE LeaveUp(r)
  <2> DEFINE e == RecvEvent(RecvEventOf(c.op), r, Size(c.comm), ThisCollective(r, c.comm))
  <2>1. c.op \in UpOps
    BY <1>8 DEF LeaveUp, c
  <2>2. /\ RecvEventOf(c.op) \in LinkEvents
        /\ RecvEventOf(c.op) \in ScatterSends \cup GatherRecvs
    BY <2>1, EventsOfOps DEF LinkEvents
  <2>3. e \in LinkOf(r)
    BY <1>2, <1>6, <2>2, RecvIsRecorded
  <2>4. Leave(r, <<Out(r, c.op)>>) \/ Leave(r, <<e, Out(r, c.op)>>)
    BY <1>8 DEF LeaveUp, c
  <2> HIDE DEF e
  <2> QED
    BY <1>2, <1>3, <2>3, <2>4, FinishesPlainly DEF c
<1>9. CASE LeaveSend(r) \/ LeaveIrecv(r) \/ LeaveSendrecv(r) \/ LeaveTest(r) \/ LeavePlain(r)
  <2>1. Leave(r, <<Out(r, c.op)>>)
    BY <1>9 DEF LeaveSend, LeaveIrecv, LeaveSendrecv, LeaveTest, LeavePlain, c
  <2> QED
    BY <1>3, <2>1
<1> QED
  BY <1>4, <1>5, <1>7, <1>8, <1>9 DEF LeaveCall

-----------------------------------------------------------------------------
(***************************************************************************)
(* The files.  The call that a rank is in at the end of its file is that   *)
(* of its program; reading the file backwards gives the call that it is in *)
(* at each event, and before the first event that is not converted yet.    *)
(***************************************************************************)
Current == [p \in Ranks |-> IF pc[p] = "call" THEN call[p].op ELSE NoOp]
InsideAll(t, now) == [p \in Ranks |-> InsideFrom(t, now[p], p, 1)]
InsideNow == InsideAll(trace, Current)

\* A call begins outside of any, link events are inside of one, and each call ends itself.
FitsBefore(e, after) ==
  /\ e.type = "IN" => after = e.op /\ e.op # NoOp
  /\ e.type = "OUT" => after = NoOp /\ e.op # NoOp
  /\ e.type = "MPI_INIT" => after = NoOp
  /\ e.type \in LinkEvents => after # NoOp

InsideAfter(t, now, i) == InsideFrom(t, now[t[i].id1], t[i].id1, i + 1)
FilesFit(t, now) == \A i \in DOMAIN t : FitsBefore(t[i], InsideAfter(t, now, i))
FilesOK == FilesFit(trace, Current)

TraceTypeOK == trace \in Seq(RecordedEvents)

\* The calls of the application have a name, so that a rank without a call is known.
CallsNamed == \A p \in Ranks : pc[p] = "call" => call[p].op # NoOp

LEMMA InsideTail ==
  ASSUME NEW S, NEW t \in Seq(S), NEW v \in Seq(S), NEW u \in Seq(S), Concatenates(u, t, v),
         NEW now, NEW p, NEW k \in Nat \ {0}
  PROVE  InsideFrom(u, now, p, Len(t) + k) = InsideFrom(v, now, p, k)
<1> DEFINE n == Len(t)
<1>1. /\ n \in Nat /\ Len(v) \in Nat /\ DOMAIN v = 1..Len(v) /\ DOMAIN u = 1..(n + Len(v))
      /\ \A j \in 1..Len(v) : u[n + j] = v[j]
  BY DEF Concatenates
<1> HIDE DEF n
<1>2. \A j \in DOMAIN v : j \in Bounds(v, p, k) => n + j \in Bounds(u, p, n + k)
  BY <1>1 DEF Bounds
<1>3. ASSUME NEW m \in Bounds(u, p, n + k)
      PROVE  m - n \in Bounds(v, p, k) /\ m = n + (m - n)
  <2>1. m \in 1..(n + Len(v)) /\ n + k <= m
    BY <1>1 DEF Bounds
  <2>2. m - n \in 1..Len(v) /\ k <= m - n /\ m = n + (m - n)
    BY <1>1, <2>1
  <2>3. u[m] = v[m - n]
    BY <1>1, <2>2
  <2> QED
    BY <1>1, <2>2, <2>3 DEF Bounds
<1>4. CASE Bounds(v, p, k) = {}
  BY <1>3, <1>4, InsideAtEnd DEF n
<1>5. CASE Bounds(v, p, k) # {}
  <2>1. PICK m : FirstBound(v, p, k, m)
    BY <1>5, FirstBoundExists
  <2>2. m \in DOMAIN v /\ m \in Bounds(v, p, k)
    BY <2>1 DEF FirstBound, Bounds
  <2>3. \A j \in Bounds(u, p, n + k) : n + m <= j
    <3> SUFFICES ASSUME NEW j \in Bounds(u, p, n + k) PROVE n + m <= j
      OBVIOUS
    <3>1. m <= j - n /\ j \in Nat
      BY <1>1, <1>3, <2>1 DEF FirstBound, Bounds
    <3> QED
      BY <1>1, <2>2, <3>1
  <2>4. FirstBound(u, p, n + k, n + m)
    BY <1>2, <2>2, <2>3 DEF FirstBound
  <2>5. u[n + m] = v[m]
    BY <1>1, <2>2
  <2> QED
    BY <2>1, <2>4, <2>5, InsideAtFirst DEF n
<1> QED
  BY <1>4, <1>5

\* A rank records more events, from the call that it is in to the next one.
Continues(r, events, now, later) ==
  /\ events \in Seq(RecordedEvents)
  /\ \A k \in DOMAIN events :
       events[k].id1 = r /\ FitsBefore(events[k], InsideFrom(events, later[r], r, k + 1))
  /\ InsideFrom(events, later[r], r, 1) = now[r]
  /\ \A q \in Ranks \ {r} : later[q] = now[q]

LEMMA BeginsContinues ==
  ASSUME NEW r \in Ranks, NEW op, NEW events, Begins(r, op, events), op # NoOp,
         NEW now, NEW later, now[r] = NoOp, later[r] = op,
         \A q \in Ranks \ {r} : later[q] = now[q]
  PROVE  Continues(r, events, now, later)
<1>1. /\ events \in Seq(RecordedEvents) /\ Len(events) \in Nat \ {0}
      /\ DOMAIN events = 1..Len(events) /\ 1 \in DOMAIN events
      /\ events[1].type = "IN" /\ events[1].op = op
      /\ \A k \in 2..Len(events) : events[k].type \in LinkEvents
      /\ \A k \in DOMAIN events : events[k].id1 = r
  BY DEF Begins
<1>2. LinkEvents \cap {"IN", "OUT", "MPI_INIT"} = {}
  BY DEF LinkEvents, ScatterSends, ScatterRecvs, GatherSends, GatherRecvs
<1>3. ASSUME NEW k \in DOMAIN events
      PROVE  InsideFrom(events, op, r, k + 1) = op
  <2>1. Bounds(events, r, k + 1) = {}
    BY <1>1, <1>2 DEF Bounds
  <2> QED
    BY <2>1, InsideAtEnd
<1>4. InsideFrom(events, op, r, 1) = NoOp
  <2>1. InsideFrom(events, op, events[1].id1, 1) = Before(events[1])
    BY <1>1, InsideAtBound
  <2> QED
    BY <1>1, <2>1 DEF Before
<1>5. \A k \in DOMAIN events : FitsBefore(events[k], op)
  BY <1>1, <1>2 DEF FitsBefore
<1> QED
  BY <1>1, <1>3, <1>4, <1>5 DEF Continues

LEMMA FinishesContinues ==
  ASSUME NEW r \in Ranks, NEW op, NEW events, Finishes(r, op, events), op # NoOp,
         NEW now, NEW later, now[r] = op, later[r] = NoOp,
         \A q \in Ranks \ {r} : later[q] = now[q]
  PROVE  Continues(r, events, now, later)
<1> DEFINE n == Len(events)
<1>1. /\ events \in Seq(RecordedEvents) /\ n \in Nat \ {0}
      /\ DOMAIN events = 1..n /\ n \in DOMAIN events
      /\ events[n].type = "OUT" /\ events[n].op = op
      /\ \A k \in 1..(n - 1) : events[k].type \in LinkEvents
      /\ \A k \in DOMAIN events : events[k].id1 = r
  BY DEF Finishes
<1> HIDE DEF n
<1>2. LinkEvents \cap {"IN", "OUT", "MPI_INIT"} = {}
  BY DEF LinkEvents, ScatterSends, ScatterRecvs, GatherSends, GatherRecvs
<1>3. ASSUME NEW k \in 1..n
      PROVE  InsideFrom(events, NoOp, r, k) = op
  <2>1. FirstBound(events, r, k, n)
    BY <1>1, <1>2 DEF FirstBound, Bounds
  <2>2. InsideFrom(events, NoOp, r, k) = Before(events[n])
    BY <1>1, <2>1, InsideAtFirst
  <2> QED
    BY <1>1, <2>2 DEF Before
<1>4. InsideFrom(events, NoOp, r, n + 1) = NoOp
  <2>1. Bounds(events, r, n + 1) = {}
    BY <1>1 DEF Bounds
  <2> QED
    BY <2>1, InsideAtEnd
<1>5. ASSUME NEW k \in DOMAIN events
      PROVE  FitsBefore(events[k], InsideFrom(events, NoOp, r, k + 1))
  <2>1. CASE k = n
    BY <1>1, <1>2, <1>4, <2>1 DEF FitsBefore
  <2>2. CASE k # n
    <3>1. k \in 1..(n - 1) /\ k + 1 \in 1..n
      BY <1>1, <2>2
    <3> QED
      BY <1>1, <1>2, <1>3, <3>1 DEF FitsBefore
  <2> QED
    BY <2>1, <2>2
<1>6. InsideFrom(events, NoOp, r, 1) = op
  BY <1>1, <1>3
<1> QED
  BY <1>1, <1>5, <1>6 DEF Continues

\* MPI_Init records one event, and no call.
LEMMA InitContinues ==
  ASSUME NEW r \in Ranks, NEW e \in RecordedEvents, e.id1 = r, e.type = "MPI_INIT",
         NEW now, now[r] = NoOp
  PROVE  Continues(r, <<e>>, now, now)
<1>1. "MPI_INIT" \notin LinkEvents
  BY DEF LinkEvents, ScatterSends, ScatterRecvs, GatherSends, GatherRecvs
<1>2. \A k \in Nat : Bounds(<<e>>, r, k) = {}
  BY DEF Bounds
<1>3. InsideFrom(<<e>>, now[r], r, 1) = NoOp /\ InsideFrom(<<e>>, now[r], r, 1 + 1) = NoOp
  BY <1>2, InsideAtEnd
<1>4. FitsBefore(e, NoOp)
  BY <1>1 DEF FitsBefore
<1>5. DOMAIN <<e>> = {1} /\ <<e>>[1] = e /\ <<e>> \in Seq(RecordedEvents)
  OBVIOUS
<1> QED
  BY <1>3, <1>4, <1>5 DEF Continues

\* What is recorded later changes nothing of what is waiting to be converted.
LEMMA ContinuesKeepsFiles ==
  ASSUME NEW t \in Seq(RecordedEvents), NEW now, FilesFit(t, now), NEW r \in Ranks,
         NEW events, NEW later, Continues(r, events, now, later)
  PROVE  /\ t \o events \in Seq(RecordedEvents)
         /\ FilesFit(t \o events, later)
         /\ InsideAll(t \o events, later) = InsideAll(t, now)
<1> DEFINE u == t \o events
           n == Len(t)
<1>1. /\ events \in Seq(RecordedEvents) /\ u \in Seq(RecordedEvents)
      /\ Concatenates(u, t, events)
  BY ConcatShape DEF Continues
<1> HIDE DEF u
<1>2. /\ n \in Nat /\ Len(events) \in Nat /\ DOMAIN events = 1..Len(events)
      /\ DOMAIN t = 1..n /\ Len(u) = n + Len(events) /\ DOMAIN u = 1..(n + Len(events))
  BY <1>1 DEF Concatenates
<1>3. /\ \A j \in DOMAIN t : u[j] = t[j]
      /\ \A j \in DOMAIN events : u[n + j] = events[j]
  BY <1>1, <1>2 DEF Concatenates
<1>4. n <= Len(u)
  BY <1>2
<1>5. ASSUME NEW p \in Ranks
      PROVE  InsideFrom(u, later[p], p, n + 1) = now[p]
  <2>1. CASE p = r
    <3>1. InsideFrom(u, later[r], r, n + 1) = InsideFrom(events, later[r], r, 1)
      BY <1>1, InsideTail
    <3> QED
      BY <2>1, <3>1 DEF Continues
  <2>2. CASE p # r
    <3>1. \A j \in DOMAIN events : events[j].id1 = r
      BY DEF Continues
    <3>2. Bounds(u, p, n + 1) = {}
      <4> SUFFICES ASSUME NEW j \in Bounds(u, p, n + 1) PROVE FALSE
        OBVIOUS
      <4>1. j \in 1..(n + Len(events)) /\ n + 1 <= j /\ u[j].id1 = p
        BY <1>2 DEF Bounds
      <4> HIDE DEF n
      <4>2. j - n \in DOMAIN events /\ n + (j - n) = j
        BY <1>2, <4>1
      <4>3. u[n + (j - n)] = events[j - n]
        BY <1>3, <4>2
      <4> QED
        BY <2>2, <3>1, <4>1, <4>2, <4>3
    <3>3. later[p] = now[p]
      BY <2>2 DEF Continues
    <3> QED
      BY <3>2, <3>3, InsideAtEnd
  <2> QED
    BY <2>1, <2>2
<1>6. ASSUME NEW p \in Ranks, NEW i \in 1..(n + 1)
      PROVE  InsideFrom(u, later[p], p, i) = InsideFrom(t, now[p], p, i)
  BY <1>1, <1>3, <1>4, <1>5, <1>6, InsideExtended
<1>7. InsideAll(u, later) = InsideAll(t, now)
  <2>1. 1 \in 1..(n + 1)
    BY <1>2
  <2> QED
    BY <1>6, <2>1 DEF InsideAll
<1>8. ASSUME NEW i \in DOMAIN u
      PROVE  FitsBefore(u[i], InsideAfter(u, later, i))
  <2>1. CASE i \in DOMAIN t
    <3>1. t[i].id1 \in Ranks
      <4>1. t[i] \in RecordedEvents
        BY <2>1
      <4> QED
        BY <4>1 DEF RecordedEvents
    <3>2. i + 1 \in 1..(n + 1)
      BY <1>2, <2>1
    <3>3. InsideAfter(u, later, i) = InsideAfter(t, now, i)
      BY <1>3, <1>6, <2>1, <3>1, <3>2 DEF InsideAfter
    <3> QED
      BY <1>3, <2>1, <3>3 DEF FilesFit
  <2>2. CASE i \notin DOMAIN t
    <3> HIDE DEF n
    <3>1. i - n \in DOMAIN events /\ (i - n) + 1 \in Nat \ {0}
          /\ n + (i - n) = i /\ n + ((i - n) + 1) = i + 1
      BY <1>2, <2>2
    <3>2. u[i] = events[i - n] /\ events[i - n].id1 = r
      <4>1. u[n + (i - n)] = events[i - n]
        BY <1>3, <3>1
      <4> QED
        BY <3>1, <4>1 DEF Continues
    <3>3. InsideFrom(u, later[r], r, n + ((i - n) + 1)) = InsideFrom(events, later[r], r, (i - n) + 1)
      BY <1>1, <3>1, InsideTail DEF n
    <3> QED
      BY <3>1, <3>2, <3>3 DEF Continues, InsideAfter
  <2> QED
    BY <2>1, <2>2
<1> QED
  BY <1>1, <1>7, <1>8 DEF FilesFit, u

-----------------------------------------------------------------------------
\* The first event of a rank that waits is the one that may be converted next: the rank is
\* before it, and then behind it.
FirstOfRank(t, i) == i \in DOMAIN t /\ \A j \in 1..(i - 1) : t[j].id1 # t[i].id1

LEMMA FirstOfFile ==
  ASSUME NEW t \in Seq(RecordedEvents), NEW now, FilesFit(t, now), NEW i, FirstOfRank(t, i)
  PROVE  /\ t[i].id1 \in Ranks /\ FitsBefore(t[i], InsideAfter(t, now, i))
         /\ t[i].type \in {"IN", "OUT"} => InsideAll(t, now)[t[i].id1] = Before(t[i])
         /\ t[i].type \notin {"IN", "OUT"} =>
              InsideAll(t, now)[t[i].id1] = InsideAfter(t, now, i)
<1> DEFINE e == t[i]
           p == e.id1
           at == now[p]
<1>1. i \in DOMAIN t /\ e \in RecordedEvents /\ i \in Nat \ {0}
  BY DEF FirstOfRank
<1>2. p \in Ranks
  BY <1>1 DEF RecordedEvents
<1>3. InsideAll(t, now)[p] = InsideFrom(t, at, p, 1)
  BY <1>2 DEF InsideAll
<1>4. FitsBefore(e, InsideAfter(t, now, i)) /\ InsideAfter(t, now, i) = InsideFrom(t, at, p, i + 1)
  BY <1>1 DEF FilesFit, InsideAfter
<1>5. InsideFrom(t, at, p, 1) = InsideFrom(t, at, p, i)
  <2>1. 1 \in Nat /\ 1 <= i /\ i \in Nat
    BY <1>1
  <2>2. \A j \in 1..(i - 1) : j \in DOMAIN t => t[j].id1 # p \/ t[j].type \notin {"IN", "OUT"}
    BY DEF FirstOfRank
  <2> HIDE DEF at, p, e
  <2> QED
    BY <2>1, <2>2, InsideSkips
<1>6. CASE e.type \in {"IN", "OUT"}
  <2>1. InsideFrom(t, at, p, i) = Before(e)
    BY <1>1, <1>6, InsideAtBound
  <2> QED
    BY <1>2, <1>3, <1>4, <1>5, <1>6, <2>1
<1>7. CASE e.type \notin {"IN", "OUT"}
  <2>1. i <= i + 1 /\ i + 1 \in Nat /\ i \in Nat
    BY <1>1
  <2>2. \A j \in i..((i + 1) - 1) : j \in DOMAIN t => t[j].id1 # p \/ t[j].type \notin {"IN", "OUT"}
    BY <1>1, <1>7
  <2>3. InsideFrom(t, at, p, i) = InsideFrom(t, at, p, i + 1)
    <3> HIDE DEF at, p, e
    <3> QED
      BY <1>1, <2>1, <2>2, InsideSkips
  <2> QED
    BY <1>2, <1>3, <1>4, <1>5, <1>7, <2>3
<1> QED
  BY <1>6, <1>7

LEMMA ConvertedKeepsFiles ==
  ASSUME NEW t \in Seq(RecordedEvents), NEW now, FilesFit(t, now), NEW i, FirstOfRank(t, i)
  PROVE  /\ Without(t, i) \in Seq(RecordedEvents)
         /\ FilesFit(Without(t, i), now)
         /\ \A q \in Ranks \ {t[i].id1} :
              InsideAll(Without(t, i), now)[q] = InsideAll(t, now)[q]
         /\ InsideAll(Without(t, i), now)[t[i].id1] = InsideAfter(t, now, i)
<1> DEFINE u == Without(t, i)
           e == t[i]
           p == e.id1
<1>1. /\ i \in DOMAIN t /\ e \in RecordedEvents /\ i \in Nat \ {0}
      /\ \A j \in 1..(i - 1) : t[j].id1 # p
  BY DEF FirstOfRank
<1>2. u \in Seq(RecordedEvents) /\ Shortens(u, t, i) /\ DOMAIN u \subseteq Nat
  BY <1>1, WithoutShape
<1>3. p \in Ranks
  BY <1>1 DEF RecordedEvents
<1> HIDE DEF u, e
<1>4. \A j \in DOMAIN u : j \in Nat /\ Old(i, j) \in DOMAIN t /\ u[j] = t[Old(i, j)]
  BY <1>1, <1>2, PlacesMove
<1>5. ASSUME NEW k \in DOMAIN u
      PROVE  FitsBefore(u[k], InsideAfter(u, now, k))
  <2> DEFINE q == u[k].id1
             at == now[q]
  <2>1. FitsBefore(u[k], InsideFrom(t, at, q, Old(i, k) + 1))
    BY <1>4 DEF FilesFit, InsideAfter
  <2>2. InsideFrom(u, at, q, k + 1) = InsideFrom(t, at, q, Old(i, k) + 1)
    <3>1. CASE k < i
      <4>1. Old(i, k) = k /\ k \in 1..(i - 1) /\ k + 1 <= i /\ k + 1 \in Nat
        BY <1>1, <1>2, <3>1 DEF Old
      <4>2. t[i].id1 # q
        BY <1>1, <1>4, <4>1 DEF e
      <4> HIDE DEF q, at
      <4> QED
        BY <1>1, <1>2, <4>1, <4>2, InsideOther
    <3>2. CASE ~(k < i)
      <4>1. Old(i, k) + 1 = (k + 1) + 1 /\ i <= k + 1 /\ k + 1 \in Nat
        BY <1>1, <1>4, <3>2 DEF Old
      <4> HIDE DEF q, at
      <4> QED
        BY <1>1, <1>2, <4>1, InsideBehind
    <3> QED
      BY <3>1, <3>2
  <2> QED
    BY <2>1, <2>2 DEF InsideAfter
<1>6. ASSUME NEW q \in Ranks \ {p}
      PROVE  InsideAll(u, now)[q] = InsideAll(t, now)[q]
  <2>1. 1 \in Nat /\ 1 <= i /\ t[i].id1 # q
    BY <1>1 DEF e
  <2> HIDE DEF p
  <2>2. InsideFrom(u, now[q], q, 1) = InsideFrom(t, now[q], q, 1)
    BY <1>1, <1>2, <2>1, InsideOther
  <2> QED
    BY <2>2 DEF InsideAll
<1>7. InsideAll(u, now)[p] = InsideAfter(t, now, i)
  <2> DEFINE at == now[p]
  <2>1. ASSUME NEW j \in 1..(i - 1), j \in DOMAIN u PROVE u[j].id1 # p
    <3>1. Old(i, j) = j /\ u[j] = t[Old(i, j)]
      BY <1>1, <1>4, <2>1 DEF Old
    <3> QED
      BY <1>1, <3>1
  <2>2. InsideFrom(u, at, p, 1) = InsideFrom(u, at, p, i)
    <3>1. 1 \in Nat /\ i \in Nat /\ 1 <= i
      BY <1>1
    <3> HIDE DEF p, at
    <3> QED
      BY <1>2, <2>1, <3>1, InsideSkips
  <2>3. InsideFrom(u, at, p, i) = InsideFrom(t, at, p, i + 1)
    <3>1. i \in Nat /\ i <= i
      BY <1>1
    <3> HIDE DEF p, at
    <3> QED
      BY <1>1, <1>2, <3>1, InsideBehind
  <2>4. InsideAfter(t, now, i) = InsideFrom(t, at, p, i + 1)
    BY DEF InsideAfter, e
  <2> QED
    BY <1>3, <2>2, <2>3, <2>4 DEF InsideAll
<1> QED
  BY <1>2, <1>5, <1>6, <1>7 DEF FilesFit, u, e

-----------------------------------------------------------------------------
(***************************************************************************)
(* The ends of the files and the containers: a process has a container     *)
(* from its MPI_INIT on and until the OUT of its MPI_Finalize, which are   *)
(* the first and the last event of its file.                               *)
(***************************************************************************)
IsLast(e) == e.type = "OUT" /\ e.op = "MPI_Finalize"

EndsFit(t, at, cont) ==
  \A i \in DOMAIN t :
    /\ t[i].type = "MPI_INIT" => \A j \in DOMAIN t : j < i => t[j].id1 # t[i].id1
    /\ IsLast(t[i]) =>
         at[t[i].id1] = "end" /\ \A j \in DOMAIN t : i < j => t[j].id1 # t[i].id1
    /\ at[t[i].id1] # "start" /\ cont[t[i].id1] # "gone"

InitWaits(t, p) == \E i \in DOMAIN t : t[i].id1 = p /\ t[i].type = "MPI_INIT"
LastWaits(t, p) == \E i \in DOMAIN t : t[i].id1 = p /\ IsLast(t[i])

ContainersFit(t, at, cont) ==
  \A p \in Ranks :
    /\ cont[p] = "none" <=> at[p] = "start" \/ InitWaits(t, p)
    /\ cont[p] = "gone" => at[p] = "end"
    /\ at[p] = "end" => cont[p] = "gone" \/ LastWaits(t, p)

\* A rank that has not ended goes on, and records the ends of its file with its own.
GoesOn(r, events, at, later) ==
  /\ at[r] # "end" /\ later[r] # "start" /\ \A q \in Ranks \ {r} : later[q] = at[q]
  /\ \A k \in DOMAIN events :
       /\ events[k].id1 = r
       /\ events[k].type = "MPI_INIT" => at[r] = "start" /\ k = 1
       /\ IsLast(events[k]) => later[r] = "end" /\ k = Len(events)
  /\ at[r] = "start" => \E k \in DOMAIN events : events[k].type = "MPI_INIT"
  /\ later[r] = "end" => \E k \in DOMAIN events : IsLast(events[k])

\* An event of the longer trace is an old one or one of the new.
LEMMA OldOrNew ==
  ASSUME NEW S, NEW t \in Seq(S), NEW v \in Seq(S)
  PROVE  /\ \A i \in DOMAIN t : i \in DOMAIN (t \o v) /\ (t \o v)[i] = t[i] /\ i <= Len(t)
         /\ \A k \in DOMAIN v : Len(t) + k \in DOMAIN (t \o v) /\ (t \o v)[Len(t) + k] = v[k]
         /\ \A i \in DOMAIN (t \o v) :
              i \in DOMAIN t \/ \E k \in DOMAIN v : i = Len(t) + k /\ (t \o v)[i] = v[k]
<1> DEFINE u == t \o v
           n == Len(t)
<1>1. Concatenates(u, t, v)
  BY ConcatShape
<1>2. n \in Nat /\ Len(v) \in Nat /\ DOMAIN t = 1..n /\ DOMAIN v = 1..Len(v)
  OBVIOUS
<1> HIDE DEF u, n
<1>3. /\ DOMAIN u = 1..(n + Len(v))
      /\ \A k \in 1..n : u[k] = t[k]
      /\ \A k \in 1..Len(v) : u[n + k] = v[k]
  BY <1>1 DEF Concatenates, n
<1>4. \A i \in 1..n : i \in 1..(n + Len(v)) /\ i <= n
  BY <1>2
<1>5. \A k \in 1..Len(v) : n + k \in 1..(n + Len(v))
  BY <1>2
<1>6. ASSUME NEW i \in 1..(n + Len(v)), i \notin 1..n
      PROVE  i - n \in 1..Len(v) /\ i = n + (i - n)
  BY <1>2, <1>6
<1>7. ASSUME NEW i \in DOMAIN u, i \notin DOMAIN t
      PROVE  \E k \in DOMAIN v : i = n + k /\ u[i] = v[k]
  <2>1. i - n \in DOMAIN v /\ i = n + (i - n)
    BY <1>2, <1>3, <1>6, <1>7
  <2>2. u[n + (i - n)] = v[i - n]
    BY <1>2, <1>3, <2>1
  <2> QED
    BY <2>1, <2>2
<1> QED
  BY <1>2, <1>3, <1>4, <1>5, <1>7 DEF u, n

LEMMA GoesOnKeepsEnds ==
  ASSUME NEW t \in Seq(RecordedEvents), NEW events \in Seq(RecordedEvents), NEW at, NEW cont,
         EndsFit(t, at, cont), ContainersFit(t, at, cont),
         NEW r \in Ranks, NEW later, GoesOn(r, events, at, later)
  PROVE  EndsFit(t \o events, later, cont) /\ ContainersFit(t \o events, later, cont)
<1> DEFINE u == t \o events
           n == Len(t)
<1>1. /\ \A i \in DOMAIN t : i \in DOMAIN u /\ u[i] = t[i] /\ i <= n
      /\ \A k \in DOMAIN events : n + k \in DOMAIN u /\ u[n + k] = events[k]
      /\ \A i \in DOMAIN u :
              i \in DOMAIN t \/ \E k \in DOMAIN events : i = n + k /\ u[i] = events[k]
  BY OldOrNew
<1>2. /\ n \in Nat /\ DOMAIN t \subseteq Nat /\ DOMAIN events \subseteq Nat \ {0}
      /\ DOMAIN events = 1..Len(events) /\ Len(events) \in Nat
  OBVIOUS
<1>3. \A i \in DOMAIN t : t[i].id1 \in Ranks
  BY DEF RecordedEvents
<1> HIDE DEF u, n
<1>4. cont[r] # "gone"
  BY DEF ContainersFit, GoesOn
<1>5. at[r] = "start" => \A i \in DOMAIN t : t[i].id1 # r
  BY DEF EndsFit
<1>6. \A i \in DOMAIN t : IsLast(t[i]) => t[i].id1 # r
  BY DEF EndsFit, GoesOn
<1>7. ASSUME NEW i \in DOMAIN u
      PROVE  /\ u[i].type = "MPI_INIT" => \A j \in DOMAIN u : j < i => u[j].id1 # u[i].id1
             /\ IsLast(u[i]) =>
                  later[u[i].id1] = "end" /\ \A j \in DOMAIN u : i < j => u[j].id1 # u[i].id1
             /\ later[u[i].id1] # "start" /\ cont[u[i].id1] # "gone"
  <2>1. CASE i \in DOMAIN t
    <3>1. /\ u[i] = t[i] /\ i <= n /\ i \in Nat
          /\ \A j \in DOMAIN u : j < i => j \in DOMAIN t /\ u[j] = t[j]
      BY <1>1, <1>2, <2>1
    <3>2. /\ later[u[i].id1] # "start" /\ cont[u[i].id1] # "gone"
          /\ IsLast(u[i]) => later[u[i].id1] = "end" /\ u[i].id1 # r
      BY <1>3, <1>6, <2>1, <3>1 DEF EndsFit, GoesOn
    <3>3. \A j \in DOMAIN u : (j \in DOMAIN t /\ u[j] = t[j]) \/ u[j].id1 = r
      BY <1>1 DEF GoesOn
    <3>4. \A j \in DOMAIN u : IsLast(u[i]) /\ i < j => u[j].id1 # u[i].id1
      BY <2>1, <3>1, <3>2, <3>3 DEF EndsFit
    <3>5. u[i].type = "MPI_INIT" => \A j \in DOMAIN u : j < i => u[j].id1 # u[i].id1
      BY <2>1, <3>1 DEF EndsFit
    <3> QED
      BY <3>2, <3>4, <3>5
  <2>2. CASE i \notin DOMAIN t
    <3>1. PICK k \in DOMAIN events : i = n + k /\ u[i] = events[k]
      BY <1>1, <2>2
    <3>2. u[i].id1 = r /\ later[r] # "start"
      BY <3>1 DEF GoesOn
    <3>3. ASSUME u[i].type = "MPI_INIT", NEW j \in DOMAIN u, j < i PROVE u[j].id1 # r
      <4>1. at[r] = "start" /\ k = 1
        BY <3>1, <3>3 DEF GoesOn
      <4>2. j \in DOMAIN t
        BY <1>1, <1>2, <3>1, <3>3, <4>1
      <4> QED
        BY <1>1, <1>5, <4>1, <4>2
    <3>4. ASSUME IsLast(u[i]) PROVE later[r] = "end" /\ \A j \in DOMAIN u : ~(i < j)
      <4>1. later[r] = "end" /\ k = Len(events)
        BY <3>1, <3>4 DEF GoesOn
      <4>2. ASSUME NEW j \in DOMAIN u PROVE ~(i < j)
        <5>1. CASE j \in DOMAIN t
          BY <1>1, <1>2, <3>1, <5>1
        <5>2. CASE \E m \in DOMAIN events : j = n + m
          BY <1>2, <3>1, <4>1, <5>2
        <5> QED
          BY <1>1, <5>1, <5>2
      <4> QED
        BY <4>1, <4>2
    <3> QED
      BY <1>4, <3>2, <3>3, <3>4
  <2> QED
    BY <2>1, <2>2
<1>8. ASSUME NEW p \in Ranks
      PROVE  /\ cont[p] = "none" <=> later[p] = "start" \/ InitWaits(u, p)
             /\ cont[p] = "gone" => later[p] = "end"
             /\ later[p] = "end" => cont[p] = "gone" \/ LastWaits(u, p)
  <2>1. CASE p # r
    <3>1. later[p] = at[p]
      BY <2>1 DEF GoesOn
    <3>2. \A i \in DOMAIN u : u[i].id1 = p => i \in DOMAIN t
      BY <1>1, <2>1 DEF GoesOn
    <3>3. (InitWaits(u, p) <=> InitWaits(t, p)) /\ (LastWaits(u, p) <=> LastWaits(t, p))
      BY <1>1, <3>2 DEF InitWaits, LastWaits
    <3> QED
      BY <3>1, <3>3 DEF ContainersFit
  <2>2. CASE p = r
    <3>1. (at[r] = "start" \/ InitWaits(t, r)) <=> InitWaits(u, r)
      <4>1. ASSUME at[r] = "start" PROVE InitWaits(u, r)
        BY <1>1, <4>1 DEF GoesOn, InitWaits
      <4>2. ASSUME InitWaits(t, r) PROVE InitWaits(u, r)
        BY <1>1, <4>2 DEF InitWaits
      <4>3. ASSUME InitWaits(u, r) PROVE at[r] = "start" \/ InitWaits(t, r)
        BY <1>1, <4>3 DEF GoesOn, InitWaits
      <4> QED
        BY <4>1, <4>2, <4>3
    <3>2. later[r] = "end" => LastWaits(u, r)
      BY <1>1 DEF GoesOn, LastWaits
    <3> QED
      BY <1>4, <2>2, <3>1, <3>2 DEF ContainersFit, GoesOn
  <2> QED
    BY <2>1, <2>2
<1> QED
  BY <1>7, <1>8 DEF EndsFit, ContainersFit, u

\* Converting the first event of a file creates the container, the last destroys it.
ContainersAfter(e, cont, next) ==
  /\ e.type = "MPI_INIT" => next = [cont EXCEPT ![e.id1] = "live"]
  /\ IsLast(e) => next = [cont EXCEPT ![e.id1] = "gone"]
  /\ e.type # "MPI_INIT" /\ ~IsLast(e) => next = cont

LEMMA ConvertedKeepsEnds ==
  ASSUME NEW t \in Seq(RecordedEvents), NEW at, NEW cont \in [Ranks -> {"none", "live", "gone"}],
         EndsFit(t, at, cont), ContainersFit(t, at, cont),
         NEW i, FirstOfRank(t, i), NEW next, ContainersAfter(t[i], cont, next)
  PROVE  /\ EndsFit(Without(t, i), at, next) /\ ContainersFit(Without(t, i), at, next)
         /\ next \in [Ranks -> {"none", "live", "gone"}]
         /\ t[i].type = "MPI_INIT" <=> cont[t[i].id1] = "none"
         /\ cont[t[i].id1] # "gone"
<1> DEFINE u == Without(t, i)
           e == t[i]
           p == e.id1
<1>1. /\ i \in DOMAIN t /\ e \in RecordedEvents /\ i \in Nat \ {0} /\ DOMAIN t \subseteq Nat \ {0}
      /\ \A j \in 1..(i - 1) : t[j].id1 # p
  BY DEF FirstOfRank
<1>2. u \in Seq(RecordedEvents) /\ Shortens(u, t, i)
  BY <1>1, WithoutShape
<1>3. p \in Ranks
  BY <1>1 DEF RecordedEvents
<1> HIDE DEF u, e
<1>4. /\ \A j \in DOMAIN u : Old(i, j) \in DOMAIN t /\ Old(i, j) # i /\ u[j] = t[Old(i, j)]
      /\ \A m \in DOMAIN t : m # i => \E j \in DOMAIN u : m = Old(i, j) /\ u[j] = t[m]
  BY <1>1, <1>2, PlacesMove
<1>5. \A j, k \in DOMAIN u : j < k => Old(i, j) < Old(i, k)
  <2>1. DOMAIN u \subseteq Nat
    BY <1>2
  <2> QED
    BY <1>1, <2>1 DEF Old
<1>6. \A j \in DOMAIN t : j < i => t[j].id1 # p
  <2>1. \A j \in DOMAIN t : j < i => j \in 1..(i - 1)
    BY <1>1
  <2> QED
    BY <1>1, <2>1
\* Its own file: no other event begins it, and if it is the last no other event is left.
<1>7. \A j \in DOMAIN t : j # i /\ t[j].id1 = p => t[j].type # "MPI_INIT" /\ ~IsLast(e)
  <2> SUFFICES ASSUME NEW j \in DOMAIN t, j # i, t[j].id1 = p
               PROVE  t[j].type # "MPI_INIT" /\ ~IsLast(e)
    OBVIOUS
  <2>1. i < j
    BY <1>1, <1>6
  <2> QED
    BY <1>1, <2>1 DEF EndsFit, e
<1>8. cont[p] # "gone" /\ at[p] # "start"
  BY <1>1 DEF EndsFit, e
<1>9. e.type = "MPI_INIT" <=> cont[p] = "none"
  <2>1. cont[p] = "none" <=> InitWaits(t, p)
    BY <1>3, <1>8 DEF ContainersFit
  <2>2. InitWaits(t, p) <=> e.type = "MPI_INIT"
    BY <1>1, <1>7 DEF InitWaits, e
  <2> QED
    BY <2>1, <2>2
<1>10. /\ next \in [Ranks -> {"none", "live", "gone"}]
       /\ \A q \in Ranks \ {p} : next[q] = cont[q]
       /\ next[p] = IF e.type = "MPI_INIT" THEN "live" ELSE IF IsLast(e) THEN "gone" ELSE cont[p]
  <2>1. ~(e.type = "MPI_INIT" /\ IsLast(e))
    BY DEF IsLast
  <2> QED
    BY <1>3, <2>1 DEF ContainersAfter, e
<1>11. ASSUME NEW k \in DOMAIN u
       PROVE  /\ u[k].type = "MPI_INIT" => \A j \in DOMAIN u : j < k => u[j].id1 # u[k].id1
              /\ IsLast(u[k]) =>
                   at[u[k].id1] = "end" /\ \A j \in DOMAIN u : k < j => u[j].id1 # u[k].id1
              /\ at[u[k].id1] # "start" /\ next[u[k].id1] # "gone"
  <2>1. Old(i, k) \in DOMAIN t /\ Old(i, k) # i /\ u[k] = t[Old(i, k)] /\ u[k].id1 \in Ranks
    BY <1>4 DEF RecordedEvents
  <2>2. \A j \in DOMAIN u : j < k => Old(i, j) < Old(i, k)
    BY <1>5
  <2>3. \A j \in DOMAIN u : k < j => Old(i, k) < Old(i, j)
    BY <1>5
  <2>4. u[k].type = "MPI_INIT" => \A j \in DOMAIN u : j < k => u[j].id1 # u[k].id1
    BY <1>4, <2>1, <2>2 DEF EndsFit
  <2>5. IsLast(u[k]) => at[u[k].id1] = "end" /\ \A j \in DOMAIN u : k < j => u[j].id1 # u[k].id1
    BY <1>4, <2>1, <2>3 DEF EndsFit
  <2>6. at[u[k].id1] # "start" /\ cont[u[k].id1] # "gone"
    BY <2>1 DEF EndsFit
  <2>7. next[u[k].id1] # "gone"
    <3>1. CASE u[k].id1 = p
      <4>1. ~IsLast(e)
        BY <1>7, <2>1, <3>1
      <4> QED
        BY <1>8, <1>10, <3>1, <4>1
    <3>2. CASE u[k].id1 # p
      BY <1>10, <2>1, <2>6, <3>2
    <3> QED
      BY <3>1, <3>2
  <2> QED
    BY <2>4, <2>5, <2>6, <2>7
<1>12. ASSUME NEW q \in Ranks
       PROVE  /\ next[q] = "none" <=> at[q] = "start" \/ InitWaits(u, q)
              /\ next[q] = "gone" => at[q] = "end"
              /\ at[q] = "end" => next[q] = "gone" \/ LastWaits(u, q)
  <2>1. CASE q # p
    <3>1. (InitWaits(u, q) <=> InitWaits(t, q)) /\ (LastWaits(u, q) <=> LastWaits(t, q))
      <4>1. ASSUME NEW m \in DOMAIN t, t[m].id1 = q PROVE \E j \in DOMAIN u : u[j] = t[m]
        <5>1. m # i
          BY <2>1, <4>1 DEF e
        <5> QED
          BY <1>4, <5>1
      <4> QED
        BY <1>4, <4>1 DEF InitWaits, LastWaits
    <3> QED
      BY <1>10, <2>1, <3>1 DEF ContainersFit
  <2>2. CASE q = p
    <3>1. ~InitWaits(u, p)
      BY <1>4, <1>7 DEF InitWaits
    <3>2. next[p] # "none"
      BY <1>9, <1>10
    <3>3. next[p] = "gone" => at[p] = "end"
      BY <1>1, <1>8, <1>10 DEF EndsFit, e
    <3>4. at[p] = "end" => next[p] = "gone" \/ LastWaits(u, p)
      <4> SUFFICES ASSUME at[p] = "end", ~IsLast(e) PROVE LastWaits(u, p)
        <5>1. IsLast(e) => next[p] = "gone"
          BY <1>10 DEF IsLast
        <5> QED
          BY <5>1
      <4>1. LastWaits(t, p)
        BY <1>3, <1>8 DEF ContainersFit
      <4>2. PICK m \in DOMAIN t : t[m].id1 = p /\ IsLast(t[m])
        BY <4>1 DEF LastWaits
      <4>3. m # i
        BY <4>2 DEF e
      <4> QED
        BY <1>4, <4>2, <4>3 DEF LastWaits
    <3> QED
      BY <1>8, <2>2, <3>1, <3>2, <3>3, <3>4
  <2> QED
    BY <2>1, <2>2
<1> QED
  BY <1>8, <1>9, <1>10, <1>11, <1>12 DEF EndsFit, ContainersFit, u, e

-----------------------------------------------------------------------------
\* The invariant of the files, and the steps of the wrappers.
FilesInv ==
  /\ RequestsInv /\ MessagesInv
  /\ TraceTypeOK /\ FilesOK /\ CallsNamed
  /\ EndsFit(trace, pc, container) /\ ContainersFit(trace, pc, container)
  /\ container \in [Ranks -> {"none", "live", "gone"}]

Records(r, events) ==
  /\ trace' = trace \o events /\ CallsNamed'
  /\ Continues(r, events, Current, Current') /\ GoesOn(r, events, pc, pc')

LEMMA BeginRecords ==
  ASSUME RequestsInv, CallsNamed, NEW r \in Ranks, NEW c, NEW events, Begins(r, c.op, events),
         c.op # NoOp, trace' = trace \o events, pc[r] = "app",
         pc' = [pc EXCEPT ![r] = "call"], call' = [call EXCEPT ![r] = c]
  PROVE  Records(r, events)
<1>1. /\ pc'[r] = "call" /\ call'[r] = c
      /\ \A q \in Ranks \ {r} : pc'[q] = pc[q] /\ call'[q] = call[q]
  BY DEF RequestsInv, RequestsTypeOK
<1>2. /\ Current[r] = NoOp /\ Current'[r] = c.op
      /\ \A q \in Ranks \ {r} : Current'[q] = Current[q]
  BY <1>1 DEF Current
<1>3. Continues(r, events, Current, Current')
  BY <1>2, BeginsContinues
<1>4. /\ DOMAIN events = 1..Len(events) /\ Len(events) \in Nat
      /\ events[1].type = "IN" /\ \A k \in 2..Len(events) : events[k].type \in LinkEvents
      /\ \A k \in DOMAIN events : events[k].id1 = r
  BY DEF Begins
<1>5. LinkEvents \cap {"IN", "OUT", "MPI_INIT"} = {}
  BY DEF LinkEvents, ScatterSends, ScatterRecvs, GatherSends, GatherRecvs
<1>6. \A k \in DOMAIN events : events[k].type # "MPI_INIT" /\ ~IsLast(events[k])
  <2> SUFFICES ASSUME NEW k \in DOMAIN events
               PROVE  events[k].type # "MPI_INIT" /\ ~IsLast(events[k])
    OBVIOUS
  <2>1. k = 1 \/ k \in 2..Len(events)
    BY <1>4
  <2> QED
    BY <1>4, <1>5, <2>1 DEF IsLast
<1>7. GoesOn(r, events, pc, pc')
  BY <1>1, <1>4, <1>6 DEF GoesOn
<1>8. CallsNamed'
  BY <1>1 DEF CallsNamed
<1> QED
  BY <1>3, <1>7, <1>8 DEF Records

LEMMA FinishRecords ==
  ASSUME RequestsInv, CallsNamed, NEW r \in Ranks, NEW events, Finishes(r, call[r].op, events),
         trace' = trace \o events, pc[r] = "call", NEW next \in {"app", "end"},
         pc' = [pc EXCEPT ![r] = next], call' = [call EXCEPT ![r] = NoCall],
         next = "end" <=> call[r].op = "MPI_Finalize"
  PROVE  Records(r, events)
<1> DEFINE op == call[r].op
           n == Len(events)
<1>1. /\ pc'[r] = next /\ op # NoOp
      /\ \A q \in Ranks \ {r} : pc'[q] = pc[q] /\ call'[q] = call[q]
  BY DEF RequestsInv, RequestsTypeOK, CallsNamed
<1>2. /\ Current[r] = op /\ Current'[r] = NoOp
      /\ \A q \in Ranks \ {r} : Current'[q] = Current[q]
  BY <1>1 DEF Current
<1>3. Continues(r, events, Current, Current')
  BY <1>1, <1>2, FinishesContinues
<1>4. /\ DOMAIN events = 1..n /\ n \in Nat \ {0}
      /\ events[n].type = "OUT" /\ events[n].op = op
      /\ \A k \in 1..(n - 1) : events[k].type \in LinkEvents
      /\ \A k \in DOMAIN events : events[k].id1 = r
  BY DEF Finishes
<1> HIDE DEF n, op
<1>5. LinkEvents \cap {"IN", "OUT", "MPI_INIT"} = {}
  BY DEF LinkEvents, ScatterSends, ScatterRecvs, GatherSends, GatherRecvs
<1>6. \A k \in DOMAIN events :
        events[k].type # "MPI_INIT" /\ (IsLast(events[k]) => k = n /\ next = "end")
  <2> SUFFICES ASSUME NEW k \in DOMAIN events
               PROVE  /\ events[k].type # "MPI_INIT"
                      /\ IsLast(events[k]) => k = n /\ next = "end"
    OBVIOUS
  <2>1. k = n \/ k \in 1..(n - 1)
    BY <1>4
  <2>2. CASE k = n
    BY <1>4, <2>2 DEF IsLast, op
  <2>3. CASE k \in 1..(n - 1)
    BY <1>4, <1>5, <2>3 DEF IsLast
  <2> QED
    BY <2>1, <2>2, <2>3
<1>7. next = "end" => n \in DOMAIN events /\ IsLast(events[n])
  BY <1>4 DEF IsLast, op
<1>8. GoesOn(r, events, pc, pc')
  BY <1>1, <1>4, <1>6, <1>7 DEF GoesOn, n
<1>9. CallsNamed'
  BY <1>1 DEF CallsNamed
<1> QED
  BY <1>3, <1>8, <1>9 DEF Records

LEMMA TracerRecords ==
  ASSUME FilesInv, MessagesInv', NEW r \in Ranks,
         \/ InitCall(r) \/ EnterFinalize(r) \/ LeaveFinalize(r) \/ LeaveCall(r)
         \/ \E c \in Calls[r] : EnterCall(r, c)
  PROVE  \E events : Records(r, events)
<1>0. RequestsInv /\ MessagesInv /\ CallsNamed
  BY DEF FilesInv
<1>1. CASE InitCall(r)
  <2> DEFINE e == Event("MPI_INIT", r, "MPI_Init", 0, 0, NoMark, NoMsg)
  <2>1. e \in RecordedEvents
    <3>1. "MPI_INIT" \notin ScatterSends \cup GatherRecvs
      BY DEF ScatterSends, GatherRecvs
    <3>2. 0 \in Ids /\ NoMark \in Int
      BY RanksAreIds DEF NoMark
    <3> QED
      BY <3>1, <3>2, EventIsRecorded, NoMsgIsMessage
  <2>2. e.id1 = r /\ e.type = "MPI_INIT"
    BY DEF Event
  <2>3. pc[r] = "start" /\ trace' = trace \o <<e>> /\ pc' = [pc EXCEPT ![r] = "app"] /\ call' = call
    BY <1>1 DEF InitCall, Record
  <2> HIDE DEF e
  <2>4. pc'[r] = "app" /\ \A q \in Ranks \ {r} : pc'[q] = pc[q]
    BY <1>0, <2>3 DEF RequestsInv, RequestsTypeOK
  <2>5. Current' = Current /\ Current[r] = NoOp
    BY <2>3, <2>4 DEF Current
  <2>6. Continues(r, <<e>>, Current, Current')
    BY <2>1, <2>2, <2>5, InitContinues
  <2>7. DOMAIN <<e>> = {1} /\ <<e>>[1] = e /\ Len(<<e>>) = 1
    OBVIOUS
  <2>8. GoesOn(r, <<e>>, pc, pc')
    <3> DEFINE events == <<e>>
    <3>1. /\ DOMAIN events = {1} /\ Len(events) = 1
          /\ events[1].id1 = r /\ events[1].type = "MPI_INIT" /\ ~IsLast(events[1])
      BY <2>2, <2>7 DEF IsLast
    <3> HIDE DEF events
    <3>2. GoesOn(r, events, pc, pc')
      BY <2>3, <2>4, <3>1 DEF GoesOn
    <3> QED
      BY <3>2 DEF events
  <2>9. CallsNamed'
    BY <1>0, <2>3, <2>4 DEF CallsNamed
  <2> QED
    BY <2>3, <2>6, <2>8, <2>9 DEF Records
<1>2. "MPI_Finalize" \in CallOps /\ "MPI_Finalize" # NoOp /\ NoMark \in Int
  BY DEF CallOps, NoOp, NoMark
<1>3. CASE EnterFinalize(r)
  <2>1. Begins(r, "MPI_Finalize", <<In(r, "MPI_Finalize", NoMark)>>)
    BY <1>2, BeginsWithIn
  <2> DEFINE c == [op |-> "MPI_Finalize"]
  <2>2. /\ pc[r] = "app" /\ pc' = [pc EXCEPT ![r] = "call"] /\ call' = [call EXCEPT ![r] = c]
        /\ trace' = trace \o <<In(r, "MPI_Finalize", NoMark)>>
    BY <1>3 DEF EnterFinalize, Record
  <2>3. c.op = "MPI_Finalize"
    OBVIOUS
  <2> HIDE DEF c
  <2>4. Records(r, <<In(r, "MPI_Finalize", NoMark)>>)
    BY <1>0, <1>2, <2>1, <2>2, <2>3, BeginRecords
  <2> QED
    BY <2>4
<1>4. CASE LeaveFinalize(r)
  <2>1. Finishes(r, "MPI_Finalize", <<Out(r, "MPI_Finalize")>>)
    BY <1>2, FinishesPlainly
  <2>2. /\ pc[r] = "call" /\ call[r].op = "MPI_Finalize"
        /\ pc' = [pc EXCEPT ![r] = "end"] /\ call' = [call EXCEPT ![r] = NoCall]
        /\ trace' = trace \o <<Out(r, "MPI_Finalize")>>
    BY <1>4 DEF LeaveFinalize, Record
  <2>3. Records(r, <<Out(r, "MPI_Finalize")>>)
    BY <1>0, <2>1, <2>2, FinishRecords
  <2> QED
    BY <2>3
<1>5. CASE LeaveCall(r)
  <2>1. PICK events : Leave(r, events) /\ Finishes(r, call[r].op, events)
    BY <1>0, <1>5, LeaveRecords
  <2>2. /\ pc[r] = "call" /\ pc' = [pc EXCEPT ![r] = "app"] /\ call' = [call EXCEPT ![r] = NoCall]
        /\ trace' = trace \o events /\ call[r].op # "MPI_Finalize"
    BY <1>5, <2>1, LeaveIsReal DEF Leave, Record
  <2>3. Records(r, events)
    BY <1>0, <2>1, <2>2, FinishRecords
  <2> QED
    BY <2>3
<1>6. CASE \E c \in Calls[r] : EnterCall(r, c)
  <2>1. PICK c \in Calls[r] : EnterCall(r, c)
    BY <1>6
  <2>2. PICK events : Enter(r, c, events) /\ Begins(r, c.op, events)
    BY <1>0, <2>1, EnterRecords
  <2>3. c.op # NoOp
    BY <2>1, EnterIsReal, NoOpIsNone
  <2>4. /\ pc[r] = "app" /\ pc' = [pc EXCEPT ![r] = "call"] /\ call' = [call EXCEPT ![r] = c]
        /\ trace' = trace \o events
    BY <2>2 DEF Enter, Record
  <2>5. Records(r, events)
    BY <1>0, <2>2, <2>3, <2>4, BeginRecords
  <2> QED
    BY <2>5
<1> QED
  BY <1>1, <1>3, <1>4, <1>5, <1>6

LEMMA FilesInvInit ==
  ASSUME Init
  PROVE  FilesInv
<1> USE DEF Init, TracerInit, MpiInit, ConverterInit
<1>1. RequestsInv
  BY RequestsInvInit
<1>2. MessagesInv
  BY DEF MessagesInv, SendersOK, CountsOK, Slots, Null
<1>3. TraceTypeOK /\ FilesOK /\ CallsNamed
  BY DEF TraceTypeOK, FilesOK, FilesFit, CallsNamed
<1>4. EndsFit(trace, pc, container)
  BY DEF EndsFit
<1>5. /\ ContainersFit(trace, pc, container)
      /\ container \in [Ranks -> {"none", "live", "gone"}]
  BY RanksAreIds DEF ContainersFit, InitWaits
<1> QED
  BY <1>1, <1>2, <1>3, <1>4, <1>5 DEF FilesInv

LEMMA RecordsKeepFiles ==
  ASSUME FilesInv, NEW r \in Ranks, NEW events, Records(r, events), container' = container
  PROVE  /\ TraceTypeOK' /\ FilesOK' /\ CallsNamed' /\ InsideNow' = InsideNow
         /\ EndsFit(trace', pc', container') /\ ContainersFit(trace', pc', container')
<1>1. trace \in Seq(RecordedEvents) /\ events \in Seq(RecordedEvents) /\ trace' = trace \o events
  BY DEF FilesInv, TraceTypeOK, Records, Continues
<1>2. /\ trace' \in Seq(RecordedEvents) /\ FilesFit(trace', Current')
      /\ InsideAll(trace', Current') = InsideAll(trace, Current)
  BY <1>1, ContinuesKeepsFiles DEF FilesInv, FilesOK, Records
<1>3. EndsFit(trace', pc', container) /\ ContainersFit(trace', pc', container)
  BY <1>1, GoesOnKeepsEnds DEF FilesInv, Records
<1> QED
  BY <1>2, <1>3 DEF TraceTypeOK, FilesOK, InsideNow, Records

\* The converter takes the first event of a file, the first of all when the clocks are
\* synchronized.
LEMMA NextIsFirst ==
  ASSUME NEW i \in NextToDecode
  PROVE  FirstOfRank(trace, i)
BY DEF NextToDecode, FirstOfRank

LEMMA DecodeContainers ==
  ASSUME NEW e, Decode(e)
  PROVE  ContainersAfter(e, container, container')
<1> USE DEF ContainersAfter, IsLast
<1>1. CASE DecodeSend(e)
  BY <1>1 DEF DecodeSend, GatherSends
<1>2. CASE DecodeRecv(e)
  BY <1>2 DEF DecodeRecv, ScatterRecvs
<1>3. CASE DecodeLoop(e)
  BY <1>3 DEF DecodeLoop, ScatterSends, GatherRecvs, outputVars
<1>4. CASE DecodeInit(e)
  BY <1>4 DEF DecodeInit
<1>5. CASE DecodeIn(e)
  BY <1>5 DEF DecodeIn
<1>6. CASE DecodeOut(e)
  BY <1>6 DEF DecodeOut
<1> QED
  BY <1>1, <1>2, <1>3, <1>4, <1>5, <1>6 DEF Decode

LEMMA DecodeKeepsFiles ==
  ASSUME FilesInv, NEW i \in NextToDecode, Decode(trace[i]), trace' = Without(trace, i),
         pc' = pc, call' = call
  PROVE  /\ TraceTypeOK' /\ FilesOK' /\ CallsNamed'
         /\ EndsFit(trace', pc', container') /\ ContainersFit(trace', pc', container')
         /\ container' \in [Ranks -> {"none", "live", "gone"}]
<1>1. trace \in Seq(RecordedEvents) /\ FilesFit(trace, Current) /\ FirstOfRank(trace, i)
  BY NextIsFirst DEF FilesInv, TraceTypeOK, FilesOK
<1>2. Current' = Current
  BY DEF Current
<1>3. trace' \in Seq(RecordedEvents) /\ FilesFit(trace', Current)
  BY <1>1, ConvertedKeepsFiles
<1>4. ContainersAfter(trace[i], container, container')
  BY DecodeContainers
<1>5. /\ EndsFit(trace', pc, container') /\ ContainersFit(trace', pc, container')
      /\ container' \in [Ranks -> {"none", "live", "gone"}]
  BY <1>1, <1>4, ConvertedKeepsEnds DEF FilesInv
<1> QED
  BY <1>2, <1>3, <1>5 DEF TraceTypeOK, FilesOK, CallsNamed, FilesInv

LEMMA FilesInvStep ==
  ASSUME FilesInv, [Next]_vars
  PROVE  FilesInv'
<1>1. RequestsInv' /\ MessagesInv'
  BY RequestsInvStep, MessagesInvStep DEF FilesInv
<1>2. ASSUME UNCHANGED <<trace, pc, call, container>>
      PROVE  FilesInv'
  <2>1. Current' = Current
    BY <1>2 DEF Current
  <2> QED
    BY <1>1, <1>2, <2>1 DEF FilesInv, TraceTypeOK, FilesOK, CallsNamed
<1>3. CASE TracerStep
  <2>1. container' = container
    BY <1>3 DEF TracerStep, converterVars, outputVars
  <2>2. CASE \E s, d \in Ranks : Deliver(s, d)
    BY <1>2, <2>1, <2>2 DEF Deliver
  <2>3. ASSUME NEW r \in Ranks,
               \/ InitCall(r) \/ EnterFinalize(r) \/ LeaveFinalize(r) \/ LeaveCall(r)
               \/ \E c \in Calls[r] : EnterCall(r, c)
        PROVE  FilesInv'
    <3>1. PICK events : Records(r, events)
      BY <1>1, <2>3, TracerRecords
    <3> QED
      BY <1>1, <2>1, <3>1, RecordsKeepFiles DEF FilesInv
  <2> QED
    BY <1>3, <2>2, <2>3 DEF TracerStep, TracerNext
<1>4. CASE DecodeNext
  <2>1. PICK i \in NextToDecode : Decode(trace[i]) /\ trace' = Without(trace, i)
    BY <1>4 DEF DecodeNext
  <2>2. pc' = pc /\ call' = call
    BY <1>4 DEF DecodeNext
  <2> QED
    BY <1>1, <2>1, <2>2, DecodeKeepsFiles DEF FilesInv
<1>5. CASE ((ScatterStep \/ CollectStep \/ LoopEnd) /\ UNCHANGED tracerVars) \/ CloseTrace
  BY <1>2, <1>5 DEF ScatterStep, CollectStep, LoopEnd, CloseTrace, Close, tracerVars, outputVars
<1>6. CASE UNCHANGED vars
  BY <1>2, <1>6 DEF vars, tracerVars, converterVars, outputVars
<1> QED
  BY <1>3, <1>4, <1>5, <1>6 DEF Next, ConverterNext

-----------------------------------------------------------------------------
(***************************************************************************)
(* The composed system implements AkyAnyTrace: the trace is a merge of     *)
(* well-formed files, and `inside' is where each rank is in its file.      *)
(***************************************************************************)
Files == INSTANCE AkyConverterProofs WITH Events <- RecordedEvents, inside <- InsideNow

LEMMA SameKeys ==
  /\ \A nm : Files!AkyPutKey(nm) <=> AkyPutKey(nm)
  /\ \A nm : Files!AkyGetKey(nm) <=> AkyGetKey(nm)
<1>0. \A S : Files!Cardinality(S) = Cardinality(S)
  BY DEF Files!Cardinality, Cardinality
<1>1. \A nm, n : Files!KeyOf(nm, n) = KeyOf(nm, n)
  BY DEF Files!KeyOf, KeyOf
<1>2. Files!NoKey = NoKey
  BY DEF Files!NoKey, NoKey
<1>3. \A nm : Files!PutKey(nm) <=> PutKey(nm)
  BY <1>0, <1>1 DEF Files!PutKey, PutKey
<1>4. \A nm : Files!PutRefused(nm) <=> PutRefused(nm)
  BY <1>0, <1>2 DEF Files!PutRefused, PutRefused
<1>5. \A nm : Files!GetKey(nm) <=> GetKey(nm)
  BY DEF Files!GetKey, GetKey
<1>6. \A nm : Files!GetMissing(nm) <=> GetMissing(nm)
  BY <1>2 DEF Files!GetMissing, GetMissing
<1> QED
  BY <1>3, <1>4, <1>5, <1>6 DEF Files!AkyPutKey, AkyPutKey, Files!AkyGetKey, AkyGetKey

LEMMA SameLinks ==
  /\ \A e, s, d : Files!LinkFrom(e, s, d) <=> LinkFrom(e, s, d)
  /\ \A e, s, d : Files!LinkTo(e, s, d) <=> LinkTo(e, s, d)
  /\ \A type : Files!KeyType(type) = KeyType(type)
<1>1. \A type : Files!KeyType(type) = KeyType(type)
  BY DEF Files!KeyType, KeyType
<1>2. \A type : Files!LinkValue(type) = LinkValue(type)
  BY DEF Files!LinkValue, LinkValue
<1>3. \A n : Files!FiveDigits(n) = FiveDigits(n)
  BY DEF Files!FiveDigits, FiveDigits
<1>4. Files!NoKey = NoKey
  BY DEF Files!NoKey, NoKey
<1>5. \A e, s, d : Files!StartLink(e, s, d) <=> StartLink(e, s, d)
  BY <1>2, <1>3 DEF Files!StartLink, StartLink
<1>6. \A e, s, d : Files!EndLink(e, s, d) <=> EndLink(e, s, d)
  BY <1>2 DEF Files!EndLink, EndLink
<1>7. \A e, s, d : Files!LinkFrom(e, s, d) <=> LinkFrom(e, s, d)
  BY <1>1, <1>5, SameKeys DEF Files!LinkFrom, LinkFrom
<1>8. \A e, s, d : Files!LinkTo(e, s, d) <=> LinkTo(e, s, d)
  BY <1>1, <1>4, <1>6, SameKeys DEF Files!LinkTo, LinkTo
<1> QED
  BY <1>1, <1>7, <1>8

LEMMA SameSets ==
  /\ Files!ScatterSends = ScatterSends /\ Files!ScatterRecvs = ScatterRecvs
  /\ Files!GatherSends = GatherSends /\ Files!GatherRecvs = GatherRecvs
  /\ Files!keyVars = keyVars /\ Files!outputVars = outputVars
  /\ Files!converterVars = converterVars
  /\ Files!NoEvent = NoEvent /\ Files!NoOp = NoOp /\ Files!NoKey = NoKey
  /\ Files!Procs = Procs /\ Files!Names = Names
BY DEF Files!ScatterSends, ScatterSends, Files!ScatterRecvs, ScatterRecvs,
       Files!GatherSends, GatherSends, Files!GatherRecvs, GatherRecvs,
       Files!keyVars, keyVars, Files!outputVars, outputVars,
       Files!converterVars, converterVars, Files!NoEvent, NoEvent, Files!NoOp, NoOp,
       Files!NoKey, NoKey, Files!Procs, Procs, Files!Names, Names

LEMMA SameDecode ==
  ASSUME NEW e
  PROVE  Files!Decode(e) <=> Decode(e)
<1>1. Files!DecodeSend(e) <=> DecodeSend(e)
  BY SameLinks, SameSets DEF Files!DecodeSend, DecodeSend, Files!keyVars, keyVars,
     Files!outputVars, outputVars
<1>2. Files!DecodeRecv(e) <=> DecodeRecv(e)
  BY SameLinks, SameSets DEF Files!DecodeRecv, DecodeRecv, Files!keyVars, keyVars,
     Files!outputVars, outputVars
<1>3. Files!DecodeLoop(e) <=> DecodeLoop(e)
  BY SameSets DEF Files!DecodeLoop, DecodeLoop, Files!keyVars, keyVars,
     Files!outputVars, outputVars
<1>4. Files!DecodeInit(e) <=> DecodeInit(e)
  BY SameSets DEF Files!DecodeInit, DecodeInit, Files!keyVars, keyVars,
     Files!outputVars, outputVars
<1>5. Files!DecodeIn(e) <=> DecodeIn(e)
  BY SameSets DEF Files!DecodeIn, DecodeIn, Files!keyVars, keyVars,
     Files!outputVars, outputVars
<1>6. Files!DecodeOut(e) <=> DecodeOut(e)
  BY SameSets DEF Files!DecodeOut, DecodeOut, Files!keyVars, keyVars,
     Files!outputVars, outputVars
<1> QED
  BY <1>1, <1>2, <1>3, <1>4, <1>5, <1>6 DEF Files!Decode, Decode

LEMMA SameLoops ==
  /\ Files!ScatterStep <=> ScatterStep
  /\ Files!CollectStep <=> CollectStep
  /\ Files!LoopEnd <=> LoopEnd
  /\ Files!Close <=> Close
<1>1. Files!ScatterStep <=> ScatterStep
  BY SameLinks, SameSets DEF Files!ScatterStep, ScatterStep, Files!keyVars, keyVars,
     Files!outputVars, outputVars
<1>2. Files!CollectStep <=> CollectStep
  BY SameLinks, SameSets DEF Files!CollectStep, CollectStep, Files!keyVars, keyVars,
     Files!outputVars, outputVars
<1>3. Files!LoopEnd <=> LoopEnd
  BY SameSets DEF Files!LoopEnd, LoopEnd, Files!keyVars, keyVars,
     Files!outputVars, outputVars
<1>4. Files!Close <=> Close
  BY SameSets DEF Files!Close, Close, Files!keyVars, keyVars,
     Files!outputVars, outputVars
<1> QED
  BY <1>1, <1>2, <1>3, <1>4

\* The trace is a merge of well-formed files.
LEMMA DecodesInOrder ==
  ASSUME FilesInv, NEW i \in NextToDecode, Decode(trace[i]), trace' = Without(trace, i),
         pc' = pc, call' = call
  PROVE  trace[i] \in RecordedEvents /\ Files!DecodeAny(trace[i])
<1> DEFINE e == trace[i]
           p == e.id1
           after == InsideAfter(trace, Current, i)
<1>1. trace \in Seq(RecordedEvents) /\ FilesFit(trace, Current) /\ FirstOfRank(trace, i)
  BY NextIsFirst DEF FilesInv, TraceTypeOK, FilesOK
<1>2. e \in RecordedEvents /\ p \in Ranks
  BY <1>1 DEF FirstOfRank, RecordedEvents
<1>3. /\ FitsBefore(e, after)
      /\ e.type \in {"IN", "OUT"} => InsideNow[p] = Before(e)
      /\ e.type \notin {"IN", "OUT"} => InsideNow[p] = after
  BY <1>1, FirstOfFile DEF InsideNow
<1>4. /\ \A q \in Ranks \ {p} : InsideNow'[q] = InsideNow[q]
      /\ InsideNow'[p] = after
  <2>1. Current' = Current
    BY DEF Current
  <2> QED
    BY <1>1, <2>1, ConvertedKeepsFiles DEF InsideNow
<1>5. (e.type = "MPI_INIT" <=> container[p] = "none") /\ container[p] # "gone"
  <2>1. ContainersAfter(e, container, container')
    BY DecodeContainers
  <2> QED
    BY <1>1, <2>1, ConvertedKeepsEnds DEF FilesInv
<1> HIDE DEF e, after
<1>6. e.type \in LinkEvents \cup {"MPI_INIT", "IN", "OUT"}
  BY <1>2 DEF RecordedEvents
<1>7. LinkEvents \cap {"MPI_INIT", "IN", "OUT"} = {}
  BY DEF LinkEvents, ScatterSends, ScatterRecvs, GatherSends, GatherRecvs
<1>8. Files!FileOrder(e)
  BY <1>3, <1>5, <1>6, <1>7, SameSets DEF Files!FileOrder, FitsBefore, Before
<1>9. InsideNow' = CASE e.type = "IN" -> [InsideNow EXCEPT ![p] = e.op]
                     [] e.type = "OUT" -> [InsideNow EXCEPT ![p] = NoOp]
                     [] OTHER -> InsideNow
  <2>1. InsideNow' = [InsideNow EXCEPT ![p] = after]
    BY <1>2, <1>4 DEF InsideNow, InsideAll
  <2>2. e.type \notin {"IN", "OUT"} => [InsideNow EXCEPT ![p] = after] = InsideNow
    BY <1>2, <1>3 DEF InsideNow, InsideAll
  <2>3. CASE e.type = "IN"
    BY <1>3, <2>1, <2>3 DEF FitsBefore
  <2>4. CASE e.type = "OUT"
    BY <1>3, <2>1, <2>4 DEF FitsBefore
  <2>5. CASE e.type \notin {"IN", "OUT"}
    BY <2>1, <2>2, <2>5
  <2> QED
    BY <2>3, <2>4, <2>5
<1>10. Files!Decode(e)
  BY SameDecode DEF e
<1> QED
  BY <1>2, <1>8, <1>9, <1>10, SameSets DEF Files!DecodeAny, e

LEMMA FilesStep ==
  ASSUME FilesInv, MessagesInv', [Next]_vars
  PROVE  [Files!AnyNext]_(Files!anyVars)
<1>1. ASSUME InsideNow' = InsideNow, UNCHANGED converterVars
      PROVE  UNCHANGED Files!anyVars
  BY <1>1 DEF Files!anyVars, Files!converterVars, converterVars, Files!outputVars, outputVars,
              Files!keyVars, keyVars
<1>2. ASSUME UNCHANGED <<trace, pc, call>>
      PROVE  InsideNow' = InsideNow
  BY <1>2 DEF InsideNow, InsideAll, Current
<1>3. CASE TracerStep
  <2>1. UNCHANGED converterVars
    BY <1>3 DEF TracerStep
  <2>2. CASE \E s, d \in Ranks : Deliver(s, d)
    BY <1>1, <1>2, <2>1, <2>2 DEF Deliver
  <2>3. ASSUME NEW r \in Ranks,
               \/ InitCall(r) \/ EnterFinalize(r) \/ LeaveFinalize(r) \/ LeaveCall(r)
               \/ \E c \in Calls[r] : EnterCall(r, c)
        PROVE  UNCHANGED Files!anyVars
    <3>1. PICK events : Records(r, events)
      BY <2>3, TracerRecords
    <3>2. container' = container
      BY <2>1 DEF converterVars, outputVars
    <3>3. InsideNow' = InsideNow
      BY <3>1, <3>2, RecordsKeepFiles
    <3> QED
      BY <1>1, <2>1, <3>3
  <2> QED
    BY <1>3, <2>2, <2>3 DEF TracerStep, TracerNext
<1>4. CASE DecodeNext
  <2>1. PICK i \in NextToDecode : Decode(trace[i]) /\ trace' = Without(trace, i)
    BY <1>4 DEF DecodeNext
  <2>2. pc' = pc /\ call' = call
    BY <1>4 DEF DecodeNext
  <2> QED
    BY <2>1, <2>2, DecodesInOrder DEF Files!AnyNext
<1>5. CASE (ScatterStep \/ CollectStep \/ LoopEnd) /\ UNCHANGED tracerVars
  <2>1. InsideNow' = InsideNow
    BY <1>2, <1>5 DEF tracerVars
  <2> QED
    BY <1>5, <2>1, SameLoops DEF Files!AnyNext, Files!LoopStep
<1>6. CASE CloseTrace
  <2>1. InsideNow' = InsideNow
    BY <1>2, <1>6 DEF CloseTrace, tracerVars
  <2> QED
    BY <1>6, <2>1, SameLoops DEF CloseTrace, Files!AnyNext, Files!CloseAny
<1>7. CASE UNCHANGED vars
  BY <1>1, <1>2, <1>7 DEF vars, tracerVars
<1> QED
  BY <1>3, <1>4, <1>5, <1>6, <1>7 DEF Next, ConverterNext

LEMMA FilesInit ==
  ASSUME Init
  PROVE  Files!AnyInit
<1>1. Files!ConverterInit
  BY SameSets DEF Init, ConverterInit, KeysInit, Files!ConverterInit, Files!KeysInit
<1>2. InsideNow = [p \in Procs |-> NoOp]
  <2>1. trace = <<>> /\ Current = [p \in Ranks |-> NoOp]
    BY DEF Init, TracerInit, Current
  <2>2. \A p \in Ranks : Bounds(<<>>, p, 1) = {}
    BY DEF Bounds
  <2> QED
    BY <2>1, <2>2, RanksAreIds DEF InsideNow, InsideAll, InsideFrom
<1> QED
  BY <1>1, <1>2, SameSets DEF Files!AnyInit

\* Whatever a legal application does, and whether its clocks are synchronized or not, the
\* converter works on a merge of well-formed files: a rank's MPI_INIT first, the OUT of its
\* MPI_Finalize last, and link events inside of the calls that they are about.
THEOREM FilesAreOrdered == Spec => Files!AnySpec
<1>1. Init => FilesInv /\ Files!AnyInit
  BY FilesInvInit, FilesInit
<1>2. FilesInv /\ [Next]_vars => FilesInv'
  BY FilesInvStep
<1>3. FilesInv /\ FilesInv' /\ [Next]_vars => [Files!AnyNext]_(Files!anyVars)
  BY FilesStep DEF FilesInv
<1> QED
  BY <1>1, <1>2, <1>3, PTL DEF Spec, Files!AnySpec

-----------------------------------------------------------------------------
\* What is proved of every merge of files holds of the traces that libaky records.
LEMMA FilesAssumptions ==
  Files!KeysAssumption /\ Files!ConverterAssumption /\ Files!EventsAssumption
<1>1. Files!KeysAssumption
  BY KeysAssumption DEF Files!KeysAssumption
<1>2. Files!ConverterAssumption
  BY ConverterAssumption, SameSets DEF Files!ConverterAssumption
<1>3. Files!EventsAssumption
  <2>1. LinkEvents \cup {"MPI_INIT", "IN", "OUT"} \subseteq Files!EventTypes
    BY SameSets DEF LinkEvents, Files!EventTypes
  <2>2. Procs = Ranks /\ NProcs = N
    BY RanksAreIds, AkypueraAssumption
  <2> QED
    BY <2>1, <2>2, SameSets DEF RecordedEvents, Files!EventsAssumption
<1> QED
  BY <1>1, <1>2, <1>3

LEMMA SameProperties ==
  /\ Files!LinkKeysUnique <=> LinkKeysUnique
  /\ Files!EndsFollowStarts <=> EndsFollowStarts
  /\ Files!OpenLinksWait <=> OpenLinksWait
  /\ Files!EmptyStartMeansFull <=> EmptyStartMeansFull
<1> USE DEF Files!KeyAt, KeyAt, Files!Starts, Starts, Files!Ends, Ends
<1>1. Files!LinkKeysUnique <=> LinkKeysUnique
  BY SameSets DEF Files!LinkKeysUnique, LinkKeysUnique
<1>2. Files!EndsFollowStarts <=> EndsFollowStarts
  BY SameSets DEF Files!EndsFollowStarts, EndsFollowStarts
<1>3. Files!OpenLinksWait <=> OpenLinksWait
  <2>1. Files!WaitingKeys = WaitingKeys
    BY SameSets DEF Files!WaitingKeys, WaitingKeys
  <2>2. Files!OpenKeys = OpenKeys
    BY DEF Files!OpenKeys, OpenKeys
  <2> QED
    BY <2>1, <2>2, SameSets DEF Files!OpenLinksWait, OpenLinksWait
<1>4. Files!EmptyStartMeansFull <=> EmptyStartMeansFull
  <2>1. Files!Cardinality(entered) = Cardinality(entered)
    BY DEF Files!Cardinality, Cardinality
  <2> QED
    BY <2>1, SameSets DEF Files!EmptyStartMeansFull, EmptyStartMeansFull
<1> QED
  BY <1>1, <1>2, <1>3, <1>4

\* No key starts or ends two of the links that are printed of an application's trace.
THEOREM TracedKeysAreUnique == Spec => []LinkKeysUnique
<1>1. Files!AnySpec => []Files!LinkKeysUnique
  BY Files!PrintedKeysAreUnique, FilesAssumptions
<1>2. Files!LinkKeysUnique => LinkKeysUnique
  BY SameProperties
<1> QED
  BY <1>1, <1>2, FilesAreOrdered, PTL

\* Of an application's trace, a link ends after its start and at the process of its key.
THEOREM TracedEndsAreStarted == Spec => []EndsFollowStarts
<1>1. Files!AnySpec => []Files!EndsFollowStarts
  BY Files!EndsAreStarted, FilesAssumptions
<1>2. Files!EndsFollowStarts => EndsFollowStarts
  BY SameProperties
<1> QED
  BY <1>1, <1>2, FilesAreOrdered, PTL

\* Of an application's trace, the key table holds the keys of the links not ended yet.
THEOREM TracedLinksWait == Spec => []OpenLinksWait
<1>1. Files!AnySpec => []Files!OpenLinksWait
  BY Files!TableHoldsOpenLinks, FilesAssumptions
<1>2. Files!OpenLinksWait => OpenLinksWait
  BY SameProperties
<1> QED
  BY <1>1, <1>2, FilesAreOrdered, PTL

\* The converter prints of an application's trace what PajeLinks promises of any: every
\* link starts with a key of its own, and ends once and after its start.
THEOREM TracedLinksArePaired == Spec => Files!AnyLinksPaired
<1>1. Files!AnySpec => Files!AnyLinksPaired
  BY Files!LinksImplemented, FilesAssumptions
<1> QED
  BY <1>1, FilesAreOrdered, PTL

-----------------------------------------------------------------------------
(***************************************************************************)
(* States and containers.  The stack of a process holds the call that its  *)
(* rank is in, and the root exists with the first container.               *)
(***************************************************************************)
StacksOK ==
  stack = [p \in Ranks |-> IF NoStates \/ InsideNow[p] = NoOp THEN <<>> ELSE <<InsideNow[p]>>]

SomeContainer == \E p \in Ranks : container[p] # "none"
RootOK ==
  /\ phase # "closed" => root = IF SomeContainer THEN "live" ELSE "none"
  /\ phase = "closed" => /\ root = IF SomeContainer THEN "gone" ELSE "none"
                         /\ \A p \in Ranks : pc[p] = "end"
                         /\ fail \/ trace = <<>>

\* A loop over the ranks stops at the number of its event.
LoopOK ==
  /\ phase \in {"decode", "scatter", "collect", "closed"} /\ fail \in BOOLEAN
  /\ phase \in {"scatter", "collect"} => ev.v \in 0..N /\ rank \in 0..ev.v
  /\ phase \notin {"scatter", "collect"} => rank = 0

OutputInv == FilesInv /\ StacksOK /\ RootOK /\ LoopOK

\* Where the rank of a decoded event is, before it and after it.
LEMMA DecodeInside ==
  ASSUME FilesInv, NEW i \in NextToDecode, Decode(trace[i]), trace' = Without(trace, i),
         pc' = pc, call' = call, NEW e, e = trace[i]
  PROVE  /\ e \in RecordedEvents /\ e.id1 \in Ranks
         /\ e.type = "MPI_INIT" <=> container[e.id1] = "none"
         /\ e.type = "IN" => /\ InsideNow[e.id1] = NoOp /\ e.op # NoOp
                             /\ InsideNow' = [InsideNow EXCEPT ![e.id1] = e.op]
         /\ e.type = "OUT" => /\ InsideNow[e.id1] = e.op /\ e.op # NoOp
                              /\ InsideNow' = [InsideNow EXCEPT ![e.id1] = NoOp]
         /\ e.type \notin {"IN", "OUT"} => InsideNow' = InsideNow
<1>1. e \in RecordedEvents /\ Files!DecodeAny(e)
  BY DecodesInOrder
<1>2. e.id1 \in Ranks
  BY <1>1 DEF RecordedEvents
<1>3. trace \in Seq(RecordedEvents) /\ FilesFit(trace, Current) /\ FirstOfRank(trace, i)
  BY NextIsFirst DEF FilesInv, TraceTypeOK, FilesOK
<1>4. e.type \in {"IN", "OUT"} => e.op # NoOp
  BY <1>3, FirstOfFile DEF FitsBefore
<1>5. /\ e.type = "MPI_INIT" <=> container[e.id1] = "none"
      /\ e.type \in {"MPI_INIT", "IN"} <=> InsideNow[e.id1] = NoOp
      /\ e.type = "OUT" => InsideNow[e.id1] = e.op
  BY <1>1, SameSets DEF Files!DecodeAny, Files!FileOrder
<1>6. InsideNow' = CASE e.type = "IN" -> [InsideNow EXCEPT ![e.id1] = e.op]
                     [] e.type = "OUT" -> [InsideNow EXCEPT ![e.id1] = NoOp]
                     [] OTHER -> InsideNow
  BY <1>1, SameSets DEF Files!DecodeAny
<1> QED
  BY <1>1, <1>2, <1>4, <1>5, <1>6

LEMMA DecodeKeepsStacks ==
  ASSUME OutputInv, NEW i \in NextToDecode, Decode(trace[i]), trace' = Without(trace, i),
         pc' = pc, call' = call
  PROVE  StacksOK'
<1> DEFINE e == trace[i]
           p == e.id1
<1>1. FilesInv /\ StacksOK
  BY DEF OutputInv
<1>2. /\ p \in Ranks
      /\ e.type = "IN" => /\ InsideNow[p] = NoOp /\ e.op # NoOp
                          /\ InsideNow' = [InsideNow EXCEPT ![p] = e.op]
      /\ e.type = "OUT" => /\ InsideNow[p] = e.op /\ e.op # NoOp
                           /\ InsideNow' = [InsideNow EXCEPT ![p] = NoOp]
      /\ e.type \notin {"IN", "OUT"} => InsideNow' = InsideNow
  BY <1>1, DecodeInside
<1>3. Decode(e)
  OBVIOUS
<1> HIDE DEF e
<1>4. InsideNow = [q \in Ranks |-> InsideNow[q]]
  BY DEF InsideNow, InsideAll
<1>5. CASE DecodeSend(e) \/ DecodeRecv(e) \/ DecodeLoop(e) \/ DecodeInit(e)
  <2>1. stack' = stack /\ e.type \notin {"IN", "OUT"}
    BY <1>5 DEF DecodeSend, DecodeRecv, DecodeLoop, DecodeInit, GatherSends, ScatterRecvs,
                ScatterSends, GatherRecvs, outputVars
  <2> QED
    BY <1>1, <1>2, <2>1 DEF StacksOK
<1>6. CASE DecodeIn(e)
  <2>1. e.type = "IN" /\ stack' = IF NoStates THEN stack ELSE [stack EXCEPT ![p] = Append(@, e.op)]
    BY <1>6 DEF DecodeIn
  <2>2. /\ InsideNow[p] = NoOp /\ e.op # NoOp /\ InsideNow'[p] = e.op
        /\ \A q \in Ranks \ {p} : InsideNow'[q] = InsideNow[q]
    BY <1>2, <1>4, <2>1
  <2>3. CASE NoStates
    BY <1>1, <2>1, <2>3 DEF StacksOK
  <2>4. CASE ~NoStates
    <3>1. stack[p] = <<>>
      BY <1>1, <1>2, <2>2, <2>4 DEF StacksOK
    <3>2. stack' = [stack EXCEPT ![p] = <<e.op>>]
      BY <2>1, <2>4, <3>1
    <3> QED
      BY <1>1, <1>2, <2>2, <2>4, <3>2 DEF StacksOK
  <2> QED
    BY <2>3, <2>4
<1>7. CASE DecodeOut(e)
  <2>1. /\ e.type = "OUT"
        /\ stack' = IF NoStates \/ stack[p] = <<>> THEN stack
                    ELSE [stack EXCEPT ![p] = SubSeq(@, 1, Len(@) - 1)]
    BY <1>7 DEF DecodeOut
  <2>2. /\ InsideNow[p] = e.op /\ e.op # NoOp /\ InsideNow'[p] = NoOp
        /\ \A q \in Ranks \ {p} : InsideNow'[q] = InsideNow[q]
    BY <1>2, <1>4, <2>1
  <2>3. CASE NoStates
    BY <1>1, <2>1, <2>3 DEF StacksOK
  <2>4. CASE ~NoStates
    <3>1. stack[p] = <<e.op>>
      BY <1>1, <1>2, <2>2, <2>4 DEF StacksOK
    <3>2. stack[p] # <<>> /\ SubSeq(stack[p], 1, Len(stack[p]) - 1) = <<>>
      <4> DEFINE one == <<e.op>>
      <4>1. SubSeq(one, 1, Len(one) - 1) = <<>> /\ one # <<>>
        OBVIOUS
      <4> QED
        BY <3>1, <4>1
    <3>3. stack' = [stack EXCEPT ![p] = <<>>]
      BY <2>1, <2>4, <3>2
    <3> QED
      BY <1>1, <1>2, <2>2, <2>4, <3>3 DEF StacksOK
  <2> QED
    BY <2>3, <2>4
<1> QED
  BY <1>3, <1>5, <1>6, <1>7 DEF Decode

LEMMA DecodeKeepsRoot ==
  ASSUME OutputInv, NEW i \in NextToDecode, Decode(trace[i]), trace' = Without(trace, i),
         pc' = pc, call' = call
  PROVE  RootOK' /\ LoopOK'
<1> DEFINE e == trace[i]
<1>1. FilesInv /\ RootOK /\ LoopOK
  BY DEF OutputInv
<1>2. e \in RecordedEvents /\ e.id1 \in Ranks /\ (e.type = "MPI_INIT" <=> container[e.id1] = "none")
  BY <1>1, DecodeInside
<1>3. e.type \in ScatterSends \cup GatherRecvs => e.v \in 0..N
  BY <1>2 DEF RecordedEvents
<1>4. Decode(e) /\ phase = "decode"
  BY DEF Decode
<1>5. ContainersAfter(e, container, container') /\ container \in [Ranks -> {"none", "live", "gone"}]
  BY <1>1, <1>4, DecodeContainers DEF FilesInv
<1> HIDE DEF e
<1>6. 0 \in 0..N /\ N \in Nat
  BY RanksAreIds
<1>7. CASE DecodeLoop(e)
  <2>1. /\ UNCHANGED <<fail, root, container>>
        /\ \/ UNCHANGED <<phase, ev, rank>>
           \/ phase' \in {"scatter", "collect"} /\ ev' = e /\ rank' = 0 /\ e.v \in 0..N
    BY <1>3, <1>7 DEF DecodeLoop, outputVars
  <2>2. LoopOK'
    BY <1>1, <1>4, <1>6, <2>1 DEF LoopOK
  <2>3. RootOK'
    BY <1>1, <1>4, <2>1 DEF RootOK, SomeContainer
  <2> QED
    BY <2>2, <2>3
<1>8. CASE ~DecodeLoop(e)
  <2>1. /\ UNCHANGED <<phase, ev, rank>> /\ fail' \in BOOLEAN
        /\ root' = IF e.type = "MPI_INIT" /\ root = "none" THEN "live" ELSE root
    BY <1>1, <1>4, <1>8
    DEF Decode, DecodeSend, DecodeRecv, DecodeInit, DecodeIn, DecodeOut, LinkFrom, LinkTo,
        GatherSends, ScatterRecvs, LoopOK
  <2>2. SomeContainer' <=> e.type = "MPI_INIT" \/ SomeContainer
    <3>1. CASE e.type = "MPI_INIT"
      BY <1>2, <1>5, <3>1 DEF ContainersAfter, SomeContainer
    <3>2. CASE e.type # "MPI_INIT" /\ IsLast(e)
      BY <1>2, <1>5, <3>2 DEF ContainersAfter, SomeContainer
    <3>3. CASE e.type # "MPI_INIT" /\ ~IsLast(e)
      BY <1>5, <3>3 DEF ContainersAfter, SomeContainer
    <3> QED
      BY <3>1, <3>2, <3>3
  <2>3. RootOK'
    BY <1>1, <1>4, <2>1, <2>2 DEF RootOK
  <2>4. LoopOK'
    BY <1>1, <2>1 DEF LoopOK
  <2> QED
    BY <2>3, <2>4
<1> QED
  BY <1>7, <1>8

LEMMA OutputInvInit ==
  ASSUME Init
  PROVE  OutputInv
<1>1. FilesInv
  BY FilesInvInit
<1>2. InsideNow = [p \in Ranks |-> NoOp]
  BY FilesInit, SameSets, RanksAreIds DEF Files!AnyInit
<1>3. ConverterInit /\ Procs = Ranks
  BY RanksAreIds DEF Init
<1>4. StacksOK
  BY <1>2, <1>3 DEF ConverterInit, StacksOK
<1>5. RootOK /\ LoopOK
  BY <1>3 DEF ConverterInit, RootOK, LoopOK, SomeContainer
<1> QED
  BY <1>1, <1>4, <1>5 DEF OutputInv

\* A wrapper changes nothing that is printed, and none runs any more when the converter
\* has closed the files.
LEMMA TracerKeepsOutput ==
  ASSUME OutputInv, RequestsInv', MessagesInv', TracerStep
  PROVE  StacksOK' /\ RootOK' /\ LoopOK'
<1>1. FilesInv /\ StacksOK /\ RootOK /\ LoopOK
  BY DEF OutputInv
<1>2. UNCHANGED <<phase, ev, rank, fail, root, container, stack>>
  BY DEF TracerStep, converterVars, outputVars
<1>3. LoopOK'
  BY <1>1, <1>2 DEF LoopOK
<1>4. CASE \E s, d \in Ranks : Deliver(s, d)
  <2>1. UNCHANGED <<pc, call, trace>>
    BY <1>4 DEF Deliver
  <2>2. InsideNow' = InsideNow
    BY <2>1 DEF InsideNow, InsideAll, Current
  <2> QED
    BY <1>1, <1>2, <1>3, <2>1, <2>2 DEF StacksOK, RootOK, SomeContainer
<1>5. ASSUME NEW r \in Ranks,
             \/ InitCall(r) \/ EnterFinalize(r) \/ LeaveFinalize(r) \/ LeaveCall(r)
             \/ \E c \in Calls[r] : EnterCall(r, c)
      PROVE  StacksOK' /\ RootOK'
  <2>1. PICK events : Records(r, events)
    BY <1>1, <1>5, TracerRecords
  <2>2. InsideNow' = InsideNow
    BY <1>1, <1>2, <2>1, RecordsKeepFiles
  <2>3. pc[r] # "end"
    BY <2>1 DEF Records, GoesOn
  <2>4. phase # "closed"
    BY <1>1, <2>3 DEF RootOK
  <2> QED
    BY <1>1, <1>2, <2>2, <2>4 DEF StacksOK, RootOK, SomeContainer
<1> QED
  BY <1>3, <1>4, <1>5 DEF TracerStep, TracerNext

LEMMA LoopsKeepOutput ==
  ASSUME OutputInv, ScatterStep \/ CollectStep \/ LoopEnd, UNCHANGED tracerVars
  PROVE  StacksOK' /\ RootOK' /\ LoopOK'
<1>1. FilesInv /\ StacksOK /\ RootOK /\ LoopOK
  BY DEF OutputInv
<1>2. UNCHANGED <<pc, call, trace, root, container, stack>>
  BY DEF tracerVars, ScatterStep, CollectStep, LoopEnd, outputVars
<1>3. InsideNow' = InsideNow
  BY <1>2 DEF InsideNow, InsideAll, Current
<1>4. phase # "closed" /\ phase' # "closed"
  BY DEF ScatterStep, CollectStep, LoopEnd
<1>5. StacksOK' /\ RootOK'
  BY <1>1, <1>2, <1>3, <1>4 DEF StacksOK, RootOK, SomeContainer
<1>6. CASE ScatterStep \/ CollectStep
  <2>1. /\ phase \in {"scatter", "collect"} /\ phase' = phase /\ ev' = ev
        /\ rank < ev.v /\ rank' = rank + 1
    BY <1>6 DEF ScatterStep, CollectStep
  <2>2. fail' \in BOOLEAN
    BY <1>1, <1>6 DEF ScatterStep, CollectStep, LinkFrom, LinkTo, LoopOK
  <2>3. ev.v \in 0..N /\ rank \in 0..ev.v /\ N \in Nat
    BY <1>1, <2>1, RanksAreIds DEF LoopOK
  <2>4. rank' \in 0..ev.v
    BY <2>1, <2>3
  <2> QED
    BY <1>1, <1>5, <2>1, <2>2, <2>3, <2>4 DEF LoopOK
<1>7. CASE LoopEnd
  BY <1>1, <1>5, <1>7 DEF LoopEnd, LoopOK
<1> QED
  BY <1>6, <1>7

LEMMA CloseKeepsOutput ==
  ASSUME OutputInv, CloseTrace
  PROVE  StacksOK' /\ RootOK' /\ LoopOK'
<1>1. FilesInv /\ StacksOK /\ RootOK /\ LoopOK
  BY DEF OutputInv
<1>2. /\ UNCHANGED <<pc, call, trace, container, stack, ev, rank, fail>>
      /\ phase = "decode" /\ phase' = "closed"
      /\ root' = IF root = "live" THEN "gone" ELSE root
      /\ \A r \in Ranks : pc[r] = "end"
      /\ fail \/ trace = <<>>
  BY DEF CloseTrace, Close, tracerVars
<1>3. InsideNow' = InsideNow
  BY <1>2 DEF InsideNow, InsideAll, Current
<1> QED
  BY <1>1, <1>2, <1>3 DEF StacksOK, RootOK, LoopOK, SomeContainer

LEMMA OutputInvStep ==
  ASSUME OutputInv, [Next]_vars
  PROVE  OutputInv'
<1>1. FilesInv /\ StacksOK /\ RootOK /\ LoopOK
  BY DEF OutputInv
<1>2. FilesInv'
  BY <1>1, FilesInvStep
<1>3. CASE TracerStep
  BY <1>2, <1>3, TracerKeepsOutput DEF OutputInv, FilesInv
<1>4. CASE DecodeNext
  <2>1. PICK i \in NextToDecode : Decode(trace[i]) /\ trace' = Without(trace, i)
    BY <1>4 DEF DecodeNext
  <2>2. pc' = pc /\ call' = call
    BY <1>4 DEF DecodeNext
  <2> QED
    BY <1>2, <2>1, <2>2, DecodeKeepsStacks, DecodeKeepsRoot DEF OutputInv
<1>5. CASE (ScatterStep \/ CollectStep \/ LoopEnd) /\ UNCHANGED tracerVars
  BY <1>2, <1>5, LoopsKeepOutput DEF OutputInv
<1>6. CASE CloseTrace
  BY <1>2, <1>6, CloseKeepsOutput DEF OutputInv
<1>7. CASE UNCHANGED vars
  <2>1. UNCHANGED <<pc, call, trace, container, stack, root, phase, ev, rank, fail>>
    BY <1>7 DEF vars, tracerVars, converterVars, outputVars
  <2>2. InsideNow' = InsideNow
    BY <2>1 DEF InsideNow, InsideAll, Current
  <2> QED
    BY <1>1, <1>2, <2>1, <2>2 DEF OutputInv, StacksOK, RootOK, LoopOK, SomeContainer
<1> QED
  BY <1>3, <1>4, <1>5, <1>6, <1>7 DEF Next, ConverterNext

LEMMA OutputInvariant == Spec => []OutputInv
<1>1. Init => OutputInv
  BY OutputInvInit
<1>2. OutputInv /\ [Next]_vars => OutputInv'
  BY OutputInvStep
<1> QED
  BY <1>1, <1>2, PTL DEF Spec

-----------------------------------------------------------------------------
\* The variables keep their types, whatever the application does: in particular
\* send_mark never counts more sends than the calls that the rank made.
THEOREM TypesAreCorrect == Spec => []TypeOK
<1>1. Spec => []Files!LinksInv
  <2>1. Files!AnySpec => []Files!LinksInv
    BY Files!LinksInvariant, FilesAssumptions
  <2> QED
    BY <2>1, FilesAreOrdered, PTL
<1>2. Files!LinksInv => KeysTypeOK
  <2>1. Files!KeysTypeOK => KeysTypeOK
    BY SameSets DEF Files!KeysTypeOK, KeysTypeOK, Files!Key, Key
  <2> QED
    BY <2>1 DEF Files!LinksInv, Files!KeysInv
<1>3. ASSUME OutputInv, KeysTypeOK
      PROVE  TypeOK
  <2>1. RequestsTypeOK /\ MarksCountSends /\ LoopOK
    BY <1>3 DEF OutputInv, FilesInv, RequestsInv
  <2>2. pc \in [Ranks -> {"start", "app", "call", "end"}]
    BY <2>1 DEF RequestsTypeOK
  <2>3. send_mark \in [Ranks -> 0..MaxCalls]
    <3> SUFFICES ASSUME NEW r \in Ranks
                 PROVE  send_mark[r] \in 0..MaxCalls
      BY <2>1 DEF RequestsTypeOK
    <3>1. send_mark[r] \in Nat /\ ncalls[r] \in Nat /\ MaxCalls \in Nat
      BY <2>1, TracerAssumption DEF RequestsTypeOK
    <3>2. send_mark[r] <= ncalls[r] /\ ncalls[r] <= MaxCalls
      BY <2>1, <3>1 DEF MarksCountSends
    <3> QED
      BY <3>1, <3>2
  <2>4. \A r \in Ranks : DOMAIN irecv_root[r] \subseteq Reqs /\ DOMAIN isend_root[r] \subseteq Reqs
    BY <2>1 DEF RequestsTypeOK, Trees
  <2>5. /\ phase \in {"decode", "scatter", "collect", "closed"} /\ rank \in 0..N
        /\ fail \in BOOLEAN
    BY <2>1, RanksAreIds DEF LoopOK
  <2> QED
    BY <1>3, <2>2, <2>3, <2>4, <2>5 DEF TypeOK
<1> QED
  BY <1>1, <1>2, <1>3, OutputInvariant, PTL

\* A converted trace is whole: whatever the application and the order in which its files
\* are merged, no process keeps a state or a container when the conversion succeeded.
THEOREM TracesAreWhole == Spec => []TraceIsWhole
<1>1. ASSUME OutputInv
      PROVE  TraceIsWhole
  <2>1. FilesInv /\ StacksOK /\ RootOK
    BY <1>1 DEF OutputInv
  <2>2. 0 \in Ranks
    BY MpiAssumption DEF Ranks
  <2>3. ASSUME phase = "closed", ~fail
        PROVE  root = "gone" /\ \A r \in Ranks : container[r] = "gone" /\ stack[r] = <<>>
    <3>1. trace = <<>> /\ \A r \in Ranks : pc[r] = "end"
      BY <2>1, <2>3 DEF RootOK
    <3>2. \A r \in Ranks : container[r] = "gone"
      BY <2>1, <3>1 DEF FilesInv, ContainersFit, LastWaits
    <3>3. root = "gone"
      BY <2>1, <2>2, <2>3, <3>2 DEF RootOK, SomeContainer
    <3>4. \A r \in Ranks : InsideNow[r] = NoOp
      <4>1. \A r \in Ranks : Current[r] = NoOp
        BY <3>1 DEF Current
      <4>2. \A r \in Ranks : Bounds(<<>>, r, 1) = {}
        BY DEF Bounds
      <4> QED
        BY <3>1, <4>1, <4>2 DEF InsideNow, InsideAll, InsideFrom
    <3>5. \A r \in Ranks : stack[r] = <<>>
      BY <2>1, <3>4 DEF StacksOK
    <3> QED
      BY <3>2, <3>3, <3>5
  <2>4. ASSUME NEW r \in Ranks, container[r] = "live", ~fail
        PROVE  root = "live"
    <3>1. SomeContainer
      BY <2>4 DEF SomeContainer
    <3>2. phase # "closed"
      BY <2>3, <2>4
    <3> QED
      BY <2>1, <3>1, <3>2 DEF RootOK
  <2> QED
    BY <2>3, <2>4 DEF TraceIsWhole
<1> QED
  BY <1>1, OutputInvariant, PTL

\* The converter pops a state of a process only where it converts the OUT of the call whose
\* IN pushed it, however the files of the other processes are merged between the two.
THEOREM StatesPopTheirOwn == Spec => PopsItsOwnState
<1>1. ASSUME OutputInv, [Next]_vars
      PROVE  [\A r \in Ranks : Len(stack'[r]) < Len(stack[r]) =>
                \E i \in NextToDecode :
                  /\ trace[i].id1 = r /\ trace[i].op = stack[r][Len(stack[r])]
                  /\ trace' = Without(trace, i)]_vars
  <2>1. FilesInv /\ StacksOK
    BY <1>1 DEF OutputInv
  <2> SUFFICES ASSUME NEW r \in Ranks, Len(stack'[r]) < Len(stack[r])
               PROVE  \E i \in NextToDecode :
                        /\ trace[i].id1 = r /\ trace[i].op = stack[r][Len(stack[r])]
                        /\ trace' = Without(trace, i)
    OBVIOUS
  <2>2. stack' # stack
    <3>1. Len(stack[r]) \in Int
      BY <2>1 DEF StacksOK
    <3> QED
      BY <3>1
  <2>3. DecodeNext
    BY <1>1, <2>2 DEF vars, converterVars, outputVars, Next, TracerStep, ConverterNext,
                      ScatterStep, CollectStep, LoopEnd, CloseTrace, Close
  <2>4. PICK i \in NextToDecode : Decode(trace[i]) /\ trace' = Without(trace, i)
    BY <2>3 DEF DecodeNext
  <2> DEFINE e == trace[i]
  <2>5. /\ e.id1 \in Ranks
        /\ e.type = "IN" => InsideNow[e.id1] = NoOp /\ InsideNow' = [InsideNow EXCEPT ![e.id1] = e.op]
        /\ e.type = "OUT" => /\ InsideNow[e.id1] = e.op /\ e.op # NoOp
                             /\ InsideNow' = [InsideNow EXCEPT ![e.id1] = NoOp]
    BY <2>1, <2>3, <2>4, DecodeInside DEF DecodeNext
  <2>6. Decode(e)
    BY <2>4
  <2> HIDE DEF e
  <2>7. DecodeIn(e) \/ DecodeOut(e)
    BY <2>2, <2>6 DEF Decode, DecodeSend, DecodeRecv, DecodeLoop, DecodeInit, outputVars
  <2>8. CASE DecodeIn(e)
    <3>1. e.type = "IN" /\ (stack' = stack \/ stack' = [stack EXCEPT ![e.id1] = Append(@, e.op)])
      BY <2>8 DEF DecodeIn
    <3>2. stack = [q \in Ranks |-> stack[q]]
      BY <2>1 DEF StacksOK
    <3>3. stack' = [stack EXCEPT ![e.id1] = Append(@, e.op)]
      BY <2>2, <3>1
    <3>4. e.id1 = r
      BY <3>2, <3>3
    <3>5. Len(Append(stack[r], e.op)) = Len(stack[r]) + 1 /\ Len(stack[r]) \in Nat
      <4>1. stack[r] = <<>> \/ stack[r] = <<InsideNow[r]>>
        BY <2>1 DEF StacksOK
      <4>2. Len(Append(<<>>, e.op)) = 1 /\ Len(<<>>) = 0
        OBVIOUS
      <4>3. Len(Append(<<InsideNow[r]>>, e.op)) = 2 /\ Len(<<InsideNow[r]>>) = 1
        <5>1. \A x, y : Len(Append(<<x>>, y)) = 2 /\ Len(<<x>>) = 1
          OBVIOUS
        <5> QED
          BY <5>1
      <4> QED
        BY <4>1, <4>2, <4>3
    <3>6. stack'[r] = Append(stack[r], e.op)
      BY <3>2, <3>3, <3>4
    <3> QED
      BY <3>5, <3>6
  <2>9. CASE DecodeOut(e)
    <3>1. e.type = "OUT" /\ stack' = [stack EXCEPT ![e.id1] = SubSeq(@, 1, Len(@) - 1)] /\ ~NoStates
      BY <2>2, <2>9 DEF DecodeOut
    <3>2. e.id1 = r
      BY <2>1, <2>5, <3>1 DEF StacksOK
    <3>3. stack[r] = <<e.op>>
      BY <2>1, <2>5, <3>1, <3>2 DEF StacksOK
    <3>4. stack[r][Len(stack[r])] = e.op
      BY <3>3
    <3> QED
      BY <2>4, <3>2, <3>4 DEF e
  <2> QED
    BY <2>7, <2>8, <2>9
<1> QED
  BY <1>1, OutputInvariant, PTL DEF Spec, PopsItsOwnState
===============================================================================
