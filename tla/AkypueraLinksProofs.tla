-------------------------- MODULE AkypueraLinksProofs --------------------------
(***************************************************************************)
(* The links of messages, for any application that sends and receives with *)
(* the calls that libaky follows, when the clocks are synchronized: no     *)
(* receive lacks its key, and what is left open at the end are the         *)
(* messages that nobody received.  If it receives its messages in their    *)
(* order, the two ends of each link are of one message.                    *)
(*                                                                         *)
(* The first argument counts.  Between two ranks, the keys that wait and   *)
(* the sends that are recorded and not converted are as many as the        *)
(* receives that are recorded and not converted, the messages that arrived *)
(* at a request, and those that wait for a receive; and no prefix of the   *)
(* trace holds more receives than there are keys and sends for.            *)
(*                                                                         *)
(* The second one compares.  What is counted are the same messages, once   *)
(* in the order of their keys and once in the order of their receives, and *)
(* both are the order in which they were sent.                             *)
(***************************************************************************)
EXTENDS AkypueraFilesProofs

-----------------------------------------------------------------------------
\* How many of the first k events of a sequence are in a set.
Upto(t, E, k) == {i \in 1..k : t[i] \in E}
Count(t, E, k) == Cardinality(Upto(t, E, k))
CountAll(t, E) == Count(t, E, Len(t))

LEMMA CountType ==
  ASSUME NEW t, NEW E, NEW k \in Nat
  PROVE  IsFiniteSet(Upto(t, E, k)) /\ Count(t, E, k) \in Nat
<1>1. IsFiniteSet(1..k) /\ Upto(t, E, k) \subseteq 1..k
  BY FS_Interval DEF Upto
<1>2. IsFiniteSet(Upto(t, E, k))
  BY <1>1, FS_Subset
<1> QED
  BY <1>2, FS_CardinalityType DEF Count

LEMMA CountNone ==
  ASSUME NEW t, NEW E, NEW k \in Nat, \A i \in 1..k : t[i] \notin E
  PROVE  Count(t, E, k) = 0
<1>1. Upto(t, E, k) = {}
  BY DEF Upto
<1> QED
  BY <1>1, FS_EmptySet DEF Count

LEMMA CountNext ==
  ASSUME NEW t, NEW E, NEW k \in Nat
  PROVE  Count(t, E, k + 1) = Count(t, E, k) + (IF t[k + 1] \in E THEN 1 ELSE 0)
<1>1. IsFiniteSet(Upto(t, E, k)) /\ Count(t, E, k) \in Nat
  BY CountType
<1>2. k + 1 \notin Upto(t, E, k)
  BY DEF Upto
<1>3. CASE t[k + 1] \in E
  <2>1. Upto(t, E, k + 1) = Upto(t, E, k) \cup {k + 1}
    BY <1>3 DEF Upto
  <2> QED
    BY <1>1, <1>2, <1>3, <2>1, FS_AddElement DEF Count
<1>4. CASE t[k + 1] \notin E
  <2>1. Upto(t, E, k + 1) = Upto(t, E, k)
    BY <1>4 DEF Upto
  <2> QED
    BY <1>1, <1>4, <2>1 DEF Count
<1> QED
  BY <1>3, <1>4

LEMMA CountSame ==
  ASSUME NEW t, NEW u, NEW E, NEW k \in Nat, \A i \in 1..k : t[i] = u[i]
  PROVE  Count(t, E, k) = Count(u, E, k)
<1>1. Upto(t, E, k) = Upto(u, E, k)
  BY DEF Upto
<1> QED
  BY <1>1 DEF Count

LEMMA CountGrows ==
  ASSUME NEW t, NEW E, NEW j \in Nat, NEW k \in Nat, j <= k
  PROVE  Count(t, E, j) <= Count(t, E, k)
<1>1. Upto(t, E, j) \subseteq Upto(t, E, k) /\ IsFiniteSet(Upto(t, E, k))
  BY CountType DEF Upto
<1> QED
  BY <1>1, FS_Subset DEF Count

\* What follows the first n events is counted from there.
LEMMA CountJoins ==
  ASSUME NEW t, NEW u, NEW E, NEW n \in Nat, NEW k \in Nat,
         \A i \in 1..k : t[n + i] = u[i]
  PROVE  Count(t, E, n + k) = Count(t, E, n) + Count(u, E, k)
<1> DEFINE A == Upto(t, E, n)
           B == Upto(u, E, k)
           C == {j \in (n + 1)..(n + k) : t[j] \in E}
           f == [i \in B |-> n + i]
<1>1. IsFiniteSet(A) /\ IsFiniteSet(B) /\ Cardinality(A) \in Nat /\ Cardinality(B) \in Nat
  BY CountType DEF Count
<1>2. f \in Bijection(B, C)
  <2>1. \A i \in B : i \in 1..k /\ u[i] \in E /\ n + i \in C
    BY DEF Upto
  <2>2. f \in [B -> C]
    BY <2>1
  <2>3. \A i, j \in B : f[i] = f[j] => i = j
    BY <2>1
  <2>4. ASSUME NEW j \in C PROVE \E i \in B : f[i] = j
    <3>1. j - n \in 1..k /\ n + (j - n) = j
      OBVIOUS
    <3>2. j - n \in B
      BY <3>1 DEF Upto
    <3> QED
      BY <3>1, <3>2
  <2> HIDE DEF f, B, C
  <2> QED
    BY <2>2, <2>3, <2>4 DEF Bijection, Injection, Surjection, IsInjective
<1>3. IsFiniteSet(C) /\ Cardinality(C) = Cardinality(B)
  <2>1. ExistsBijection(B, C)
    BY <1>2 DEF ExistsBijection
  <2> HIDE DEF B, C
  <2> QED
    BY <1>1, <2>1, FS_Bijection
<1>4. Upto(t, E, n + k) = A \cup C
  <2>1. 1..(n + k) = 1..n \cup (n + 1)..(n + k)
    OBVIOUS
  <2> QED
    BY <2>1 DEF Upto
<1>5. Cardinality(A \cap C) = 0
  <2>1. A \cap C = {}
    BY DEF Upto
  <2> HIDE DEF A, C
  <2> QED
    BY <2>1, FS_EmptySet, Zenon
<1> HIDE DEF A, B, C
<1>6. Cardinality(A \cup C) = Cardinality(A) + Cardinality(C) - Cardinality(A \cap C)
  BY <1>1, <1>3, FS_Union
<1>7. Cardinality(A \cup C) = Cardinality(A) + Cardinality(B)
  BY <1>1, <1>3, <1>5, <1>6
<1>8. Cardinality(Upto(t, E, n + k)) = Cardinality(A) + Cardinality(B)
  BY <1>4, <1>7, Zenon
<1> QED
  BY <1>8 DEF Count, A, B

\* A sequence that is appended is counted on its own.
LEMMA CountConcat ==
  ASSUME NEW S, NEW t \in Seq(S), NEW v \in Seq(S), NEW E
  PROVE  /\ \A k \in 0..Len(t) : Count(t \o v, E, k) = Count(t, E, k)
         /\ \A k \in 0..Len(v) : Count(t \o v, E, Len(t) + k) = CountAll(t, E) + Count(v, E, k)
         /\ CountAll(t \o v, E) = CountAll(t, E) + CountAll(v, E)
<1> DEFINE u == t \o v
<1>1. Concatenates(u, t, v) /\ Len(t) \in Nat /\ Len(v) \in Nat
  BY ConcatShape
<1> HIDE DEF u
<1>2. /\ Len(u) = Len(t) + Len(v)
      /\ \A i \in 1..Len(t) : u[i] = t[i]
      /\ \A i \in 1..Len(v) : u[Len(t) + i] = v[i]
  BY <1>1 DEF Concatenates
<1>3. ASSUME NEW k \in 0..Len(t) PROVE Count(u, E, k) = Count(t, E, k)
  <2>1. k \in Nat /\ \A i \in 1..k : u[i] = t[i]
    BY <1>1, <1>2
  <2> QED
    BY <2>1, CountSame
<1>4. ASSUME NEW k \in 0..Len(v)
      PROVE  Count(u, E, Len(t) + k) = CountAll(t, E) + Count(v, E, k)
  <2>1. k \in Nat /\ \A i \in 1..k : u[Len(t) + i] = v[i]
    BY <1>1, <1>2
  <2>2. Count(u, E, Len(t) + k) = Count(u, E, Len(t)) + Count(v, E, k)
    BY <1>1, <2>1, CountJoins
  <2>3. Count(u, E, Len(t)) = CountAll(t, E)
    BY <1>1, <1>3 DEF CountAll
  <2> QED
    BY <2>2, <2>3
<1>5. CountAll(u, E) = CountAll(t, E) + CountAll(v, E)
  <2>1. Len(v) \in 0..Len(v)
    BY <1>1
  <2>2. Count(u, E, Len(t) + Len(v)) = CountAll(t, E) + Count(v, E, Len(v))
    BY <1>4, <2>1
  <2> QED
    BY <1>2, <2>2 DEF CountAll
<1> QED
  BY <1>3, <1>4, <1>5 DEF u

LEMMA CountAppended ==
  ASSUME NEW S, NEW t \in Seq(S), NEW v \in Seq(S), NEW E, CountAll(v, E) = 0
  PROVE  CountAll(t \o v, E) = CountAll(t, E)
<1>1. CountAll(t \o v, E) = CountAll(t, E) + CountAll(v, E)
  BY CountConcat
<1>2. CountAll(t, E) \in Nat
  BY CountType DEF CountAll
<1> QED
  BY <1>1, <1>2

LEMMA CountAfterFirst ==
  ASSUME NEW t, NEW u, NEW E, NEW k \in Nat, \A i \in 1..k : t[1 + i] = u[i]
  PROVE  Count(t, E, 1 + k) = Count(t, E, 1) + Count(u, E, k)
<1> DEFINE n == 1
<1>1. n \in Nat /\ \A i \in 1..k : t[n + i] = u[i]
  OBVIOUS
<1> HIDE DEF n
<1>2. Count(t, E, n + k) = Count(t, E, n) + Count(u, E, k)
  BY <1>1, CountJoins
<1> QED
  BY <1>2 DEF n

\* The first event of a sequence is counted, and then the others.
LEMMA CountTail ==
  ASSUME NEW S, NEW t \in Seq(S), NEW u, t # <<>>, Shortens(u, t, 1), NEW E, NEW k \in Nat,
         k <= Len(u)
  PROVE  Count(t, E, k + 1) = Count(u, E, k) + (IF t[1] \in E THEN 1 ELSE 0)
<1>1. Len(t) \in Nat /\ Len(u) = Len(t) - 1 /\ \A i \in 1..(Len(t) - 1) : u[i] = t[i + 1]
  BY DEF Shortens
<1>2. \A i \in 1..k : t[1 + i] = u[i]
  BY <1>1
<1>3. Count(t, E, 1 + k) = Count(t, E, 1) + Count(u, E, k)
  BY <1>2, CountAfterFirst
<1>4. Count(t, E, 1) = IF t[1] \in E THEN 1 ELSE 0
  <2>1. Count(t, E, 0) = 0
    BY CountNone
  <2>2. Count(t, E, 0 + 1) = Count(t, E, 0) + (IF t[0 + 1] \in E THEN 1 ELSE 0)
    BY CountNext
  <2>3. 0 + 1 = 1
    OBVIOUS
  <2> QED
    BY <2>1, <2>2, <2>3
<1>5. k + 1 = 1 + k /\ Count(u, E, k) \in Nat
  BY CountType
<1>6. CASE t[1] \in E
  BY <1>3, <1>4, <1>5, <1>6
<1>7. CASE t[1] \notin E
  BY <1>3, <1>4, <1>5, <1>7
<1> QED
  BY <1>6, <1>7

\* Of two events, at most one of which is counted.
LEMMA CountFew ==
  ASSUME NEW a, NEW b, NEW E
  PROVE  /\ a \notin E /\ b \notin E => CountAll(<<a, b>>, E) = 0
         /\ a \in E /\ b \notin E => CountAll(<<a, b>>, E) = 1
         /\ a \notin E /\ b \in E => CountAll(<<a, b>>, E) = 1
<1>1. ASSUME NEW t PROVE Count(t, E, 0) = 0
  BY CountNone
<1>2. ASSUME NEW t PROVE Count(t, E, 0 + 1) = Count(t, E, 0) + (IF t[0 + 1] \in E THEN 1 ELSE 0)
  BY CountNext
<1>3. ASSUME NEW t PROVE Count(t, E, 1 + 1) = Count(t, E, 1) + (IF t[1 + 1] \in E THEN 1 ELSE 0)
  BY CountNext
<1>4. 0 + 1 = 1 /\ 1 + 1 = 2
  OBVIOUS
<1>5. ASSUME NEW t
      PROVE  /\ Count(t, E, 1) = IF t[1] \in E THEN 1 ELSE 0
             /\ Count(t, E, 2) = (IF t[1] \in E THEN 1 ELSE 0) + (IF t[2] \in E THEN 1 ELSE 0)
  BY <1>1, <1>2, <1>3, <1>4
<1> DEFINE pair == <<a, b>>
<1>6. Len(pair) = 2 /\ pair[1] = a /\ pair[2] = b
  OBVIOUS
<1> HIDE DEF pair
<1>7. Count(pair, E, 2) = (IF pair[1] \in E THEN 1 ELSE 0) + (IF pair[2] \in E THEN 1 ELSE 0)
  BY <1>5
<1>8. CountAll(pair, E) = (IF a \in E THEN 1 ELSE 0) + (IF b \in E THEN 1 ELSE 0)
  BY <1>6, <1>7 DEF CountAll
<1> QED
  BY <1>8 DEF pair

-----------------------------------------------------------------------------
\* No prefix of t holds more of F than it holds of E, and q more.
AheadOf(t, E, F, q) == \A k \in 0..Len(t) : Count(t, F, k) <= q + Count(t, E, k)

\* It stays so when what is appended has none of E or none of F, if it is so of all.
LEMMA LongerStaysAhead ==
  ASSUME NEW S, NEW t \in Seq(S), NEW v \in Seq(S), NEW E, NEW F, NEW q \in Nat,
         AheadOf(t, E, F, q), CountAll(v, E) = 0 \/ CountAll(v, F) = 0,
         CountAll(t \o v, F) <= q + CountAll(t \o v, E)
  PROVE  AheadOf(t \o v, E, F, q)
<1> SUFFICES ASSUME NEW k \in 0..Len(t \o v)
             PROVE  Count(t \o v, F, k) <= q + Count(t \o v, E, k)
  BY DEF AheadOf
<1>1. Len(t \o v) = Len(t) + Len(v) /\ Len(t) \in Nat /\ Len(v) \in Nat
  OBVIOUS
<1>2. CASE k \in 0..Len(t)
  <2>1. Count(t \o v, F, k) = Count(t, F, k) /\ Count(t \o v, E, k) = Count(t, E, k)
    BY <1>2, CountConcat
  <2> QED
    BY <1>2, <2>1 DEF AheadOf
<1>3. CASE k \notin 0..Len(t)
  <2> DEFINE j == k - Len(t)
  <2>1. j \in 0..Len(v) /\ k = Len(t) + j /\ j \in Nat /\ Len(t) \in 0..Len(t)
    BY <1>1, <1>3
  <2> HIDE DEF j
  <2>2. /\ Count(t \o v, F, k) = CountAll(t, F) + Count(v, F, j)
        /\ Count(t \o v, E, k) = CountAll(t, E) + Count(v, E, j)
    BY <2>1, CountConcat
  <2>3. /\ CountAll(t \o v, F) = CountAll(t, F) + CountAll(v, F)
        /\ CountAll(t \o v, E) = CountAll(t, E) + CountAll(v, E)
    BY CountConcat
  <2>4. CountAll(t, F) <= q + CountAll(t, E)
    BY <2>1 DEF AheadOf, CountAll
  <2>5. Count(v, E, j) <= CountAll(v, E) /\ Count(v, F, j) <= CountAll(v, F)
    BY <1>1, <2>1, CountGrows DEF CountAll
  <2>6. /\ CountAll(t, E) \in Nat /\ CountAll(t, F) \in Nat /\ CountAll(v, E) \in Nat
        /\ CountAll(v, F) \in Nat /\ Count(v, E, j) \in Nat /\ Count(v, F, j) \in Nat
    BY <1>1, <2>1, CountType DEF CountAll
  <2>7. CASE CountAll(v, E) = 0
    BY <2>2, <2>3, <2>5, <2>6, <2>7
  <2>8. CASE CountAll(v, F) = 0
    BY <2>2, <2>4, <2>5, <2>6, <2>8
  <2> QED
    BY <2>7, <2>8
<1> QED
  BY <1>2, <1>3

\* It stays so when the first event goes, and q with it.
LEMMA ShorterStaysAhead ==
  ASSUME NEW S, NEW t \in Seq(S), NEW u, t # <<>>, Shortens(u, t, 1), NEW E, NEW F,
         NEW q \in Nat, AheadOf(t, E, F, q), NEW next \in Nat,
         next = q + (IF t[1] \in E THEN 1 ELSE 0) - (IF t[1] \in F THEN 1 ELSE 0)
  PROVE  AheadOf(u, E, F, next)
<1> SUFFICES ASSUME NEW k \in 0..Len(u)
             PROVE  Count(u, F, k) <= next + Count(u, E, k)
  BY DEF AheadOf
<1>1. Len(t) \in Nat /\ Len(u) = Len(t) - 1
  BY DEF Shortens
<1>2. k \in Nat /\ k <= Len(u) /\ k + 1 \in 0..Len(t)
  BY <1>1
<1>3. Count(t, F, k + 1) <= q + Count(t, E, k + 1)
  BY <1>2 DEF AheadOf
<1>4. /\ Count(t, F, k + 1) = Count(u, F, k) + (IF t[1] \in F THEN 1 ELSE 0)
      /\ Count(t, E, k + 1) = Count(u, E, k) + (IF t[1] \in E THEN 1 ELSE 0)
  BY <1>2, CountTail
<1>5. Count(u, E, k) \in Nat /\ Count(u, F, k) \in Nat
  BY <1>2, CountType
<1> QED
  BY <1>3, <1>4, <1>5

-----------------------------------------------------------------------------
(***************************************************************************)
(* The application.  Its messages are sent and received by calls that      *)
(* record both ends (MPI_Sendrecv and the tests do not), its irecvs are on *)
(* communicators that number their members as MPI_COMM_WORLD does (the     *)
(* waits record the source as it is in the communicator), and it makes no  *)
(* rooted collective call.  The key table has room for every pair of ranks.*)
(***************************************************************************)
Untranslated(comm) == \A i \in DOMAIN Comms[comm] : Comms[comm][i] = i - 1

FollowedCalls ==
  \A r \in Ranks : \A c \in Calls[r] :
    /\ c.op \notin TestOps \cup SendrecvOps \cup DownOps \cup UpOps
    /\ c.op = "MPI_Irecv" => Untranslated(c.comm)

MessageName(s, d) == <<"ptp", s, d>>
MessageNames == {MessageName(p[1], p[2]) : p \in Ranks \X Ranks}

LinksFollowed ==
  /\ Synced /\ ~NoLinks
  /\ FollowedCalls
  /\ Cardinality(MessageNames) <= TableSize

LEMMA FollowedAreTracked ==
  ASSUME FollowedCalls
  PROVE  NoTests
  BY DEF FollowedCalls, NoTests

\* The events of such an application.
CallEvents == {e \in RecordedEvents : e.type \in {"MPI_INIT", "IN", "OUT"}}
MessageEvents ==
  CallEvents \cup {e \in RecordedEvents :
                     e.type \in {"AKY_PTP_SEND", "AKY_PTP_RECV"} /\ e.v \in Ranks}
SendEvents(s, d) == {e \in MessageEvents : e.type = "AKY_PTP_SEND" /\ e.id1 = s /\ e.v = d}
RecvEvents(s, d) == {e \in MessageEvents : e.type = "AKY_PTP_RECV" /\ e.id1 = d /\ e.v = s}

\* The messages between two ranks that arrived at a request, or wait for a receive.
Held(s, d) == {a \in Slots : request[d][a].st = "arrived" /\ request[d][a].msg[2] = s}
Pending(s, d) == Cardinality(Held(s, d)) + Len(net[s][d])

\* A step records as many sends and receives as the messages pending become more or less.
Transfers(events) ==
  /\ events \in Seq(MessageEvents)
  /\ \A s, d \in Ranks :
       /\ CountAll(events, SendEvents(s, d)) = 0 \/ CountAll(events, RecvEvents(s, d)) = 0
       /\ CountAll(events, SendEvents(s, d)) + Pending(s, d)
            = CountAll(events, RecvEvents(s, d)) + Pending(s, d)'

LEMMA SlotsFinite == IsFiniteSet(Slots)
  BY MpiAssumption, FS_AddElement DEF Slots

LEMMA HeldType ==
  ASSUME NEW s, NEW d
  PROVE  IsFiniteSet(Held(s, d)) /\ Cardinality(Held(s, d)) \in Nat
<1>1. Held(s, d) \subseteq Slots
  BY DEF Held
<1>2. IsFiniteSet(Held(s, d))
  BY <1>1, SlotsFinite, FS_Subset
<1> QED
  BY <1>2, FS_CardinalityType

LEMMA PendingType ==
  ASSUME RequestsInv, NEW s \in Ranks, NEW d \in Ranks
  PROVE  Pending(s, d) \in Nat /\ Len(net[s][d]) \in Nat /\ net[s][d] \in Seq(NetMessage)
<1>1. net[s] \in [Ranks -> Seq(NetMessage)]
  BY DEF RequestsInv, RequestsTypeOK
<1>2. net[s][d] \in Seq(NetMessage) /\ Len(net[s][d]) \in Nat
  BY <1>1
<1> QED
  BY <1>2, HeldType DEF Pending

LEMMA PendingNext ==
  ASSUME RequestsInv', NEW s \in Ranks, NEW d \in Ranks
  PROVE  /\ Pending(s, d)' \in Nat /\ Len(net'[s][d]) \in Nat
         /\ IsFiniteSet(Held(s, d)') /\ Cardinality(Held(s, d)') \in Nat
<1>1. net'[s] \in [Ranks -> Seq(NetMessage)]
  BY DEF RequestsInv, RequestsTypeOK
<1>2. Len(net'[s][d]) \in Nat
  BY <1>1
<1>3. Held(s, d)' \subseteq Slots
  BY DEF Held
<1>4. IsFiniteSet(Held(s, d)')
  BY <1>3, SlotsFinite, FS_Subset
<1>5. Cardinality(Held(s, d)') \in Nat
  BY <1>4, FS_CardinalityType
<1> QED
  BY <1>2, <1>4, <1>5 DEF Pending

\* Events that are about no message.
LEMMA CallEventsCount ==
  ASSUME NEW events \in Seq(CallEvents), NEW s, NEW d
  PROVE  /\ events \in Seq(MessageEvents)
         /\ CountAll(events, SendEvents(s, d)) = 0 /\ CountAll(events, RecvEvents(s, d)) = 0
<1>1. CallEvents \subseteq MessageEvents
  BY DEF MessageEvents
<1>2. Len(events) \in Nat /\ \A i \in 1..Len(events) : events[i] \in CallEvents
  OBVIOUS
<1>3. \A i \in 1..Len(events) :
        events[i] \notin SendEvents(s, d) /\ events[i] \notin RecvEvents(s, d)
  BY <1>2 DEF CallEvents, SendEvents, RecvEvents
<1>4. events \in Seq(MessageEvents)
  BY <1>1
<1> QED
  BY <1>2, <1>3, <1>4, CountNone DEF CountAll

\* A step that records nothing of messages, and by which none arrives or is completed.
StillArrived ==
  \A r \in Ranks, a \in Slots :
    \/ request'[r][a] = request[r][a]
    \/ request[r][a].st # "arrived" /\ request'[r][a].st # "arrived"

LEMMA HeldStays ==
  ASSUME StillArrived, NEW s \in Ranks, NEW d \in Ranks
  PROVE  Held(s, d)' = Held(s, d)
  BY DEF StillArrived, Held

LEMMA CallsTransfer ==
  ASSUME RequestsInv, NEW events \in Seq(CallEvents), StillArrived, net' = net
  PROVE  Transfers(events)
<1> SUFFICES ASSUME NEW s \in Ranks, NEW d \in Ranks
             PROVE  /\ events \in Seq(MessageEvents)
                    /\ CountAll(events, SendEvents(s, d)) = 0
                    /\ CountAll(events, RecvEvents(s, d)) = 0
                    /\ Pending(s, d)' = Pending(s, d)
  BY CallEventsCount, PendingType DEF Transfers
<1>1. Pending(s, d)' = Pending(s, d)
  BY HeldStays DEF Pending
<1> QED
  BY <1>1, CallEventsCount

-----------------------------------------------------------------------------
(***************************************************************************)
(* Whom a message is from: its sender is in its name, and the source that  *)
(* a wait or MPI_Recv records of a message that arrived is its sender.     *)
(***************************************************************************)
SourceOf(r, a) ==
  IF a = Blocking THEN AKY_translate_rank(call[r].comm, request[r][a].src) ELSE request[r][a].src

SentBy(s) == \A d \in Ranks : \A i \in DOMAIN net[s][d] : net[s][d][i].msg[2] = s
PostedOn(r) ==
  \A i \in DOMAIN posted[r] :
    IF posted[r][i].slot = Blocking THEN posted[r][i].comm = call[r].comm
    ELSE Untranslated(posted[r][i].comm)
ArrivedFrom(r) ==
  \A a \in Slots : request[r][a].st = "arrived" => SourceOf(r, a) = request[r][a].msg[2]
SourcesKnown == \A r \in Ranks : SentBy(r) /\ PostedOn(r) /\ ArrivedFrom(r)

\* A rank by whose step no message arrives and no receive is posted.
LEMMA SourcesStay ==
  ASSUME RequestsInv, RequestsInv', NEW r \in Ranks, PostedOn(r), ArrivedFrom(r),
         posted'[r] = posted[r],
         \A a \in Slots : request'[r][a] = request[r][a] \/ request'[r][a].st # "arrived",
         call'[r] = call[r] \/ request'[r][Blocking].st = "null"
  PROVE  PostedOn(r)' /\ ArrivedFrom(r)'
<1>1. CASE call'[r] = call[r]
  BY <1>1 DEF PostedOn, ArrivedFrom, SourceOf
<1>2. CASE request'[r][Blocking].st = "null"
  <2>1. \A i \in DOMAIN posted[r] : posted[r][i].slot # Blocking
    BY <1>2 DEF RequestsInv, PostedWait
  <2>2. PostedOn(r)'
    BY <2>1 DEF PostedOn
  <2>3. ArrivedFrom(r)'
    BY <1>2 DEF ArrivedFrom, SourceOf
  <2> QED
    BY <2>2, <2>3
<1> QED
  BY <1>1, <1>2

\* A rank posts a receive.
LEMMA PostKeepsSources ==
  ASSUME RequestsInv, NEW r \in Ranks, PostedOn(r), ArrivedFrom(r), NEW c \in Calls[r],
         NEW slot \in Slots, request[r][slot].st = "null", Post(r, slot, c.comm, c.peer, c.tag),
         request[r][Blocking].st = "null", call'[r] = c,
         slot # Blocking => Untranslated(c.comm)
  PROVE  PostedOn(r)' /\ ArrivedFrom(r)'
<1> DEFINE p == [slot |-> slot, comm |-> c.comm, tag |-> c.tag,
                 src |-> AKY_translate_rank(c.comm, c.peer)]
<1>1. posted \in [Ranks -> Seq(Receive)] /\ posted[r] \in Seq(Receive)
  BY DEF RequestsInv, RequestsTypeOK
<1>2. posted' = [posted EXCEPT ![r] = Append(@, p)]
  BY DEF Post
<1>3. posted'[r] = Append(posted[r], p) /\ p.slot = slot /\ p.comm = c.comm
  BY <1>1, <1>2
<1> HIDE DEF p
<1>4. \A i \in DOMAIN posted[r] : posted[r][i].slot # Blocking
  BY DEF RequestsInv, PostedWait
<1>5. ASSUME NEW i \in DOMAIN posted'[r]
      PROVE  (i \in DOMAIN posted[r] /\ posted'[r][i] = posted[r][i]) \/ posted'[r][i] = p
  BY <1>1, <1>3
<1>6. PostedOn(r)'
  BY <1>3, <1>4, <1>5 DEF PostedOn
<1>7. RequestBecomes(r, slot, [Null EXCEPT !.st = "posted"])
  BY PostShape DEF Posts
<1>8. [Null EXCEPT !.st = "posted"].st = "posted"
  BY DEF Null
<1>9. \A a \in Slots : request'[r][a].st = "arrived" => a # slot /\ request'[r][a] = request[r][a]
  BY <1>7, <1>8 DEF RequestBecomes
<1>10. ArrivedFrom(r)'
  BY <1>7, <1>9 DEF ArrivedFrom, SourceOf
<1> QED
  BY <1>6, <1>10

\* A rank sends.
LEMMA TransmitBecomes ==
  ASSUME RequestsInv, NEW r \in Ranks, NEW c \in Calls[r], c.op \in SendOps \cup SendrecvOps,
         Transmit(r, c.comm, c.peer, c.tag), NEW d, d = AKY_translate_rank(c.comm, c.peer)
  PROVE  /\ d \in Ranks
         /\ Len(net'[r][d]) = Len(net[r][d]) + 1
         /\ \A s, q \in Ranks : s # r \/ q # d => net'[s][q] = net[s][q]
         /\ (\A s \in Ranks : SentBy(s)) => \A s \in Ranks : SentBy(s)'
<1> DEFINE m == [comm |-> c.comm, tag |-> c.tag, msg |-> NextMsg(r)]
<1>1. d \in Ranks
  BY TracerAssumption
<1>2. net \in [Ranks -> [Ranks -> Seq(NetMessage)]]
  BY DEF RequestsInv, RequestsTypeOK
<1>3. m.msg[2] = r
  BY DEF NextMsg
<1>4. net' = [net EXCEPT ![r] = [net[r] EXCEPT ![d] = Append(net[r][d], m)]]
  BY <1>1, <1>2 DEF Transmit
<1> HIDE DEF m
<1>5. net[r] \in [Ranks -> Seq(NetMessage)] /\ net[r][d] \in Seq(NetMessage)
  BY <1>1, <1>2
<1>6. /\ net'[r][d] = Append(net[r][d], m)
      /\ \A s, q \in Ranks : s # r \/ q # d => net'[s][q] = net[s][q]
  BY <1>1, <1>2, <1>4, <1>5
<1>7. ASSUME NEW i \in DOMAIN net'[r][d]
      PROVE  (i \in DOMAIN net[r][d] /\ net'[r][d][i] = net[r][d][i]) \/ net'[r][d][i] = m
  BY <1>5, <1>6
<1>8. ASSUME \A s \in Ranks : SentBy(s), NEW s \in Ranks
      PROVE  SentBy(s)'
  <2> SUFFICES ASSUME NEW q \in Ranks, NEW i \in DOMAIN net'[s][q]
               PROVE  net'[s][q][i].msg[2] = s
    BY DEF SentBy
  <2>1. CASE s = r /\ q = d
    BY <1>1, <1>3, <1>7, <1>8, <2>1 DEF SentBy
  <2>2. CASE s # r \/ q # d
    BY <1>6, <1>8, <2>2 DEF SentBy
  <2> QED
    BY <2>1, <2>2
<1> QED
  BY <1>1, <1>5, <1>6, <1>8

-----------------------------------------------------------------------------
\* What a step of the application keeps, and what it records.
Follows == SourcesKnown' /\ \E events : trace' = trace \o events /\ Transfers(events)

\* The sources are known of all ranks when they are of the one that moved.
LEMMA OtherSources ==
  ASSUME SourcesKnown, NEW r \in Ranks,
         \A q \in Ranks \ {r} : /\ posted'[q] = posted[q] /\ call'[q] = call[q]
                                /\ \A a \in Slots : request'[q][a] = request[q][a],
         \A s \in Ranks : SentBy(s)', PostedOn(r)', ArrivedFrom(r)'
  PROVE  SourcesKnown'
<1> SUFFICES ASSUME NEW q \in Ranks \ {r} PROVE PostedOn(q)' /\ ArrivedFrom(q)'
  BY DEF SourcesKnown
<1>1. PostedOn(q) /\ ArrivedFrom(q)
  BY DEF SourcesKnown
<1>2. /\ posted'[q] = posted[q] /\ call'[q] = call[q]
      /\ \A a \in Slots : request'[q][a] = request[q][a]
  OBVIOUS
<1>3. PostedOn(q)'
  BY <1>1, <1>2 DEF PostedOn
<1>4. ArrivedFrom(q)'
  BY <1>1, <1>2 DEF ArrivedFrom, SourceOf
<1> QED
  BY <1>3, <1>4

\* The ends of a call are events of no message.
LEMMA BoundsAreCalls ==
  ASSUME NEW r \in Ranks, NEW op \in CallOps, NEW mark \in Int
  PROVE  In(r, op, mark) \in CallEvents /\ Out(r, op) \in CallEvents
<1>1. In(r, op, mark) \in RecordedEvents
  BY EventIsRecorded, NoMsgIsMessage, RanksAreIds DEF In, CallOps, ScatterSends, GatherRecvs
<1>2. In(r, op, mark).type = "IN"
  BY DEF In, Event
<1> QED
  BY <1>1, <1>2, OutIsRecorded DEF CallEvents

\* A step that records the end of a call and touches no message.
LEMMA QuietFollows ==
  ASSUME RequestsInv, RequestsInv', SourcesKnown, NEW r \in Ranks, NEW e \in CallEvents,
         trace' = trace \o <<e>>, UNCHANGED <<net, posted, request>>,
         \A q \in Ranks \ {r} : call'[q] = call[q],
         call'[r] = call[r] \/ ~Within(r, {"MPI_Recv"} \cup SendrecvOps)'
  PROVE  Follows
<1>1. PostedOn(r) /\ ArrivedFrom(r)
  BY DEF SourcesKnown
<1>2. call'[r] = call[r] \/ request'[r][Blocking].st = "null"
  BY DEF RequestsInv, BlockingUse
<1>3. PostedOn(r)' /\ ArrivedFrom(r)'
  BY <1>1, <1>2, SourcesStay
<1>4. \A s \in Ranks : SentBy(s)'
  BY DEF SourcesKnown, SentBy
<1>5. SourcesKnown'
  BY <1>3, <1>4, OtherSources
<1>6. <<e>> \in Seq(CallEvents) /\ StillArrived
  BY DEF StillArrived
<1>7. Transfers(<<e>>)
  BY <1>6, CallsTransfer
<1> QED
  BY <1>5, <1>7 DEF Follows

\* A rank sends: one send is recorded, and one message waits more.
LEMMA SendFollows ==
  ASSUME RequestsInv, RequestsInv', SourcesKnown, NEW r \in Ranks, NEW c \in Calls[r],
         EnterSend(r, c)
  PROVE  Follows
<1> DEFINE d == AKY_translate_rank(c.comm, c.peer)
           e == In(r, c.op, send_mark[r])
           f == SendEvent("AKY_PTP_SEND", r, d, c.size, send_mark[r], NextMsg(r))
<1>1. /\ Enter(r, c, <<e, f>>) /\ Transmit(r, c.comm, c.peer, c.tag) /\ c.op \in SendOps
      /\ posted' = posted
  BY DEF EnterSend
<1>2. c \in AllCalls /\ c.op \in CallOps
  BY CallIsKnown
<1>3. send_mark[r] \in Nat /\ NextMsg(r) \in Messages
  BY DEF RequestsInv, RequestsTypeOK, NextMsg, Messages
<1>4. e \in CallEvents
  BY <1>2, <1>3, BoundsAreCalls
<1>5. d \in Ranks
  BY <1>1, TracerAssumption
<1>6. f \in LinkOf(r) /\ f.type = "AKY_PTP_SEND" /\ f.id1 = r /\ f.v = d
  <2>1. f.type = "AKY_PTP_SEND" /\ f.id1 = r /\ f.v = d
    BY DEF SendEvent, Event
  <2>2. d \in Ids
    BY <1>5, RanksAreIds
  <2> HIDE DEF d
  <2>3. f \in LinkOf(r)
    BY <1>2, <1>3, <2>2, PtpIsLink, SendIsRecorded
  <2> QED
    BY <2>1, <2>3
<1> HIDE DEF d, e, f
<1>7. f \in MessageEvents
  BY <1>5, <1>6 DEF MessageEvents, LinkOf
<1>8. trace' = trace \o <<e, f>>
  BY <1>1 DEF Enter, Record
<1>9. /\ Len(net'[r][d]) = Len(net[r][d]) + 1
      /\ \A s, q \in Ranks : s # r \/ q # d => net'[s][q] = net[s][q]
      /\ \A s \in Ranks : SentBy(s)'
  BY <1>1, TransmitBecomes DEF SourcesKnown, d
<1>10. \A q \in Ranks, a \in Slots :
         \/ request'[q][a] = request[q][a]
         \/ q = r /\ request[q][a].st = "null" /\ request'[q][a].st \in {"send", "isend"}
  <2>1. CASE request' = request
    BY <2>1
  <2>2. CASE request' # request
    <3>1. request[r][c.req].st = "null" /\ \E v \in Request : v.st \in {"send", "isend"}
                                                      /\ RequestBecomes(r, c.req, v)
      BY <2>2, SendsRequest
    <3> QED
      BY <3>1 DEF RequestBecomes
  <2> QED
    BY <2>1, <2>2
<1>11. StillArrived
  BY <1>10 DEF StillArrived
<1>12. PostedOn(r)' /\ ArrivedFrom(r)'
  <2>1. ~Within(r, {"MPI_Recv"} \cup SendrecvOps)'
    <3>1. call'[r] = c
      BY <1>1, EnterShape DEF RequestsInv
    <3> QED
      BY <1>1, <3>1 DEF Within, SendOps, SendrecvOps, BlockingSends, ForgottenSends
  <2>2. request'[r][Blocking].st = "null"
    BY <2>1 DEF RequestsInv, BlockingUse
  <2>3. \A a \in Slots : request'[r][a] = request[r][a] \/ request'[r][a].st # "arrived"
    BY <1>10
  <2> QED
    BY <1>1, <2>2, <2>3, SourcesStay DEF SourcesKnown
<1>13. SourcesKnown'
  <2>1. \A q \in Ranks \ {r} : call'[q] = call[q]
    BY <1>1, EnterShape DEF RequestsInv
  <2> QED
    BY <1>1, <1>9, <1>10, <1>12, <2>1, OtherSources
<1>14. ASSUME NEW s \in Ranks, NEW q \in Ranks
       PROVE  /\ CountAll(<<e, f>>, SendEvents(s, q)) = IF s = r /\ q = d THEN 1 ELSE 0
              /\ CountAll(<<e, f>>, RecvEvents(s, q)) = 0
  <2>1. e \notin SendEvents(s, q) /\ e \notin RecvEvents(s, q) /\ f \notin RecvEvents(s, q)
    BY <1>4, <1>6 DEF CallEvents, SendEvents, RecvEvents
  <2>2. f \in SendEvents(s, q) <=> s = r /\ q = d
    BY <1>6, <1>7 DEF SendEvents
  <2>3. CountAll(<<e, f>>, RecvEvents(s, q)) = 0
    BY <2>1, CountFew
  <2>4. CASE s = r /\ q = d
    <3>1. CountAll(<<e, f>>, SendEvents(s, q)) = 1
      BY <2>1, <2>2, <2>4, CountFew
    <3> QED
      BY <2>3, <2>4, <3>1
  <2>5. CASE ~(s = r /\ q = d)
    <3>1. CountAll(<<e, f>>, SendEvents(s, q)) = 0
      BY <2>1, <2>2, <2>5, CountFew
    <3> QED
      BY <2>3, <2>5, <3>1
  <2> QED
    BY <2>4, <2>5
<1>15. ASSUME NEW s \in Ranks, NEW q \in Ranks
       PROVE  Pending(s, q)' = Pending(s, q) + (IF s = r /\ q = d THEN 1 ELSE 0)
  <2>1. Held(s, q)' = Held(s, q)
    BY <1>11, HeldStays
  <2>2. Len(net[s][q]) \in Nat /\ Cardinality(Held(s, q)) \in Nat
    BY PendingType, HeldType
  <2>3. CASE s = r /\ q = d
    BY <1>9, <2>1, <2>2, <2>3 DEF Pending
  <2>4. CASE s # r \/ q # d
    BY <1>9, <2>1, <2>2, <2>4 DEF Pending
  <2> QED
    BY <2>3, <2>4
<1>16. <<e, f>> \in Seq(MessageEvents)
  BY <1>4, <1>7 DEF MessageEvents
<1>17. Transfers(<<e, f>>)
  <2> SUFFICES ASSUME NEW s \in Ranks, NEW q \in Ranks
               PROVE  /\ \/ CountAll(<<e, f>>, SendEvents(s, q)) = 0
                         \/ CountAll(<<e, f>>, RecvEvents(s, q)) = 0
                      /\ CountAll(<<e, f>>, SendEvents(s, q)) + Pending(s, q)
                           = CountAll(<<e, f>>, RecvEvents(s, q)) + Pending(s, q)'
    BY <1>16 DEF Transfers
  <2>1. Pending(s, q) \in Nat
    BY PendingType
  <2> QED
    BY <1>14, <1>15, <2>1
<1> QED
  BY <1>8, <1>13, <1>17 DEF Follows

\* A rank posts a receive: nothing arrives.
LEMMA PostFollows ==
  ASSUME RequestsInv, SourcesKnown, NEW r \in Ranks, NEW c \in Calls[r],
         FollowedCalls, EnterRecv(r, c) \/ EnterIrecv(r, c)
  PROVE  Follows
<1>1. PICK slot \in Slots :
        /\ request[r][slot].st = "null" /\ Post(r, slot, c.comm, c.peer, c.tag)
        /\ slot # Blocking => Untranslated(c.comm)
  <2>1. CASE EnterRecv(r, c)
    <3>1. pc[r] = "app" /\ Post(r, Blocking, c.comm, c.peer, c.tag)
      BY <2>1 DEF EnterRecv, Enter
    <3>2. request[r][Blocking].st = "null"
      BY <3>1 DEF RequestsInv, BlockingUse, Within
    <3> QED
      BY <3>1, <3>2, BlockingApart
  <2>2. CASE EnterIrecv(r, c)
    <3>1. /\ c.op = "MPI_Irecv" /\ request[r][c.req].st = "null"
          /\ Post(r, c.req, c.comm, c.peer, c.tag)
      BY <2>2 DEF EnterIrecv
    <3>2. c.req \in Slots
      BY <3>1, TracerAssumption DEF RequestOps, Slots
    <3>3. Untranslated(c.comm)
      BY <3>1 DEF FollowedCalls
    <3> QED
      BY <3>1, <3>2, <3>3
  <2> QED
    BY <2>1, <2>2
<1>2. /\ Enter(r, c, <<In(r, c.op, NoMark)>>) /\ net' = net
  BY DEF EnterRecv, EnterIrecv
<1>3. /\ pc[r] = "app" /\ call'[r] = c /\ \A q \in Ranks \ {r} : call'[q] = call[q]
  BY <1>2, EnterShape DEF RequestsInv
<1>4. request[r][Blocking].st = "null"
  BY <1>3 DEF RequestsInv, BlockingUse, Within
<1>5. PostedOn(r)' /\ ArrivedFrom(r)'
  BY <1>1, <1>3, <1>4, PostKeepsSources DEF SourcesKnown
<1>6. RequestBecomes(r, slot, [Null EXCEPT !.st = "posted"])
  BY <1>1, PostShape DEF Posts
<1>7. [Null EXCEPT !.st = "posted"].st = "posted"
  BY DEF Null
<1>8. \A q \in Ranks \ {r} : posted'[q] = posted[q]
  BY <1>1 DEF Post, RequestsInv, RequestsTypeOK
<1>9. \A s \in Ranks : SentBy(s)'
  BY <1>2 DEF SourcesKnown, SentBy
<1>10. SourcesKnown'
  BY <1>3, <1>5, <1>6, <1>8, <1>9, OtherSources DEF RequestBecomes
<1>11. StillArrived
  BY <1>1, <1>6, <1>7 DEF RequestBecomes, StillArrived
<1>12. c.op \in CallOps /\ NoMark \in Int
  BY CallIsKnown DEF NoMark
<1>13. <<In(r, c.op, NoMark)>> \in Seq(CallEvents)
  BY <1>12, BoundsAreCalls
<1>14. trace' = trace \o <<In(r, c.op, NoMark)>>
  BY <1>2 DEF Enter, Record
<1> QED
  BY <1>2, <1>10, <1>11, <1>13, <1>14, CallsTransfer DEF Follows

\* The sender of a message that arrived is a rank.
LEMMA SenderIsRank ==
  ASSUME RequestsInv, NEW r \in Ranks, NEW a \in Slots
  PROVE  request[r][a].msg \in Messages /\ request[r][a].msg[2] \in Ranks
<1>1. request[r][a].msg \in Messages
  <2>1. request[r][a] \in Request
    BY DEF RequestsInv, RequestsTypeOK
  <2> QED
    BY <2>1 DEF Request
<1>2. NoMsg[2] \in Ranks
  BY RanksAreIds DEF NoMsg
<1>3. CASE request[r][a].msg = NoMsg
  BY <1>1, <1>2, <1>3
<1>4. CASE request[r][a].msg # NoMsg
  <2>1. PICK q \in Ranks, k \in Nat : request[r][a].msg = <<"ptp", q, k>>
    BY <1>1, <1>4 DEF Messages
  <2> QED
    BY <1>1, <2>1
<1> QED
  BY <1>3, <1>4

\* The receive that a rank records of a message that arrived, with its source.
LEMMA ReceiveIsOfSender ==
  ASSUME RequestsInv, NEW r \in Ranks, NEW a \in Slots, NEW v, v = request[r][a].msg[2],
         NEW e, e = RecvEvent("AKY_PTP_RECV", r, v, request[r][a].msg)
  PROVE  /\ e \in MessageEvents
         /\ \A s, d : /\ e \in RecvEvents(s, d) <=> d = r /\ s = v
                      /\ e \notin SendEvents(s, d)
<1>1. request[r][a].msg \in Messages /\ v \in Ranks
  BY SenderIsRank
<1>2. v \in Ids
  BY <1>1, RanksAreIds
<1>3. RecvEvent("AKY_PTP_RECV", r, v, request[r][a].msg) \in LinkOf(r)
  BY <1>1, <1>2, PtpIsLink, RecvIsRecorded
<1>4. e.type = "AKY_PTP_RECV" /\ e.id1 = r /\ e.v = v
  BY DEF RecvEvent, Event
<1>5. e \in RecordedEvents
  BY <1>3 DEF LinkOf
<1>6. e \in MessageEvents
  BY <1>1, <1>4, <1>5 DEF MessageEvents
<1> QED
  BY <1>4, <1>6 DEF RecvEvents, SendEvents

\* MPI_Recv returns: one receive is recorded, and one message less has arrived.
LEMMA ReceiveFollows ==
  ASSUME RequestsInv, RequestsInv', SourcesKnown, NEW r \in Ranks, LeaveRecv(r)
  PROVE  Follows
<1> DEFINE v == AKY_translate_rank(call[r].comm, request[r][Blocking].src)
           e == RecvEvent("AKY_PTP_RECV", r, v, request[r][Blocking].msg)
           f == Out(r, "MPI_Recv")
<1>1. /\ Leave(r, <<e, f>>) /\ call[r].op = "MPI_Recv" /\ request[r][Blocking].st = "arrived"
      /\ request' = [request EXCEPT ![r][Blocking] = Null]
      /\ net' = net /\ posted' = posted
  BY DEF LeaveRecv
<1>2. v = request[r][Blocking].msg[2]
  BY <1>1, BlockingApart DEF SourcesKnown, ArrivedFrom, SourceOf
<1>3. /\ e \in MessageEvents
      /\ \A s, d : /\ e \in RecvEvents(s, d) <=> d = r /\ s = v
                   /\ e \notin SendEvents(s, d)
  <2> HIDE DEF v
  <2> QED
    BY <1>2, BlockingApart, ReceiveIsOfSender
<1> HIDE DEF v, e
<1>4. RequestBecomes(r, Blocking, Null)
  BY <1>1, BlockingApart, NullIsRequest, RequestShape DEF RequestsInv, RequestsTypeOK
<1>5. call[r] \in Calls[r] /\ \A q \in Ranks \ {r} : call'[q] = call[q]
  BY <1>1, LeaveShape DEF RequestsInv, Finalize
<1>6. f \in CallEvents
  <2>1. "MPI_Recv" \in CallOps
    BY <1>1, <1>5, CallIsKnown
  <2>2. 0 \in Int
    OBVIOUS
  <2> QED
    BY <2>1, <2>2, BoundsAreCalls
<1> HIDE DEF f
<1>7. PostedOn(r)' /\ ArrivedFrom(r)'
  <2>1. /\ \A a \in Slots : request'[r][a] = request[r][a] \/ request'[r][a].st # "arrived"
        /\ request'[r][Blocking].st = "null"
    BY <1>4, NullIsRequest DEF RequestBecomes
  <2> QED
    BY <1>1, <2>1, SourcesStay DEF SourcesKnown
<1>8. \A s \in Ranks : SentBy(s)'
  BY <1>1 DEF SourcesKnown, SentBy
<1>9. SourcesKnown'
  BY <1>1, <1>4, <1>5, <1>7, <1>8, OtherSources DEF RequestBecomes
<1>10. ASSUME NEW s \in Ranks, NEW d \in Ranks
       PROVE  /\ CountAll(<<e, f>>, SendEvents(s, d)) = 0
              /\ CountAll(<<e, f>>, RecvEvents(s, d)) = IF d = r /\ s = v THEN 1 ELSE 0
  <2>1. f \notin SendEvents(s, d) /\ f \notin RecvEvents(s, d)
    BY <1>6 DEF CallEvents, SendEvents, RecvEvents
  <2>2. CountAll(<<e, f>>, SendEvents(s, d)) = 0
    BY <1>3, <2>1, CountFew
  <2>3. CASE d = r /\ s = v
    <3>1. CountAll(<<e, f>>, RecvEvents(s, d)) = 1
      BY <1>3, <2>1, <2>3, CountFew
    <3> QED
      BY <2>2, <2>3, <3>1
  <2>4. CASE ~(d = r /\ s = v)
    <3>1. CountAll(<<e, f>>, RecvEvents(s, d)) = 0
      BY <1>3, <2>1, <2>4, CountFew
    <3> QED
      BY <2>2, <2>4, <3>1
  <2> QED
    BY <2>3, <2>4
<1>11. ASSUME NEW s \in Ranks, NEW d \in Ranks
       PROVE  Pending(s, d) = Pending(s, d)' + (IF d = r /\ s = v THEN 1 ELSE 0)
  <2>1. Len(net[s][d]) \in Nat /\ Len(net'[s][d]) = Len(net[s][d])
    BY <1>1, PendingType
  <2>2. CASE d = r /\ s = v
    <3>1. Blocking \in Held(s, d)
      BY <1>1, <1>2, <2>2, BlockingApart DEF Held
    <3>2. Held(s, d)' = Held(s, d) \ {Blocking}
      BY <1>4, <2>2, NullIsRequest DEF Held, RequestBecomes
    <3>3. Cardinality(Held(s, d)) = Cardinality(Held(s, d)') + 1
      <4>1. Cardinality(Held(s, d) \ {Blocking}) = Cardinality(Held(s, d)) - 1
        BY <3>1, HeldType, FS_RemoveElement
      <4>2. Cardinality(Held(s, d)') = Cardinality(Held(s, d)) - 1
        BY <3>2, <4>1
      <4>3. Cardinality(Held(s, d)) \in Nat
        BY HeldType
      <4> QED
        BY <4>2, <4>3
    <3>4. Cardinality(Held(s, d)') \in Nat
      BY PendingNext
    <3> QED
      BY <2>1, <2>2, <3>3, <3>4 DEF Pending
  <2>3. CASE ~(d = r /\ s = v)
    <3>1. Held(s, d)' = Held(s, d)
      BY <1>2, <1>4, <2>3, NullIsRequest DEF Held, RequestBecomes
    <3> QED
      BY <2>1, <2>3, <3>1, HeldType DEF Pending
  <2> QED
    BY <2>2, <2>3
<1>12. <<e, f>> \in Seq(MessageEvents)
  BY <1>3, <1>6 DEF MessageEvents
<1>13. Transfers(<<e, f>>)
  <2> SUFFICES ASSUME NEW s \in Ranks, NEW d \in Ranks
               PROVE  /\ \/ CountAll(<<e, f>>, SendEvents(s, d)) = 0
                         \/ CountAll(<<e, f>>, RecvEvents(s, d)) = 0
                      /\ CountAll(<<e, f>>, SendEvents(s, d)) + Pending(s, d)
                           = CountAll(<<e, f>>, RecvEvents(s, d)) + Pending(s, d)'
    BY <1>12 DEF Transfers
  <2>1. Pending(s, d)' \in Nat
    BY PendingNext
  <2> QED
    BY <1>10, <1>11, <2>1
<1>14. trace' = trace \o <<e, f>>
  BY <1>1 DEF Leave, Record
<1> QED
  BY <1>9, <1>13, <1>14 DEF Follows

-----------------------------------------------------------------------------
\* A set of requests, in the order of their addresses; the events that are about those
\* of a subset.
InOrder(order, T) ==
  /\ order \in [1..Cardinality(T) -> T]
  /\ \A i, j \in 1..Cardinality(T) : i < j => order[i] < order[j]

Selects(t, E, order, F, T) ==
  /\ T \subseteq Nat /\ IsFiniteSet(T) /\ F \subseteq T /\ InOrder(order, T)
  /\ \A i \in 1..Cardinality(T) : t[i] \in E <=> order[i] \in F

\* Those are as many as its members.
LEMMA OrderCounts ==
  ASSUME NEW t, NEW E, NEW order, NEW F, NEW T, Selects(t, E, order, F, T)
  PROVE  Count(t, E, Cardinality(T)) = Cardinality(F)
<1> DEFINE n == Cardinality(T)
           U == Upto(t, E, n)
           f == [i \in U |-> order[i]]
<1> T \subseteq Nat /\ IsFiniteSet(T) /\ F \subseteq T
  BY DEF Selects
<1>1. n \in Nat
  BY FS_CardinalityType
<1>2. IsFiniteSet(1..n) /\ Cardinality(1..n) = n
  BY <1>1, FS_Interval
<1>0. /\ order \in [1..n -> T] /\ \A i, j \in 1..n : i < j => order[i] < order[j]
      /\ \A i \in 1..n : t[i] \in E <=> order[i] \in F
  BY DEF InOrder, Selects
<1>3. \A i, j \in 1..n : order[i] = order[j] => i = j
  <2> HIDE DEF n
  <2> SUFFICES ASSUME NEW i \in 1..n, NEW j \in 1..n, order[i] = order[j], i # j
               PROVE  FALSE
    OBVIOUS
  <2>0. order[i] \in T
    BY <1>0
  <2>1. order[i] \in Nat
    BY <2>0
  <2>2. i < j \/ j < i
    BY <1>1
  <2>3. order[i] < order[i]
    BY <1>0, <2>2
  <2> QED
    BY <2>1, <2>3
<1>4. order \in Surjection(1..n, T)
  <2>1. order \in Injection(1..n, T)
    BY <1>0, <1>3 DEF Injection, IsInjective
  <2> HIDE DEF n
  <2>2. Cardinality(1..n) = Cardinality(T) <=> order \in Surjection(1..n, T)
    BY <2>1, FS_Injection
  <2> QED
    BY <1>2, <2>2 DEF n
<1>5. \A a \in T : \E i \in 1..n : order[i] = a
  BY <1>4 DEF Surjection
<1>6. \A i \in U : i \in 1..n /\ order[i] \in F
  BY <1>0 DEF Upto
<1>7. f \in [U -> F]
  BY <1>6
<1>8. \A i, j \in U : f[i] = f[j] => i = j
  BY <1>3, <1>6
<1>9. ASSUME NEW a \in F PROVE \E i \in U : f[i] = a
  <2>1. PICK i \in 1..n : order[i] = a
    BY <1>5
  <2>2. i \in U
    BY <1>0, <2>1 DEF Upto
  <2> QED
    BY <2>1, <2>2
<1>10. f \in Bijection(U, F)
  <2> HIDE DEF f, U
  <2> QED
    BY <1>7, <1>8, <1>9 DEF Bijection, Injection, Surjection, IsInjective
<1>11. IsFiniteSet(U)
  BY <1>1, CountType
<1> HIDE DEF U, f
<1>12. Cardinality(F) = Cardinality(U)
  BY <1>10, <1>11, FS_Bijection DEF ExistsBijection
<1> QED
  BY <1>12 DEF Count, U, n

\* The receives among the requests that a wait completes: all that were tracked.
Ended(r, done) == {a \in done : request[r][a].st = "arrived"}

LEMMA TrackedAreEnded ==
  ASSUME RequestsInv, IrecvsInv, NEW r \in Ranks, NEW done, done \subseteq Reqs,
         \A a \in done : Complete(request[r][a]), ~Within(r, {"MPI_Irecv"})
  PROVE  {a \in done : aky_check(irecv_root[r], a) # 0} = Ended(r, done)
<1>1. DOMAIN irecv_root[r] = Live(r)
  BY DEF IrecvsInv, IrecvsOf
<1>2. PICK S \in SUBSET Reqs : irecv_root[r] \in [S -> Nat]
  BY DEF RequestsInv, RequestsTypeOK, Trees
<1>3. \A a : aky_check(irecv_root[r], a) # 0 <=> a \in DOMAIN irecv_root[r]
  BY <1>2 DEF aky_check
<1>4. \A a \in done : a \in Live(r) <=> request[r][a].st = "arrived"
  BY DEF Live, Complete
<1> QED
  BY <1>1, <1>3, <1>4 DEF Ended

\* The receives that the end of a wait records: as many of a sender as messages of it
\* had arrived at the requests it completes.
ReceivesEnded(r, done, evs) ==
  /\ evs \in Seq(MessageEvents)
  /\ \A p, q \in Ranks :
       /\ CountAll(evs, SendEvents(p, q)) = 0
       /\ CountAll(evs, RecvEvents(p, q)) =
            IF q = r THEN Cardinality(Held(p, r) \cap done) ELSE 0

LEMMA EndedTransfer ==
  ASSUME RequestsInv, SourcesKnown, NEW r \in Ranks, NEW done, done \subseteq Reqs,
         NEW s \in Statuses(r), NEW T, T = Ended(r, done),
         NEW order, InOrder(order, T), NEW evs, evs = EndedReceives(r, order, s)
  PROVE  ReceivesEnded(r, done, evs)
<1>1. T \subseteq Reqs /\ T \subseteq Nat /\ IsFiniteSet(T)
  BY MpiAssumption, FS_Subset DEF Ended
<1>2. Cardinality(T) \in Nat /\ order \in [1..Cardinality(T) -> T]
  BY <1>1, FS_CardinalityType DEF InOrder
<1>3. ASSUME NEW a \in T
      PROVE  /\ a \in Slots /\ a # Blocking /\ s[a] = request[r][a].msg[2]
             /\ request[r][a].st = "arrived" /\ a \in done
  <2>1. a \in Slots /\ a # Blocking /\ request[r][a].st = "arrived" /\ a \in Reqs /\ a \in done
    BY <1>1, BlockingApart DEF Ended, Slots
  <2>2. s[a] = request[r][a].src
    BY <2>1 DEF Statuses, StatusSources
  <2>3. request[r][a].src = request[r][a].msg[2]
    BY <2>1 DEF SourcesKnown, ArrivedFrom, SourceOf
  <2> QED
    BY <2>1, <2>2, <2>3
<1>4. ASSUME NEW i \in 1..Cardinality(T)
      PROVE  /\ evs[i] \in MessageEvents
             /\ \A p, q : /\ evs[i] \in RecvEvents(p, q) <=>
                               q = r /\ p = request[r][order[i]].msg[2]
                          /\ evs[i] \notin SendEvents(p, q)
  <2> DEFINE a == order[i]
             v == s[a]
             e == RecvEvent("AKY_PTP_RECV", r, v, request[r][a].msg)
  <2>1. a \in T
    BY <1>2
  <2>2. evs[i] = e
    BY <1>2 DEF EndedReceives
  <2> HIDE DEF a
  <2>3. a \in Slots /\ v = request[r][a].msg[2]
    BY <1>3, <2>1
  <2> HIDE DEF v
  <2>4. /\ e \in MessageEvents
        /\ \A p, q : /\ e \in RecvEvents(p, q) <=> q = r /\ p = v
                     /\ e \notin SendEvents(p, q)
    BY <2>3, ReceiveIsOfSender
  <2> QED
    BY <2>2, <2>3, <2>4 DEF a
<1>5. /\ evs \in [1..Cardinality(T) -> MessageEvents]
      /\ evs \in Seq(MessageEvents) /\ Len(evs) = Cardinality(T)
  <2>1. evs \in [1..Cardinality(T) -> MessageEvents]
    <3>1. DOMAIN order = 1..Cardinality(T)
      BY <1>2
    <3>2. evs = [i \in 1..Cardinality(T) |-> evs[i]]
      BY <3>1 DEF EndedReceives
    <3> QED
      BY <1>4, <3>2
  <2> QED
    BY <1>2, <2>1
<1>6. ASSUME NEW p \in Ranks, NEW q \in Ranks
      PROVE  /\ CountAll(evs, SendEvents(p, q)) = 0
             /\ CountAll(evs, RecvEvents(p, q)) =
                  IF q = r THEN Cardinality(Held(p, r) \cap done) ELSE 0
  <2>1. CountAll(evs, SendEvents(p, q)) = 0
    BY <1>2, <1>4, <1>5, CountNone DEF CountAll
  <2>2. CASE q # r
    <3>1. CountAll(evs, RecvEvents(p, q)) = 0
      BY <1>2, <1>4, <1>5, <2>2, CountNone DEF CountAll
    <3> QED
      BY <2>1, <2>2, <3>1
  <2>3. CASE q = r
    <3> DEFINE F == Held(p, r) \cap done
               E == RecvEvents(p, r)
    <3>1. F \subseteq T
      BY DEF Held, Ended
    <3>2. Selects(evs, E, order, F, T)
      <4> SUFFICES ASSUME NEW i \in 1..Cardinality(T)
                   PROVE  evs[i] \in E <=> order[i] \in F
        BY <1>1, <3>1 DEF Selects
      <4>1. evs[i] \in E <=> p = request[r][order[i]].msg[2]
        BY <1>4
      <4>2. order[i] \in T
        BY <1>2
      <4>3. order[i] \in F <=> request[r][order[i]].msg[2] = p
        BY <1>3, <4>2 DEF Held
      <4> QED
        BY <4>1, <4>3
    <3> HIDE DEF E, F
    <3>3. Count(evs, E, Cardinality(T)) = Cardinality(F)
      BY <3>2, OrderCounts
    <3> QED
      BY <1>5, <2>1, <2>3, <3>3 DEF CountAll, E, F
  <2> QED
    BY <2>2, <2>3
<1> QED
  BY <1>5, <1>6 DEF ReceivesEnded

LEMMA FinishFollows ==
  ASSUME RequestsInv, RequestsInv', IrecvsInv, SourcesKnown, NEW r \in Ranks,
         NEW done, done \subseteq Reqs, FinishRequests(r, done), call[r].op \in QuietOps
  PROVE  Follows
<1> DEFINE T == Ended(r, done)
           f == Out(r, call[r].op)
<1>1. ~Within(r, {"MPI_Irecv"})
  BY OpsApart DEF Within, MovingOps
<1>2. {a \in done : aky_check(irecv_root[r], a) # 0} = T
  BY <1>1, TrackedAreEnded DEF FinishRequests
<1>3. PICK s \in Statuses(r), order \in TrackedOrders(r, done) :
        Leave(r, EndedReceives(r, order, s) \o <<f>>)
  BY DEF FinishRequests
<1>4. InOrder(order, T)
  <2> HIDE DEF T
  <2> QED
    BY <1>2 DEF TrackedOrders, InOrder
<1> DEFINE evs == EndedReceives(r, order, s)
<1>5. /\ evs \in Seq(MessageEvents)
      /\ \A p, q \in Ranks :
           /\ CountAll(evs, SendEvents(p, q)) = 0
           /\ CountAll(evs, RecvEvents(p, q)) =
                IF q = r THEN Cardinality(Held(p, r) \cap done) ELSE 0
  <2>1. T = Ended(r, done) /\ evs = EndedReceives(r, order, s)
    OBVIOUS
  <2>2. s \in Statuses(r) /\ \A a \in done : Complete(request[r][a])
    BY <1>3 DEF FinishRequests
  <2> HIDE DEF T, evs
  <2>3. ReceivesEnded(r, done, evs)
    BY <1>4, <2>1, <2>2, EndedTransfer
  <2> QED
    BY <2>3 DEF ReceivesEnded
<1>6. /\ net' = net /\ posted' = posted
      /\ request' = [request EXCEPT ![r] = [a \in DOMAIN @ |-> IF a \in done THEN Null ELSE @[a]]]
  BY DEF FinishRequests
<1>7. /\ \A q \in Ranks \ {r} : request'[q] = request[q]
      /\ \A a \in Slots : request'[r][a] = IF a \in done THEN Null ELSE request[r][a]
  BY <1>6 DEF RequestsInv, RequestsTypeOK
<1>8. /\ \A q \in Ranks \ {r} : call'[q] = call[q]
      /\ pc[r] = "call" /\ pc'[r] = "app" /\ call[r] \in Calls[r] \cup {Finalize}
  BY <1>3, LeaveShape DEF RequestsInv
<1>9. f \in CallEvents
  <2>1. call[r].op \in CallOps
    BY <1>8, CallIsKnown DEF CallOps, Finalize
  <2>2. 0 \in Int
    OBVIOUS
  <2> QED
    BY <2>1, <2>2, BoundsAreCalls
<1> HIDE DEF T, f, evs
<1>10. SourcesKnown'
  <2>1. request'[r][Blocking].st = "null"
    BY <1>8 DEF RequestsInv, BlockingUse, Within
  <2>2. \A a \in Slots : request'[r][a] = request[r][a] \/ request'[r][a].st # "arrived"
    BY <1>7, NullIsRequest
  <2>3. PostedOn(r)' /\ ArrivedFrom(r)'
    BY <1>6, <2>1, <2>2, SourcesStay DEF SourcesKnown
  <2>4. \A q \in Ranks : SentBy(q)'
    BY <1>6 DEF SourcesKnown, SentBy
  <2> QED
    BY <1>6, <1>7, <1>8, <2>3, <2>4, OtherSources
<1>11. <<f>> \in Seq(CallEvents) /\ <<f>> \in Seq(MessageEvents)
  BY <1>9 DEF MessageEvents
<1>12. ASSUME NEW p \in Ranks, NEW q \in Ranks
       PROVE  /\ CountAll(evs \o <<f>>, SendEvents(p, q)) = 0
              /\ CountAll(evs \o <<f>>, RecvEvents(p, q)) =
                   IF q = r THEN Cardinality(Held(p, r) \cap done) ELSE 0
  <2> DEFINE last == <<f>>
             E == SendEvents(p, q)
             F == RecvEvents(p, q)
  <2>1. CountAll(last, E) = 0 /\ CountAll(last, F) = 0
    BY <1>11, CallEventsCount
  <2>2. last \in Seq(MessageEvents) /\ evs \in Seq(MessageEvents)
    BY <1>5, <1>11
  <2>3. /\ CountAll(evs, E) = 0
        /\ CountAll(evs, F) = IF q = r THEN Cardinality(Held(p, r) \cap done) ELSE 0
    BY <1>5
  <2> HIDE DEF last, E, F
  <2>4. CountAll(evs \o last, E) = CountAll(evs, E)
    BY <2>1, <2>2, CountAppended
  <2>5. CountAll(evs \o last, F) = CountAll(evs, F)
    BY <2>1, <2>2, CountAppended
  <2> QED
    BY <2>3, <2>4, <2>5, Zenon DEF last, E, F
<1>13. ASSUME NEW p \in Ranks, NEW q \in Ranks
       PROVE  Pending(p, q) = Pending(p, q)' +
                (IF q = r THEN Cardinality(Held(p, r) \cap done) ELSE 0)
  <2>1. Len(net[p][q]) \in Nat /\ Len(net'[p][q]) = Len(net[p][q])
    BY <1>6, PendingType
  <2>2. CASE q = r
    <3>1. Held(p, r)' = Held(p, r) \ done
      BY <1>7, NullIsRequest DEF Held
    <3>2. /\ Cardinality(Held(p, r) \ done)
               = Cardinality(Held(p, r)) - Cardinality(Held(p, r) \cap done)
          /\ Cardinality(Held(p, r)) \in Nat
      BY HeldType, FS_Difference
    <3>3. Cardinality(Held(p, r) \cap done) \in Nat
      <4>1. IsFiniteSet(Held(p, r) \cap done)
        BY HeldType, FS_Subset
      <4> QED
        BY <4>1, FS_CardinalityType
    <3> QED
      BY <2>1, <2>2, <3>1, <3>2, <3>3 DEF Pending
  <2>3. CASE q # r
    <3>1. Held(p, q)' = Held(p, q)
      BY <1>7, <2>3 DEF Held
    <3> QED
      BY <2>1, <2>3, <3>1, HeldType DEF Pending
  <2> QED
    BY <2>2, <2>3
<1>14. Transfers(evs \o <<f>>)
  <2>1. evs \o <<f>> \in Seq(MessageEvents)
    BY <1>5, <1>11
  <2> SUFFICES ASSUME NEW p \in Ranks, NEW q \in Ranks
               PROVE  /\ \/ CountAll(evs \o <<f>>, SendEvents(p, q)) = 0
                         \/ CountAll(evs \o <<f>>, RecvEvents(p, q)) = 0
                      /\ CountAll(evs \o <<f>>, SendEvents(p, q)) + Pending(p, q)
                           = CountAll(evs \o <<f>>, RecvEvents(p, q)) + Pending(p, q)'
    BY <2>1 DEF Transfers
  <2>2. Pending(p, q) \in Nat /\ Pending(p, q)' \in Nat
    BY PendingType, PendingNext
  <2>3. CASE q = r
    <3>1. /\ CountAll(evs \o <<f>>, SendEvents(p, q)) = 0
          /\ CountAll(evs \o <<f>>, RecvEvents(p, q)) = Cardinality(Held(p, r) \cap done)
          /\ Pending(p, q) = Pending(p, q)' + Cardinality(Held(p, r) \cap done)
      BY <1>12, <1>13, <2>3
    <3>2. Cardinality(Held(p, r) \cap done) \in Nat
      <4>1. IsFiniteSet(Held(p, r) \cap done)
        BY HeldType, FS_Subset
      <4> QED
        BY <4>1, FS_CardinalityType
    <3> QED
      BY <2>2, <3>1, <3>2
  <2>4. CASE q # r
    <3>1. /\ CountAll(evs \o <<f>>, SendEvents(p, q)) = 0
          /\ CountAll(evs \o <<f>>, RecvEvents(p, q)) = 0
          /\ Pending(p, q) = Pending(p, q)' + 0
      BY <1>12, <1>13, <2>4
    <3> QED
      BY <2>2, <3>1
  <2> QED
    BY <2>3, <2>4
<1>15. trace' = trace \o (evs \o <<f>>)
  BY <1>3 DEF Leave, Record, evs
<1> QED
  BY <1>10, <1>14, <1>15 DEF Follows

\* A message reaches a request: it was waiting for a receive, and has arrived.
LEMMA DeliverBecomes ==
  ASSUME RequestsInv, MessagesInv, SourcesKnown, NEW s \in Ranks, NEW d \in Ranks, Deliver(s, d)
  PROVE  /\ UNCHANGED <<call, trace>>
         /\ \A q \in Ranks \ {d} : posted'[q] = posted[q]
         /\ \A p, q \in Ranks : p # s \/ q # d => net'[p][q] = net[p][q]
         /\ \E i \in DOMAIN net[s][d], j \in DOMAIN posted[d], v \in Request :
              /\ Shortens(net'[s][d], net[s][d], i) /\ net'[s][d] \in Seq(NetMessage)
              /\ Shortens(posted'[d], posted[d], j) /\ posted'[d] \in Seq(Receive)
              /\ RequestBecomes(d, posted[d][j].slot, v)
              /\ v.st = "arrived" /\ v.msg[2] = s
              /\ v.src = CommRank(posted[d][j].comm, s)
              /\ posted[d][j].comm \in DOMAIN Comms /\ s \in Members(posted[d][j].comm)
<1>1. PICK i \in DOMAIN net[s][d], j \in DOMAIN posted[d] :
        /\ posted[d][j].comm = net[s][d][i].comm
        /\ net' = [net EXCEPT ![s][d] = Without(@, i)]
        /\ posted' = [posted EXCEPT ![d] = Without(@, j)]
        /\ request' = [request EXCEPT ![d][posted[d][j].slot] =
                         [st |-> "arrived", src |-> CommRank(posted[d][j].comm, s),
                          msg |-> net[s][d][i].msg, mark |-> 0]]
  BY DEF Deliver, Match, Accepts
<1> DEFINE v == [st |-> "arrived", src |-> CommRank(posted[d][j].comm, s),
                 msg |-> net[s][d][i].msg, mark |-> 0]
<1>2. /\ net \in [Ranks -> [Ranks -> Seq(NetMessage)]] /\ posted \in [Ranks -> Seq(Receive)]
      /\ request \in [Ranks -> [Slots -> Request]]
  BY DEF RequestsInv, RequestsTypeOK
<1>3. /\ net[s] \in [Ranks -> Seq(NetMessage)] /\ net[s][d] \in Seq(NetMessage)
      /\ posted[d] \in Seq(Receive)
  BY <1>2
<1>4. posted[d][j] \in Receive /\ posted[d][j].slot \in Slots /\ posted[d][j].comm \in DOMAIN Comms
  <2>1. posted[d][j] \in Receive /\ posted[d][j].slot \in Slots
    BY <1>2, SlotsOfPosted
  <2> QED
    BY <2>1 DEF Receive
<1>5. s \in Members(posted[d][j].comm)
  BY <1>1 DEF MessagesInv, SendersOK
<1>6. v \in Request /\ v.st = "arrived" /\ v.msg[2] = s /\ v.src = CommRank(posted[d][j].comm, s)
  <2>1. net[s][d][i].msg[2] = s
    BY <1>1 DEF SourcesKnown, SentBy
  <2>2. net[s][d][i].msg \in Messages
    <3>1. net[s][d][i] \in NetMessage
      BY <1>3
    <3> QED
      BY <3>1 DEF NetMessage
  <2>3. CommRank(posted[d][j].comm, s) \in Sources
    BY <1>4 DEF Sources
  <2> QED
    BY <2>1, <2>2, <2>3 DEF Request
<1>7. /\ Shortens(net'[s][d], net[s][d], i) /\ net'[s][d] \in Seq(NetMessage)
      /\ \A p, q \in Ranks : p # s \/ q # d => net'[p][q] = net[p][q]
  <2>1. net' = [net EXCEPT ![s] = [net[s] EXCEPT ![d] = Without(net[s][d], i)]]
    BY <1>1, <1>2
  <2>2. net'[s][d] = Without(net[s][d], i)
    BY <1>2, <1>3, <2>1
  <2>3. /\ Without(net[s][d], i) \in Seq(NetMessage)
        /\ Shortens(Without(net[s][d], i), net[s][d], i)
    BY <1>1, <1>3, WithoutShape
  <2> QED
    BY <1>2, <1>3, <2>1, <2>2, <2>3
<1>8. /\ Shortens(posted'[d], posted[d], j) /\ posted'[d] \in Seq(Receive)
      /\ \A q \in Ranks \ {d} : posted'[q] = posted[q]
  <2>1. Without(posted[d], j) \in Seq(Receive) /\ Shortens(Without(posted[d], j), posted[d], j)
    BY <1>1, <1>3, WithoutShape
  <2>2. posted'[d] = Without(posted[d], j)
    BY <1>1, <1>2
  <2> QED
    BY <1>1, <1>2, <2>1, <2>2
<1> HIDE DEF v
<1>9. RequestBecomes(d, posted[d][j].slot, v)
  BY <1>1, <1>2, <1>4, <1>6, RequestShape DEF v
<1>10. UNCHANGED <<call, trace>>
  BY DEF Deliver
<1> QED
  BY <1>4, <1>5, <1>6, <1>7, <1>8, <1>9, <1>10

\* The rank of a member in its communicator is translated back to it.
LEMMA TranslatedBack ==
  ASSUME NEW c \in DOMAIN Comms, NEW s \in Members(c)
  PROVE  /\ AKY_translate_rank(c, CommRank(c, s)) = s
         /\ Untranslated(c) => CommRank(c, s) = s
<1> DEFINE i == CHOOSE k \in DOMAIN Comms[c] : Comms[c][k] = s
<1>1. Comms[c] \in Seq(Ranks)
  BY MpiAssumption
<1>2. i \in DOMAIN Comms[c] /\ Comms[c][i] = s
  BY DEF Members
<1>3. CommRank(c, s) = i - 1
  BY DEF CommRank
<1> HIDE DEF i
<1>4. i \in Int
  BY <1>1, <1>2
<1>5. CommRank(c, s) + 1 = i
  BY <1>3, <1>4
<1>6. AKY_translate_rank(c, CommRank(c, s)) = s
  BY <1>2, <1>5 DEF AKY_translate_rank
<1>7. Untranslated(c) => CommRank(c, s) = s
  BY <1>2, <1>3 DEF Untranslated
<1> QED
  BY <1>6, <1>7

\* A message reaches a request: nothing is recorded, and it is pending as before.
LEMMA DeliverFollows ==
  ASSUME RequestsInv, MessagesInv, TraceTypeOK, SourcesKnown, NEW s \in Ranks, NEW d \in Ranks,
         Deliver(s, d)
  PROVE  Follows
<1>1. /\ UNCHANGED <<call, trace>>
      /\ \A q \in Ranks \ {d} : posted'[q] = posted[q]
      /\ \A p, q \in Ranks : p # s \/ q # d => net'[p][q] = net[p][q]
  BY DeliverBecomes
<1>2. PICK i \in DOMAIN net[s][d], j \in DOMAIN posted[d], v \in Request :
        /\ Shortens(net'[s][d], net[s][d], i) /\ net'[s][d] \in Seq(NetMessage)
        /\ Shortens(posted'[d], posted[d], j) /\ posted'[d] \in Seq(Receive)
        /\ RequestBecomes(d, posted[d][j].slot, v)
        /\ v.st = "arrived" /\ v.msg[2] = s
        /\ v.src = CommRank(posted[d][j].comm, s)
        /\ posted[d][j].comm \in DOMAIN Comms /\ s \in Members(posted[d][j].comm)
  BY DeliverBecomes
<1> DEFINE slot == posted[d][j].slot
           comm == posted[d][j].comm
<1>3. slot \in Slots /\ request[d][slot].st = "posted" /\ posted[d] \in Seq(Receive)
  BY SlotsOfPosted DEF RequestsInv, RequestsTypeOK, PostedWait
<1>4. IF slot = Blocking THEN comm = call[d].comm ELSE Untranslated(comm)
  BY DEF SourcesKnown, PostedOn
<1>5. AKY_translate_rank(comm, v.src) = s /\ (Untranslated(comm) => v.src = s)
  BY <1>2, TranslatedBack
<1> HIDE DEF slot, comm
<1>6. RequestBecomes(d, slot, v)
  BY <1>2 DEF slot
<1>7. ArrivedFrom(d)'
  <2> SUFFICES ASSUME NEW a \in Slots, request'[d][a].st = "arrived"
               PROVE  SourceOf(d, a)' = request'[d][a].msg[2]
    BY DEF ArrivedFrom
  <2>1. CASE a = slot
    <3>1. request'[d][a] = v
      BY <1>6, <2>1 DEF RequestBecomes
    <3>2. SourceOf(d, a)' = IF a = Blocking THEN AKY_translate_rank(call[d].comm, v.src) ELSE v.src
      BY <1>1, <3>1 DEF SourceOf
    <3> QED
      BY <1>2, <1>4, <1>5, <2>1, <3>1, <3>2
  <2>2. CASE a # slot
    <3>1. request'[d][a] = request[d][a]
      BY <1>6, <2>2 DEF RequestBecomes
    <3> QED
      BY <1>1, <3>1 DEF SourceOf, SourcesKnown, ArrivedFrom
  <2> QED
    BY <2>1, <2>2
<1>8. PostedOn(d)'
  <2> SUFFICES ASSUME NEW k \in DOMAIN posted'[d]
               PROVE  IF posted'[d][k].slot = Blocking THEN posted'[d][k].comm = call'[d].comm
                      ELSE Untranslated(posted'[d][k].comm)
    BY DEF PostedOn
  <2>1. \E n \in DOMAIN posted[d] : posted'[d][k] = posted[d][n]
    BY <1>2, <1>3, PlacesMove
  <2> QED
    BY <1>1, <2>1 DEF SourcesKnown, PostedOn
<1>9. net[s][d] \in Seq(NetMessage) /\ \A p \in Ranks : SentBy(p)
  BY PendingType DEF SourcesKnown
<1>10. ASSUME NEW p \in Ranks PROVE SentBy(p)'
  <2> SUFFICES ASSUME NEW q \in Ranks, NEW k \in DOMAIN net'[p][q]
               PROVE  net'[p][q][k].msg[2] = p
    BY DEF SentBy
  <2>1. CASE p # s \/ q # d
    BY <1>1, <1>9, <2>1 DEF SentBy
  <2>2. CASE p = s /\ q = d
    <3>1. \E n \in DOMAIN net[s][d] : net'[s][d][k] = net[s][d][n]
      BY <1>2, <1>9, <2>2, PlacesMove
    <3> QED
      BY <1>9, <2>2, <3>1 DEF SentBy
  <2> QED
    BY <2>1, <2>2
<1>11. SourcesKnown'
  BY <1>1, <1>6, <1>7, <1>8, <1>10, OtherSources DEF RequestBecomes
<1>12. ASSUME NEW p \in Ranks, NEW q \in Ranks
       PROVE  Pending(p, q)' = Pending(p, q)
  <2>1. Len(net[p][q]) \in Nat /\ IsFiniteSet(Held(p, q)) /\ Cardinality(Held(p, q)) \in Nat
    BY PendingType, HeldType
  <2>2. CASE p = s /\ q = d
    <3>1. slot \notin Held(p, q)
      BY <1>3, <2>2 DEF Held
    <3>2. Held(p, q)' = Held(p, q) \cup {slot}
      BY <1>2, <1>3, <1>6, <2>2 DEF Held, RequestBecomes
    <3>3. Cardinality(Held(p, q)') = Cardinality(Held(p, q)) + 1
      BY <2>1, <3>1, <3>2, FS_AddElement
    <3>4. Len(net'[p][q]) = Len(net[p][q]) - 1
      BY <1>2, <2>2 DEF Shortens
    <3> QED
      BY <2>1, <3>3, <3>4 DEF Pending
  <2>3. CASE p # s \/ q # d
    <3>1. Held(p, q)' = Held(p, q)
      BY <1>2, <1>3, <1>6, <2>3 DEF Held, RequestBecomes
    <3> QED
      BY <1>1, <2>3, <3>1 DEF Pending
  <2> QED
    BY <2>2, <2>3
<1>13. <<>> \in Seq(CallEvents)
  OBVIOUS
<1>14. Transfers(<<>>)
  <2> SUFFICES ASSUME NEW p \in Ranks, NEW q \in Ranks
               PROVE  /\ <<>> \in Seq(MessageEvents)
                      /\ CountAll(<<>>, SendEvents(p, q)) = 0
                      /\ CountAll(<<>>, RecvEvents(p, q)) = 0
                      /\ Pending(p, q) \in Nat
    BY <1>12 DEF Transfers
  <2> QED
    BY <1>13, CallEventsCount, PendingType
<1>15. trace' = trace \o <<>>
  BY <1>1 DEF TraceTypeOK
<1> QED
  BY <1>11, <1>14, <1>15 DEF Follows

\* The wrappers that the application calls, or not.
LEMMA FollowedEnter ==
  ASSUME FollowedCalls, NEW r \in Ranks, NEW c \in Calls[r], EnterCall(r, c)
  PROVE  \/ EnterSend(r, c) \/ EnterRecv(r, c) \/ EnterIrecv(r, c)
         \/ EnterWait(r, c) \/ EnterWaitArray(r, c) \/ EnterPlain(r, c)
BY DEF FollowedCalls, EnterCall, EnterSendrecv, EnterTest, EnterDown, EnterUp

LEMMA FollowedLeave ==
  ASSUME RequestsInv, FollowedCalls, NEW r \in Ranks, LeaveCall(r)
  PROVE  \/ LeaveSend(r) \/ LeaveRecv(r) \/ LeaveIrecv(r)
         \/ LeaveWait(r) \/ LeaveWaitall(r) \/ LeaveWaitany(r) \/ LeavePlain(r)
<1>1. pc[r] = "call" /\ call[r].op # "MPI_Finalize"
  <2>1. \E events : Leave(r, events)
    BY DEF LeaveCall, LeaveSend, LeaveRecv, LeaveIrecv, LeaveSendrecv, LeaveWait, LeaveWaitall,
           LeaveWaitany, FinishRequests, LeaveTest, LeaveDown, LeaveUp, LeavePlain
  <2> QED
    BY <2>1, LeaveIsReal DEF Leave
<1>2. call[r] \in Calls[r]
  BY <1>1 DEF RequestsInv, CallsAreOwn, Finalize
<1>3. call[r].op \notin TestOps \cup SendrecvOps \cup DownOps \cup UpOps
  BY <1>2 DEF FollowedCalls
<1> QED
  BY <1>3 DEF LeaveCall, LeaveSendrecv, LeaveTest, LeaveDown, LeaveUp

\* Steps that record one event, the beginning or the end of a call.
LEMMA EntersAlone ==
  ASSUME RequestsInv, NEW r \in Ranks, NEW c \in Calls[r],
         EnterWait(r, c) \/ EnterWaitArray(r, c) \/ EnterPlain(r, c)
  PROVE  \E e \in CallEvents : Enter(r, c, <<e>>)
<1>1. \E mark \in Int : Enter(r, c, <<In(r, c.op, mark)>>)
  <2>1. CASE EnterWait(r, c)
    <3> DEFINE isend == aky_check(isend_root[r], c.req)
               mark == IF isend = 0 THEN NoMark ELSE IF isend = -1 THEN 0 ELSE isend
    <3>1. PICK S \in SUBSET Reqs : isend_root[r] \in [S -> Nat]
      BY DEF RequestsInv, RequestsTypeOK, Trees
    <3>2. isend \in Int
      BY <3>1 DEF aky_check
    <3>3. mark \in Int
      BY <3>2 DEF NoMark
    <3>4. Enter(r, c, <<In(r, c.op, mark)>>)
      BY <2>1 DEF EnterWait
    <3> QED
      BY <3>3, <3>4
  <2>2. CASE EnterWaitArray(r, c) \/ EnterPlain(r, c)
    <3>1. Enter(r, c, <<In(r, c.op, NoMark)>>) /\ NoMark \in Int
      BY <2>2 DEF EnterWaitArray, EnterPlain, NoMark
    <3> QED
      BY <3>1
  <2> QED
    BY <2>1, <2>2
<1>2. \A mark \in Int : In(r, c.op, mark) \in CallEvents
  BY CallIsKnown, BoundsAreCalls
<1> QED
  BY <1>1, <1>2

LEMMA LeavesAlone ==
  ASSUME RequestsInv, NEW r \in Ranks, LeaveSend(r) \/ LeaveIrecv(r) \/ LeavePlain(r)
  PROVE  \E e \in CallEvents : Leave(r, <<e>>)
<1>1. Leave(r, <<Out(r, call[r].op)>>)
  BY DEF LeaveSend, LeaveIrecv, LeavePlain
<1>2. call[r] \in Calls[r] \cup {Finalize}
  BY <1>1, LeaveShape DEF RequestsInv
<1>3. call[r].op \in CallOps
  BY <1>2, CallIsKnown DEF CallOps, Finalize
<1>4. Out(r, call[r].op) \in CallEvents
  <2>1. 0 \in Int
    OBVIOUS
  <2> QED
    BY <1>3, <2>1, BoundsAreCalls
<1> QED
  BY <1>1, <1>4

LEMMA EndsAlone ==
  ASSUME NEW r \in Ranks, InitCall(r) \/ EnterFinalize(r) \/ LeaveFinalize(r)
  PROVE  \E e \in CallEvents : trace' = trace \o <<e>>
<1>1. CASE InitCall(r)
  <2> DEFINE e == Event("MPI_INIT", r, "MPI_Init", 0, 0, NoMark, NoMsg)
  <2>1. e \in RecordedEvents
    <3>1. "MPI_INIT" \notin ScatterSends \cup GatherRecvs
      BY DEF ScatterSends, GatherRecvs
    <3>2. 0 \in Ids /\ NoMark \in Int
      BY RanksAreIds DEF NoMark
    <3> QED
      BY <3>1, <3>2, EventIsRecorded, NoMsgIsMessage
  <2>2. e.type = "MPI_INIT"
    BY DEF Event
  <2>3. trace' = trace \o <<e>>
    BY <1>1 DEF InitCall, Record
  <2> HIDE DEF e
  <2> QED
    BY <2>1, <2>2, <2>3 DEF CallEvents
<1>2. CASE EnterFinalize(r)
  <2>1. In(r, "MPI_Finalize", NoMark) \in CallEvents
    BY BoundsAreCalls DEF CallOps, NoMark
  <2> QED
    BY <1>2, <2>1 DEF EnterFinalize, Record
<1>3. CASE LeaveFinalize(r)
  <2>1. Out(r, "MPI_Finalize") \in CallEvents
    <3>1. 0 \in Int /\ "MPI_Finalize" \in CallOps
      BY DEF CallOps
    <3> QED
      BY <3>1, BoundsAreCalls
  <2> QED
    BY <1>3, <2>1 DEF LeaveFinalize, Record
<1> QED
  BY <1>1, <1>2, <1>3

\* The end of a wait finishes requests of the application.
LEMMA WaitsFinish ==
  ASSUME RequestsInv, NEW r \in Ranks, LeaveWait(r) \/ LeaveWaitall(r) \/ LeaveWaitany(r)
  PROVE  call[r].op \in QuietOps /\ \E done : done \subseteq Reqs /\ FinishRequests(r, done)
<1>1. call[r].op \in QuietOps
  BY DEF LeaveWait, LeaveWaitall, LeaveWaitany, QuietOps
<1>2. \E done : done \subseteq Reqs /\ FinishRequests(r, done)
  <2>1. CASE LeaveWait(r)
    <3>1. pc[r] = "call" /\ call[r].op = "MPI_Wait" /\ FinishRequests(r, {call[r].req})
      BY <2>1 DEF LeaveWait, FinishRequests, Leave
    <3>2. call[r] \in Calls[r]
      BY <3>1 DEF RequestsInv, CallsAreOwn, Finalize
    <3>3. call[r].req \in Reqs
      BY <3>1, <3>2, TracerAssumption DEF RequestOps
    <3> QED
      BY <3>1, <3>3
  <2>2. CASE LeaveWaitall(r)
    BY <2>2 DEF LeaveWaitall
  <2>3. CASE LeaveWaitany(r)
    <3>1. PICK index \in Reqs : FinishRequests(r, {index})
      BY <2>3 DEF LeaveWaitany
    <3> QED
      BY <3>1
  <2> QED
    BY <2>1, <2>2, <2>3
<1> QED
  BY <1>1, <1>2

LEMMA EnterFollows ==
  ASSUME RequestsInv, RequestsInv', SourcesKnown, FollowedCalls,
         NEW r \in Ranks, NEW c \in Calls[r], EnterCall(r, c)
  PROVE  Follows
<1>1. CASE EnterSend(r, c)
  BY <1>1, SendFollows
<1>2. CASE EnterRecv(r, c) \/ EnterIrecv(r, c)
  BY <1>2, PostFollows
<1>3. CASE EnterWait(r, c) \/ EnterWaitArray(r, c) \/ EnterPlain(r, c)
  <2>1. PICK e \in CallEvents : Enter(r, c, <<e>>)
    BY <1>3, EntersAlone
  <2>2. UNCHANGED <<net, posted, request>>
    BY <1>3 DEF EnterWait, EnterWaitArray, EnterPlain, mpiVars
  <2>3. call'[r] = c /\ \A q \in Ranks \ {r} : call'[q] = call[q]
    BY <2>1, EnterShape DEF RequestsInv
  <2>4. c.op \notin {"MPI_Recv"} \cup SendrecvOps
    <3>1. c.op \in QuietOps
      BY <1>3 DEF EnterWait, EnterWaitArray, EnterPlain, QuietOps
    <3> QED
      BY <3>1, OpsApart DEF MovingOps
  <2>5. ~Within(r, {"MPI_Recv"} \cup SendrecvOps)'
    BY <2>3, <2>4 DEF Within
  <2>6. trace' = trace \o <<e>>
    BY <2>1 DEF Enter, Record
  <2> QED
    BY <2>2, <2>3, <2>5, <2>6, QuietFollows
<1> QED
  BY <1>1, <1>2, <1>3, FollowedEnter

LEMMA LeaveFollows ==
  ASSUME RequestsInv, RequestsInv', IrecvsInv, SourcesKnown, FollowedCalls,
         NEW r \in Ranks, LeaveCall(r)
  PROVE  Follows
<1>1. CASE LeaveRecv(r)
  BY <1>1, ReceiveFollows
<1>2. CASE LeaveSend(r) \/ LeaveIrecv(r) \/ LeavePlain(r)
  <2>1. PICK e \in CallEvents : Leave(r, <<e>>)
    BY <1>2, LeavesAlone
  <2>2. UNCHANGED <<net, posted, request>>
    BY <1>2 DEF LeaveSend, LeaveIrecv, LeavePlain, mpiVars
  <2>3. pc'[r] = "app" /\ \A q \in Ranks \ {r} : call'[q] = call[q]
    BY <2>1, LeaveShape DEF RequestsInv
  <2>4. ~Within(r, {"MPI_Recv"} \cup SendrecvOps)'
    BY <2>3 DEF Within
  <2>5. trace' = trace \o <<e>>
    BY <2>1 DEF Leave, Record
  <2> QED
    BY <2>2, <2>3, <2>4, <2>5, QuietFollows
<1>3. CASE LeaveWait(r) \/ LeaveWaitall(r) \/ LeaveWaitany(r)
  BY <1>3, WaitsFinish, FinishFollows
<1> QED
  BY <1>1, <1>2, <1>3, FollowedLeave

LEMMA EndFollows ==
  ASSUME RequestsInv, RequestsInv', SourcesKnown, NEW r \in Ranks,
         InitCall(r) \/ EnterFinalize(r) \/ LeaveFinalize(r)
  PROVE  Follows
<1>1. /\ UNCHANGED <<net, posted, request>>
      /\ \A q \in Ranks \ {r} : call'[q] = call[q]
  BY DEF InitCall, EnterFinalize, LeaveFinalize, mpiVars, RequestsInv, RequestsTypeOK
<1>2. call'[r] = call[r] \/ ~Within(r, {"MPI_Recv"} \cup SendrecvOps)'
  <2>1. CASE InitCall(r)
    BY <2>1 DEF InitCall
  <2>2. CASE EnterFinalize(r)
    <3>1. call'[r].op = "MPI_Finalize"
      BY <2>2 DEF EnterFinalize, RequestsInv, RequestsTypeOK
    <3> QED
      BY <3>1 DEF Within, SendrecvOps
  <2>3. CASE LeaveFinalize(r)
    <3>1. pc'[r] = "end"
      BY <2>3 DEF LeaveFinalize, RequestsInv, RequestsTypeOK
    <3> QED
      BY <3>1 DEF Within
  <2> QED
    BY <2>1, <2>2, <2>3
<1>3. \E e \in CallEvents : trace' = trace \o <<e>>
  BY EndsAlone
<1> QED
  BY <1>1, <1>2, <1>3, QuietFollows

LEMMA TracerFollows ==
  ASSUME FilesInv, RequestsInv', IrecvsInv, SourcesKnown, FollowedCalls, TracerNext
  PROVE  Follows
<1>1. RequestsInv /\ MessagesInv /\ TraceTypeOK
  BY DEF FilesInv
<1> QED
  BY <1>1, EndFollows, LeaveFollows, EnterFollows, DeliverFollows DEF TracerNext

-----------------------------------------------------------------------------
\* What holds of the key table and of the printed links, whatever is converted.
KeysKnown ==
  /\ KeysTypeOK /\ KeysBelong /\ KeysUnique
  /\ \A nm \in Names : queue[nm] # <<>> => nm \in entered
  /\ \E S : links \in Seq(S)
  /\ LinkKeysUnique /\ OpenLinksWait

LEMMA KeysAreKnown == Spec => []KeysKnown
<1>1. Files!AnySpec => []Files!LinksInv
  BY Files!LinksInvariant, FilesAssumptions
<1>2. Files!LinksInv => KeysKnown
  <2> SUFFICES ASSUME Files!LinksInv PROVE KeysKnown
    OBVIOUS
  <2>1. /\ Files!KeysTypeOK /\ Files!KeysBelong /\ Files!KeysUnique /\ Files!TableBounded
    BY DEF Files!LinksInv, Files!KeysInv
  <2>2. KeysTypeOK
    BY <2>1, SameSets DEF Files!KeysTypeOK, KeysTypeOK, Files!Key, Key
  <2>3. KeysBelong
    BY <2>1, SameSets DEF Files!KeysBelong, KeysBelong, Files!KeyOf, KeyOf
  <2>4. KeysUnique
    BY <2>1, SameSets DEF Files!KeysUnique, KeysUnique
  <2>5. \A nm \in Names : queue[nm] # <<>> => nm \in entered
    BY <2>1, SameSets DEF Files!TableBounded
  <2>6. links \in Seq(Files!Link)
    BY DEF Files!LinksInv, Files!ConverterTypeOK
  <2>7. LinkKeysUnique /\ OpenLinksWait
    BY SameProperties DEF Files!LinksInv
  <2> QED
    BY <2>2, <2>3, <2>4, <2>5, <2>6, <2>7 DEF KeysKnown
<1> QED
  BY <1>1, <1>2, FilesAreOrdered, PTL

\* A key of each pair of ranks has a name; the table has room for them all.
LEMMA NamesOfMessages ==
  /\ \A s, d \in Ranks : MessageName(s, d) \in Names /\ MessageName(s, d) \in MessageNames
  /\ \A s, d, p, q : MessageName(s, d) = MessageName(p, q) => s = p /\ d = q
  /\ IsFiniteSet(MessageNames)
<1>1. \A s, d \in Ranks : MessageName(s, d) \in Names
  BY ConverterAssumption, RanksAreIds DEF MessageName, Names
<1>2. \A s, d \in Ranks : MessageName(s, d) \in MessageNames
  <2> SUFFICES ASSUME NEW s \in Ranks, NEW d \in Ranks
               PROVE  MessageName(s, d) \in MessageNames
    OBVIOUS
  <2>1. <<s, d>> \in Ranks \X Ranks /\ <<s, d>>[1] = s /\ <<s, d>>[2] = d
    OBVIOUS
  <2> QED
    BY <2>1 DEF MessageNames
<1>3. \A s, d, p, q : MessageName(s, d) = MessageName(p, q) => s = p /\ d = q
  BY DEF MessageName
<1>4. IsFiniteSet(Ranks \X Ranks)
  <2>1. IsFiniteSet(Ranks)
    BY MpiAssumption, FS_Interval DEF Ranks
  <2> QED
    BY <2>1, FS_Product
<1> DEFINE f == [p \in Ranks \X Ranks |-> MessageName(p[1], p[2])]
<1>5. f \in Surjection(Ranks \X Ranks, MessageNames)
  <2>1. f \in [Ranks \X Ranks -> MessageNames]
    BY DEF MessageNames
  <2>2. \A nm \in MessageNames : \E p \in Ranks \X Ranks : f[p] = nm
    BY DEF MessageNames
  <2> HIDE DEF f
  <2> QED
    BY <2>1, <2>2 DEF Surjection
<1> HIDE DEF f
<1>6. IsFiniteSet(MessageNames)
  BY <1>4, <1>5, FS_Surjection
<1> QED
  BY <1>1, <1>2, <1>3, <1>6

\* How many keys of a pair wait more when an event is converted.
KeysChange(e, s, d) ==
  Len(queue'[MessageName(s, d)]) =
    Len(queue[MessageName(s, d)]) + (IF e \in SendEvents(s, d) THEN 1 ELSE 0)
                                  - (IF e \in RecvEvents(s, d) THEN 1 ELSE 0)

Converts(e) ==
  /\ entered' \subseteq MessageNames /\ ~fail' /\ phase' = phase
  /\ \A s, d \in Ranks : KeysChange(e, s, d)

\* A link between the ranks of its key.
Between(l) ==
  l.value = "PTP" /\ l.key # NoKey /\ l.key[1] = l.about[2] /\ l.key[2] = l.about[3]

\* The link that the conversion of a send starts, and that of a receive ends: the one
\* leaves its key at the end of the queue of the pair, the other takes the first.
LinkIsOf(l, e, side, s, d) ==
  /\ links' = Append(links, l) /\ l.side = side /\ l.about = <<e.about, s, d>>
  /\ \A nm \in Names \ {MessageName(s, d)} : queue'[nm] = queue[nm]
Started(l, e) ==
  /\ LinkIsOf(l, e, "start", e.id1, e.v)
  /\ queue'[MessageName(e.id1, e.v)] = Append(queue[MessageName(e.id1, e.v)], l.key)
Finished(l, e) ==
  /\ LinkIsOf(l, e, "end", e.v, e.id1)
  /\ queue[MessageName(e.v, e.id1)] # <<>> /\ l.key = queue[MessageName(e.v, e.id1)][1]
  /\ queue'[MessageName(e.v, e.id1)] = Tail(queue[MessageName(e.v, e.id1)])

LEMMA ConvertsCall ==
  ASSUME LinksFollowed, KeysKnown, entered \subseteq MessageNames, NEW e \in CallEvents, Decode(e)
  PROVE  Converts(e) /\ UNCHANGED <<links, queue>>
<1>1. e.type \in {"MPI_INIT", "IN", "OUT"}
  BY DEF CallEvents
<1>2. /\ UNCHANGED <<keyVars, links, phase, fail>> /\ ~fail
  BY <1>1 DEF Decode, DecodeSend, DecodeRecv, DecodeLoop, DecodeInit, DecodeIn, DecodeOut,
              GatherSends, ScatterRecvs, ScatterSends, GatherRecvs
<1>3. \A s, d : e \notin SendEvents(s, d) /\ e \notin RecvEvents(s, d)
  BY <1>1 DEF SendEvents, RecvEvents
<1>4. \A s, d \in Ranks : Len(queue[MessageName(s, d)]) \in Nat
  BY NamesOfMessages DEF KeysKnown, KeysTypeOK
<1>5. entered' = entered /\ queue' = queue
  BY <1>2 DEF keyVars
<1>6. ASSUME NEW s \in Ranks, NEW d \in Ranks
      PROVE  KeysChange(e, s, d)
  <2> DEFINE n == Len(queue[MessageName(s, d)])
  <2>1. n \in Nat /\ Len(queue'[MessageName(s, d)]) = n
    BY <1>4, <1>5
  <2>2. e \notin SendEvents(s, d) /\ e \notin RecvEvents(s, d) /\ n = n + 0 - 0
    BY <1>3, <2>1
  <2> HIDE DEF n
  <2> QED
    BY <2>1, <2>2 DEF KeysChange, n
<1> QED
  BY <1>2, <1>5, <1>6 DEF Converts

LEMMA ConvertsSend ==
  ASSUME LinksFollowed, KeysKnown, entered \subseteq MessageNames,
         NEW e \in MessageEvents, e.type = "AKY_PTP_SEND", Decode(e)
  PROVE  Converts(e) /\ \E l : Between(l) /\ Started(l, e)
<1> DEFINE s == e.id1
           d == e.v
           nm == MessageName(s, d)
<1>1. s \in Ranks /\ d \in Ranks
  BY DEF MessageEvents, CallEvents, RecordedEvents
<1>2. DecodeSend(e) /\ ~fail
  BY DEF Decode, DecodeSend, DecodeRecv, DecodeLoop, DecodeInit, DecodeIn, DecodeOut,
         GatherRecvs, ScatterRecvs, ScatterSends
<1>3. ~NoLinks /\ Cardinality(MessageNames) <= TableSize /\ TableSize \in Nat
  BY KeysAssumption DEF LinksFollowed
<1>4. /\ AkyPutKey(nm) /\ StartLink(e, s, d) /\ UNCHANGED <<fail, phase>>
  BY <1>2, <1>3 DEF DecodeSend, LinkFrom, KeyType, MessageName
<1>5. nm \in Names /\ nm \in MessageNames /\ nm[2] = s /\ nm[3] = d
  BY <1>1, NamesOfMessages DEF MessageName
<1>6. /\ \A p, q : e \in SendEvents(p, q) <=> p = s /\ q = d
      /\ \A p, q : e \notin RecvEvents(p, q)
  BY DEF SendEvents, RecvEvents
<1>7. \A p, q \in Ranks : MessageName(p, q) = nm <=> p = s /\ q = d
  BY NamesOfMessages
<1> HIDE DEF s, d, nm
<1>8. PutKey(nm)
  <2> SUFFICES ASSUME PutRefused(nm) PROVE FALSE
    BY <1>4 DEF AkyPutKey
  <2>1. nm \notin entered /\ Cardinality(entered) >= TableSize
    BY DEF PutRefused
  <2>2. /\ Cardinality(entered) <= Cardinality(MessageNames)
        /\ Cardinality(MessageNames) = Cardinality(entered) => MessageNames = entered
    BY NamesOfMessages, FS_Subset
  <2>3. Cardinality(entered) \in Nat /\ Cardinality(MessageNames) \in Nat
    BY NamesOfMessages, FS_Subset, FS_CardinalityType
  <2>4. Cardinality(MessageNames) = Cardinality(entered)
    BY <1>3, <2>1, <2>2, <2>3
  <2> QED
    BY <1>5, <2>1, <2>2, <2>4
<1>9. /\ entered' = entered \cup {nm}
      /\ queue' = [queue EXCEPT ![nm] = Append(@, KeyOf(nm, counter))]
      /\ buffer' = KeyOf(nm, counter)
  BY <1>8 DEF PutKey
<1>10. queue \in [Names -> Seq(Key)] /\ queue[nm] \in Seq(Key)
  BY <1>5 DEF KeysKnown, KeysTypeOK
<1>11. /\ Len(queue'[nm]) = Len(queue[nm]) + 1
       /\ queue'[nm] = Append(queue[nm], KeyOf(nm, counter))
       /\ \A m \in Names \ {nm} : queue'[m] = queue[m]
  BY <1>5, <1>9, <1>10
<1>12. ASSUME NEW p \in Ranks, NEW q \in Ranks
       PROVE  KeysChange(e, p, q)
  <2>1. MessageName(p, q) \in Names /\ Len(queue[MessageName(p, q)]) \in Nat
    BY <1>10, NamesOfMessages
  <2> DEFINE n == Len(queue[MessageName(p, q)])
             next == Len(queue'[MessageName(p, q)])
  <2> HIDE DEF n, next
  <2>2. CASE p = s /\ q = d
    <3>1. MessageName(p, q) = nm /\ e \in SendEvents(p, q) /\ e \notin RecvEvents(p, q)
      BY <1>6, <1>7, <2>2
    <3>2. n \in Nat /\ next = n + 1
      BY <1>11, <2>1, <3>1 DEF n, next
    <3>3. next = n + 1 - 0
      BY <3>2
    <3> QED
      BY <3>1, <3>3 DEF KeysChange, n, next
  <2>3. CASE ~(p = s /\ q = d)
    <3>1. MessageName(p, q) # nm /\ e \notin SendEvents(p, q) /\ e \notin RecvEvents(p, q)
      BY <1>6, <1>7, <2>3
    <3>2. n \in Nat /\ next = n
      BY <1>11, <2>1, <3>1 DEF n, next
    <3>3. next = n + 0 - 0
      BY <3>2
    <3> QED
      BY <3>1, <3>3 DEF KeysChange, n, next
  <2> QED
    BY <2>2, <2>3
<1>13. Converts(e)
  BY <1>2, <1>4, <1>5, <1>9, <1>12 DEF Converts
<1> DEFINE l == [side |-> "start", value |-> LinkValue(e.type), key |-> buffer',
                 at |-> e.id1, about |-> <<e.about, s, d>>,
                 sent |-> e.size, size |-> FiveDigits(e.size)]
<1>14. links' = Append(links, l)
  BY <1>4 DEF StartLink
<1>15. Between(l)
  <2>1. l.value = "PTP" /\ l.key = KeyOf(nm, counter) /\ l.about[2] = s /\ l.about[3] = d
    BY <1>9 DEF LinkValue
  <2>2. KeyOf(nm, counter) # NoKey /\ KeyOf(nm, counter)[1] = s /\ KeyOf(nm, counter)[2] = d
    BY <1>5 DEF KeyOf, NoKey
  <2> HIDE DEF l
  <2> QED
    BY <2>1, <2>2 DEF Between
<1>16. l.side = "start" /\ l.about = <<e.about, s, d>> /\ l.key = KeyOf(nm, counter)
  BY <1>9
<1> HIDE DEF l
<1>17. Started(l, e)
  BY <1>11, <1>14, <1>16 DEF Started, LinkIsOf, s, d, nm
<1> QED
  BY <1>13, <1>15, <1>17

LEMMA ConvertsReceive ==
  ASSUME LinksFollowed, KeysKnown, entered \subseteq MessageNames,
         NEW e \in MessageEvents, e.type = "AKY_PTP_RECV", Decode(e),
         queue[MessageName(e.v, e.id1)] # <<>>
  PROVE  Converts(e) /\ \E l : Between(l) /\ Finished(l, e)
<1> DEFINE s == e.v
           d == e.id1
           nm == MessageName(s, d)
<1>1. s \in Ranks /\ d \in Ranks
  BY DEF MessageEvents, CallEvents, RecordedEvents
<1>2. DecodeRecv(e) /\ ~fail
  BY DEF Decode, DecodeSend, DecodeRecv, DecodeLoop, DecodeInit, DecodeIn, DecodeOut,
         GatherRecvs, GatherSends, ScatterSends
<1>3. /\ AkyGetKey(nm) /\ fail' = (fail \/ (buffer' = NoKey /\ ~IgnoreErrors))
      /\ EndLink(e, s, d) /\ phase' = phase
  BY <1>2 DEF DecodeRecv, LinkTo, KeyType, MessageName, LinksFollowed
<1>4. nm \in Names /\ nm[2] = s /\ nm[3] = d /\ queue[nm] # <<>>
  BY <1>1, NamesOfMessages DEF MessageName
<1>5. /\ \A p, q : e \in RecvEvents(p, q) <=> p = s /\ q = d
      /\ \A p, q : e \notin SendEvents(p, q)
  BY DEF SendEvents, RecvEvents
<1>6. \A p, q \in Ranks : MessageName(p, q) = nm <=> p = s /\ q = d
  BY NamesOfMessages
<1> HIDE DEF s, d, nm
<1>7. GetKey(nm)
  <2>1. nm \in entered
    BY <1>4 DEF KeysKnown
  <2> QED
    BY <1>3, <1>4, <2>1 DEF AkyGetKey, GetMissing
<1>8. /\ entered' = entered /\ buffer' = Head(queue[nm])
      /\ queue' = [queue EXCEPT ![nm] = Tail(@)]
  BY <1>7 DEF GetKey
<1>9. queue \in [Names -> Seq(Key)] /\ queue[nm] \in Seq(Key)
  BY <1>4 DEF KeysKnown, KeysTypeOK
<1>10. /\ Len(queue[nm]) \in Nat /\ Len(queue[nm]) >= 1 /\ buffer' = queue[nm][1]
       /\ Len(queue'[nm]) = Len(queue[nm]) - 1 /\ queue'[nm] = Tail(queue[nm])
       /\ \A m \in Names \ {nm} : queue'[m] = queue[m]
  BY <1>4, <1>8, <1>9
<1>11. \E n : buffer' = KeyOf(nm, n)
  BY <1>4, <1>10 DEF KeysKnown, KeysBelong
<1>12. buffer' # NoKey /\ buffer'[1] = s /\ buffer'[2] = d
  BY <1>4, <1>11 DEF KeyOf, NoKey
<1>13. ASSUME NEW p \in Ranks, NEW q \in Ranks
       PROVE  KeysChange(e, p, q)
  <2>1. MessageName(p, q) \in Names /\ Len(queue[MessageName(p, q)]) \in Nat
    BY <1>9, NamesOfMessages
  <2> DEFINE n == Len(queue[MessageName(p, q)])
             next == Len(queue'[MessageName(p, q)])
  <2> HIDE DEF n, next
  <2>2. CASE p = s /\ q = d
    <3>1. MessageName(p, q) = nm /\ e \notin SendEvents(p, q) /\ e \in RecvEvents(p, q)
      BY <1>5, <1>6, <2>2
    <3>2. n \in Nat /\ next = n - 1
      BY <1>10, <2>1, <3>1 DEF n, next
    <3>3. next = n + 0 - 1
      BY <3>2
    <3> QED
      BY <3>1, <3>3 DEF KeysChange, n, next
  <2>3. CASE ~(p = s /\ q = d)
    <3>1. MessageName(p, q) # nm /\ e \notin SendEvents(p, q) /\ e \notin RecvEvents(p, q)
      BY <1>5, <1>6, <2>3
    <3>2. n \in Nat /\ next = n
      BY <1>10, <2>1, <3>1 DEF n, next
    <3>3. next = n + 0 - 0
      BY <3>2
    <3> QED
      BY <3>1, <3>3 DEF KeysChange, n, next
  <2> QED
    BY <2>2, <2>3
<1>14. Converts(e)
  BY <1>2, <1>3, <1>8, <1>12, <1>13 DEF Converts
<1> DEFINE l == [side |-> "end", value |-> LinkValue(e.type), key |-> buffer',
                 at |-> e.id1, about |-> <<e.about, s, d>>, sent |-> 0, size |-> 0]
<1>15. links' = Append(links, l)
  BY <1>3 DEF EndLink
<1>16. Between(l)
  <2>1. l.value = "PTP" /\ l.key = buffer' /\ l.about[2] = s /\ l.about[3] = d
    BY DEF LinkValue
  <2> HIDE DEF l
  <2> QED
    BY <1>12, <2>1 DEF Between
<1>17. l.side = "end" /\ l.about = <<e.about, s, d>> /\ l.key = queue[nm][1]
  BY <1>10
<1> HIDE DEF l
<1>18. Finished(l, e)
  BY <1>4, <1>10, <1>15, <1>17 DEF Finished, LinkIsOf, s, d, nm
<1> QED
  BY <1>14, <1>16, <1>18

-----------------------------------------------------------------------------
(***************************************************************************)
(* The invariant: between two ranks, what waits in the table and in the    *)
(* trace to be joined is what the one sent and the other did not record as *)
(* received; and what is recorded as received can be joined in its turn.   *)
(***************************************************************************)
Conserved ==
  \A s, d \in Ranks :
    Len(queue[MessageName(s, d)]) + CountAll(trace, SendEvents(s, d))
      = CountAll(trace, RecvEvents(s, d)) + Pending(s, d)

Covered ==
  \A s, d \in Ranks :
    AheadOf(trace, SendEvents(s, d), RecvEvents(s, d), Len(queue[MessageName(s, d)]))

FollowedInv ==
  /\ SourcesKnown
  /\ trace \in Seq(MessageEvents)
  /\ ~fail /\ phase \notin {"scatter", "collect"} /\ entered \subseteq MessageNames
  /\ \A i \in DOMAIN links : Between(links[i])
  /\ Conserved /\ Covered

LEMMA FollowedInvInit ==
  ASSUME Init
  PROVE  FollowedInv
<1>1. TracerInit /\ ConverterInit
  BY DEF Init
<1>2. SourcesKnown
  BY <1>1, NullIsRequest
  DEF TracerInit, MpiInit, SourcesKnown, SentBy, PostedOn, ArrivedFrom, Slots
<1>3. /\ trace \in Seq(MessageEvents) /\ trace = <<>> /\ links = <<>> /\ entered = {}
      /\ ~fail /\ phase \notin {"scatter", "collect"}
  BY <1>1 DEF TracerInit, ConverterInit, KeysInit
<1>4. \A i \in DOMAIN links : Between(links[i])
  BY <1>3
<1>5. ASSUME NEW s \in Ranks, NEW d \in Ranks
      PROVE  /\ Len(queue[MessageName(s, d)]) = 0 /\ Pending(s, d) = 0 /\ Len(trace) = 0
             /\ \A E : CountAll(trace, E) = 0
             /\ \A E, k : k = 0 => Count(trace, E, k) = 0
  <2>1. queue[MessageName(s, d)] = <<>>
    BY <1>1, NamesOfMessages DEF ConverterInit, KeysInit
  <2>2. net[s][d] = <<>>
    BY <1>1 DEF TracerInit, MpiInit
  <2>3. Held(s, d) = {}
    BY <1>1, NullIsRequest DEF TracerInit, MpiInit, Held, Slots
  <2>4. Cardinality(Held(s, d)) = 0
    BY <2>3, FS_EmptySet, Zenon
  <2>5. Pending(s, d) = 0
    BY <2>2, <2>4 DEF Pending
  <2>6. ASSUME NEW E PROVE Count(trace, E, 0) = 0
    BY CountNone
  <2>7. Len(trace) = 0
    BY <1>3
  <2> QED
    BY <2>1, <2>5, <2>6, <2>7 DEF CountAll
<1>6. Conserved
  BY <1>5 DEF Conserved
<1>7. Covered
  <2> SUFFICES ASSUME NEW s \in Ranks, NEW d \in Ranks, NEW k \in 0..Len(trace)
               PROVE  Count(trace, RecvEvents(s, d), k) <=
                        Len(queue[MessageName(s, d)]) + Count(trace, SendEvents(s, d), k)
    BY DEF Covered, AheadOf
  <2>1. k = 0
    BY <1>5
  <2> QED
    BY <1>5, <2>1
<1> QED
  BY <1>2, <1>3, <1>4, <1>6, <1>7 DEF FollowedInv

\* A step of the application.
LEMMA TracerKeepsFollowed ==
  ASSUME FilesInv, RequestsInv', IrecvsInv, KeysKnown, FollowedInv, FollowedCalls, TracerStep
  PROVE  FollowedInv'
<1>1. Follows /\ UNCHANGED converterVars
  BY TracerFollows DEF TracerStep, FollowedInv
<1>2. UNCHANGED <<entered, queue, links, phase, fail>>
  BY <1>1 DEF converterVars, outputVars, keyVars
<1>3. PICK events : trace' = trace \o events /\ Transfers(events)
  BY <1>1 DEF Follows
<1>4. trace \in Seq(MessageEvents) /\ events \in Seq(MessageEvents)
  BY <1>3 DEF FollowedInv, Transfers
<1>5. ASSUME NEW s \in Ranks, NEW d \in Ranks
      PROVE  /\ Len(queue[MessageName(s, d)]) + CountAll(trace', SendEvents(s, d))
                  = CountAll(trace', RecvEvents(s, d)) + Pending(s, d)'
             /\ AheadOf(trace', SendEvents(s, d), RecvEvents(s, d), Len(queue[MessageName(s, d)]))
  <2> DEFINE E == SendEvents(s, d)
             F == RecvEvents(s, d)
             q == Len(queue[MessageName(s, d)])
             was == Pending(s, d)
             is == Pending(s, d)'
  <2>1. q \in Nat /\ was \in Nat
    BY NamesOfMessages, PendingType DEF KeysKnown, KeysTypeOK, FilesInv
  <2>2. is \in Nat
    BY PendingNext
  <2>3. q + CountAll(trace, E) = CountAll(trace, F) + was /\ AheadOf(trace, E, F, q)
    BY DEF FollowedInv, Conserved, Covered
  <2>4. /\ CountAll(events, E) = 0 \/ CountAll(events, F) = 0
        /\ CountAll(events, E) + was = CountAll(events, F) + is
    BY <1>3 DEF Transfers
  <2> HIDE DEF E, F, q, was, is
  <2>5. /\ CountAll(trace', E) = CountAll(trace, E) + CountAll(events, E)
        /\ CountAll(trace', F) = CountAll(trace, F) + CountAll(events, F)
    BY <1>3, <1>4, CountConcat
  <2>6. /\ CountAll(trace, E) \in Nat /\ CountAll(trace, F) \in Nat
        /\ CountAll(events, E) \in Nat /\ CountAll(events, F) \in Nat
    BY <1>4, CountType DEF CountAll
  <2>7. q + CountAll(trace', E) = CountAll(trace', F) + is
    BY <2>1, <2>2, <2>3, <2>4, <2>5, <2>6
  <2>8. CountAll(trace', F) <= q + CountAll(trace', E)
    BY <2>1, <2>2, <2>5, <2>6, <2>7
  <2>9. AheadOf(trace', E, F, q)
    BY <1>3, <1>4, <2>1, <2>3, <2>4, <2>8, LongerStaysAhead
  <2> QED
    BY <2>7, <2>9 DEF E, F, q, is
<1>6. trace' \in Seq(MessageEvents)
  BY <1>3, <1>4
<1>7. Conserved' /\ Covered'
  BY <1>2, <1>5 DEF Conserved, Covered
<1>8. SourcesKnown'
  BY <1>1 DEF Follows
<1> QED
  BY <1>2, <1>6, <1>7, <1>8 DEF FollowedInv

\* The first event of the trace is converted: a receive finds the key of its send.
LEMMA FirstConverts ==
  ASSUME LinksFollowed, KeysKnown, FollowedInv, trace # <<>>, Decode(trace[1])
  PROVE  /\ Converts(trace[1])
         /\ \/ trace[1] \in CallEvents /\ UNCHANGED <<links, queue>>
            \/ trace[1].type = "AKY_PTP_SEND" /\ \E l : Between(l) /\ Started(l, trace[1])
            \/ trace[1].type = "AKY_PTP_RECV" /\ \E l : Between(l) /\ Finished(l, trace[1])
<1> DEFINE e == trace[1]
<1>1. e \in MessageEvents /\ Len(trace) \in Nat /\ Len(trace) >= 1
  BY DEF FollowedInv
<1>2. entered \subseteq MessageNames
  BY DEF FollowedInv
<1> HIDE DEF e
<1>3. CASE e \in CallEvents
  BY <1>2, <1>3, ConvertsCall DEF e
<1>4. CASE e.type = "AKY_PTP_SEND"
  BY <1>1, <1>2, <1>4, ConvertsSend DEF e
<1>5. CASE e.type = "AKY_PTP_RECV"
  <2> DEFINE s == e.v
             d == e.id1
             q == Len(queue[MessageName(s, d)])
  <2>1. s \in Ranks /\ d \in Ranks
    BY <1>1, <1>5 DEF MessageEvents, CallEvents, RecordedEvents
  <2>2. e \in RecvEvents(s, d) /\ e \notin SendEvents(s, d)
    BY <1>1, <1>5 DEF RecvEvents, SendEvents
  <2>3. Count(trace, RecvEvents(s, d), 1) <= q + Count(trace, SendEvents(s, d), 1)
    <3>1. 1 \in 0..Len(trace)
      BY <1>1
    <3>2. AheadOf(trace, SendEvents(s, d), RecvEvents(s, d), q)
      BY <2>1 DEF FollowedInv, Covered
    <3> HIDE DEF q
    <3> QED
      BY <3>1, <3>2 DEF AheadOf
  <2>4. ASSUME NEW E PROVE Count(trace, E, 1) = IF e \in E THEN 1 ELSE 0
    <3>1. Count(trace, E, 0) = 0
      BY CountNone
    <3>2. Count(trace, E, 0 + 1) = Count(trace, E, 0) + (IF trace[0 + 1] \in E THEN 1 ELSE 0)
      BY CountNext
    <3>3. 0 + 1 = 1
      OBVIOUS
    <3> QED
      BY <3>1, <3>2, <3>3 DEF e
  <2>5. q \in Nat /\ queue[MessageName(s, d)] \in Seq(Key)
    BY <2>1, NamesOfMessages DEF KeysKnown, KeysTypeOK
  <2>6. 1 <= q
    BY <2>2, <2>3, <2>4, <2>5
  <2>7. queue[MessageName(s, d)] # <<>>
    BY <2>5, <2>6
  <2> HIDE DEF q
  <2>8. Decode(e)
    BY DEF e
  <2> QED
    BY <1>1, <1>2, <1>5, <2>7, <2>8, ConvertsReceive DEF e
<1> QED
  BY <1>1, <1>3, <1>4, <1>5 DEF MessageEvents

LEMMA DecodeKeepsFollowed ==
  ASSUME LinksFollowed, FilesInv, KeysKnown, KeysKnown', FollowedInv, DecodeNext
  PROVE  FollowedInv'
<1>1. Synced
  BY DEF LinksFollowed
<1>2. PICK i \in NextToDecode : Decode(trace[i]) /\ trace' = Without(trace, i)
  BY DEF DecodeNext
<1>3. i = 1 /\ i \in DOMAIN trace
  BY <1>1 DEF NextToDecode
<1>4. trace \in Seq(MessageEvents) /\ trace # <<>>
  BY <1>3 DEF FollowedInv
<1>5. /\ trace' \in Seq(MessageEvents) /\ Shortens(trace', trace, 1) /\ Decode(trace[1])
  BY <1>2, <1>3, <1>4, WithoutShape
<1>6. /\ Converts(trace[1])
      /\ links' = links \/ \E l : Between(l) /\ links' = Append(links, l)
  BY <1>4, <1>5, FirstConverts DEF Started, Finished, LinkIsOf
<1> DEFINE e == trace[1]
<1>7. UNCHANGED <<pc, call, net, posted, request>>
  BY DEF DecodeNext, mpiVars
<1>8. ASSUME NEW s \in Ranks, NEW d \in Ranks
      PROVE  /\ Len(queue'[MessageName(s, d)]) + CountAll(trace', SendEvents(s, d))
                  = CountAll(trace', RecvEvents(s, d)) + Pending(s, d)
             /\ AheadOf(trace', SendEvents(s, d), RecvEvents(s, d), Len(queue'[MessageName(s, d)]))
  <2> DEFINE E == SendEvents(s, d)
             F == RecvEvents(s, d)
             q == Len(queue[MessageName(s, d)])
             next == Len(queue'[MessageName(s, d)])
             p == Pending(s, d)
  <2>1. q \in Nat /\ next \in Nat /\ p \in Nat
    BY NamesOfMessages, PendingType DEF KeysKnown, KeysTypeOK, FilesInv
  <2>2. q + CountAll(trace, E) = CountAll(trace, F) + p /\ AheadOf(trace, E, F, q)
    BY DEF FollowedInv, Conserved, Covered
  <2>3. next = q + (IF e \in E THEN 1 ELSE 0) - (IF e \in F THEN 1 ELSE 0)
    BY <1>6 DEF Converts, KeysChange
  <2> HIDE DEF E, F, q, next, p
  <2>4. AheadOf(trace', E, F, next)
    BY <1>4, <1>5, <2>1, <2>2, <2>3, ShorterStaysAhead
  <2>5. ASSUME NEW X
        PROVE  CountAll(trace, X) = CountAll(trace', X) + (IF e \in X THEN 1 ELSE 0)
    <3>1. Len(trace') \in Nat /\ Len(trace) = Len(trace') + 1
      BY <1>4, <1>5 DEF Shortens
    <3>2. Count(trace, X, Len(trace') + 1) = Count(trace', X, Len(trace')) + (IF e \in X THEN 1 ELSE 0)
      BY <1>4, <1>5, <3>1, CountTail
    <3> QED
      BY <3>1, <3>2 DEF CountAll
  <2>6. CountAll(trace', E) \in Nat /\ CountAll(trace', F) \in Nat
    BY <1>5, CountType DEF CountAll
  <2>7. next + CountAll(trace', E) = CountAll(trace', F) + p
    <3> DEFINE x == IF e \in E THEN 1 ELSE 0
               y == IF e \in F THEN 1 ELSE 0
    <3>1. CountAll(trace, E) = CountAll(trace', E) + x /\ CountAll(trace, F) = CountAll(trace', F) + y
      BY <2>5
    <3>2. x \in Nat /\ y \in Nat /\ next = q + x - y
      BY <2>3
    <3> DEFINE a == CountAll(trace', E)
               b == CountAll(trace', F)
    <3>3. a \in Nat /\ b \in Nat /\ q + (a + x) = (b + y) + p
      BY <2>2, <2>6, <3>1
    <3> HIDE DEF e, x, y, a, b
    <3>4. next + a = b + p
      BY <2>1, <3>2, <3>3
    <3> QED
      BY <3>4 DEF a, b
  <2> QED
    BY <2>4, <2>7 DEF E, F, next, p
<1>9. ASSUME NEW s, NEW d PROVE Pending(s, d)' = Pending(s, d)
  BY <1>7 DEF Pending, Held
<1>10. Conserved' /\ Covered'
  BY <1>8, <1>9 DEF Conserved, Covered
<1>11. SourcesKnown'
  BY <1>7 DEF FollowedInv, SourcesKnown, SentBy, PostedOn, ArrivedFrom, SourceOf
<1>12. \A j \in DOMAIN links' : Between(links'[j])
  <2>1. CASE links' = links
    BY <2>1 DEF FollowedInv
  <2>2. CASE links' # links
    <3>1. PICK l : Between(l) /\ links' = Append(links, l)
      BY <1>6, <2>2
    <3>2. PICK S : links \in Seq(S)
      BY DEF KeysKnown
    <3>3. \A j \in DOMAIN links' : links'[j] = l \/ (j \in DOMAIN links /\ links'[j] = links[j])
      BY <3>1, <3>2
    <3> QED
      BY <3>1, <3>3 DEF FollowedInv
  <2> QED
    BY <2>1, <2>2
<1>13. ~fail' /\ phase' \notin {"scatter", "collect"} /\ entered' \subseteq MessageNames
  BY <1>6 DEF Converts, FollowedInv
<1> QED
  BY <1>5, <1>10, <1>11, <1>12, <1>13 DEF FollowedInv

LEMMA FollowedInvStep ==
  ASSUME LinksFollowed, FilesInv, FilesInv', IrecvsInv, KeysKnown, KeysKnown', FollowedInv,
         [Next]_vars
  PROVE  FollowedInv'
<1>1. CASE TracerStep
  BY <1>1, TracerKeepsFollowed DEF FilesInv, LinksFollowed
<1>2. CASE DecodeNext
  BY <1>2, DecodeKeepsFollowed
<1>3. CASE (ScatterStep \/ CollectStep \/ LoopEnd) /\ UNCHANGED tracerVars
  BY <1>3 DEF ScatterStep, CollectStep, LoopEnd, FollowedInv
<1>4. CASE CloseTrace \/ UNCHANGED vars
  <2>1. /\ UNCHANGED <<pc, call, net, posted, request, trace, entered, queue, links, fail>>
        /\ phase' \in {phase, "closed"}
    BY <1>4 DEF CloseTrace, Close, vars, tracerVars, mpiVars, converterVars, outputVars, keyVars
  <2>2. SourcesKnown'
    BY <2>1 DEF FollowedInv, SourcesKnown, SentBy, PostedOn, ArrivedFrom, SourceOf
  <2>3. Conserved' /\ Covered'
    BY <2>1 DEF FollowedInv, Conserved, Covered, Pending, Held
  <2> QED
    BY <2>1, <2>2, <2>3 DEF FollowedInv
<1> QED
  BY <1>1, <1>2, <1>3, <1>4 DEF Next, ConverterNext

LEMMA FollowedInvariant ==
  ASSUME LinksFollowed
  PROVE  Spec => [](FilesInv /\ IrecvsInv /\ KeysKnown /\ FollowedInv)
<1>1. NoTests
  BY FollowedAreTracked DEF LinksFollowed
<1>2. Init => FilesInv /\ IrecvsInv /\ FollowedInv
  <2>1. Init => IrecvsInv
    BY IrecvsInvInit
  <2> QED
    BY <2>1, FilesInvInit, FollowedInvInit
<1>3. FilesInv /\ IrecvsInv /\ [Next]_vars => FilesInv' /\ IrecvsInv'
  BY <1>1, FilesInvStep, IrecvsInvStep DEF FilesInv
<1>4. FilesInv /\ FilesInv' /\ IrecvsInv /\ KeysKnown /\ KeysKnown' /\ FollowedInv /\ [Next]_vars
        => FollowedInv'
  BY FollowedInvStep
<1> QED
  BY <1>2, <1>3, <1>4, KeysAreKnown, PTL DEF Spec

\* With synchronized clocks, aky_get_key finds the key of every receive, of an
\* application of any size that keeps to the calls of LinksFollowed.
THEOREM NoKeyIsMissing ==
  ASSUME LinksFollowed
  PROVE  Spec => []NoMissingKey
<1>1. FollowedInv => NoMissingKey
  BY DEF FollowedInv, NoMissingKey, Between, Ends, KeyAt
<1> QED
  BY <1>1, FollowedInvariant, PTL

-----------------------------------------------------------------------------
(***************************************************************************)
(* What is left at the end.  A rank that finalizes has completed its       *)
(* requests, so that nothing reaches one of them any more.                 *)
(***************************************************************************)
Finalized(r) == pc[r] = "end" \/ Within(r, {"MPI_Finalize"})
AtRest(r) == \A a \in Slots : request[r][a].st = "null"
FinalizedInv == \A r \in Ranks : Finalized(r) => AtRest(r)

\* One request changes: the other ranks keep theirs.
LEMMA OthersKeepRequests ==
  ASSUME request \in [Ranks -> [Slots -> Request]], NEW r, NEW a, NEW v, RequestBecomes(r, a, v),
         NEW q \in Ranks \ {r}
  PROVE  request'[q] = request[q]
<1>1. request[q] \in [Slots -> Request] /\ request'[q] \in [Slots -> Request]
  BY DEF RequestBecomes
<1>2. \A b \in Slots : request'[q][b] = request[q][b]
  BY DEF RequestBecomes
<1> QED
  BY <1>1, <1>2

\* The requests of the others are not touched by the calls of a rank, which are not the
\* last one.
LEMMA CallsTouchOwn ==
  ASSUME RequestsInv, NEW r \in Ranks,
         LeaveCall(r) \/ \E c \in Calls[r] : EnterCall(r, c)
  PROVE  /\ \A q \in Ranks \ {r} : /\ request'[q] = request[q] /\ pc'[q] = pc[q]
                                   /\ call'[q] = call[q]
         /\ ~Finalized(r)'
<1>1. request \in [Ranks -> [Slots -> Request]] /\ RequestsTypeOK /\ CallsAreOwn
  BY DEF RequestsInv, RequestsTypeOK
<1>2. ASSUME NEW c \in Calls[r], EnterCall(r, c)
      PROVE  /\ \A q \in Ranks \ {r} : request'[q] = request[q]
             /\ \E events : Enter(r, c, events)
             /\ c.op # "MPI_Finalize"
  <2>1. CASE EnterSend(r, c)
    <3>1. \A q \in Ranks \ {r} : request'[q] = request[q]
      <4>1. CASE request' = request
        BY <4>1
      <4>2. CASE request' # request
        <5>1. \E v \in Request : RequestBecomes(r, c.req, v)
          BY <2>1, <4>2, SendsRequest
        <5> QED
          BY <1>1, <5>1, OthersKeepRequests
      <4> QED
        BY <4>1, <4>2
    <3>2. (\E events : Enter(r, c, events)) /\ c.op \in SendOps
      BY <2>1 DEF EnterSend
    <3> QED
      BY <3>1, <3>2 DEF SendOps, BlockingSends, ForgottenSends
  <2>2. CASE EnterRecv(r, c) \/ EnterIrecv(r, c) \/ EnterSendrecv(r, c)
    <3>1. \E slot : Post(r, slot, c.comm, c.peer, c.tag)
      BY <2>2 DEF EnterRecv, EnterIrecv, EnterSendrecv
    <3>2. \A q \in Ranks \ {r} : request'[q] = request[q]
      BY <1>1, <3>1 DEF Post
    <3>3. (\E events : Enter(r, c, events)) /\ c.op \in {"MPI_Recv", "MPI_Irecv"} \cup SendrecvOps
      BY <2>2 DEF EnterRecv, EnterIrecv, EnterSendrecv
    <3> QED
      BY <3>2, <3>3 DEF SendrecvOps
  <2>3. CASE EnterWait(r, c)
    BY <2>3 DEF EnterWait, mpiVars
  <2>4. CASE QuietEnter(r, c)
    BY <2>4, QuietEnterShape
  <2> QED
    BY <1>2, <2>1, <2>2, <2>3, <2>4 DEF EnterCall, QuietEnter
<1>3. ASSUME LeaveCall(r)
      PROVE  /\ \A q \in Ranks \ {r} : request'[q] = request[q]
             /\ \E events : Leave(r, events)
  <2>1. CASE LeaveSend(r) \/ LeaveIrecv(r)
    BY <2>1 DEF LeaveSend, LeaveIrecv, mpiVars
  <2>2. CASE LeaveRecv(r) \/ LeaveSendrecv(r) \/ LeaveTest(r)
    <3>1. /\ \/ request' = request
             \/ \E a : request' = [request EXCEPT ![r][a] = Null]
          /\ \E events : Leave(r, events)
      BY <2>2 DEF LeaveRecv, LeaveSendrecv, LeaveTest
    <3> QED
      BY <1>1, <3>1
  <2>3. CASE LeaveWait(r) \/ LeaveWaitall(r) \/ LeaveWaitany(r)
    <3>1. PICK done : FinishRequests(r, done)
      BY <2>3 DEF LeaveWait, LeaveWaitall, LeaveWaitany
    <3>2. /\ request' = [request EXCEPT ![r] = [a \in DOMAIN @ |-> IF a \in done THEN Null
                                                                   ELSE @[a]]]
          /\ \E events : Leave(r, events)
      BY <3>1 DEF FinishRequests
    <3> QED
      BY <1>1, <3>2
  <2>4. CASE QuietLeave(r)
    BY <2>4, QuietLeaveShape
  <2> QED
    BY <1>3, <2>1, <2>2, <2>3, <2>4 DEF LeaveCall, QuietLeave
<1>4. CASE \E c \in Calls[r] : EnterCall(r, c)
  <2>1. PICK c \in Calls[r] : EnterCall(r, c)
    BY <1>4
  <2>2. /\ pc'[r] = "call" /\ call'[r] = c /\ c.op # "MPI_Finalize"
        /\ \A q \in Ranks \ {r} : pc'[q] = pc[q] /\ call'[q] = call[q]
    BY <1>1, <1>2, <2>1, EnterShape
  <2> QED
    BY <1>2, <2>1, <2>2 DEF Finalized, Within
<1>5. CASE LeaveCall(r)
  <2>1. pc'[r] = "app" /\ \A q \in Ranks \ {r} : pc'[q] = pc[q] /\ call'[q] = call[q]
    BY <1>1, <1>3, <1>5, LeaveShape
  <2> QED
    BY <1>3, <1>5, <2>1 DEF Finalized, Within
<1> QED
  BY <1>4, <1>5

LEMMA FinalizedInvInit ==
  ASSUME Init
  PROVE  FinalizedInv
  BY DEF Init, TracerInit, FinalizedInv, Finalized, Within

\* Only the start and the end of MPI_Finalize finalize a rank.
LEMMA FinalizedInvStep ==
  ASSUME RequestsInv, FinalizedInv, [Next]_vars
  PROVE  FinalizedInv'
<1>1. ASSUME NEW r \in Ranks, LeaveCall(r) \/ \E c \in Calls[r] : EnterCall(r, c)
      PROVE  FinalizedInv'
  <2>1. /\ \A q \in Ranks \ {r} : /\ request'[q] = request[q] /\ pc'[q] = pc[q]
                                  /\ call'[q] = call[q]
        /\ ~Finalized(r)'
    BY <1>1, CallsTouchOwn
  <2> QED
    BY <2>1 DEF FinalizedInv, Finalized, AtRest, Within
<1>2. ASSUME NEW r \in Ranks, InitCall(r) \/ EnterFinalize(r) \/ LeaveFinalize(r)
      PROVE  FinalizedInv'
  <2>1. request' = request /\ \A q \in Ranks \ {r} : pc'[q] = pc[q] /\ call'[q] = call[q]
    BY <1>2 DEF InitCall, EnterFinalize, LeaveFinalize, mpiVars, RequestsInv, RequestsTypeOK
  <2>2. Finalized(r)' => AtRest(r)
    <3>1. CASE InitCall(r)
      BY <3>1 DEF InitCall, Finalized, Within, RequestsInv, RequestsTypeOK
    <3>2. CASE EnterFinalize(r)
      <4>1. pc[r] = "app" /\ \A a \in Reqs : request[r][a].st = "null"
        BY <3>2 DEF EnterFinalize
      <4>2. request[r][Blocking].st = "null"
        BY <4>1 DEF RequestsInv, BlockingUse, Within
      <4> QED
        BY <4>1, <4>2 DEF AtRest, Slots
    <3>3. CASE LeaveFinalize(r)
      BY <3>3 DEF LeaveFinalize, FinalizedInv, Finalized, Within
    <3> QED
      BY <1>2, <3>1, <3>2, <3>3
  <2> QED
    BY <2>1, <2>2 DEF FinalizedInv, Finalized, AtRest, Within
<1>3. ASSUME NEW s \in Ranks, NEW d \in Ranks, Deliver(s, d)
      PROVE  FinalizedInv'
  <2>1. UNCHANGED <<pc, call>> /\ Match(s, d)
    BY <1>3 DEF Deliver
  <2>2. PICK j \in DOMAIN posted[d], v \in Request : RequestBecomes(d, posted[d][j].slot, v)
    BY <2>1, MatchShape
  <2>3. posted[d][j].slot \in Slots /\ request[d][posted[d][j].slot].st = "posted"
    BY SlotsOfPosted DEF RequestsInv, RequestsTypeOK, PostedWait
  <2>4. ~Finalized(d) /\ ~Finalized(d)'
    BY <2>1, <2>3 DEF FinalizedInv, AtRest, Finalized, Within
  <2>5. \A q \in Ranks \ {d} : request'[q] = request[q]
    BY <2>2, OthersKeepRequests DEF RequestsInv, RequestsTypeOK
  <2> QED
    BY <2>1, <2>4, <2>5 DEF FinalizedInv, Finalized, AtRest, Within
<1>4. CASE ConverterNext \/ UNCHANGED vars
  <2>1. UNCHANGED <<pc, call, request>>
    BY <1>4, ConverterApart DEF requestVars
  <2> QED
    BY <2>1 DEF FinalizedInv, Finalized, AtRest, Within
<1> QED
  BY <1>1, <1>2, <1>3, <1>4 DEF Next, TracerStep, TracerNext

\* At the end, the keys that wait of a pair of ranks are as many as the messages.
LEMMA KeysLeft ==
  ASSUME FollowedInv, FinalizedInv, RootOK, phase = "closed", NEW s \in Ranks, NEW d \in Ranks,
         queue[MessageName(s, d)] \in Seq(Key), Len(net[s][d]) \in Nat
  PROVE  Len(queue[MessageName(s, d)]) = Len(net[s][d])
<1>1. trace = <<>> /\ AtRest(d)
  BY DEF RootOK, FollowedInv, FinalizedInv, Finalized
<1>2. Held(s, d) = {}
  BY <1>1 DEF Held, AtRest
<1>3. Cardinality(Held(s, d)) = 0
  BY <1>2, FS_EmptySet, Zenon
<1>4. ASSUME NEW E PROVE CountAll(trace, E) = 0
  <2>1. Count(trace, E, 0) = 0
    BY CountNone
  <2>2. Len(trace) = 0
    BY <1>1
  <2> QED
    BY <2>1, <2>2 DEF CountAll
<1> DEFINE n == Len(queue[MessageName(s, d)])
           m == Len(net[s][d])
<1>5. n + CountAll(trace, SendEvents(s, d)) = CountAll(trace, RecvEvents(s, d)) + Pending(s, d)
  BY DEF FollowedInv, Conserved
<1>6. Pending(s, d) = 0 + m
  BY <1>3 DEF Pending
<1>7. n \in Nat /\ m \in Nat
  OBVIOUS
<1>8. n + 0 = 0 + (0 + m)
  BY <1>4, <1>5, <1>6
<1> HIDE DEF n, m
<1>9. n = m
  BY <1>7, <1>8
<1> QED
  BY <1>9 DEF n, m

\* The starts without an end between two ranks are those of the keys that wait.
OpenStarts(s, d) ==
  {i \in Starts : KeyAt(i) \in OpenKeys /\ links[i].about[2] = s /\ links[i].about[3] = d}

LEMMA OpenStartsWait ==
  ASSUME KeysKnown, FollowedInv, NEW s \in Ranks, NEW d \in Ranks
  PROVE  Cardinality(OpenStarts(s, d)) = Len(queue[MessageName(s, d)])
<1> DEFINE nm == MessageName(s, d)
           n == Len(queue[nm])
           open == OpenStarts(s, d)
           StartOf(j) == CHOOSE i \in Starts : KeyAt(i) = queue[nm][j]
           f == [j \in 1..n |-> StartOf(j)]
<1>1. nm \in Names /\ nm[2] = s /\ nm[3] = d
  BY NamesOfMessages DEF MessageName
<1>2. queue[nm] \in Seq(Key) /\ n \in Nat
  BY <1>1 DEF KeysKnown, KeysTypeOK
<1>3. \A i \in Starts : Between(links[i]) /\ KeyAt(i) # NoKey
  BY DEF FollowedInv, Starts, KeyAt, Between
<1>4. ASSUME NEW j \in 1..n
      PROVE  /\ StartOf(j) \in open /\ KeyAt(StartOf(j)) = queue[nm][j]
  <2> DEFINE i == StartOf(j)
             k == queue[nm][j]
  <2>1. j \in DOMAIN queue[nm] /\ k \in WaitingKeys
    BY <1>1, <1>2 DEF WaitingKeys
  <2>2. k \in OpenKeys
    BY <2>1 DEF KeysKnown, OpenLinksWait
  <2>3. \E x \in Starts : KeyAt(x) = k
    BY <2>2 DEF OpenKeys
  <2>4. i \in Starts /\ KeyAt(i) = k
    BY <2>3
  <2>5. \E x : k = KeyOf(nm, x)
    BY <1>1 DEF KeysKnown, KeysBelong
  <2>6. k[1] = s /\ k[2] = d
    BY <1>1, <2>5 DEF KeyOf
  <2> HIDE DEF i, k
  <2>7. links[i].about[2] = s /\ links[i].about[3] = d
    BY <1>3, <2>4, <2>6 DEF Between, KeyAt
  <2>8. i \in open
    BY <2>2, <2>4, <2>7 DEF OpenStarts
  <2> QED
    BY <2>4, <2>8 DEF i, k
<1>5. f \in [1..n -> open]
  BY <1>4
<1>6. \A j, k \in 1..n : f[j] = f[k] => j = k
  <2> SUFFICES ASSUME NEW j \in 1..n, NEW k \in 1..n, f[j] = f[k]
               PROVE  j = k
    OBVIOUS
  <2>1. queue[nm][j] = queue[nm][k]
    BY <1>4
  <2> QED
    BY <1>1, <2>1 DEF KeysKnown, KeysUnique
<1>7. ASSUME NEW i \in open
      PROVE  \E j \in 1..n : f[j] = i
  <2>1. i \in Starts /\ KeyAt(i) \in OpenKeys /\ links[i].about[2] = s /\ links[i].about[3] = d
    BY DEF OpenStarts
  <2>2. KeyAt(i) # NoKey /\ KeyAt(i)[1] = s /\ KeyAt(i)[2] = d
    BY <1>3, <2>1 DEF Between, KeyAt
  <2>3. KeyAt(i) \in WaitingKeys
    BY <2>1, <2>2 DEF KeysKnown, OpenLinksWait
  <2>4. PICK other \in Names : \E j \in DOMAIN queue[other] : KeyAt(i) = queue[other][j]
    BY <2>3 DEF WaitingKeys
  <2>5. PICK j \in DOMAIN queue[other] : KeyAt(i) = queue[other][j]
    BY <2>4
  <2>6. queue[other] \in Seq(Key)
    BY DEF KeysKnown, KeysTypeOK
  <2>7. j \in 1..Len(queue[other]) /\ queue[other] # <<>>
    BY <2>6
  <2>8. \E x : KeyAt(i) = KeyOf(other, x)
    BY <2>5, <2>7 DEF KeysKnown, KeysBelong
  <2>9. other[2] = s /\ other[3] = d
    BY <2>2, <2>8 DEF KeyOf
  <2>10. other \in MessageNames
    BY <2>7 DEF KeysKnown, FollowedInv
  <2>11. other = nm
    BY <2>9, <2>10 DEF MessageNames, MessageName
  <2>12. j \in 1..n /\ KeyAt(i) = queue[nm][j]
    BY <2>5, <2>7, <2>11
  <2>13. f[j] \in Starts /\ KeyAt(f[j]) = KeyAt(i)
    BY <1>4, <2>12 DEF OpenStarts
  <2>14. f[j] = i
    BY <2>1, <2>2, <2>13 DEF KeysKnown, LinkKeysUnique, Starts
  <2> QED
    BY <2>12, <2>14
<1>8. f \in Bijection(1..n, open)
  <2> HIDE DEF f, n, open
  <2> QED
    BY <1>5, <1>6, <1>7 DEF Bijection, Injection, Surjection, IsInjective
<1>9. IsFiniteSet(1..n) /\ Cardinality(1..n) = n
  BY <1>2, FS_Interval
<1> HIDE DEF f, n, open
<1>10. Cardinality(open) = Cardinality(1..n)
  BY <1>8, <1>9, FS_Bijection DEF ExistsBijection
<1> QED
  BY <1>9, <1>10 DEF open, n, nm

\* When all is converted, the links that such an application leaves open between two
\* ranks are the messages that the one sent and the other never received.
THEOREM OpenLinksAreLeft ==
  ASSUME LinksFollowed
  PROVE  Spec => []OpenLinksAreUnreceived
<1>1. ASSUME FilesInv, KeysKnown, FollowedInv, FinalizedInv, RootOK
      PROVE  OpenLinksAreUnreceived
  <2> SUFFICES ASSUME phase = "closed", NEW s \in Ranks, NEW d \in Ranks
               PROVE  /\ Cardinality(OpenStarts(s, d)) = Len(net[s][d])
                      /\ \A i \in OpenStarts(s, d) : links[i].value = "PTP"
    BY DEF OpenLinksAreUnreceived, OpenStarts
  <2>1. queue[MessageName(s, d)] \in Seq(Key)
    BY <1>1, NamesOfMessages DEF KeysKnown, KeysTypeOK
  <2>2. Len(net[s][d]) \in Nat
    BY <1>1, PendingType DEF FilesInv
  <2>3. Cardinality(OpenStarts(s, d)) = Len(net[s][d])
    BY <1>1, <2>1, <2>2, KeysLeft, OpenStartsWait
  <2>4. \A i \in OpenStarts(s, d) : links[i].value = "PTP"
    BY <1>1 DEF FollowedInv, OpenStarts, Starts, Between
  <2> QED
    BY <2>3, <2>4
<1>2. Init => FinalizedInv
  BY FinalizedInvInit
<1>3. FilesInv /\ FinalizedInv /\ [Next]_vars => FinalizedInv'
  BY FinalizedInvStep DEF FilesInv
<1>4. OutputInv => RootOK
  BY DEF OutputInv
<1> QED
  BY <1>1, <1>2, <1>3, <1>4, FollowedInvariant, OutputInvariant, PTL DEF Spec

-----------------------------------------------------------------------------
(***************************************************************************)
(* The order of messages.  A rank sends all its messages to another one on *)
(* one communicator with one tag, and receives one message at a time:      *)
(* always with MPI_Recv, or always with MPI_Irecv into the same request.   *)
(* Any other application may record its receives in another order than     *)
(* that of the sends, against what the converters take for granted (the    *)
(* run fifo; src/src/otf2/DevLog.org:166).                                 *)
(***************************************************************************)
ReceiveOps == {"MPI_Recv", "MPI_Irecv"}
ReceiveSlot(c) == IF c.op = "MPI_Recv" THEN Blocking ELSE c.req

OneAtATime ==
  \A r \in Ranks : \A b, c \in Calls[r] :
    b.op \in ReceiveOps /\ c.op \in ReceiveOps => ReceiveSlot(b) = ReceiveSlot(c)

SendsTo(r, c, d) ==
  c \in Calls[r] /\ c.op \in SendOps /\ AKY_translate_rank(c.comm, c.peer) = d

OneChannel ==
  \A r, d \in Ranks : \A b, c \in Calls[r] :
    SendsTo(r, b, d) /\ SendsTo(r, c, d) => b.comm = c.comm /\ b.tag = c.tag

MessagesOrdered == OneAtATime /\ OneChannel

-----------------------------------------------------------------------------
\* What the events of a set, in a sequence, are about; whether they are in the order
\* in which their messages were sent; messages sent before others.
AboutsIn(t, E) == {t[i].about : i \in Upto(t, E, Len(t))}
Rising(t, E) ==
  \A i, j \in Upto(t, E, Len(t)) : i < j => t[i].about[3] < t[j].about[3]
Earlier(A, B) == \A m \in A, n \in B : m[3] < n[3]

LEMMA NoAbouts ==
  ASSUME NEW t, NEW E, \A i \in 1..Len(t) : t[i] \notin E
  PROVE  AboutsIn(t, E) = {} /\ Rising(t, E)
  BY DEF AboutsIn, Rising, Upto

\* Of two events, the one in the set.
LEMMA AboutsOfPair ==
  ASSUME NEW a, NEW b, NEW E, a \in E \/ b \in E, ~(a \in E /\ b \in E)
  PROVE  /\ AboutsIn(<<a, b>>, E) = {IF a \in E THEN a.about ELSE b.about}
         /\ Rising(<<a, b>>, E)
<1> DEFINE t == <<a, b>>
<1>1. Len(t) = 2 /\ t[1] = a /\ t[2] = b /\ 1..2 = {1, 2}
  OBVIOUS
<1> HIDE DEF t
<1>2. CASE a \in E
  <2>1. Upto(t, E, Len(t)) = {1}
    BY <1>1, <1>2 DEF Upto
  <2> QED
    BY <1>1, <1>2, <2>1 DEF AboutsIn, Rising, t
<1>3. CASE a \notin E
  <2>1. Upto(t, E, Len(t)) = {2}
    BY <1>1, <1>3 DEF Upto
  <2> QED
    BY <1>1, <1>3, <2>1 DEF AboutsIn, Rising, t
<1> QED
  BY <1>2, <1>3

\* Of a sequence and what follows it.
LEMMA AboutsJoin ==
  ASSUME NEW S, NEW t \in Seq(S), NEW v \in Seq(S), NEW E
  PROVE  /\ AboutsIn(t \o v, E) = AboutsIn(t, E) \cup AboutsIn(v, E)
         /\ Rising(t, E) /\ Rising(v, E) /\ Earlier(AboutsIn(t, E), AboutsIn(v, E))
              => Rising(t \o v, E)
<1> DEFINE u == t \o v
           n == Len(t)
           k == Len(v)
<1>1. /\ n \in Nat /\ k \in Nat /\ Len(u) = n + k
      /\ \A i \in 1..n : u[i] = t[i]
      /\ \A i \in 1..k : u[n + i] = v[i]
  OBVIOUS
<1> HIDE DEF u, n, k
<1>2. \A i \in 1..(n + k) : i \in 1..n \/ \E j \in 1..k : i = n + j
  <2> SUFFICES ASSUME NEW i \in 1..(n + k), i \notin 1..n
               PROVE  \E j \in 1..k : i = n + j
    OBVIOUS
  <2>1. i - n \in 1..k /\ i = n + (i - n)
    BY <1>1
  <2> QED
    BY <2>1
<1>3. /\ Upto(t, E, n) = {i \in 1..n : t[i] \in E} /\ Upto(v, E, k) = {i \in 1..k : v[i] \in E}
      /\ Upto(u, E, n + k) = {i \in 1..(n + k) : u[i] \in E}
  BY DEF Upto
<1>4. /\ \A i \in Upto(t, E, n) : i \in Upto(u, E, n + k) /\ u[i] = t[i]
      /\ \A j \in Upto(v, E, k) : n + j \in Upto(u, E, n + k) /\ u[n + j] = v[j]
  <2>1. ASSUME NEW i \in 1..n PROVE i \in 1..(n + k)
    BY <1>1
  <2>2. ASSUME NEW j \in 1..k PROVE n + j \in 1..(n + k)
    BY <1>1
  <2> QED
    BY <1>1, <1>3, <2>1, <2>2
<1>5. \A i \in Upto(u, E, n + k) :
        \/ i \in Upto(t, E, n) /\ u[i] = t[i]
        \/ \E j \in Upto(v, E, k) : i = n + j /\ u[i] = v[j]
  BY <1>1, <1>2, <1>3
<1>6. /\ AboutsIn(t, E) = {t[i].about : i \in Upto(t, E, n)}
      /\ AboutsIn(v, E) = {v[i].about : i \in Upto(v, E, k)}
      /\ AboutsIn(u, E) = {u[i].about : i \in Upto(u, E, n + k)}
  BY <1>1 DEF AboutsIn, n, k
<1>7. AboutsIn(u, E) = AboutsIn(t, E) \cup AboutsIn(v, E)
  BY <1>4, <1>5, <1>6
<1>8. ASSUME Rising(t, E), Rising(v, E), Earlier(AboutsIn(t, E), AboutsIn(v, E)),
             NEW i \in Upto(u, E, n + k), NEW j \in Upto(u, E, n + k), i < j
      PROVE  u[i].about[3] < u[j].about[3]
  <2>1. /\ \A x, y \in Upto(t, E, n) : x < y => t[x].about[3] < t[y].about[3]
        /\ \A x, y \in Upto(v, E, k) : x < y => v[x].about[3] < v[y].about[3]
    BY <1>8 DEF Rising, n, k
  <2>2. CASE i \in Upto(t, E, n) /\ j \in Upto(t, E, n)
    BY <1>4, <1>8, <2>1, <2>2
  <2>3. CASE i \in Upto(t, E, n) /\ j \notin Upto(t, E, n)
    <3>1. PICK y \in Upto(v, E, k) : j = n + y /\ u[j] = v[y]
      BY <1>5, <2>3
    <3>2. /\ t[i].about \in AboutsIn(t, E) /\ u[i] = t[i]
          /\ v[y].about \in AboutsIn(v, E)
      BY <1>4, <1>6, <2>3
    <3>3. t[i].about[3] < v[y].about[3]
      BY <1>8, <3>2 DEF Earlier
    <3> QED
      BY <3>1, <3>2, <3>3
  <2>4. CASE i \notin Upto(t, E, n)
    <3>1. PICK x \in Upto(v, E, k) : i = n + x /\ u[i] = v[x]
      BY <1>5, <2>4
    <3>2. x \in 1..k /\ j \notin 1..n
      BY <1>1, <1>3, <1>8, <3>1
    <3>3. PICK y \in Upto(v, E, k) : j = n + y /\ u[j] = v[y]
      BY <1>3, <1>5, <3>2
    <3>4. x < y
      BY <1>1, <1>3, <1>8, <3>1, <3>3
    <3> QED
      BY <2>1, <3>1, <3>3, <3>4
  <2> QED
    BY <2>2, <2>3, <2>4
<1>9. Rising(t, E) /\ Rising(v, E) /\ Earlier(AboutsIn(t, E), AboutsIn(v, E)) => Rising(u, E)
  BY <1>1, <1>8 DEF Rising
<1> QED
  BY <1>7, <1>9 DEF u

\* Of a sequence and its first event.
LEMMA AboutsAfterFirst ==
  ASSUME NEW S, NEW t \in Seq(S), NEW u, t # <<>>, Shortens(u, t, 1), NEW E, Rising(t, E)
  PROVE  /\ AboutsIn(t, E) = AboutsIn(u, E) \cup (IF t[1] \in E THEN {t[1].about} ELSE {})
         /\ Rising(u, E)
         /\ t[1] \in E => Earlier({t[1].about}, AboutsIn(u, E))
<1> DEFINE n == Len(t)
<1>1. n \in Nat /\ n >= 1 /\ Len(u) = n - 1 /\ \A i \in 1..(n - 1) : u[i] = t[i + 1]
  BY DEF Shortens
<1>2. /\ AboutsIn(t, E) = {t[i].about : i \in Upto(t, E, n)}
      /\ AboutsIn(u, E) = {u[i].about : i \in Upto(u, E, n - 1)}
  BY <1>1 DEF AboutsIn
<1>3. \A i, j \in Upto(t, E, n) : i < j => t[i].about[3] < t[j].about[3]
  BY DEF Rising
<1> HIDE DEF n
<1>4. ASSUME NEW i \in Upto(u, E, n - 1)
      PROVE  i \in 1..(n - 1) /\ i + 1 \in Upto(t, E, n) /\ u[i] = t[i + 1]
  <2>1. i \in 1..(n - 1) /\ u[i] \in E
    BY DEF Upto
  <2>2. i + 1 \in 1..n
    BY <1>1, <2>1
  <2> QED
    BY <1>1, <2>1, <2>2 DEF Upto
<1>5. ASSUME NEW i \in Upto(t, E, n), i # 1
      PROVE  \E j \in Upto(u, E, n - 1) : u[j] = t[i]
  <2>1. i \in 1..n /\ t[i] \in E
    BY DEF Upto
  <2>2. i - 1 \in 1..(n - 1) /\ (i - 1) + 1 = i
    BY <1>1, <1>5, <2>1
  <2>3. u[i - 1] = t[i]
    BY <1>1, <2>2
  <2> QED
    BY <2>1, <2>2, <2>3 DEF Upto
<1>6. 1 \in Upto(t, E, n) <=> t[1] \in E
  BY <1>1 DEF Upto
<1>7. AboutsIn(t, E) = AboutsIn(u, E) \cup (IF t[1] \in E THEN {t[1].about} ELSE {})
  <2>1. CASE t[1] \in E
    BY <1>2, <1>4, <1>5, <1>6, <2>1
  <2>2. CASE t[1] \notin E
    BY <1>2, <1>4, <1>5, <1>6, <2>2
  <2> QED
    BY <2>1, <2>2
<1>8. Rising(u, E)
  <2> SUFFICES ASSUME NEW i \in Upto(u, E, n - 1), NEW j \in Upto(u, E, n - 1), i < j
               PROVE  u[i].about[3] < u[j].about[3]
    BY <1>1 DEF Rising
  <2>1. i + 1 < j + 1
    BY <1>4
  <2> QED
    BY <1>3, <1>4, <2>1
<1>9. ASSUME t[1] \in E PROVE Earlier({t[1].about}, AboutsIn(u, E))
  <2> SUFFICES ASSUME NEW j \in Upto(u, E, n - 1)
               PROVE  t[1].about[3] < u[j].about[3]
    BY <1>2 DEF Earlier
  <2>1. 1 < j + 1
    BY <1>4
  <2> QED
    BY <1>3, <1>4, <1>6, <1>9, <2>1
<1> QED
  BY <1>7, <1>8, <1>9

-----------------------------------------------------------------------------
(***************************************************************************)
(* A step of the application moves messages.  Those that arrived at a      *)
(* request are Arrived.                                                    *)
(***************************************************************************)
Arrived(s, d) == {request[d][a].msg : a \in Held(s, d)}

\* Between two ranks: nothing moves, a message is sent, the first that waits arrives
\* where none had, or those that arrived are recorded.
Rests(s, d) == Arrived(s, d)' = Arrived(s, d) /\ net'[s][d] = net[s][d]
Sends(s, d) ==
  /\ Arrived(s, d)' = Arrived(s, d) /\ nsent'[s] = nsent[s] + 1
  /\ \E m : m.msg = NextMsg(s) /\ net'[s][d] = Append(net[s][d], m)
Arrives(s, d) ==
  /\ Arrived(s, d) = {} /\ 1 \in DOMAIN net[s][d]
  /\ Arrived(s, d)' = {net[s][d][1].msg} /\ Shortens(net'[s][d], net[s][d], 1)
IsRecorded(s, d) == Arrived(s, d)' = {} /\ net'[s][d] = net[s][d]

Move(s, d, events) ==
  LET sends == AboutsIn(events, SendEvents(s, d))
      recvs == AboutsIn(events, RecvEvents(s, d))
  IN /\ Rising(events, SendEvents(s, d)) /\ Rising(events, RecvEvents(s, d))
     /\ \/ sends = {} /\ recvs = {} /\ (Rests(s, d) \/ Arrives(s, d))
        \/ sends = {NextMsg(s)} /\ recvs = {} /\ Sends(s, d)
        \/ sends = {} /\ recvs = Arrived(s, d) /\ IsRecorded(s, d)

Moves ==
  /\ \A s \in Ranks : nsent'[s] \in {nsent[s], nsent[s] + 1}
  /\ \E events \in Seq(MessageEvents) :
       trace' = trace \o events /\ \A s, d \in Ranks : Move(s, d, events)

\* What is posted was asked for by a call of the rank; what waits was sent by one.
ReceivesCalled ==
  \A r \in Ranks, a \in Slots : request[r][a].st \in {"posted", "arrived"} =>
    \E c \in Calls[r] : c.op \in ReceiveOps /\ ReceiveSlot(c) = a
SendsCalled ==
  \A s, d \in Ranks : \A i \in DOMAIN net[s][d] :
    \E c \in Calls[s] : SendsTo(s, c, d) /\ net[s][d][i].comm = c.comm /\ net[s][d][i].tag = c.tag
CallsKnown == ReceivesCalled /\ SendsCalled

\* A rank has one receive posted or arrived at most.
LEMMA OneReceive ==
  ASSUME OneAtATime, ReceivesCalled, NEW r \in Ranks, NEW a \in Slots, NEW b \in Slots,
         request[r][a].st \in {"posted", "arrived"}, request[r][b].st \in {"posted", "arrived"}
  PROVE  a = b
<1>1. PICK c \in Calls[r] : c.op \in ReceiveOps /\ ReceiveSlot(c) = a
  BY DEF ReceivesCalled
<1>2. PICK e \in Calls[r] : e.op \in ReceiveOps /\ ReceiveSlot(e) = b
  BY DEF ReceivesCalled
<1> QED
  BY <1>1, <1>2 DEF OneAtATime

\* Requests that become receives by this step, none.
LEMMA ReceivesStayCalled ==
  ASSUME ReceivesCalled,
         \A r \in Ranks, a \in Slots : request'[r][a].st \in {"posted", "arrived"} =>
            request[r][a].st \in {"posted", "arrived"}
  PROVE  ReceivesCalled'
  BY DEF ReceivesCalled

LEMMA ArrivedStays ==
  ASSUME StillArrived, NEW s \in Ranks, NEW d \in Ranks
  PROVE  Arrived(s, d)' = Arrived(s, d)
<1>1. Held(s, d)' = Held(s, d)
  BY HeldStays
<1>2. \A a \in Held(s, d) : request'[d][a] = request[d][a]
  BY DEF Held, StillArrived
<1> QED
  BY <1>1, <1>2 DEF Arrived

\* Events of no message.
LEMMA CallEventsAbout ==
  ASSUME NEW events \in Seq(CallEvents), NEW s, NEW d
  PROVE  /\ AboutsIn(events, SendEvents(s, d)) = {} /\ Rising(events, SendEvents(s, d))
         /\ AboutsIn(events, RecvEvents(s, d)) = {} /\ Rising(events, RecvEvents(s, d))
<1>1. \A i \in 1..Len(events) :
        events[i] \notin SendEvents(s, d) /\ events[i] \notin RecvEvents(s, d)
  <2>1. \A i \in 1..Len(events) : events[i] \in CallEvents
    OBVIOUS
  <2> QED
    BY <2>1 DEF CallEvents, SendEvents, RecvEvents
<1> QED
  BY <1>1, NoAbouts

\* Steps that move nothing.
LEMMA QuietMoves ==
  ASSUME NEW events \in Seq(CallEvents), trace' = trace \o events,
         StillArrived, UNCHANGED <<nsent, net>>
  PROVE  Moves
<1>1. CallEvents \subseteq MessageEvents
  BY DEF MessageEvents
<1>2. events \in Seq(MessageEvents)
  BY <1>1
<1>3. ASSUME NEW s \in Ranks, NEW d \in Ranks PROVE Move(s, d, events)
  BY CallEventsAbout, ArrivedStays DEF Move, Rests
<1> QED
  BY <1>2, <1>3 DEF Moves

LEMMA SendMoves ==
  ASSUME RequestsInv, CallsKnown, NEW r \in Ranks, NEW c \in Calls[r], EnterSend(r, c)
  PROVE  Moves /\ CallsKnown'
<1> DEFINE d == AKY_translate_rank(c.comm, c.peer)
           e == In(r, c.op, send_mark[r])
           f == SendEvent("AKY_PTP_SEND", r, d, c.size, send_mark[r], NextMsg(r))
           m == [comm |-> c.comm, tag |-> c.tag, msg |-> NextMsg(r)]
<1>1. /\ Enter(r, c, <<e, f>>) /\ Transmit(r, c.comm, c.peer, c.tag) /\ c.op \in SendOps
  BY DEF EnterSend
<1>2. c \in AllCalls /\ c.op \in CallOps
  BY CallIsKnown
<1>3. send_mark[r] \in Nat /\ NextMsg(r) \in Messages /\ nsent \in [Ranks -> Nat]
  BY DEF RequestsInv, RequestsTypeOK, NextMsg, Messages
<1>4. e \in CallEvents
  BY <1>2, <1>3, BoundsAreCalls
<1>5. d \in Ranks
  BY <1>1, TracerAssumption
<1>6. f \in LinkOf(r) /\ f.type = "AKY_PTP_SEND" /\ f.id1 = r /\ f.v = d /\ f.about = NextMsg(r)
  <2>1. f.type = "AKY_PTP_SEND" /\ f.id1 = r /\ f.v = d /\ f.about = NextMsg(r)
    BY DEF SendEvent, Event
  <2>2. d \in Ids
    BY <1>5, RanksAreIds
  <2> HIDE DEF d
  <2>3. f \in LinkOf(r)
    BY <1>2, <1>3, <2>2, PtpIsLink, SendIsRecorded
  <2> QED
    BY <2>1, <2>3
<1>7. /\ net' = [net EXCEPT ![r][d] = Append(@, m)]
      /\ nsent' = [nsent EXCEPT ![r] = @ + 1]
      /\ m.msg = NextMsg(r) /\ m.comm = c.comm /\ m.tag = c.tag
  BY <1>1 DEF Transmit
<1> HIDE DEF d, e, f, m
<1>8. f \in MessageEvents
  BY <1>5, <1>6 DEF MessageEvents, LinkOf
<1>9. trace' = trace \o <<e, f>> /\ <<e, f>> \in Seq(MessageEvents)
  BY <1>1, <1>4, <1>8 DEF Enter, Record, MessageEvents
<1>10. /\ net'[r][d] = Append(net[r][d], m) /\ net[r][d] \in Seq(NetMessage)
       /\ \A s, q \in Ranks : s # r \/ q # d => net'[s][q] = net[s][q]
  <2>1. net \in [Ranks -> [Ranks -> Seq(NetMessage)]]
    BY DEF RequestsInv, RequestsTypeOK
  <2>2. net[r] \in [Ranks -> Seq(NetMessage)] /\ net[r][d] \in Seq(NetMessage)
    BY <1>5, <2>1
  <2> QED
    BY <1>5, <1>7, <2>1, <2>2
<1>11. \A q \in Ranks, a \in Slots :
         \/ request'[q][a] = request[q][a]
         \/ request[q][a].st = "null" /\ request'[q][a].st \in {"send", "isend"}
  <2>1. CASE request' = request
    BY <2>1
  <2>2. CASE request' # request
    <3>1. PICK v \in Request :
            /\ v.st \in {"send", "isend"} /\ request[r][c.req].st = "null"
            /\ RequestBecomes(r, c.req, v)
      BY <2>2, SendsRequest
    <3> QED
      BY <3>1 DEF RequestBecomes
  <2> QED
    BY <2>1, <2>2
<1>12. StillArrived
  BY <1>11 DEF StillArrived
<1>13. ASSUME NEW s \in Ranks, NEW q \in Ranks
       PROVE  Move(s, q, <<e, f>>)
  <2>1. e \notin SendEvents(s, q) /\ e \notin RecvEvents(s, q) /\ f \notin RecvEvents(s, q)
    BY <1>4, <1>6 DEF CallEvents, SendEvents, RecvEvents
  <2>2. f \in SendEvents(s, q) <=> s = r /\ q = d
    BY <1>6, <1>8 DEF SendEvents
  <2>3. Arrived(s, q)' = Arrived(s, q)
    BY <1>12, ArrivedStays
  <2> DEFINE t == <<e, f>>
  <2>4. Len(t) = 2 /\ t[1] = e /\ t[2] = f /\ \A i \in 1..2 : i = 1 \/ i = 2
    OBVIOUS
  <2>5. AboutsIn(t, RecvEvents(s, q)) = {} /\ Rising(t, RecvEvents(s, q))
    <3> HIDE DEF t
    <3> QED
      BY <2>1, <2>4, NoAbouts
  <2>6. CASE s = r /\ q = d
    <3>1. AboutsIn(t, SendEvents(s, q)) = {NextMsg(s)} /\ Rising(t, SendEvents(s, q))
      BY <1>6, <2>1, <2>2, <2>6, AboutsOfPair
    <3>2. nsent'[s] = nsent[s] + 1
      BY <1>3, <1>7, <2>6
    <3>3. Sends(s, q)
      BY <1>7, <1>10, <2>3, <2>6, <3>2 DEF Sends
    <3> QED
      BY <2>5, <3>1, <3>3 DEF Move
  <2>7. CASE ~(s = r /\ q = d)
    <3>1. AboutsIn(t, SendEvents(s, q)) = {} /\ Rising(t, SendEvents(s, q))
      <4> HIDE DEF t
      <4> QED
        BY <2>1, <2>2, <2>4, <2>7, NoAbouts
    <3> QED
      BY <1>10, <2>3, <2>5, <2>7, <3>1 DEF Move, Rests
  <2> QED
    BY <2>6, <2>7
<1>14. Moves
  <2>1. \A s \in Ranks : nsent'[s] \in {nsent[s], nsent[s] + 1}
    BY <1>3, <1>7
  <2> QED
    BY <1>9, <1>13, <2>1 DEF Moves
<1>15. ReceivesCalled'
  <2>1. \A q \in Ranks, a \in Slots : request'[q][a].st \in {"posted", "arrived"} =>
           request[q][a].st \in {"posted", "arrived"}
    BY <1>11
  <2> QED
    BY <2>1, ReceivesStayCalled DEF CallsKnown
<1>16. SendsCalled'
  <2> SUFFICES ASSUME NEW s \in Ranks, NEW q \in Ranks, NEW i \in DOMAIN net'[s][q]
               PROVE  \E b \in Calls[s] : /\ SendsTo(s, b, q) /\ net'[s][q][i].comm = b.comm
                                          /\ net'[s][q][i].tag = b.tag
    BY DEF SendsCalled
  <2>1. CASE s = r /\ q = d
    <3>1. (i \in DOMAIN net[r][d] /\ net'[r][d][i] = net[r][d][i]) \/ net'[r][d][i] = m
      BY <1>10, <2>1
    <3>2. SendsTo(r, c, d)
      BY <1>1 DEF SendsTo, d
    <3> QED
      BY <1>5, <1>7, <2>1, <3>1, <3>2 DEF CallsKnown, SendsCalled
  <2>2. CASE s # r \/ q # d
    BY <1>10, <2>2 DEF CallsKnown, SendsCalled
  <2> QED
    BY <2>1, <2>2
<1> QED
  BY <1>14, <1>15, <1>16 DEF CallsKnown

\* A receive is posted.
LEMMA PostMoves ==
  ASSUME RequestsInv, CallsKnown, NEW r \in Ranks, NEW c \in Calls[r],
         EnterRecv(r, c) \/ EnterIrecv(r, c)
  PROVE  Moves /\ CallsKnown'
<1> DEFINE slot == ReceiveSlot(c)
           v == [Null EXCEPT !.st = "posted"]
<1>1. /\ slot \in Slots /\ c.op \in ReceiveOps /\ request[r][slot].st = "null"
      /\ Post(r, slot, c.comm, c.peer, c.tag)
  <2>1. CASE EnterRecv(r, c)
    <3>1. c.op = "MPI_Recv" /\ pc[r] = "app" /\ Post(r, Blocking, c.comm, c.peer, c.tag)
      BY <2>1 DEF EnterRecv, Enter
    <3>2. request[r][Blocking].st = "null"
      BY <3>1 DEF RequestsInv, BlockingUse, Within
    <3> QED
      BY <3>1, <3>2, BlockingApart DEF ReceiveSlot, ReceiveOps
  <2>2. CASE EnterIrecv(r, c)
    <3>1. /\ c.op = "MPI_Irecv" /\ request[r][c.req].st = "null"
          /\ Post(r, c.req, c.comm, c.peer, c.tag)
      BY <2>2 DEF EnterIrecv
    <3>2. c.req \in Slots
      BY <3>1, TracerAssumption DEF RequestOps, Slots
    <3> QED
      BY <3>1, <3>2 DEF ReceiveSlot, ReceiveOps
  <2> QED
    BY <2>1, <2>2
<1>2. Enter(r, c, <<In(r, c.op, NoMark)>>) /\ UNCHANGED <<nsent, net>>
  BY DEF EnterRecv, EnterIrecv
<1> HIDE DEF slot
<1>3. RequestBecomes(r, slot, v)
  BY <1>1, PostShape DEF Posts
<1>4. v.st = "posted"
  BY DEF Null
<1> HIDE DEF v
<1>5. StillArrived
  BY <1>1, <1>3, <1>4 DEF RequestBecomes, StillArrived
<1>6. c.op \in CallOps /\ NoMark \in Int
  BY CallIsKnown DEF NoMark
<1>7. <<In(r, c.op, NoMark)>> \in Seq(CallEvents)
  BY <1>6, BoundsAreCalls
<1>8. trace' = trace \o <<In(r, c.op, NoMark)>>
  BY <1>2 DEF Enter, Record
<1>9. Moves
  BY <1>2, <1>5, <1>7, <1>8, QuietMoves DEF RequestsInv, RequestsTypeOK
<1>10. ReceivesCalled'
  <2> SUFFICES ASSUME NEW q \in Ranks, NEW a \in Slots,
                      request'[q][a].st \in {"posted", "arrived"}
               PROVE  \E b \in Calls[q] : b.op \in ReceiveOps /\ ReceiveSlot(b) = a
    BY DEF ReceivesCalled
  <2>1. CASE q = r /\ a = slot
    BY <1>1, <2>1 DEF slot
  <2>2. CASE q # r \/ a # slot
    <3>1. request'[q][a] = request[q][a]
      BY <1>3, <2>2 DEF RequestBecomes
    <3> QED
      BY <3>1 DEF CallsKnown, ReceivesCalled
  <2> QED
    BY <2>1, <2>2
<1>11. SendsCalled'
  BY <1>2 DEF CallsKnown, SendsCalled
<1> QED
  BY <1>9, <1>10, <1>11 DEF CallsKnown

\* Steps that record the bounds of a call, and nothing else.
LEMMA StillMoves ==
  ASSUME CallsKnown, UNCHANGED <<nsent, net, request>>,
         NEW e \in CallEvents, trace' = trace \o <<e>>
  PROVE  Moves /\ CallsKnown'
<1>1. <<e>> \in Seq(CallEvents)
  OBVIOUS
<1>2. StillArrived
  BY DEF StillArrived
<1>3. Moves
  BY <1>1, <1>2, QuietMoves
<1>4. CallsKnown'
  BY DEF CallsKnown, ReceivesCalled, SendsCalled
<1> QED
  BY <1>3, <1>4

LEMMA EnterMoves ==
  ASSUME RequestsInv, CallsKnown, FollowedCalls,
         NEW r \in Ranks, NEW c \in Calls[r], EnterCall(r, c)
  PROVE  Moves /\ CallsKnown'
<1>1. CASE EnterSend(r, c)
  BY <1>1, SendMoves
<1>2. CASE EnterRecv(r, c) \/ EnterIrecv(r, c)
  BY <1>2, PostMoves
<1>3. CASE EnterWait(r, c) \/ EnterWaitArray(r, c) \/ EnterPlain(r, c)
  <2>1. PICK e \in CallEvents : Enter(r, c, <<e>>)
    BY <1>3, EntersAlone
  <2>2. UNCHANGED <<nsent, net, request>>
    BY <1>3 DEF EnterWait, EnterWaitArray, EnterPlain, mpiVars
  <2>3. trace' = trace \o <<e>>
    BY <2>1 DEF Enter, Record
  <2> QED
    BY <2>2, <2>3, StillMoves
<1> QED
  BY <1>1, <1>2, <1>3, FollowedEnter

LEMMA EndMoves ==
  ASSUME CallsKnown, NEW r \in Ranks, InitCall(r) \/ EnterFinalize(r) \/ LeaveFinalize(r)
  PROVE  Moves /\ CallsKnown'
<1>1. UNCHANGED <<nsent, net, request>>
  BY DEF InitCall, EnterFinalize, LeaveFinalize, mpiVars
<1>2. \E e \in CallEvents : trace' = trace \o <<e>>
  BY EndsAlone
<1> QED
  BY <1>1, <1>2, StillMoves

\* A rank records the message that arrived at its one receive, and some of its requests
\* become null.
LEMMA RecordMoves ==
  ASSUME RequestsInv, OneAtATime, CallsKnown, NEW r \in Ranks, NEW a \in Slots,
         request[r][a].st = "arrived", request'[r][a].st = "null",
         \A q \in Ranks, b \in Slots :
           request'[q][b] = request[q][b] \/ (q = r /\ request'[q][b].st = "null"),
         NEW e, e = RecvEvent("AKY_PTP_RECV", r, request[r][a].msg[2], request[r][a].msg),
         NEW f \in CallEvents, trace' = trace \o <<e, f>>, UNCHANGED <<nsent, net>>
  PROVE  Moves /\ CallsKnown'
<1> DEFINE v == request[r][a].msg[2]
<1>1. /\ e \in MessageEvents
      /\ \A s, d : /\ e \in RecvEvents(s, d) <=> d = r /\ s = v
                   /\ e \notin SendEvents(s, d)
  BY ReceiveIsOfSender
<1>2. e.about = request[r][a].msg
  BY DEF RecvEvent, Event
<1>3. \A s, d : f \notin SendEvents(s, d) /\ f \notin RecvEvents(s, d)
  BY DEF CallEvents, SendEvents, RecvEvents
<1>4. <<e, f>> \in Seq(MessageEvents)
  BY <1>1 DEF MessageEvents
<1>5. \A b \in Slots : request[r][b].st = "arrived" => b = a
  BY OneReceive DEF CallsKnown
<1>6. ASSUME NEW s \in Ranks, NEW d \in Ranks
      PROVE  Move(s, d, <<e, f>>)
  <2> DEFINE t == <<e, f>>
  <2>1. Len(t) = 2 /\ t[1] = e /\ t[2] = f /\ \A i \in 1..2 : i = 1 \/ i = 2
    OBVIOUS
  <2>2. AboutsIn(t, SendEvents(s, d)) = {} /\ Rising(t, SendEvents(s, d))
    <3> HIDE DEF t
    <3> QED
      BY <1>1, <1>3, <2>1, NoAbouts
  <2>3. CASE d = r /\ s = v
    <3>1. AboutsIn(t, RecvEvents(s, d)) = {e.about} /\ Rising(t, RecvEvents(s, d))
      BY <1>1, <1>3, <2>3, AboutsOfPair
    <3>2. Held(s, d) = {a} /\ Held(s, d)' = {}
      BY <1>5, <2>3 DEF Held
    <3>3. Arrived(s, d) = {request[r][a].msg} /\ Arrived(s, d)' = {}
      BY <2>3, <3>2 DEF Arrived
    <3> QED
      BY <1>2, <2>2, <3>1, <3>3 DEF Move, IsRecorded
  <2>4. CASE ~(d = r /\ s = v)
    <3>1. AboutsIn(t, RecvEvents(s, d)) = {} /\ Rising(t, RecvEvents(s, d))
      <4> HIDE DEF t
      <4> QED
        BY <1>1, <1>3, <2>1, <2>4, NoAbouts
    <3>2. Held(s, d)' = Held(s, d)
      BY <1>5, <2>4 DEF Held
    <3>3. \A b \in Held(s, d) : request'[d][b] = request[d][b]
      BY <3>2 DEF Held
    <3>4. Arrived(s, d)' = Arrived(s, d)
      BY <3>2, <3>3 DEF Arrived
    <3> QED
      BY <2>2, <3>1, <3>4 DEF Move, Rests
  <2> QED
    BY <2>3, <2>4
<1>7. Moves
  BY <1>4, <1>6 DEF Moves
<1>8. ReceivesCalled'
  <2>1. \A q \in Ranks, b \in Slots : request'[q][b].st \in {"posted", "arrived"} =>
          request[q][b].st \in {"posted", "arrived"}
    OBVIOUS
  <2> QED
    BY <2>1, ReceivesStayCalled DEF CallsKnown
<1>9. SendsCalled'
  BY DEF CallsKnown, SendsCalled
<1> QED
  BY <1>7, <1>8, <1>9 DEF CallsKnown

\* MPI_Recv returns.
LEMMA ReceiveMoves ==
  ASSUME RequestsInv, SourcesKnown, OneAtATime, CallsKnown, NEW r \in Ranks, LeaveRecv(r)
  PROVE  Moves /\ CallsKnown'
<1> DEFINE q == request[r][Blocking]
           v == AKY_translate_rank(call[r].comm, q.src)
           e == RecvEvent("AKY_PTP_RECV", r, v, q.msg)
           f == Out(r, "MPI_Recv")
<1>1. /\ Leave(r, <<e, f>>) /\ call[r].op = "MPI_Recv" /\ q.st = "arrived"
      /\ request' = [request EXCEPT ![r][Blocking] = Null]
      /\ UNCHANGED <<nsent, net>>
  BY DEF LeaveRecv
<1>2. v = q.msg[2]
  BY <1>1, BlockingApart DEF SourcesKnown, ArrivedFrom, SourceOf
<1>3. RequestBecomes(r, Blocking, Null)
  BY <1>1, BlockingApart, NullIsRequest, RequestShape DEF RequestsInv, RequestsTypeOK
<1>4. call[r] \in Calls[r] \cup {Finalize}
  BY <1>1, LeaveShape DEF RequestsInv
<1>5. f \in CallEvents
  <2>1. "MPI_Recv" \in CallOps
    BY <1>1, <1>4, CallIsKnown DEF Finalize
  <2>2. 0 \in Int
    OBVIOUS
  <2> QED
    BY <2>1, <2>2, BoundsAreCalls
<1>6. trace' = trace \o <<e, f>>
  BY <1>1 DEF Leave, Record
<1>7. e = RecvEvent("AKY_PTP_RECV", r, q.msg[2], q.msg)
  BY <1>2
<1>8. /\ request'[r][Blocking].st = "null" /\ Blocking \in Slots
      /\ \A p \in Ranks, b \in Slots :
           request'[p][b] = request[p][b] \/ (p = r /\ request'[p][b].st = "null")
  BY <1>3, NullIsRequest, BlockingApart DEF RequestBecomes
<1> HIDE DEF e, f, v
<1> QED
  BY <1>1, <1>5, <1>6, <1>7, <1>8, RecordMoves

LEMMA JoinOfOnes ==
  ASSUME NEW S, NEW e \in S, NEW f \in S
  PROVE  <<e>> \o <<f>> = <<e, f>>
<1> DEFINE a == <<e>>
           b == <<f>>
           t == <<e, f>>
<1>1. /\ a \in Seq(S) /\ Len(a) = 1 /\ a[1] = e
      /\ b \in Seq(S) /\ Len(b) = 1 /\ b[1] = f
      /\ t = [i \in 1..2 |-> IF i = 1 THEN e ELSE f]
  OBVIOUS
<1> HIDE DEF a, b
<1>2. a \o b \in Seq(S) /\ Concatenates(a \o b, a, b)
  BY <1>1, ConcatShape
<1>3. Len(a \o b) = 2 /\ (a \o b)[1] = e /\ (a \o b)[2] = f
  BY <1>1, <1>2 DEF Concatenates
<1>4. a \o b = [i \in 1..2 |-> (a \o b)[i]]
  <2> DEFINE u == a \o b
  <2>1. u \in Seq(S) /\ Len(u) = 2
    BY <1>2, <1>3
  <2> HIDE DEF u
  <2>2. u \in [1..Len(u) -> S]
    BY <2>1
  <2>3. u \in [1..2 -> S]
    BY <2>1, <2>2
  <2>4. u = [i \in 1..2 |-> u[i]]
    BY <2>3
  <2> QED
    BY <2>4 DEF u
<1>5. \A i \in 1..2 : (a \o b)[i] = IF i = 1 THEN e ELSE f
  BY <1>3
<1>6. a \o b = t
  BY <1>1, <1>4, <1>5
<1> QED
  BY <1>6 DEF a, b

\* A wait returns: of the requests that it completes one at most is a receive.
LEMMA FinishMoves ==
  ASSUME RequestsInv, IrecvsInv, SourcesKnown, OneAtATime, CallsKnown, NEW r \in Ranks,
         NEW done, done \subseteq Reqs, FinishRequests(r, done), call[r].op \in QuietOps
  PROVE  Moves /\ CallsKnown'
<1> DEFINE T == Ended(r, done)
           f == Out(r, call[r].op)
<1>1. ~Within(r, {"MPI_Irecv"})
  BY OpsApart DEF Within, MovingOps
<1>2. {a \in done : aky_check(irecv_root[r], a) # 0} = T
  BY <1>1, TrackedAreEnded DEF FinishRequests
<1>3. PICK s \in Statuses(r), order \in TrackedOrders(r, done) :
        Leave(r, EndedReceives(r, order, s) \o <<f>>)
  BY DEF FinishRequests
<1>4. order \in [1..Cardinality(T) -> T]
  <2> HIDE DEF T
  <2> QED
    BY <1>2 DEF TrackedOrders
<1>5. /\ UNCHANGED <<nsent, net>>
      /\ request' = [request EXCEPT ![r] = [a \in DOMAIN @ |-> IF a \in done THEN Null ELSE @[a]]]
  BY DEF FinishRequests
<1>6. /\ \A q \in Ranks \ {r} : request'[q] = request[q]
      /\ \A a \in Slots : request'[r][a] = IF a \in done THEN Null ELSE request[r][a]
  BY <1>5 DEF RequestsInv, RequestsTypeOK
<1>7. call[r] \in Calls[r] \cup {Finalize}
  BY <1>3, LeaveShape DEF RequestsInv
<1>8. f \in CallEvents
  <2>1. call[r].op \in CallOps
    BY <1>7, CallIsKnown DEF CallOps, Finalize
  <2>2. 0 \in Int
    OBVIOUS
  <2> QED
    BY <2>1, <2>2, BoundsAreCalls
<1>9. trace' = trace \o (EndedReceives(r, order, s) \o <<f>>)
  BY <1>3 DEF Leave, Record
<1>10. /\ \A q \in Ranks, b \in Slots :
            request'[q][b] = request[q][b] \/ (q = r /\ request'[q][b].st = "null")
       /\ \A a \in done : request'[r][a].st = "null"
       /\ done \subseteq Slots
  BY <1>6, NullIsRequest DEF Slots
<1> HIDE DEF f
<1>11. CASE T = {}
  <2>1. order \in [1..0 -> {}]
    BY <1>4, <1>11, FS_EmptySet
  <2>2. DOMAIN order = {} /\ 1..0 = {}
    BY <2>1
  <2>3. EndedReceives(r, order, s) = <<>>
    <3>1. EndedReceives(r, order, s) = [i \in {} |-> <<>>]
      BY <2>2 DEF EndedReceives
    <3> QED
      BY <2>2, <3>1
  <2>4. <<>> \o <<f>> = <<f>>
    OBVIOUS
  <2>5. trace' = trace \o <<f>>
    BY <1>9, <2>3, <2>4
  <2>6. <<f>> \in Seq(CallEvents)
    BY <1>8
  <2>7. StillArrived
    <3> SUFFICES ASSUME NEW q \in Ranks, NEW a \in Slots
                 PROVE  \/ request'[q][a] = request[q][a]
                        \/ request[q][a].st # "arrived" /\ request'[q][a].st # "arrived"
      BY DEF StillArrived
    <3>1. CASE q = r /\ a \in done
      BY <1>10, <1>11, <3>1 DEF Ended
    <3>2. CASE q # r \/ a \notin done
      BY <1>6, <3>2
    <3> QED
      BY <3>1, <3>2
  <2>8. Moves
    BY <1>5, <2>5, <2>6, <2>7, QuietMoves
  <2>9. CallsKnown'
    <3>1. \A q \in Ranks, b \in Slots : request'[q][b].st \in {"posted", "arrived"} =>
            request[q][b].st \in {"posted", "arrived"}
      BY <1>10
    <3>2. ReceivesCalled'
      BY <3>1, ReceivesStayCalled DEF CallsKnown
    <3> QED
      BY <1>5, <3>2 DEF CallsKnown, SendsCalled
  <2> QED
    BY <2>8, <2>9
<1>12. CASE T # {}
  <2>1. PICK a \in done : a \in T /\ request[r][a].st = "arrived" /\ a \in Slots /\ a \in Reqs
    BY <1>10, <1>12 DEF Ended
  <2>2. T = {a}
    BY <1>10, <2>1, OneReceive DEF CallsKnown, Ended
  <2>3. Cardinality(T) = 1
    BY <2>2, FS_Singleton
  <2> DEFINE e == RecvEvent("AKY_PTP_RECV", r, request[r][a].msg[2], request[r][a].msg)
             evs == EndedReceives(r, order, s)
  <2>4. order \in [1..1 -> {a}] /\ order[1] = a /\ DOMAIN order = {1}
    BY <1>4, <2>2, <2>3
  <2>5. s[a] = request[r][a].msg[2]
    <3>1. s[a] = request[r][a].src
      BY <2>1 DEF Statuses, StatusSources
    <3>2. request[r][a].src = request[r][a].msg[2]
      BY <2>1, BlockingApart DEF SourcesKnown, ArrivedFrom, SourceOf
    <3> QED
      BY <3>1, <3>2
  <2>6. evs = <<e>>
    <3>1. evs = [i \in {1} |-> RecvEvent("AKY_PTP_RECV", r, s[order[i]], request[r][order[i]].msg)]
      BY <2>4 DEF EndedReceives
    <3>2. \A i \in {1} : RecvEvent("AKY_PTP_RECV", r, s[order[i]], request[r][order[i]].msg) = e
      BY <2>4, <2>5
    <3>3. evs = [i \in {1} |-> e]
      BY <3>1, <3>2
    <3>4. {1} = 1..1
      OBVIOUS
    <3> HIDE DEF e, evs
    <3> QED
      BY <3>3, <3>4
  <2>7. e \in MessageEvents
    BY <2>1, ReceiveIsOfSender
  <2> HIDE DEF e
  <2>8. <<e>> \o <<f>> = <<e, f>>
    <3>1. f \in MessageEvents
      BY <1>8 DEF MessageEvents
    <3> QED
      BY <2>7, <3>1, JoinOfOnes
  <2>9. trace' = trace \o <<e, f>>
    BY <1>9, <2>6, <2>8
  <2>10. request'[r][a].st = "null"
    BY <1>10
  <2>11. e = RecvEvent("AKY_PTP_RECV", r, request[r][a].msg[2], request[r][a].msg)
    BY DEF e
  <2> QED
    BY <1>5, <1>8, <1>10, <2>1, <2>9, <2>10, <2>11, RecordMoves
<1> QED
  BY <1>11, <1>12

LEMMA LeaveMoves ==
  ASSUME RequestsInv, IrecvsInv, SourcesKnown, FollowedCalls, OneAtATime, CallsKnown,
         NEW r \in Ranks, LeaveCall(r)
  PROVE  Moves /\ CallsKnown'
<1>1. CASE LeaveRecv(r)
  BY <1>1, ReceiveMoves
<1>2. CASE LeaveSend(r) \/ LeaveIrecv(r) \/ LeavePlain(r)
  <2>1. PICK e \in CallEvents : Leave(r, <<e>>)
    BY <1>2, LeavesAlone
  <2>2. UNCHANGED <<nsent, net, request>>
    BY <1>2 DEF LeaveSend, LeaveIrecv, LeavePlain, mpiVars
  <2>3. trace' = trace \o <<e>>
    BY <2>1 DEF Leave, Record
  <2> QED
    BY <2>2, <2>3, StillMoves
<1>3. CASE LeaveWait(r) \/ LeaveWaitall(r) \/ LeaveWaitany(r)
  BY <1>3, WaitsFinish, FinishMoves
<1> QED
  BY <1>1, <1>2, <1>3, FollowedLeave

\* The receive that takes a message takes the first of those that its sender sent to
\* the rank, all of them alike.
LEMMA FirstIsMatched ==
  ASSUME OneChannel, SendsCalled, NEW s \in Ranks, NEW d \in Ranks, net[s][d] \in Seq(NetMessage),
         NEW i \in DOMAIN net[s][d], NEW p, Accepts(p, s, net[s][d][i]),
         \A k \in 1..(i - 1) : ~Accepts(p, s, net[s][d][k])
  PROVE  i = 1
<1>1. i \in 1..Len(net[s][d]) /\ Len(net[s][d]) \in Nat
  OBVIOUS
<1>2. 1 \in DOMAIN net[s][d]
  BY <1>1
<1>3. net[s][d][i].comm = net[s][d][1].comm /\ net[s][d][i].tag = net[s][d][1].tag
  <2>1. PICK b \in Calls[s] :
          SendsTo(s, b, d) /\ net[s][d][i].comm = b.comm /\ net[s][d][i].tag = b.tag
    BY DEF SendsCalled
  <2>2. PICK c \in Calls[s] :
          SendsTo(s, c, d) /\ net[s][d][1].comm = c.comm /\ net[s][d][1].tag = c.tag
    BY <1>2 DEF SendsCalled
  <2> QED
    BY <2>1, <2>2 DEF OneChannel
<1>4. Accepts(p, s, net[s][d][1])
  BY <1>3 DEF Accepts
<1>5. CASE i # 1
  <2>1. 1 \in 1..(i - 1)
    BY <1>1, <1>5
  <2> QED
    BY <1>4, <2>1
<1> QED
  BY <1>5

LEMMA DeliverMoves ==
  ASSUME RequestsInv, TraceTypeOK, MessagesOrdered, CallsKnown, NEW s \in Ranks, NEW d \in Ranks,
         SentBy(s), Deliver(s, d)
  PROVE  Moves /\ CallsKnown'
<1>1. PICK i \in DOMAIN net[s][d], j \in DOMAIN posted[d] :
        /\ Accepts(posted[d][j], s, net[s][d][i])
        /\ \A k \in 1..(i - 1) : ~Accepts(posted[d][j], s, net[s][d][k])
        /\ net' = [net EXCEPT ![s][d] = Without(@, i)]
        /\ request' = [request EXCEPT ![d][posted[d][j].slot] =
                         [st |-> "arrived", src |-> CommRank(posted[d][j].comm, s),
                          msg |-> net[s][d][i].msg, mark |-> 0]]
        /\ nsent' = nsent
  BY DEF Deliver, Match
<1> DEFINE slot == posted[d][j].slot
           v == [st |-> "arrived", src |-> CommRank(posted[d][j].comm, s),
                 msg |-> net[s][d][i].msg, mark |-> 0]
<1>2. /\ net \in [Ranks -> [Ranks -> Seq(NetMessage)]] /\ posted \in [Ranks -> Seq(Receive)]
      /\ request \in [Ranks -> [Slots -> Request]]
  BY DEF RequestsInv, RequestsTypeOK
<1>3. net[s] \in [Ranks -> Seq(NetMessage)] /\ net[s][d] \in Seq(NetMessage)
  BY <1>2
<1>4. i = 1
  BY <1>1, <1>3, FirstIsMatched DEF MessagesOrdered, CallsKnown
<1>5. slot \in Slots /\ request[d][slot].st = "posted" /\ posted[d][j].comm \in DOMAIN Comms
  <2>1. posted[d][j] \in Receive /\ posted[d][j].slot \in Slots
    BY <1>2, SlotsOfPosted
  <2> QED
    BY <2>1 DEF Receive, RequestsInv, PostedWait
<1>6. v \in Request /\ v.st = "arrived" /\ v.msg = net[s][d][1].msg /\ v.msg[2] = s
  <2>1. net[s][d][i].msg \in Messages /\ net[s][d][i].msg[2] = s
    <3>1. net[s][d][i] \in NetMessage
      BY <1>3
    <3> QED
      BY <3>1 DEF NetMessage, SentBy
  <2>2. CommRank(posted[d][j].comm, s) \in Sources
    BY <1>5 DEF Sources
  <2> QED
    BY <1>4, <2>1, <2>2 DEF Request
<1>7. /\ Shortens(net'[s][d], net[s][d], 1) /\ net'[s][d] \in Seq(NetMessage)
      /\ \A p, q \in Ranks : p # s \/ q # d => net'[p][q] = net[p][q]
  <2>1. net' = [net EXCEPT ![s] = [net[s] EXCEPT ![d] = Without(net[s][d], i)]]
    BY <1>1, <1>2
  <2>2. net'[s][d] = Without(net[s][d], i)
    BY <1>2, <1>3, <2>1
  <2>3. /\ Without(net[s][d], i) \in Seq(NetMessage)
        /\ Shortens(Without(net[s][d], i), net[s][d], i)
    BY <1>1, <1>3, WithoutShape
  <2> QED
    BY <1>2, <1>3, <1>4, <2>1, <2>2, <2>3
<1> HIDE DEF slot, v
<1>8. RequestBecomes(d, slot, v)
  BY <1>1, <1>2, <1>5, <1>6, RequestShape DEF v, slot
<1>9. \A b \in Slots : request[d][b].st # "arrived"
  BY <1>5, OneReceive DEF MessagesOrdered, CallsKnown
<1>10. <<>> \in Seq(CallEvents) /\ <<>> \in Seq(MessageEvents) /\ trace' = trace \o <<>>
  BY DEF Deliver, TraceTypeOK
<1>11. ASSUME NEW p \in Ranks, NEW q \in Ranks
       PROVE  Move(p, q, <<>>)
  <2>1. /\ AboutsIn(<<>>, SendEvents(p, q)) = {} /\ Rising(<<>>, SendEvents(p, q))
        /\ AboutsIn(<<>>, RecvEvents(p, q)) = {} /\ Rising(<<>>, RecvEvents(p, q))
    BY <1>10, CallEventsAbout
  <2>2. CASE p = s /\ q = d
    <3>1. Held(p, q) = {} /\ Held(p, q)' = {slot} /\ request'[q][slot] = v
      BY <1>5, <1>6, <1>8, <1>9, <2>2 DEF Held, RequestBecomes
    <3>2. Arrived(p, q) = {} /\ Arrived(p, q)' = {net[p][q][1].msg}
      BY <1>6, <2>2, <3>1 DEF Arrived
    <3>3. 1 \in DOMAIN net[p][q]
      BY <1>4, <2>2
    <3> QED
      BY <1>7, <2>1, <2>2, <3>2, <3>3 DEF Move, Arrives
  <2>3. CASE p # s \/ q # d
    <3>1. /\ Held(p, q)' = Held(p, q)
          /\ \A b \in Held(p, q) : request'[q][b] = request[q][b]
      BY <1>5, <1>6, <1>8, <2>3 DEF Held, RequestBecomes
    <3>2. Arrived(p, q)' = Arrived(p, q)
      BY <3>1 DEF Arrived
    <3> QED
      BY <1>7, <2>1, <2>3, <3>2 DEF Move, Rests
  <2> QED
    BY <2>2, <2>3
<1>12. Moves
  BY <1>1, <1>10, <1>11 DEF Moves
<1>13. ReceivesCalled'
  <2>1. \A q \in Ranks, b \in Slots : request'[q][b].st \in {"posted", "arrived"} =>
          request[q][b].st \in {"posted", "arrived"}
    BY <1>5, <1>8 DEF RequestBecomes
  <2> QED
    BY <2>1, ReceivesStayCalled DEF CallsKnown
<1>14. SendsCalled'
  <2> SUFFICES ASSUME NEW p \in Ranks, NEW q \in Ranks, NEW k \in DOMAIN net'[p][q]
               PROVE  \E b \in Calls[p] : /\ SendsTo(p, b, q) /\ net'[p][q][k].comm = b.comm
                                          /\ net'[p][q][k].tag = b.tag
    BY DEF SendsCalled
  <2>1. \E n \in DOMAIN net[p][q] : net'[p][q][k] = net[p][q][n]
    <3>1. CASE p = s /\ q = d
      <4>1. net[p][q] \in Seq(NetMessage) /\ 1 \in DOMAIN net[p][q]
        BY <1>3, <1>4, <3>1
      <4>2. Shortens(net'[p][q], net[p][q], 1) /\ net'[p][q] \in Seq(NetMessage)
        BY <1>7, <3>1
      <4> QED
        BY <4>1, <4>2, PlacesMove
    <3>2. CASE p # s \/ q # d
      BY <1>7, <3>2
    <3> QED
      BY <3>1, <3>2
  <2> QED
    BY <2>1 DEF CallsKnown, SendsCalled
<1> QED
  BY <1>12, <1>13, <1>14 DEF CallsKnown

LEMMA TracerMoves ==
  ASSUME FilesInv, IrecvsInv, SourcesKnown, FollowedCalls, MessagesOrdered, CallsKnown, TracerNext
  PROVE  Moves /\ CallsKnown'
<1>1. RequestsInv /\ TraceTypeOK /\ OneAtATime /\ \A s \in Ranks : SentBy(s)
  BY DEF FilesInv, MessagesOrdered, SourcesKnown
<1>2. CASE \E r \in Ranks : InitCall(r) \/ EnterFinalize(r) \/ LeaveFinalize(r)
  BY <1>2, EndMoves
<1>3. CASE \E r \in Ranks : LeaveCall(r)
  BY <1>1, <1>3, LeaveMoves
<1>4. CASE \E r \in Ranks : \E c \in Calls[r] : EnterCall(r, c)
  BY <1>1, <1>4, EnterMoves
<1>5. CASE \E s, d \in Ranks : Deliver(s, d)
  BY <1>1, <1>5, DeliverMoves
<1> QED
  BY <1>2, <1>3, <1>4, <1>5 DEF TracerNext

-----------------------------------------------------------------------------
\* The messages that the members of a sequence are about, and their order.
Carried(t) == {t[i].msg : i \in DOMAIN t}
Ascending(t) == \A i, j \in DOMAIN t : i < j => t[i].msg[3] < t[j].msg[3]

LEMMA CarriedAppend ==
  ASSUME NEW S, NEW t \in Seq(S), NEW x, NEW u, u = Append(t, x)
  PROVE  /\ Carried(u) = Carried(t) \cup {x.msg}
         /\ Ascending(t) /\ Earlier(Carried(t), {x.msg}) => Ascending(u)
<1> DEFINE n == Len(t)
<1>1. /\ n \in Nat /\ DOMAIN t = 1..n /\ DOMAIN u = 1..(n + 1) /\ u[n + 1] = x
      /\ \A i \in 1..n : u[i] = t[i]
  OBVIOUS
<1> HIDE DEF n
<1>2. \A i \in 1..(n + 1) : i \in 1..n \/ i = n + 1
  BY <1>1
<1>3. 1..n \subseteq 1..(n + 1) /\ n + 1 \in 1..(n + 1)
  BY <1>1
<1>4. Carried(u) = Carried(t) \cup {x.msg}
  BY <1>1, <1>2, <1>3 DEF Carried
<1>5. ASSUME Ascending(t), Earlier(Carried(t), {x.msg}),
             NEW i \in 1..(n + 1), NEW j \in 1..(n + 1), i < j
      PROVE  u[i].msg[3] < u[j].msg[3]
  <2>1. i \in 1..n
    BY <1>1, <1>5
  <2>2. CASE j \in 1..n
    BY <1>1, <1>5, <2>1, <2>2 DEF Ascending
  <2>3. CASE j = n + 1
    BY <1>1, <1>5, <2>1, <2>3 DEF Earlier, Carried
  <2> QED
    BY <1>2, <2>2, <2>3
<1>6. Ascending(t) /\ Earlier(Carried(t), {x.msg}) => Ascending(u)
  BY <1>1, <1>5 DEF Ascending
<1> QED
  BY <1>4, <1>6

LEMMA CarriedAfterFirst ==
  ASSUME NEW S, NEW t \in Seq(S), 1 \in DOMAIN t, NEW u, Shortens(u, t, 1), Ascending(t)
  PROVE  /\ Carried(t) = Carried(u) \cup {t[1].msg}
         /\ Ascending(u) /\ Earlier({t[1].msg}, Carried(u))
<1> DEFINE n == Len(t)
<1>1. /\ n \in Nat /\ n >= 1 /\ DOMAIN t = 1..n /\ DOMAIN u = 1..(n - 1)
      /\ \A i \in 1..(n - 1) : u[i] = t[i + 1]
  BY DEF Shortens
<1> HIDE DEF n
<1>2. \A i \in 1..(n - 1) : i + 1 \in 1..n /\ 1 < i + 1
  BY <1>1
<1>3. \A i \in 1..n : i = 1 \/ \E k \in 1..(n - 1) : i = k + 1
  <2> SUFFICES ASSUME NEW i \in 1..n, i # 1
               PROVE  \E k \in 1..(n - 1) : i = k + 1
    OBVIOUS
  <2>1. i - 1 \in 1..(n - 1) /\ i = (i - 1) + 1
    BY <1>1
  <2> QED
    BY <2>1
<1>4. Carried(t) = Carried(u) \cup {t[1].msg}
  <2>1. ASSUME NEW i \in 1..n PROVE t[i].msg \in Carried(u) \cup {t[1].msg}
    <3>1. CASE i # 1
      <4>1. PICK k \in 1..(n - 1) : i = k + 1
        BY <1>3, <3>1
      <4> QED
        BY <1>1, <4>1 DEF Carried
    <3> QED
      BY <3>1
  <2>2. ASSUME NEW k \in 1..(n - 1) PROVE u[k].msg \in Carried(t)
    BY <1>1, <1>2 DEF Carried
  <2>3. t[1].msg \in Carried(t)
    BY DEF Carried
  <2>4. Carried(t) \subseteq Carried(u) \cup {t[1].msg}
    BY <1>1, <2>1 DEF Carried
  <2>5. Carried(u) \subseteq Carried(t)
    BY <1>1, <2>2 DEF Carried
  <2> QED
    BY <2>3, <2>4, <2>5
<1>5. Ascending(u)
  <2> SUFFICES ASSUME NEW i \in 1..(n - 1), NEW j \in 1..(n - 1), i < j
               PROVE  u[i].msg[3] < u[j].msg[3]
    BY <1>1 DEF Ascending
  <2>1. i + 1 < j + 1
    BY <1>1
  <2> QED
    BY <1>1, <1>2, <2>1 DEF Ascending
<1>6. Earlier({t[1].msg}, Carried(u))
  <2> SUFFICES ASSUME NEW i \in 1..(n - 1)
               PROVE  t[1].msg[3] < u[i].msg[3]
    BY <1>1 DEF Earlier, Carried
  <2> QED
    BY <1>1, <1>2 DEF Ascending
<1> QED
  BY <1>4, <1>5, <1>6

-----------------------------------------------------------------------------
(***************************************************************************)
(* The messages from one rank to another, in the order of their sending:   *)
(* those of the links that ended (J); then those recorded as received (R), *)
(* that arrived at a request (H) and that wait for a receive (W), which    *)
(* are also, in the same order, those of the links open (Q) and those      *)
(* recorded as sent (S).                                                   *)
(***************************************************************************)
Numbered(X, s, n) == \A m \in X : \E k \in Nat : m = <<"ptp", s, k>> /\ k < n

InStep(J, Q, S, R, H, W, s, n) ==
  /\ Q \cup S = R \cup H \cup W
  /\ Earlier(Q, S)
  /\ Earlier(J, R \cup H \cup W) /\ Earlier(R, H \cup W) /\ Earlier(H, W)
  /\ Numbered(J \cup R \cup H \cup W, s, n)

LEMMA NumbersKept ==
  ASSUME NEW X, NEW s, NEW n \in Nat, NEW k \in {n, n + 1}, Numbered(X, s, n)
  PROVE  Numbered(X, s, k)
<1> SUFFICES ASSUME NEW m \in X PROVE \E i \in Nat : m = <<"ptp", s, i>> /\ i < k
  BY DEF Numbered
<1>1. PICK i \in Nat : m = <<"ptp", s, i>> /\ i < n
  BY DEF Numbered
<1>2. i < k
  BY <1>1
<1> QED
  BY <1>1, <1>2

LEMMA InStepRests ==
  ASSUME NEW J, NEW Q, NEW S, NEW R, NEW H, NEW W, NEW s, NEW n \in Nat, NEW k \in {n, n + 1},
         InStep(J, Q, S, R, H, W, s, n)
  PROVE  InStep(J, Q, S, R, H, W, s, k)
  BY NumbersKept DEF InStep

LEMMA InStepRecorded ==
  ASSUME NEW J, NEW Q, NEW S, NEW R, NEW H, NEW W, NEW s, NEW n \in Nat, NEW k \in {n, n + 1},
         InStep(J, Q, S, R, H, W, s, n)
  PROVE  InStep(J, Q, S, R \cup H, {}, W, s, k)
<1>1. /\ (R \cup H) \cup {} \cup W = R \cup H \cup W
      /\ J \cup (R \cup H) \cup {} \cup W = J \cup R \cup H \cup W
  OBVIOUS
<1>2. Earlier(R \cup H, {} \cup W) /\ Earlier({}, W)
  BY DEF InStep, Earlier
<1> QED
  BY <1>1, <1>2, NumbersKept DEF InStep

LEMMA InStepArrives ==
  ASSUME NEW J, NEW Q, NEW S, NEW R, NEW W, NEW m, NEW s, NEW n \in Nat, NEW k \in {n, n + 1},
         InStep(J, Q, S, R, {}, W \cup {m}, s, n), Earlier({m}, W)
  PROVE  InStep(J, Q, S, R, {m}, W, s, k)
<1>1. /\ R \cup {m} \cup W = R \cup {} \cup (W \cup {m})
      /\ {m} \cup W = {} \cup (W \cup {m})
      /\ J \cup R \cup {m} \cup W = J \cup R \cup {} \cup (W \cup {m})
  OBVIOUS
<1> QED
  BY <1>1, NumbersKept DEF InStep

LEMMA InStepSent ==
  ASSUME NEW J, NEW Q, NEW S, NEW R, NEW H, NEW W, NEW s, NEW n \in Nat,
         InStep(J, Q, S, R, H, W, s, n), NEW m, m = <<"ptp", s, n>>
  PROVE  /\ InStep(J, Q, S \cup {m}, R, H, W \cup {m}, s, n + 1)
         /\ Earlier(S, {m}) /\ Earlier(W, {m})
<1>1. m[3] = n
  OBVIOUS
<1>2. \A x \in J \cup R \cup H \cup W : x[3] < m[3]
  <2> SUFFICES ASSUME NEW x \in J \cup R \cup H \cup W PROVE x[3] < n
    BY <1>1
  <2>1. PICK k \in Nat : x = <<"ptp", s, k>> /\ k < n
    BY DEF InStep, Numbered
  <2> QED
    BY <2>1
<1>3. \A x \in Q \cup S : x[3] < m[3]
  BY <1>2 DEF InStep
<1>4. Numbered(J \cup R \cup H \cup (W \cup {m}), s, n + 1)
  <2> SUFFICES ASSUME NEW x \in J \cup R \cup H \cup (W \cup {m})
               PROVE  \E i \in Nat : x = <<"ptp", s, i>> /\ i < n + 1
    BY DEF Numbered
  <2>1. CASE x = m
    <3>1. n < n + 1
      OBVIOUS
    <3> QED
      BY <2>1, <3>1
  <2>2. CASE x # m
    <3>1. PICK i \in Nat : x = <<"ptp", s, i>> /\ i < n
      BY <2>2 DEF InStep, Numbered
    <3>2. i < n + 1
      BY <3>1
    <3> QED
      BY <3>1, <3>2
  <2> QED
    BY <2>1, <2>2
<1>5. /\ Q \cup (S \cup {m}) = R \cup H \cup (W \cup {m})
      /\ Earlier(Q, S \cup {m}) /\ Earlier(J, R \cup H \cup (W \cup {m}))
      /\ Earlier(R, H \cup (W \cup {m})) /\ Earlier(H, W \cup {m})
  BY <1>2, <1>3 DEF InStep, Earlier
<1>6. Earlier(S, {m}) /\ Earlier(W, {m})
  BY <1>2, <1>3 DEF Earlier
<1> QED
  BY <1>4, <1>5, <1>6 DEF InStep

LEMMA InStepStarts ==
  ASSUME NEW J, NEW Q, NEW S, NEW R, NEW H, NEW W, NEW m, NEW s, NEW n,
         InStep(J, Q, S \cup {m}, R, H, W, s, n), Earlier({m}, S)
  PROVE  InStep(J, Q \cup {m}, S, R, H, W, s, n) /\ Earlier(Q, {m}) /\ m \in R \cup H \cup W
  BY DEF InStep, Earlier

\* The first open link and the first receive recorded are of the same message.
LEMMA InStepEnds ==
  ASSUME NEW J, NEW Q, NEW S, NEW R, NEW H, NEW W, NEW l, NEW m, NEW s, NEW n,
         InStep(J, Q \cup {l}, S, R \cup {m}, H, W, s, n), Earlier({l}, Q), Earlier({m}, R)
  PROVE  l = m /\ InStep(J \cup {m}, Q, S, R, H, W, s, n) /\ Earlier(J, {m})
<1>1. \A x \in (R \cup {m}) \cup H \cup W : x = m \/ m[3] < x[3]
  BY DEF InStep, Earlier
<1>2. \A x \in (Q \cup {l}) \cup S : x = l \/ l[3] < x[3]
  BY DEF InStep, Earlier
<1>3. \A x \in (R \cup {m}) \cup H \cup W : x[3] \in Nat
  <2> SUFFICES ASSUME NEW x \in (R \cup {m}) \cup H \cup W PROVE x[3] \in Nat
    OBVIOUS
  <2>1. PICK k \in Nat : x = <<"ptp", s, k>>
    BY DEF InStep, Numbered
  <2> QED
    BY <2>1
<1>4. (Q \cup {l}) \cup S = (R \cup {m}) \cup H \cup W
  BY DEF InStep
<1>5. l = m
  <2>1. l = m \/ m[3] < l[3]
    BY <1>1, <1>4
  <2>2. m = l \/ l[3] < m[3]
    BY <1>2, <1>4
  <2>3. l[3] \in Nat /\ m[3] \in Nat
    BY <1>3, <1>4
  <2> QED
    BY <2>1, <2>2, <2>3
<1>6. Earlier({m}, R \cup H \cup W) /\ Earlier({m}, Q \cup S)
  BY <1>5 DEF InStep, Earlier
<1>7. m \notin R \cup H \cup W /\ m \notin Q \cup S
  BY <1>3, <1>6 DEF Earlier
<1>8. Q \cup S = R \cup H \cup W
  BY <1>4, <1>5, <1>7
<1>9. Earlier(J \cup {m}, R \cup H \cup W) /\ Earlier(J, {m})
  BY <1>6 DEF InStep, Earlier
<1>10. Numbered((J \cup {m}) \cup R \cup H \cup W, s, n)
  <2>1. (J \cup {m}) \cup R \cup H \cup W = J \cup (R \cup {m}) \cup H \cup W
    OBVIOUS
  <2> QED
    BY <2>1 DEF InStep
<1>11. Earlier(Q, S) /\ Earlier(R, H \cup W) /\ Earlier(H, W)
  BY DEF InStep, Earlier
<1> QED
  BY <1>5, <1>8, <1>9, <1>10, <1>11 DEF InStep

-----------------------------------------------------------------------------
(***************************************************************************)
(* The invariant: between two ranks, the messages are in step.  The links  *)
(* that ended are Closed; an open one is given by its message, in the      *)
(* order of the keys that wait for their receives.                         *)
(***************************************************************************)
Sent(s, d) == AboutsIn(trace, SendEvents(s, d))
Received(s, d) == AboutsIn(trace, RecvEvents(s, d))
Waiting(s, d) == Carried(net[s][d])

Closed(s, d) ==
  {links[j].about[1] : j \in {i \in Ends : links[i].about[2] = s /\ links[i].about[3] = d}}
OpenOf(s, d, open) ==
  LET keys == queue[MessageName(s, d)]
  IN /\ Len(open) = Len(keys)
     /\ \A j \in DOMAIN open : \E i \in Starts :
          KeyAt(i) = keys[j] /\ links[i].about = <<open[j].msg, s, d>>

InOrderOf(s, d) ==
  /\ Rising(trace, SendEvents(s, d)) /\ Rising(trace, RecvEvents(s, d))
  /\ Ascending(net[s][d])
  /\ \E open \in Seq([msg : Messages]) :
       /\ Ascending(open) /\ OpenOf(s, d, open)
       /\ InStep(Closed(s, d), Carried(open), Sent(s, d), Received(s, d), Arrived(s, d),
                 Waiting(s, d), s, nsent[s])

OrderedInv ==
  /\ CallsKnown /\ LinksJoinOneMessage /\ ReceivesAreFifo
  /\ \A s, d \in Ranks : InOrderOf(s, d)

\* A step of the application.
LEMMA MoveKeepsOrder ==
  ASSUME NEW s \in Ranks, NEW d \in Ranks, InOrderOf(s, d), UNCHANGED <<queue, links>>,
         trace \in Seq(MessageEvents), NEW events \in Seq(MessageEvents),
         trace' = trace \o events, Move(s, d, events),
         net[s][d] \in Seq(NetMessage), nsent[s] \in Nat, nsent'[s] \in {nsent[s], nsent[s] + 1}
  PROVE  InOrderOf(s, d)'
<1> DEFINE J == Closed(s, d)
           S == Sent(s, d)
           R == Received(s, d)
           H == Arrived(s, d)
           W == Waiting(s, d)
           n == nsent[s]
           k == nsent'[s]
           sends == AboutsIn(events, SendEvents(s, d))
           recvs == AboutsIn(events, RecvEvents(s, d))
           S2 == Sent(s, d)'
           R2 == Received(s, d)'
           H2 == Arrived(s, d)'
           W2 == Waiting(s, d)'
<1>1. PICK open \in Seq([msg : Messages]) :
        Ascending(open) /\ OpenOf(s, d, open) /\ InStep(J, Carried(open), S, R, H, W, s, n)
  BY DEF InOrderOf
<1>2. Closed(s, d)' = J /\ OpenOf(s, d, open)'
  <2>1. /\ queue' = queue /\ links' = links /\ Ends' = Ends /\ Starts' = Starts
        /\ \A i : KeyAt(i)' = KeyAt(i)
    BY DEF Ends, Starts, KeyAt
  <2>2. Closed(s, d)' = Closed(s, d)
    BY <2>1 DEF Closed
  <2>3. OpenOf(s, d, open)'
    BY <1>1, <2>1 DEF OpenOf
  <2> QED
    BY <2>2, <2>3
<1>3. /\ S2 = S \cup sends /\ (Earlier(S, sends) => Rising(trace, SendEvents(s, d))')
      /\ R2 = R \cup recvs /\ (Earlier(R, recvs) => Rising(trace, RecvEvents(s, d))')
  BY AboutsJoin DEF InOrderOf, Move, Sent, Received
<1>4. Ascending(net[s][d]) /\ n \in Nat /\ k \in {n, n + 1}
  BY DEF InOrderOf
<1>5. Earlier(S, {}) /\ Earlier(R, {}) /\ S \cup {} = S /\ R \cup {} = R
  BY DEF Earlier
<1>6. SUFFICES /\ InStep(J, Carried(open), S2, R2, H2, W2, s, k) /\ Ascending(net'[s][d])
               /\ Earlier(S, sends) /\ Earlier(R, recvs)
  BY <1>1, <1>2, <1>3 DEF InOrderOf
<1>7. CASE sends = {} /\ recvs = {} /\ Rests(s, d)
  <2>1. H2 = H /\ W2 = W /\ S2 = S /\ R2 = R /\ net'[s][d] = net[s][d]
    BY <1>3, <1>5, <1>7 DEF Rests, Waiting
  <2> QED
    BY <1>1, <1>4, <1>5, <1>7, <2>1, InStepRests
<1>8. CASE sends = {} /\ recvs = {} /\ Arrives(s, d)
  <2> DEFINE m == net[s][d][1].msg
  <2>1. /\ H = {} /\ H2 = {m} /\ S2 = S /\ R2 = R /\ 1 \in DOMAIN net[s][d]
        /\ Shortens(net'[s][d], net[s][d], 1)
    BY <1>3, <1>5, <1>8 DEF Arrives
  <2>2. W = W2 \cup {m} /\ Ascending(net'[s][d]) /\ Earlier({m}, W2)
    BY <1>4, <2>1, CarriedAfterFirst DEF Waiting
  <2>3. InStep(J, Carried(open), S, R, {}, W2 \cup {m}, s, n)
    BY <1>1, <2>1, <2>2
  <2> HIDE DEF J, S, R, H, W, n, k, sends, recvs, S2, R2, H2, W2, m
  <2>4. InStep(J, Carried(open), S, R, {m}, W2, s, k)
    BY <1>4, <2>2, <2>3, InStepArrives
  <2> QED
    BY <1>5, <1>8, <2>1, <2>2, <2>4
<1>9. CASE sends = {NextMsg(s)} /\ recvs = {} /\ Sends(s, d)
  <2> DEFINE m == NextMsg(s)
  <2>1. PICK x : x.msg = m /\ net'[s][d] = Append(net[s][d], x)
    BY <1>9 DEF Sends
  <2>2. H2 = H /\ S2 = S \cup {m} /\ R2 = R /\ k = n + 1 /\ m = <<"ptp", s, n>>
    BY <1>3, <1>5, <1>9 DEF Sends, NextMsg
  <2>3. W2 = W \cup {m} /\ (Earlier(W, {m}) => Ascending(net'[s][d]))
    <3>1. /\ Carried(net'[s][d]) = Carried(net[s][d]) \cup {x.msg}
          /\ Ascending(net[s][d]) /\ Earlier(Carried(net[s][d]), {x.msg})
               => Ascending(net'[s][d])
      BY <2>1, CarriedAppend
    <3> HIDE DEF m
    <3> QED
      BY <1>4, <2>1, <3>1 DEF Waiting
  <2> HIDE DEF J, S, R, H, W, n, k, sends, recvs, S2, R2, H2, W2, m
  <2>4. /\ InStep(J, Carried(open), S \cup {m}, R, H, W \cup {m}, s, n + 1)
        /\ Earlier(S, {m}) /\ Earlier(W, {m})
    BY <1>1, <1>4, <2>2, InStepSent
  <2> QED
    BY <1>5, <1>9, <2>2, <2>3, <2>4 DEF m
<1>10. CASE sends = {} /\ recvs = H /\ IsRecorded(s, d)
  <2>1. H2 = {} /\ S2 = S /\ R2 = R \cup H /\ W2 = W /\ net'[s][d] = net[s][d]
    BY <1>3, <1>5, <1>10 DEF IsRecorded, Waiting
  <2>2. Earlier(R, H)
    BY <1>1 DEF InStep, Earlier
  <2> HIDE DEF J, S, R, H, W, n, k, sends, recvs, S2, R2, H2, W2
  <2>3. InStep(J, Carried(open), S, R \cup H, {}, W, s, k)
    BY <1>1, <1>4, InStepRecorded
  <2> QED
    BY <1>4, <1>5, <1>10, <2>1, <2>2, <2>3
<1> QED
  BY <1>7, <1>8, <1>9, <1>10 DEF Move

LEMMA TracerKeepsOrdered ==
  ASSUME FilesInv, IrecvsInv, KeysKnown, FollowedInv, FollowedCalls, MessagesOrdered,
         OrderedInv, TracerStep
  PROVE  OrderedInv'
<1>1. Moves /\ CallsKnown' /\ UNCHANGED converterVars
  BY TracerMoves DEF TracerStep, FollowedInv, OrderedInv
<1>2. UNCHANGED <<queue, links>>
  BY <1>1 DEF converterVars, outputVars, keyVars
<1>3. PICK events \in Seq(MessageEvents) :
        trace' = trace \o events /\ \A s, d \in Ranks : Move(s, d, events)
  BY <1>1 DEF Moves
<1>4. LinksJoinOneMessage' /\ ReceivesAreFifo'
  BY <1>2 DEF OrderedInv, LinksJoinOneMessage, ReceivesAreFifo, Starts, Ends, KeyAt
<1>5. ASSUME NEW s \in Ranks, NEW d \in Ranks
      PROVE  InOrderOf(s, d)'
  <2>1. net[s][d] \in Seq(NetMessage) /\ nsent[s] \in Nat
    BY PendingType DEF FilesInv, RequestsInv, RequestsTypeOK
  <2>2. nsent'[s] \in {nsent[s], nsent[s] + 1}
    BY <1>1 DEF Moves
  <2>3. trace \in Seq(MessageEvents) /\ InOrderOf(s, d)
    BY DEF FollowedInv, OrderedInv
  <2> QED
    BY <1>2, <1>3, <2>1, <2>2, <2>3, MoveKeepsOrder
<1> QED
  BY <1>1, <1>4, <1>5 DEF OrderedInv

-----------------------------------------------------------------------------
\* What a link more changes of the starts and the ends.
LEMMA LinksGrow ==
  ASSUME KeysKnown, NEW l, links' = Append(links, l)
  PROVE  /\ \A i \in Starts : i \in Starts' /\ links'[i] = links[i]
         /\ \A i \in Starts' : \/ i \in Starts /\ links'[i] = links[i]
                               \/ links'[i] = l /\ l.side = "start"
         /\ l.side = "start" => \E i \in Starts' : links'[i] = l
         /\ \A i \in Ends : i \in Ends' /\ links'[i] = links[i]
         /\ \A i \in Ends' : \/ i \in Ends /\ links'[i] = links[i]
                             \/ links'[i] = l /\ l.side = "end"
         /\ l.side = "end" => \E i \in Ends' : links'[i] = l
         /\ \A i, j \in Ends' : i < j => i \in Ends /\ links'[i] = links[i]
<1>1. PICK S : links \in Seq(S)
  BY DEF KeysKnown
<1> DEFINE n == Len(links)
<1>2. /\ n \in Nat /\ DOMAIN links = 1..n /\ DOMAIN links' = 1..(n + 1)
      /\ links'[n + 1] = l /\ \A i \in 1..n : links'[i] = links[i]
  BY <1>1
<1> HIDE DEF n
<1>3. /\ \A i \in 1..n : i \in 1..(n + 1)
      /\ \A i \in 1..(n + 1) : i \in 1..n \/ i = n + 1
      /\ n + 1 \in 1..(n + 1)
      /\ \A i, j \in 1..(n + 1) : i < j => i \in 1..n
  BY <1>2
<1>4. /\ Starts = {i \in 1..n : links[i].side = "start"}
      /\ Ends = {i \in 1..n : links[i].side = "end"}
      /\ Starts' = {i \in 1..(n + 1) : links'[i].side = "start"}
      /\ Ends' = {i \in 1..(n + 1) : links'[i].side = "end"}
  BY <1>2 DEF Starts, Ends
<1> QED
  BY <1>2, <1>3, <1>4

LEMMA ClosedGrows ==
  ASSUME KeysKnown, NEW l, links' = Append(links, l), NEW s, NEW d
  PROVE  Closed(s, d)' = IF l.side = "end" /\ l.about[2] = s /\ l.about[3] = d
                         THEN Closed(s, d) \cup {l.about[1]} ELSE Closed(s, d)
<1>1. /\ \A i \in Ends : i \in Ends' /\ links'[i] = links[i]
      /\ \A i \in Ends' : \/ i \in Ends /\ links'[i] = links[i]
                          \/ links'[i] = l /\ l.side = "end"
      /\ l.side = "end" => \E i \in Ends' : links'[i] = l
  BY LinksGrow
<1>2. \A m : m \in Closed(s, d)' <=> \E i \in Ends' :
             links'[i].about[2] = s /\ links'[i].about[3] = d /\ m = links'[i].about[1]
  BY DEF Closed
<1>3. \A m : m \in Closed(s, d) <=> \E i \in Ends :
             links[i].about[2] = s /\ links[i].about[3] = d /\ m = links[i].about[1]
  BY DEF Closed
<1> DEFINE Ours == l.side = "end" /\ l.about[2] = s /\ l.about[3] = d
           is == Closed(s, d)'
           was == Closed(s, d)
<1>4. ASSUME NEW m \in was PROVE m \in is
  <2>1. PICK i \in Ends :
          links[i].about[2] = s /\ links[i].about[3] = d /\ m = links[i].about[1]
    BY <1>3
  <2>2. i \in Ends' /\ links'[i] = links[i]
    BY <1>1, <2>1
  <2> QED
    BY <1>2, <2>1, <2>2
<1>5. ASSUME NEW m \in is PROVE m \in was \/ (Ours /\ m = l.about[1])
  <2>1. PICK i \in Ends' :
          links'[i].about[2] = s /\ links'[i].about[3] = d /\ m = links'[i].about[1]
    BY <1>2
  <2>2. CASE i \in Ends /\ links'[i] = links[i]
    BY <1>3, <2>1, <2>2
  <2>3. CASE links'[i] = l /\ l.side = "end"
    BY <2>1, <2>3
  <2> QED
    BY <1>1, <2>1, <2>2, <2>3
<1>6. Ours => l.about[1] \in is
  <2> SUFFICES ASSUME Ours PROVE l.about[1] \in is
    OBVIOUS
  <2>1. PICK i \in Ends' : links'[i] = l
    BY <1>1
  <2> QED
    BY <1>2, <2>1
<1> HIDE DEF is, was, Ours
<1>7. is = IF Ours THEN was \cup {l.about[1]} ELSE was
  BY <1>4, <1>5, <1>6
<1> QED
  BY <1>7 DEF is, was, Ours

\* An open link stays one as long as its key waits.
LEMMA OpenStays ==
  ASSUME NEW s, NEW d, NEW open, OpenOf(s, d, open),
         queue'[MessageName(s, d)] = queue[MessageName(s, d)],
         \A i \in Starts : i \in Starts' /\ links'[i] = links[i]
  PROVE  OpenOf(s, d, open)'
<1>1. Len(open) = Len(queue'[MessageName(s, d)])
  BY DEF OpenOf
<1>2. ASSUME NEW j \in DOMAIN open
      PROVE  \E i \in Starts' : links'[i].key = queue'[MessageName(s, d)][j]
                                /\ links'[i].about = <<open[j].msg, s, d>>
  <2>1. PICK i \in Starts : /\ KeyAt(i) = queue[MessageName(s, d)][j]
                            /\ links[i].about = <<open[j].msg, s, d>>
    BY DEF OpenOf
  <2>2. i \in Starts' /\ links'[i] = links[i]
    BY <2>1
  <2> QED
    BY <2>1, <2>2 DEF KeyAt
<1> QED
  BY <1>1, <1>2 DEF OpenOf, KeyAt

\* The first event is taken off the trace, and the application does not move.
Converted ==
  /\ trace \in Seq(MessageEvents) /\ trace # <<>> /\ Shortens(trace', trace, 1)
  /\ UNCHANGED <<net, request, nsent>>

LEMMA ConvertedAbouts ==
  ASSUME NEW s \in Ranks, NEW d \in Ranks, InOrderOf(s, d), Converted
  PROVE  LET m == trace[1].about
         IN /\ Arrived(s, d)' = Arrived(s, d) /\ Waiting(s, d)' = Waiting(s, d)
            /\ nsent'[s] = nsent[s] /\ Ascending(net'[s][d])
            /\ Rising(trace, SendEvents(s, d))' /\ Rising(trace, RecvEvents(s, d))'
            /\ IF trace[1] \in SendEvents(s, d)
               THEN Sent(s, d) = Sent(s, d)' \cup {m} /\ Earlier({m}, Sent(s, d)')
               ELSE Sent(s, d)' = Sent(s, d)
            /\ IF trace[1] \in RecvEvents(s, d)
               THEN Received(s, d) = Received(s, d)' \cup {m} /\ Earlier({m}, Received(s, d)')
               ELSE Received(s, d)' = Received(s, d)
<1>1. Rising(trace, SendEvents(s, d)) /\ Rising(trace, RecvEvents(s, d)) /\ Ascending(net[s][d])
  BY DEF InOrderOf
<1>2. UNCHANGED <<net, request, nsent>>
  BY DEF Converted
<1>3. Arrived(s, d)' = Arrived(s, d) /\ Waiting(s, d)' = Waiting(s, d)
  BY <1>2 DEF Arrived, Held, Waiting
<1>4. ASSUME NEW E, Rising(trace, E)
      PROVE  /\ AboutsIn(trace, E) =
                  AboutsIn(trace', E) \cup (IF trace[1] \in E THEN {trace[1].about} ELSE {})
             /\ Rising(trace', E)
             /\ trace[1] \in E => Earlier({trace[1].about}, AboutsIn(trace', E))
  BY <1>4, AboutsAfterFirst DEF Converted
<1>5. /\ Sent(s, d)' = AboutsIn(trace', SendEvents(s, d))
      /\ Received(s, d)' = AboutsIn(trace', RecvEvents(s, d))
      /\ Rising(trace, SendEvents(s, d))' = Rising(trace', SendEvents(s, d))
      /\ Rising(trace, RecvEvents(s, d))' = Rising(trace', RecvEvents(s, d))
  BY DEF Sent, Received
<1> QED
  BY <1>1, <1>2, <1>3, <1>4, <1>5 DEF Sent, Received

LEMMA RestKeepsOrder ==
  ASSUME NEW s \in Ranks, NEW d \in Ranks, InOrderOf(s, d), Converted,
         trace[1] \notin SendEvents(s, d), trace[1] \notin RecvEvents(s, d),
         queue'[MessageName(s, d)] = queue[MessageName(s, d)],
         \A i \in Starts : i \in Starts' /\ links'[i] = links[i],
         Closed(s, d)' = Closed(s, d)
  PROVE  InOrderOf(s, d)'
<1>1. PICK open \in Seq([msg : Messages]) :
        /\ Ascending(open) /\ OpenOf(s, d, open)
        /\ InStep(Closed(s, d), Carried(open), Sent(s, d), Received(s, d), Arrived(s, d),
                  Waiting(s, d), s, nsent[s])
  BY DEF InOrderOf
<1>2. OpenOf(s, d, open)'
  BY <1>1, OpenStays
<1>3. /\ Arrived(s, d)' = Arrived(s, d) /\ Waiting(s, d)' = Waiting(s, d)
      /\ nsent'[s] = nsent[s] /\ Ascending(net'[s][d])
      /\ Rising(trace, SendEvents(s, d))' /\ Rising(trace, RecvEvents(s, d))'
      /\ Sent(s, d)' = Sent(s, d) /\ Received(s, d)' = Received(s, d)
  BY ConvertedAbouts
<1>4. InStep(Closed(s, d)', Carried(open), Sent(s, d)', Received(s, d)', Arrived(s, d)',
             Waiting(s, d)', s, nsent'[s])
  BY <1>1, <1>3
<1> QED
  BY <1>1, <1>2, <1>3, <1>4 DEF InOrderOf

\* The conversion of a send opens a link, after those that are open.
LEMMA StartKeepsOrder ==
  ASSUME KeysKnown, NEW s \in Ranks, NEW d \in Ranks, InOrderOf(s, d), Converted,
         trace[1] \in SendEvents(s, d), NEW l, Started(l, trace[1])
  PROVE  InOrderOf(s, d)'
<1> DEFINE e == trace[1]
           m == e.about
           nm == MessageName(s, d)
           J == Closed(s, d)
           H == Arrived(s, d)
           W == Waiting(s, d)
           R == Received(s, d)
           S2 == Sent(s, d)'
           n == nsent[s]
<1>1. PICK open \in Seq([msg : Messages]) :
        /\ Ascending(open) /\ OpenOf(s, d, open)
        /\ InStep(J, Carried(open), Sent(s, d), R, H, W, s, n)
  BY DEF InOrderOf
<1>2. e.id1 = s /\ e.v = d /\ e \notin RecvEvents(s, d)
  BY DEF SendEvents, RecvEvents
<1>3. /\ Arrived(s, d)' = H /\ Waiting(s, d)' = W
      /\ nsent'[s] = n /\ Ascending(net'[s][d])
      /\ Rising(trace, SendEvents(s, d))' /\ Rising(trace, RecvEvents(s, d))'
      /\ Sent(s, d) = S2 \cup {m} /\ Earlier({m}, S2) /\ Received(s, d)' = R
  BY <1>2, ConvertedAbouts
<1>4. /\ links' = Append(links, l) /\ l.side = "start" /\ l.about = <<m, s, d>>
      /\ queue'[nm] = Append(queue[nm], l.key)
  BY <1>2 DEF Started, LinkIsOf
<1>5. Closed(s, d)' = J
  BY <1>4, ClosedGrows
<1> HIDE DEF e, m, nm, J, H, W, R, S2, n
<1>6. /\ InStep(J, Carried(open) \cup {m}, S2, R, H, W, s, n)
      /\ Earlier(Carried(open), {m}) /\ m \in R \cup H \cup W
  <2>1. InStep(J, Carried(open), S2 \cup {m}, R, H, W, s, n) /\ Earlier({m}, S2)
    BY <1>1, <1>3
  <2> QED
    BY <2>1, InStepStarts
<1>7. m \in Messages
  <2>1. PICK k \in Nat : m = <<"ptp", s, k>>
    BY <1>6 DEF InStep, Numbered
  <2> QED
    BY <2>1 DEF Messages
<1>8. PICK x \in [msg : Messages] : x.msg = m
  <2>1. [msg |-> m] \in [msg : Messages] /\ [msg |-> m].msg = m
    BY <1>7
  <2> QED
    BY <2>1
<1>9. PICK open2 \in Seq([msg : Messages]) : open2 = Append(open, x)
  <2>1. Append(open, x) \in Seq([msg : Messages])
    OBVIOUS
  <2> QED
    BY <2>1
<1>10. Carried(open2) = Carried(open) \cup {m} /\ Ascending(open2)
  <2>1. /\ Carried(open2) = Carried(open) \cup {x.msg}
        /\ Ascending(open) /\ Earlier(Carried(open), {x.msg}) => Ascending(open2)
    BY <1>9, CarriedAppend
  <2> QED
    BY <1>1, <1>6, <1>8, <2>1
<1>11. OpenOf(s, d, open2)'
  <2> DEFINE k == Len(open)
  <2>1. /\ k \in Nat /\ Len(open2) = k + 1 /\ DOMAIN open = 1..k /\ DOMAIN open2 = 1..(k + 1)
        /\ open2[k + 1] = x /\ \A j \in 1..k : open2[j] = open[j]
    BY <1>9
  <2>2. nm \in Names /\ queue[nm] \in Seq(Key) /\ Len(queue[nm]) = k
    BY <1>1, NamesOfMessages DEF KeysKnown, KeysTypeOK, OpenOf, nm
  <2>3. /\ Len(queue'[nm]) = k + 1 /\ queue'[nm][k + 1] = l.key
        /\ \A j \in 1..k : queue'[nm][j] = queue[nm][j]
    BY <1>4, <2>2
  <2> HIDE DEF k
  <2>4. ASSUME NEW j \in 1..(k + 1)
        PROVE  \E i \in Starts' : links'[i].key = queue'[nm][j]
                                  /\ links'[i].about = <<open2[j].msg, s, d>>
    <3>1. CASE j = k + 1
      <4>1. PICK i \in Starts' : links'[i] = l
        BY <1>4, LinksGrow
      <4> QED
        BY <1>4, <1>8, <2>1, <2>3, <3>1, <4>1
    <3>2. CASE j # k + 1
      <4>1. j \in 1..k
        BY <2>1, <3>2
      <4>2. PICK i \in Starts : KeyAt(i) = queue[nm][j] /\ links[i].about = <<open[j].msg, s, d>>
        BY <1>1, <2>1, <4>1 DEF OpenOf, nm
      <4>3. i \in Starts' /\ links'[i] = links[i]
        BY <1>4, <4>2, LinksGrow
      <4> QED
        BY <2>1, <2>3, <4>1, <4>2, <4>3 DEF KeyAt
    <3> QED
      BY <3>1, <3>2
  <2> QED
    BY <2>1, <2>3, <2>4 DEF OpenOf, KeyAt, nm
<1>12. InStep(Closed(s, d)', Carried(open2), Sent(s, d)', Received(s, d)', Arrived(s, d)',
              Waiting(s, d)', s, nsent'[s])
  BY <1>3, <1>5, <1>6, <1>10 DEF S2
<1> QED
  BY <1>3, <1>9, <1>10, <1>11, <1>12 DEF InOrderOf

\* The conversion of a receive ends the first of the open links, which is of its message.
LEMMA EndKeepsOrder ==
  ASSUME KeysKnown, NEW s \in Ranks, NEW d \in Ranks, InOrderOf(s, d), Converted,
         trace[1] \in RecvEvents(s, d), NEW l, Finished(l, trace[1]), l.key # NoKey
  PROVE  /\ InOrderOf(s, d)'
         /\ Earlier(Closed(s, d), {trace[1].about})
         /\ \A i \in Starts : KeyAt(i) = l.key => links[i].about = l.about
<1> DEFINE e == trace[1]
           m == e.about
           nm == MessageName(s, d)
           J == Closed(s, d)
           H == Arrived(s, d)
           W == Waiting(s, d)
           S == Sent(s, d)
           R2 == Received(s, d)'
           n == nsent[s]
<1>1. PICK open \in Seq([msg : Messages]) :
        /\ Ascending(open) /\ OpenOf(s, d, open)
        /\ InStep(J, Carried(open), S, Received(s, d), H, W, s, n)
  BY DEF InOrderOf
<1>2. e.id1 = d /\ e.v = s /\ e \notin SendEvents(s, d)
  BY DEF SendEvents, RecvEvents
<1>3. /\ Arrived(s, d)' = H /\ Waiting(s, d)' = W
      /\ nsent'[s] = n /\ Ascending(net'[s][d])
      /\ Rising(trace, SendEvents(s, d))' /\ Rising(trace, RecvEvents(s, d))'
      /\ Sent(s, d)' = S /\ Received(s, d) = R2 \cup {m} /\ Earlier({m}, R2)
  BY <1>2, ConvertedAbouts
<1>4. /\ links' = Append(links, l) /\ l.side = "end" /\ l.about = <<m, s, d>>
      /\ queue[nm] # <<>> /\ l.key = queue[nm][1] /\ queue'[nm] = Tail(queue[nm])
  BY <1>2 DEF Finished, LinkIsOf
<1>5. Closed(s, d)' = J \cup {m}
  BY <1>4, ClosedGrows
<1> HIDE DEF e, m, nm, J, H, W, S, R2, n
<1> DEFINE k == Len(open)
           rest == Tail(open)
           first == open[1].msg
<1>6. nm \in Names /\ queue[nm] \in Seq(Key) /\ Len(queue[nm]) = k
  BY <1>1, NamesOfMessages DEF KeysKnown, KeysTypeOK, OpenOf, nm
<1>7. k \in Nat /\ k >= 1
  BY <1>4, <1>6
<1>8. /\ 1 \in DOMAIN open /\ open # <<>> /\ DOMAIN open = 1..k
      /\ rest \in Seq([msg : Messages]) /\ Len(rest) = k - 1 /\ DOMAIN rest = 1..(k - 1)
      /\ \A j \in 1..(k - 1) : rest[j] = open[j + 1]
  BY <1>7
<1>9. Shortens(rest, open, 1)
  BY <1>7, <1>8 DEF Shortens
<1> HIDE DEF k, rest
<1>10. /\ Carried(open) = Carried(rest) \cup {first} /\ Ascending(rest)
       /\ Earlier({first}, Carried(rest))
  BY <1>1, <1>8, <1>9, CarriedAfterFirst
<1>11. PICK i \in Starts : KeyAt(i) = l.key /\ links[i].about = <<first, s, d>>
  BY <1>1, <1>4, <1>8 DEF OpenOf, nm
<1> HIDE DEF first
<1>12. first = m /\ InStep(J \cup {m}, Carried(rest), S, R2, H, W, s, n) /\ Earlier(J, {m})
  <2>1. /\ InStep(J, Carried(rest) \cup {first}, S, R2 \cup {m}, H, W, s, n)
        /\ Earlier({first}, Carried(rest)) /\ Earlier({m}, R2)
    BY <1>1, <1>3, <1>10
  <2> HIDE DEF first
  <2> QED
    BY <2>1, InStepEnds
<1>13. ASSUME NEW j \in Starts, KeyAt(j) = l.key
       PROVE  links[j].about = l.about
  <2>1. j = i
    BY <1>11, <1>13 DEF KeysKnown, LinkKeysUnique, Starts
  <2> QED
    BY <1>4, <1>11, <1>12, <2>1
<1>14. OpenOf(s, d, rest)'
  <2>1. /\ Len(queue'[nm]) = k - 1
        /\ \A j \in 1..(k - 1) : queue'[nm][j] = queue[nm][j + 1]
    BY <1>4, <1>6, <1>7
  <2>2. ASSUME NEW j \in 1..(k - 1)
        PROVE  \E h \in Starts' : links'[h].key = queue'[nm][j]
                                  /\ links'[h].about = <<rest[j].msg, s, d>>
    <3>1. j + 1 \in 1..k
      BY <1>7
    <3>2. PICK h \in Starts :
            KeyAt(h) = queue[nm][j + 1] /\ links[h].about = <<open[j + 1].msg, s, d>>
      BY <1>1, <1>8, <3>1 DEF OpenOf, nm
    <3>3. h \in Starts' /\ links'[h] = links[h]
      BY <1>4, <3>2, LinksGrow
    <3> QED
      BY <1>8, <2>1, <3>2, <3>3 DEF KeyAt
  <2> QED
    BY <1>8, <2>1, <2>2 DEF OpenOf, KeyAt, nm
<1>15. InStep(Closed(s, d)', Carried(rest), Sent(s, d)', Received(s, d)', Arrived(s, d)',
              Waiting(s, d)', s, nsent'[s])
  BY <1>3, <1>5, <1>12 DEF R2
<1>16. InOrderOf(s, d)'
  BY <1>3, <1>8, <1>10, <1>14, <1>15 DEF InOrderOf
<1> QED
  BY <1>12, <1>13, <1>16 DEF J, m, e

\* Another pair of ranks than that of the event converted.
LEMMA OtherKeepsOrder ==
  ASSUME KeysKnown, NEW s \in Ranks, NEW d \in Ranks, InOrderOf(s, d), Converted,
         trace[1] \notin SendEvents(s, d), trace[1] \notin RecvEvents(s, d),
         NEW p \in Ranks, NEW q \in Ranks, ~(p = s /\ q = d),
         NEW l, NEW side, LinkIsOf(l, trace[1], side, p, q)
  PROVE  InOrderOf(s, d)'
<1>1. links' = Append(links, l) /\ l.about[2] = p /\ l.about[3] = q
  BY DEF LinkIsOf
<1>2. queue'[MessageName(s, d)] = queue[MessageName(s, d)]
  BY NamesOfMessages DEF LinkIsOf
<1>3. Closed(s, d)' = Closed(s, d)
  BY <1>1, ClosedGrows
<1>4. \A i \in Starts : i \in Starts' /\ links'[i] = links[i]
  BY <1>1, LinksGrow
<1> QED
  BY <1>2, <1>3, <1>4, RestKeepsOrder

\* The key of a link just started is on no end; the link that a receive ends has one start.
LEMMA StartedIsOpen ==
  ASSUME KeysKnown, KeysKnown', LinksJoinOneMessage, ReceivesAreFifo,
         NEW e, e.id1 \in Ranks, e.v \in Ranks, NEW l, Between(l), Started(l, e)
  PROVE  LinksJoinOneMessage' /\ ReceivesAreFifo'
<1> DEFINE nm == MessageName(e.id1, e.v)
<1>1. /\ links' = Append(links, l) /\ l.side = "start" /\ l.key # NoKey
      /\ queue'[nm] = Append(queue[nm], l.key)
  BY DEF Started, LinkIsOf, Between
<1>2. nm \in Names /\ queue[nm] \in Seq(Key)
  BY NamesOfMessages DEF KeysKnown, KeysTypeOK
<1>3. l.key \in WaitingKeys'
  <2>1. Len(queue[nm]) + 1 \in DOMAIN queue'[nm] /\ queue'[nm][Len(queue[nm]) + 1] = l.key
    BY <1>1, <1>2
  <2> QED
    BY <1>2, <2>1 DEF WaitingKeys
<1>4. \A j \in Ends' : links'[j].key # l.key
  BY <1>3 DEF KeysKnown, OpenLinksWait, OpenKeys, KeyAt
<1>5. /\ \A i \in Starts' : (i \in Starts /\ links'[i] = links[i]) \/ links'[i] = l
      /\ \A i \in Ends' : i \in Ends /\ links'[i] = links[i]
  BY <1>1, LinksGrow
<1>6. ASSUME NEW i \in Starts', NEW j \in Ends', links'[i].key = links'[j].key,
             links'[i].key # NoKey
      PROVE  links'[i].about = links'[j].about
  BY <1>4, <1>5, <1>6 DEF LinksJoinOneMessage, KeyAt
<1>7. LinksJoinOneMessage'
  BY <1>6 DEF LinksJoinOneMessage, KeyAt
<1>8. ReceivesAreFifo'
  BY <1>5 DEF ReceivesAreFifo
<1> QED
  BY <1>7, <1>8

LEMMA FinishedIsNext ==
  ASSUME KeysKnown, LinksJoinOneMessage, ReceivesAreFifo,
         NEW e, NEW l, Finished(l, e),
         Earlier(Closed(e.v, e.id1), {e.about}),
         \A i \in Starts : KeyAt(i) = l.key => links[i].about = l.about
  PROVE  LinksJoinOneMessage' /\ ReceivesAreFifo'
<1> DEFINE s == e.v
           d == e.id1
<1>1. links' = Append(links, l) /\ l.side = "end" /\ l.about = <<e.about, s, d>>
  BY DEF Finished, LinkIsOf
<1>2. /\ \A i \in Starts' : i \in Starts /\ links'[i] = links[i]
      /\ \A i \in Ends' : (i \in Ends /\ links'[i] = links[i]) \/ links'[i] = l
      /\ \A i, j \in Ends' : i < j => i \in Ends /\ links'[i] = links[i]
  BY <1>1, LinksGrow
<1>3. LinksJoinOneMessage'
  <2>1. ASSUME NEW i \in Starts', NEW j \in Ends', links'[i].key = links'[j].key,
               links'[i].key # NoKey
        PROVE  links'[i].about = links'[j].about
    BY <1>2, <2>1 DEF LinksJoinOneMessage, KeyAt
  <2> QED
    BY <2>1 DEF LinksJoinOneMessage, KeyAt
<1>4. ASSUME NEW i \in Ends', NEW j \in Ends',
             links'[i].value = "PTP", links'[j].value = "PTP",
             links'[i].about[2] = links'[j].about[2],
             links'[i].about[3] = links'[j].about[3], i < j
      PROVE  links'[i].about[1][3] < links'[j].about[1][3]
  <2>1. i \in Ends /\ links'[i] = links[i]
    BY <1>2, <1>4
  <2>2. CASE j \in Ends /\ links'[j] = links[j]
    BY <1>4, <2>1, <2>2 DEF ReceivesAreFifo
  <2>3. CASE links'[j] = l
    <3>1. links[i].about[2] = s /\ links[i].about[3] = d /\ links'[j].about[1] = e.about
      BY <1>1, <1>4, <2>1, <2>3
    <3>2. links[i].about[1] \in Closed(s, d)
      BY <2>1, <3>1 DEF Closed
    <3>3. links[i].about[1][3] < e.about[3]
      BY <3>2 DEF Earlier
    <3> QED
      BY <2>1, <3>1, <3>3
  <2> QED
    BY <1>2, <2>2, <2>3
<1>5. ReceivesAreFifo'
  BY <1>4 DEF ReceivesAreFifo
<1> QED
  BY <1>3, <1>5

LEMMA DecodeKeepsOrdered ==
  ASSUME LinksFollowed, KeysKnown, KeysKnown', FollowedInv, OrderedInv, DecodeNext
  PROVE  OrderedInv'
<1>1. PICK i \in NextToDecode : Decode(trace[i]) /\ trace' = Without(trace, i)
  BY DEF DecodeNext
<1>2. i = 1 /\ i \in DOMAIN trace
  BY <1>1 DEF NextToDecode, LinksFollowed
<1>3. trace \in Seq(MessageEvents) /\ trace # <<>>
  BY <1>2 DEF FollowedInv
<1>4. Shortens(trace', trace, 1) /\ Decode(trace[1])
  BY <1>1, <1>2, <1>3, WithoutShape
<1>5. UNCHANGED <<net, request, nsent>>
  BY DEF DecodeNext, mpiVars
<1>6. Converted
  BY <1>3, <1>4, <1>5 DEF Converted
<1>7. CallsKnown'
  BY <1>5 DEF OrderedInv, CallsKnown, ReceivesCalled, SendsCalled
<1> DEFINE e == trace[1]
<1>8. e \in MessageEvents
  BY <1>3
<1>9. SUFFICES /\ LinksJoinOneMessage' /\ ReceivesAreFifo'
               /\ \A s, d \in Ranks : InOrderOf(s, d)'
  BY <1>7 DEF OrderedInv
<1>10. LinksJoinOneMessage /\ ReceivesAreFifo /\ \A s, d \in Ranks : InOrderOf(s, d)
  BY DEF OrderedInv
<1>11. \/ e \in CallEvents /\ UNCHANGED <<links, queue>>
       \/ e.type = "AKY_PTP_SEND" /\ \E l : Between(l) /\ Started(l, e)
       \/ e.type = "AKY_PTP_RECV" /\ \E l : Between(l) /\ Finished(l, e)
  BY <1>3, <1>4, FirstConverts
<1>12. CASE e \in CallEvents /\ UNCHANGED <<links, queue>>
  <2>1. Starts' = Starts /\ Ends' = Ends /\ links' = links
    BY <1>12 DEF Starts, Ends
  <2>2. LinksJoinOneMessage' /\ ReceivesAreFifo'
    BY <1>10, <2>1 DEF LinksJoinOneMessage, ReceivesAreFifo, KeyAt
  <2>3. ASSUME NEW s \in Ranks, NEW d \in Ranks PROVE InOrderOf(s, d)'
    <3>1. e \notin SendEvents(s, d) /\ e \notin RecvEvents(s, d)
      BY <1>12 DEF CallEvents, SendEvents, RecvEvents
    <3>2. Closed(s, d)' = Closed(s, d)
      BY <2>1 DEF Closed
    <3>3. \A j \in Starts : j \in Starts' /\ links'[j] = links[j]
      BY <2>1
    <3>4. queue'[MessageName(s, d)] = queue[MessageName(s, d)]
      BY <1>12
    <3> QED
      BY <1>6, <1>10, <3>1, <3>2, <3>3, <3>4, RestKeepsOrder
  <2> QED
    BY <2>2, <2>3
<1>13. CASE e.type = "AKY_PTP_SEND"
  <2>1. PICK l : Between(l) /\ Started(l, e)
    BY <1>11, <1>13 DEF CallEvents
  <2>2. e.id1 \in Ranks /\ e.v \in Ranks
    BY <1>8, <1>13 DEF MessageEvents, CallEvents, RecordedEvents
  <2> HIDE DEF e
  <2>3. LinksJoinOneMessage' /\ ReceivesAreFifo'
    BY <1>10, <2>1, <2>2, StartedIsOpen
  <2>4. ASSUME NEW s \in Ranks, NEW d \in Ranks PROVE InOrderOf(s, d)'
    <3>1. CASE e \in SendEvents(s, d)
      BY <1>6, <1>10, <2>1, <3>1, StartKeepsOrder DEF e
    <3>2. CASE e \notin SendEvents(s, d)
      <4>1. e \notin RecvEvents(s, d) /\ ~(e.id1 = s /\ e.v = d)
        BY <1>8, <1>13, <3>2 DEF SendEvents, RecvEvents
      <4>2. LinkIsOf(l, e, "start", e.id1, e.v)
        BY <2>1 DEF Started
      <4> QED
        BY <1>6, <1>10, <2>2, <3>2, <4>1, <4>2, OtherKeepsOrder DEF e
    <3> QED
      BY <3>1, <3>2
  <2> QED
    BY <2>3, <2>4
<1>14. CASE e.type = "AKY_PTP_RECV"
  <2>1. PICK l : Between(l) /\ Finished(l, e)
    BY <1>11, <1>14 DEF CallEvents
  <2>2. e.id1 \in Ranks /\ e.v \in Ranks /\ l.key # NoKey
    BY <1>8, <1>14, <2>1 DEF MessageEvents, CallEvents, RecordedEvents, Between
  <2>3. e \in RecvEvents(e.v, e.id1)
    BY <1>8, <1>14 DEF RecvEvents
  <2> HIDE DEF e
  <2>4. /\ InOrderOf(e.v, e.id1)
        /\ Earlier(Closed(e.v, e.id1), {e.about})
        /\ \A j \in Starts : KeyAt(j) = l.key => links[j].about = l.about
    BY <1>6, <1>10, <2>1, <2>2, <2>3, EndKeepsOrder DEF e
  <2>5. LinksJoinOneMessage' /\ ReceivesAreFifo'
    BY <1>10, <2>1, <2>4, FinishedIsNext
  <2>6. ASSUME NEW s \in Ranks, NEW d \in Ranks PROVE InOrderOf(s, d)'
    <3>1. CASE e \in RecvEvents(s, d)
      BY <1>6, <1>10, <2>1, <2>2, <3>1, EndKeepsOrder DEF e
    <3>2. CASE e \notin RecvEvents(s, d)
      <4>1. e \notin SendEvents(s, d) /\ ~(e.v = s /\ e.id1 = d)
        BY <1>8, <1>14, <3>2 DEF SendEvents, RecvEvents
      <4>2. LinkIsOf(l, e, "end", e.v, e.id1)
        BY <2>1 DEF Finished
      <4> QED
        BY <1>6, <1>10, <2>2, <3>2, <4>1, <4>2, OtherKeepsOrder DEF e
    <3> QED
      BY <3>1, <3>2
  <2> QED
    BY <2>5, <2>6
<1> QED
  BY <1>11, <1>12, <1>13, <1>14

LEMMA OrderedInvInit ==
  ASSUME Init
  PROVE  OrderedInv
<1>1. TracerInit /\ ConverterInit
  BY DEF Init
<1>2. trace = <<>> /\ links = <<>> /\ Ends = {}
  BY <1>1 DEF TracerInit, ConverterInit, Ends
<1>3. /\ \A s, d \in Ranks : net[s][d] = <<>>
      /\ \A r \in Ranks, a \in Slots : request[r][a].st = "null"
  BY <1>1, NullIsRequest DEF TracerInit, MpiInit, Slots
<1>4. CallsKnown
  BY <1>3 DEF CallsKnown, ReceivesCalled, SendsCalled
<1>5. LinksJoinOneMessage /\ ReceivesAreFifo
  BY <1>2 DEF LinksJoinOneMessage, ReceivesAreFifo
<1>6. ASSUME NEW s \in Ranks, NEW d \in Ranks PROVE InOrderOf(s, d)
  <2>1. ASSUME NEW E PROVE AboutsIn(trace, E) = {} /\ Rising(trace, E)
    BY <1>2, NoAbouts
  <2>2. Sent(s, d) = {} /\ Received(s, d) = {}
    BY <2>1 DEF Sent, Received
  <2>3. Arrived(s, d) = {}
    BY <1>3 DEF Arrived, Held
  <2>4. Waiting(s, d) = {} /\ Ascending(net[s][d])
    BY <1>3 DEF Waiting, Carried, Ascending
  <2>5. Closed(s, d) = {}
    BY <1>2 DEF Closed
  <2>6. queue[MessageName(s, d)] = <<>>
    BY <1>1, NamesOfMessages DEF ConverterInit, KeysInit
  <2>7. PICK open \in Seq([msg : Messages]) : open = <<>>
    <3>1. <<>> \in Seq([msg : Messages])
      OBVIOUS
    <3> QED
      BY <3>1
  <2>8. Ascending(open) /\ Carried(open) = {} /\ OpenOf(s, d, open)
    BY <2>6, <2>7 DEF Ascending, Carried, OpenOf
  <2>9. InStep({}, {}, {}, {}, {}, {}, s, nsent[s])
    BY DEF InStep, Earlier, Numbered
  <2> QED
    BY <2>1, <2>2, <2>3, <2>4, <2>5, <2>8, <2>9 DEF InOrderOf
<1> QED
  BY <1>4, <1>5, <1>6 DEF OrderedInv

LEMMA OrderedInvStep ==
  ASSUME LinksFollowed, MessagesOrdered, FilesInv, IrecvsInv, KeysKnown, KeysKnown',
         FollowedInv, OrderedInv, [Next]_vars
  PROVE  OrderedInv'
<1>1. CASE TracerStep
  BY <1>1, TracerKeepsOrdered DEF LinksFollowed
<1>2. CASE DecodeNext
  BY <1>2, DecodeKeepsOrdered
<1>3. CASE (ScatterStep \/ CollectStep \/ LoopEnd) /\ UNCHANGED tracerVars
  BY <1>3 DEF ScatterStep, CollectStep, LoopEnd, FollowedInv
<1>4. CASE CloseTrace \/ UNCHANGED vars
  <2>1. UNCHANGED <<net, request, nsent, trace, queue, links>>
    BY <1>4 DEF CloseTrace, Close, vars, tracerVars, mpiVars, converterVars, outputVars, keyVars
  <2>2. Starts' = Starts /\ Ends' = Ends /\ \A i : KeyAt(i)' = KeyAt(i)
    BY <2>1 DEF Starts, Ends, KeyAt
  <2>3. CallsKnown' /\ LinksJoinOneMessage' /\ ReceivesAreFifo'
    BY <2>1, <2>2 DEF OrderedInv, CallsKnown, ReceivesCalled, SendsCalled,
                      LinksJoinOneMessage, ReceivesAreFifo
  <2>4. ASSUME NEW s \in Ranks, NEW d \in Ranks PROVE InOrderOf(s, d)'
    <3>1. /\ Closed(s, d)' = Closed(s, d) /\ Sent(s, d)' = Sent(s, d)
          /\ Received(s, d)' = Received(s, d) /\ Arrived(s, d)' = Arrived(s, d)
          /\ Waiting(s, d)' = Waiting(s, d)
      BY <2>1, <2>2 DEF Closed, Sent, Received, Arrived, Waiting, Held
    <3>2. \A open : OpenOf(s, d, open)' <=> OpenOf(s, d, open)
      BY <2>1, <2>2 DEF OpenOf
    <3>3. InOrderOf(s, d)
      BY DEF OrderedInv
    <3> QED
      BY <2>1, <3>1, <3>2, <3>3 DEF InOrderOf
  <2> QED
    BY <2>3, <2>4 DEF OrderedInv
<1> QED
  BY <1>1, <1>2, <1>3, <1>4 DEF Next, ConverterNext

LEMMA OrderedInvariant ==
  ASSUME LinksFollowed, MessagesOrdered
  PROVE  Spec => []OrderedInv
<1>1. Init => OrderedInv
  BY OrderedInvInit
<1>2. FilesInv /\ IrecvsInv /\ KeysKnown /\ KeysKnown' /\ FollowedInv /\ OrderedInv /\ [Next]_vars
        => OrderedInv'
  BY OrderedInvStep
<1> QED
  BY <1>1, <1>2, FollowedInvariant, PTL DEF Spec

\* Of such an application, the two ends of every printed link are about one message,
\* although aky_get_key pairs a receive with a send by their order alone.
THEOREM LinksOfOneMessage ==
  ASSUME LinksFollowed, MessagesOrdered
  PROVE  Spec => []LinksJoinOneMessage
<1>1. OrderedInv => LinksJoinOneMessage
  BY DEF OrderedInv
<1> QED
  BY <1>1, OrderedInvariant, PTL

\* And the assumption of the converters holds: the receives of a rank are recorded in the
\* order in which the other rank sent the messages (src/src/otf2/DevLog.org:166).
THEOREM MessagesAreFifo ==
  ASSUME LinksFollowed, MessagesOrdered
  PROVE  Spec => []ReceivesAreFifo
<1>1. OrderedInv => ReceivesAreFifo
  BY DEF OrderedInv
<1> QED
  BY <1>1, OrderedInvariant, PTL
===============================================================================
